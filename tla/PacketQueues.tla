---------------------------- MODULE PacketQueues ----------------------------
(***************************************************************************)
(* What the way of udpgw packets to the server promises, without jobs,     *)
(* turns or layers: every connection has a bounded queue of packets, and   *)
(* each server connection receives whole packets one after another, each   *)
(* from the front of some queue.  A packet leaves its queue when a server  *)
(* has all of it, so a connection that is lost in the middle of a packet   *)
(* has the packet sent again from its beginning, and none is sent twice.   *)
(***************************************************************************)
EXTENDS Integers, Sequences

CONSTANTS Flows, None, Lens, BufferSize

VARIABLES
    waiting,    \* per flow, the packets that no server has received
    partial     \* the packet of which the server has a part, and how much

vars == <<waiting, partial>>

Nothing == [flow |-> None, got |-> 0]

Init ==
    /\ waiting = [f \in Flows |-> <<>>]
    /\ partial = Nothing

Accept(f, len) ==
    /\ Len(waiting[f]) < BufferSize
    /\ waiting' = [waiting EXCEPT ![f] = Append(@, len)]
    /\ UNCHANGED partial

\* The server receives more bytes of the first packet of f, but not the last.
ReceivePart(f) ==
    /\ waiting[f] # <<>> /\ partial.flow \in {None, f}
    /\ \E got \in (partial.got + 1)..(Head(waiting[f]) - 1) :
          partial' = [flow |-> f, got |-> got]
    /\ UNCHANGED waiting

\* The server receives the rest of the first packet of f.
ReceiveRest(f) ==
    /\ waiting[f] # <<>> /\ partial.flow \in {None, f}
    /\ waiting' = [waiting EXCEPT ![f] = Tail(@)]
    /\ partial' = Nothing

\* Another server connection, which has nothing yet.
NewConnection ==
    /\ partial' = Nothing
    /\ UNCHANGED waiting

Next ==
    \/ \E f \in Flows, len \in Lens : Accept(f, len)
    \/ \E f \in Flows : ReceivePart(f) \/ ReceiveRest(f)
    \/ NewConnection

Spec == Init /\ [][Next]_vars
=============================================================================
