-------------------------- MODULE ConnectionTable --------------------------
(***************************************************************************)
(* What the connections of UdpGwClient promise, without conids, trees,     *)
(* jobs and buffers: a bounded table of the addresses that have a          *)
(* connection, each of them once, the one that was used longest ago first. *)
(* An address that is used goes to the end.  A new one takes a free place, *)
(* or the place of the first when there is none.                           *)
(***************************************************************************)
EXTENDS Integers, Sequences

CONSTANTS Addrs, MaxConnections

VARIABLE table

Init == table = <<>>

Known(a) == \E i \in 1..Len(table) : table[i] = a

\* A packet for the address at i, or an answer from it.
Used(i) ==
    table' = [k \in 1..Len(table) |-> IF k = Len(table) THEN table[i]
                                      ELSE IF k < i THEN table[k] ELSE table[k + 1]]

Added(a) ==
    /\ ~Known(a) /\ Len(table) < MaxConnections
    /\ table' = Append(table, a)

Replaced(a) ==
    /\ ~Known(a) /\ Len(table) = MaxConnections
    /\ table' = Append(Tail(table), a)

\* The session ends.
Cleared == table' = <<>>

Next ==
    \/ \E i \in 1..Len(table) : Used(i)
    \/ \E a \in Addrs : Added(a) \/ Replaced(a)
    \/ Cleared

Spec == Init /\ [][Next]_table
=============================================================================
