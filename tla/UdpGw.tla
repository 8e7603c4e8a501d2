------------------------------- MODULE UdpGw -------------------------------
(***************************************************************************)
(* The UDP path of tun2socks up to the send buffers: packets read from the *)
(* tun device, the connections of UdpGwClient with their least-recently-   *)
(* used reuse, the SOCKS connection that SocksUdpGwClient keeps, and the   *)
(* answers that come back.  From the buffers on, SendPath models the way.  *)
(*                                                                         *)
(* A connection is its conid, which it keeps for life.  A conaddr is a     *)
(* pair of a local and a remote address; the data of a packet is the       *)
(* conaddr it was read with.  Chains of jobs that follow one another       *)
(* immediately (buffer, encoder, writer) are one job.                      *)
(***************************************************************************)
EXTENDS BPending, BSocksClient, FiniteSets

CONSTANTS
    Addrs,              \* conaddrs: pairs of a local and a remote address
    None,
    MaxConnections,     \* max_connections
    SendBufferSize,     \* packets that the buffer of a connection holds
    MaxAnswers          \* bound: answers on their way at once

ASSUME ConstantsAssumption ==
    /\ None \notin Addrs
    /\ MaxConnections \in Nat \ {0} /\ SendBufferSize \in Nat \ {0} /\ MaxAnswers \in Nat
    /\ AuthMethods \subseteq {"none", "password"}

ConIds == 0..(MaxConnections - 1)

VARIABLES
    alive,      \* between SocksUdpGwClient_Init and SocksUdpGwClient_Free
    conaddr,    \* conaddr of each connection, None if it does not exist
    list,       \* connections_list, the least recently used first
    nextConid,  \* next_conid
    ready,      \* connections whose BufferWriter has room (out_have)
    buf,        \* packets in the buffer of each connection
    frame,      \* what the buffer of the tun device holds
    jobs,       \* pending jobs
    haveSocks, socksUp, timer,  \* have_socks, socks_up, reconnect_timer runs
    haveServer,                 \* UdpGwClient.have_server
    socks,                      \* the BSocksClient
    answers,    \* packets of the server that are on their way
    got         \* the last packet passed to the user, and the answer it was

conVars == <<conaddr, list, nextConid, ready, buf>>
socksVars == <<haveSocks, socksUp, timer, haveServer, socks>>
vars == <<alive, conVars, frame, jobs, socksVars, answers, got>>

J(handler, c) == <<handler, c>>
Connections == {c \in ConIds : conaddr[c] # None}

-----------------------------------------------------------------------------
(* SocksUdpGwClient: one SOCKS connection, or the timer that tries again.  *)

\* try_connect
TryConnect ==
    \/ haveSocks' = TRUE /\ socksUp' = FALSE /\ timer' = FALSE /\ socks' = BSocksClient_Init
    \/ haveSocks' = FALSE /\ timer' = TRUE /\ UNCHANGED <<socksUp, socks>>

\* free_socks; what the server had sent is lost with the connection.
FreeSocks(s) ==
    /\ haveServer' = (haveServer /\ ~socksUp)
    /\ socks' = [s EXCEPT !.held = BSocksClient_Free(s)]
    /\ haveSocks' = FALSE
    /\ answers' = <<>>
    /\ UNCHANGED socksUp

ReconnectTimerHandler ==
    /\ alive /\ jobs = <<>> /\ timer
    /\ TryConnect
    /\ UNCHANGED <<alive, conVars, frame, jobs, haveServer, answers, got>>

\* The timer is not set when the server closes the connection.
MutSocksClientHandler(s, event) ==
    \/ /\ event \in {"none", "UP"} /\ socks' = s
       /\ haveServer' = (haveServer \/ event = "UP") /\ socksUp' = (socksUp \/ event = "UP")
       /\ UNCHANGED <<haveSocks, timer, answers>>
    \/ event \in {"UP", "ERROR"} /\ FreeSocks(s) /\ timer' = TRUE
    \/ event = "ERROR_CLOSED" /\ FreeSocks(s) /\ UNCHANGED timer

\* socks_client_handler; UdpGwClient_ConnectServer fails if there is no memory
\* for the decoder.
SocksClientHandler(s, event) ==
    \/ /\ event \in {"none", "UP"} /\ socks' = s
       /\ haveServer' = (haveServer \/ event = "UP") /\ socksUp' = (socksUp \/ event = "UP")
       /\ UNCHANGED <<haveSocks, timer, answers>>
    \/ event # "none" /\ FreeSocks(s) /\ timer' = TRUE

\* The reactor calls a handler of the SOCKS client.
Socks ==
    /\ alive /\ jobs = <<>> /\ haveSocks
    /\ \E o \in Outcomes(socks) : SocksClientHandler(o[1], o[2])
    /\ UNCHANGED <<alive, conVars, frame, jobs, got>>

\* udpgw_handler_servererror: the decoder found an error.
ServerError ==
    /\ alive /\ jobs = <<>> /\ haveServer
    /\ FreeSocks(socks) /\ timer' = TRUE
    /\ UNCHANGED <<alive, conVars, frame, jobs, got>>

-----------------------------------------------------------------------------
(* UdpGwClient: the connections.                                           *)

IndexIn(c) == CHOOSE i \in 1..Len(list) : list[i] = c

\* Remove from the list and append.
MovedToEnd(c) ==
    [i \in 1..Len(list) |-> IF i = Len(list) THEN c
                            ELSE IF i < IndexIn(c) THEN list[i] ELSE list[i + 1]]

\* find_unused_conid
UnusedAfter(k) == (nextConid + k) % MaxConnections \notin Connections
FindUnusedConid ==
    (nextConid + (CHOOSE k \in ConIds : UnusedAfter(k) /\ \A i \in 0..(k - 1) : ~UnusedAfter(i)))
        % MaxConnections

\* connection_send with the jobs js: a packet that finds no room is dropped.
ConnectionSend(js, c, a, rebind) ==
    IF c \in ready
    THEN /\ ready' = ready \ {c}
         /\ buf' = [buf EXCEPT ![c] = Append(@, [addr |-> a, rebind |-> rebind, data |-> frame])]
         /\ jobs' = BPending_Set(js, J("taken", c))
    ELSE jobs' = js /\ UNCHANGED <<ready, buf>>

\* The first packet is sent after everything else.
MutConnectionInitDeferred(js, a) ==
    LET c == FindUnusedConid IN
    /\ nextConid' = c
    /\ conaddr' = [conaddr EXCEPT ![c] = a]
    /\ list' = Append(list, c)
    /\ jobs' = Append(BPending_Set(js, J("fill", c)), J("first", c))
    /\ UNCHANGED <<ready, buf>>

\* connection_init: the first job is set before the buffer asks for its first
\* packet; when there is no memory only next_conid may have moved.
ConnectionInit(js, a) ==
    LET c == FindUnusedConid IN
    \/ /\ nextConid' = c
       /\ conaddr' = [conaddr EXCEPT ![c] = a]
       /\ list' = Append(list, c)
       /\ jobs' = BPending_Set(BPending_Set(js, J("first", c)), J("fill", c))
       /\ UNCHANGED <<ready, buf>>
    \/ /\ nextConid' \in {nextConid, c} /\ jobs' = js
       /\ UNCHANGED <<conaddr, list, ready, buf>>

\* A lookup that only knows the connection used least recently.
MutFindByConaddr(a) == {c \in Connections : conaddr[c] = a /\ c = Head(list)}

FindByConaddr(a) == {c \in Connections : conaddr[c] = a}

\* The most recently used connection is reused.
MutReuseConnection == list[Len(list)]

ReuseConnection == Head(list)

\* UdpGwClient_SubmitPacket, for the packet in frame.
SubmitPacket(js) ==
    LET a == frame IN
    \/ \E c \in FindByConaddr(a) :
         /\ list' = MovedToEnd(c)
         /\ ConnectionSend(js, c, a, FALSE)
         /\ UNCHANGED <<conaddr, nextConid>>
    \/ /\ FindByConaddr(a) = {} /\ Len(list) = MaxConnections
       /\ LET c == ReuseConnection IN
            /\ conaddr' = [conaddr EXCEPT ![c] = a]
            /\ list' = MovedToEnd(c)
            /\ ConnectionSend(js, c, a, TRUE)
       /\ UNCHANGED nextConid
    \/ /\ FindByConaddr(a) = {} /\ Len(list) < MaxConnections
       /\ ConnectionInit(js, a)

-----------------------------------------------------------------------------
(* The device and the jobs.                                                *)

restVars == <<alive, socksVars, answers, got>>

\* BTap reads a packet into the one buffer of the device; packets that are
\* not UDP (None) go to lwIP.
Readable ==
    /\ alive /\ jobs = <<>>
    /\ frame' \in Addrs \union {None}
    /\ jobs' = BPending_Set(jobs, J("packet", None))
    /\ UNCHANGED <<restVars, conVars>>

\* device_read_handler_send: the packet is accepted, which lets the device
\* read the next one into the same buffer, and then submitted.
DeviceReadHandlerSend ==
    /\ BPendingGroup_ExecuteJob(jobs, J("packet", None))
    /\ LET js == BPending_Set(Tail(jobs), J("device", None)) IN
       IF frame = None THEN jobs' = js /\ UNCHANGED conVars ELSE SubmitPacket(js)
    /\ UNCHANGED <<restVars, frame>>

\* output_handler_done of SinglePacketBuffer: BTap reads at once if it can.
DeviceJob ==
    /\ BPendingGroup_ExecuteJob(jobs, J("device", None))
    /\ \/ frame' \in Addrs \union {None} /\ jobs' = BPending_Set(Tail(jobs), J("packet", None))
       \/ jobs' = Tail(jobs) /\ UNCHANGED frame
    /\ UNCHANGED <<restVars, conVars>>

\* connection_first_job_handler; the data is still in the device's buffer.
FirstJob(c) ==
    /\ BPendingGroup_ExecuteJob(jobs, J("first", c))
    /\ ConnectionSend(Tail(jobs), c, conaddr[c], TRUE)
    /\ UNCHANGED <<restVars, frame, conaddr, list, nextConid>>

\* output_handler_recv of BufferWriter.
FillJob(c) ==
    /\ BPendingGroup_ExecuteJob(jobs, J("fill", c))
    /\ ready' = ready \union {c} /\ jobs' = Tail(jobs)
    /\ UNCHANGED <<restVars, frame, conaddr, list, nextConid, buf>>

\* input_handler_done of PacketBuffer.
TakenJob(c) ==
    /\ BPendingGroup_ExecuteJob(jobs, J("taken", c))
    /\ jobs' = IF Len(buf[c]) < SendBufferSize THEN BPending_Set(Tail(jobs), J("fill", c)) ELSE Tail(jobs)
    /\ UNCHANGED <<restVars, frame, conVars>>

\* output_handler_done of PacketBuffer, when a packet has gone to the server,
\* which may answer it.
PacketSent(c) ==
    /\ alive /\ jobs = <<>> /\ haveServer /\ buf[c] # <<>>
    /\ buf' = [buf EXCEPT ![c] = Tail(@)]
    /\ jobs' = IF Len(buf[c]) = SendBufferSize THEN BPending_Set(jobs, J("fill", c)) ELSE jobs
    /\ \/ UNCHANGED answers
       \/ Len(answers) < MaxAnswers /\ answers' = Append(answers, [conid |-> c, addr |-> Head(buf[c]).addr])
    /\ UNCHANGED <<alive, socksVars, frame, got, conaddr, list, nextConid, ready>>

\* An answer is accepted by its conid alone.
MutRecvInterfaceHandlerSend ==
    /\ alive /\ jobs = <<>> /\ haveServer /\ answers # <<>>
    /\ LET c == Head(answers).conid IN
       list' = MovedToEnd(c) /\ got' = <<conaddr[c], Head(answers).addr>>
    /\ answers' = Tail(answers)
    /\ UNCHANGED <<alive, socksVars, frame, jobs, conaddr, nextConid, ready, buf>>

\* recv_interface_handler_send.  What it drops as malformed changes nothing; the
\* server answers a packet with the conid and the remote address it carried.
RecvInterfaceHandlerSend ==
    /\ alive /\ jobs = <<>> /\ haveServer /\ answers # <<>>
    /\ LET c == Head(answers).conid
           remote == Head(answers).addr[2]
       IN  IF conaddr[c] # None /\ conaddr[c][2] = remote
           THEN list' = MovedToEnd(c) /\ got' = <<conaddr[c], Head(answers).addr>>
           ELSE UNCHANGED <<list, got>>
    /\ answers' = Tail(answers)
    /\ UNCHANGED <<alive, socksVars, frame, jobs, conaddr, nextConid, ready, buf>>

-----------------------------------------------------------------------------
(* The whole.                                                              *)

Init ==
    /\ alive = FALSE
    /\ conaddr = [c \in ConIds |-> None] /\ list = <<>> /\ nextConid = 0
    /\ ready = {} /\ buf = [c \in ConIds |-> <<>>]
    /\ frame = None /\ jobs = <<>>
    /\ haveSocks = FALSE /\ socksUp = FALSE /\ timer = FALSE /\ haveServer = FALSE
    /\ socks = [state |-> "CONNECTING", held |-> Nothing]
    /\ answers = <<>> /\ got = None

\* SocksUdpGwClient_Init, in run() of a session of tun2socks.
SocksUdpGwClient_Init ==
    /\ ~alive /\ alive' = TRUE
    /\ TryConnect
    /\ UNCHANGED <<conVars, frame, jobs, haveServer, answers, got>>

\* UdpGwClient_Free: the connections go; FreeSocks has freed the server.
UdpGwClient_Free ==
    /\ conaddr' = [c \in ConIds |-> None] /\ list' = <<>> /\ nextConid' = 0
    /\ ready' = {} /\ buf' = [c \in ConIds |-> <<>>]

\* SocksUdpGwClient_Free, after the reactor was told to quit at any point; the
\* device and the jobs go with the session.
SocksUdpGwClient_Free ==
    /\ alive /\ alive' = FALSE
    /\ IF haveSocks THEN FreeSocks(socks)
       ELSE UNCHANGED <<haveServer, socks, haveSocks, answers, socksUp>>
    /\ timer' = FALSE
    /\ UdpGwClient_Free
    /\ jobs' = <<>> /\ frame' = None
    /\ got' = None

Next ==
    \/ SocksUdpGwClient_Init \/ SocksUdpGwClient_Free
    \/ ReconnectTimerHandler \/ Socks \/ ServerError
    \/ Readable \/ DeviceReadHandlerSend \/ DeviceJob \/ RecvInterfaceHandlerSend
    \/ \E c \in ConIds : FirstJob(c) \/ FillJob(c) \/ TakenJob(c) \/ PacketSent(c)

Spec == Init /\ [][Next]_vars

-----------------------------------------------------------------------------
Packet == [addr : Addrs, rebind : BOOLEAN, data : Addrs \union {None}]
Job == ({"packet", "device"} \X {None}) \union ({"first", "fill", "taken"} \X ConIds)

\* The types of the variables.
TypeOK ==
    /\ alive \in BOOLEAN
    /\ conaddr \in [ConIds -> Addrs \union {None}] /\ list \in Seq(ConIds) /\ nextConid \in ConIds
    /\ ready \subseteq ConIds /\ buf \in [ConIds -> Seq(Packet)]
    /\ frame \in Addrs \union {None} /\ jobs \in Seq(Job)
    /\ haveSocks \in BOOLEAN /\ socksUp \in BOOLEAN /\ timer \in BOOLEAN /\ haveServer \in BOOLEAN
    /\ socks \in Client
    /\ answers \in Seq([conid : ConIds, addr : Addrs])
    /\ got \in {None} \union (Addrs \X Addrs)

\* The two trees and the list of UdpGwClient agree, whatever is created and
\* reused: no two connections have one conaddr (the BAVL_Insert that the code
\* wraps in ASSERT_EXECUTE cannot fail), and the list has each connection once.
IndexesAgree ==
    /\ \A c, d \in Connections : conaddr[c] = conaddr[d] => c = d
    /\ \A c \in Connections : \E i \in 1..Len(list) : list[i] = c
    /\ \A i, k \in 1..Len(list) : list[i] \in Connections /\ (list[i] = list[k] => i = k)

\* connection_init keeps a pointer into the buffer of the device and reads it
\* in first_job; the device may read its next packet into that buffer as soon
\* as device_read_handler_send has called PacketPassInterface_Done.  Still
\* every packet in a send buffer has the data it was submitted with.
PacketsIntact ==
    \A c \in ConIds : \A i \in 1..Len(buf[c]) : buf[c][i].data = buf[c][i].addr

\* The packet that opens a connection and tells the server to bind its conid
\* anew is never dropped for want of room: when first_job runs, the buffer of
\* the new connection has already asked for a packet.
FirstPacketHasRoom ==
    \A c \in ConIds : (jobs # <<>> /\ Head(jobs) = J("first", c)) => c \in ready

\* While the client lives it either has a SOCKS connection or the reconnect
\* timer runs, never both and never neither: try_connect relies on it with its
\* assertions, and without it UDP would be dead for the rest of the session.
SocksOrTimer == alive => haveSocks = ~timer

\* UdpGwClient has a server exactly while the SOCKS client is up, although
\* free_socks leaves socks_up set and the handlers of both can end it.
ServerWhileUp == haveServer <=> (haveSocks /\ socks.state = "UP")

\* When there is no SOCKS client, all that its clients have taken is given
\* back, once: from whatever state BSocksClient_Free is called, also after a
\* handler that has freed its part itself (fail1 of connector_handler).
SocksReleased == ~haveSocks => socks.held = Nothing

\* An answer goes to the local address that asked, unless the conid was
\* reused while the packet or the answer was on its way: then all conids were
\* in use, and it is still from the remote address of the connection.
AnswerFromItsRemote ==
    got # None /\ got[1] # got[2] => got[1][2] = got[2][2] /\ Len(list) = MaxConnections

\* The address that sent or received last keeps its connection while the
\* client lives, unless there is room for one only: reuse_connection takes the
\* first of a list at whose end both directions put the connection they use.
ActiveKeepsConnection ==
    [][alive' => \A c \in Connections :
          c = list[Len(list)] /\ MaxConnections > 1 => conaddr'[c] = conaddr[c]]_vars

\* The connections implement ConnectionTable: through both trees, the list,
\* the conids and the failures to create a connection, an address loses its
\* connection only to a new one that finds all of them in use, and only if it
\* was used longest ago, by packets and answers alike.
Addresses == [i \in 1..Len(list) |-> conaddr[list[i]]]
Table == INSTANCE ConnectionTable WITH table <- Addresses
ImplementsTable == Table!Spec
=============================================================================
