------------------------------ MODULE SendPath ------------------------------
(***************************************************************************)
(* The way of a udpgw packet from the buffer of its connection to the      *)
(* socket of the SOCKS connection:                                         *)
(*                                                                         *)
(*   PacketBuffer (one per connection) -> PacketPassFairQueue              *)
(*     -> PacketPassConnector -> PacketStreamSender -> BConnection         *)
(*                                                                         *)
(* Each arrow is a PacketPassInterface or StreamPassInterface: Send() and  *)
(* Done() set a pending job that calls the other side.  The server         *)
(* connection comes and goes while packets are on their way                *)
(* (UdpGwClient_ConnectServer, UdpGwClient_DisconnectServer).              *)
(*                                                                         *)
(* A packet is its length, or what of it is left.  The inactivity           *)
(* monitor between the queue and the connector passes packets on and       *)
(* Psiphon disables its handler, so its hop is left out.                   *)
(***************************************************************************)
EXTENDS BPending, Integers

CONSTANTS
    Flows,          \* the flows of the queue, one per udpgw connection
    None,           \* no flow
    MaxTime,        \* FAIRQUEUE_MAX_TIME: the largest value of a flow's time
    PacketWeight,   \* packet_weight of PacketPassFairQueue_Init
    Lens,           \* lengths of packets
    BufferSize,     \* packets that a PacketBuffer holds
    LossBound       \* bound: server connections that are lost

ASSUME ConstantsAssumption ==
    /\ None \notin Flows
    /\ MaxTime \in Nat
    /\ PacketWeight \in Nat \ {0}
    /\ Lens \subseteq Nat \ {0}
    \* PacketPassFairQueue_Init refuses anything else
    /\ \A len \in Lens : PacketWeight + len <= MaxTime
    /\ BufferSize \in Nat /\ LossBound \in Nat

VARIABLES
    jobs,       \* pending jobs of the reactor
    buf,        \* PacketBuffer of each flow: lengths of its packets, the first
                \* one possibly on its way
    time,       \* PacketPassFairQueueFlow.time
    queued,     \* flows in queued_tree
    sending,    \* sending_flow
    previous,   \* previous_flow
    inLen,      \* PacketPassConnector has an input packet (in_len >= 0)
    have,       \* a server is connected (UdpGwClient.have_server)
    used,       \* PacketStreamSender.in_used
    blocked,    \* the connection waits until the socket takes more bytes
    losses,     \* server connections lost so far
    stream,     \* the packet of which the server has a part, and how much
    ahead       \* per flow, packets that a server has completely and that are
                \* not yet consumed from the buffer

queueVars == <<time, queued, sending, previous>>
outVars == <<inLen, have, used, blocked, losses, stream, ahead>>
vars == <<jobs, buf, queueVars, outVars>>

\* A job: its handler, and the flow or the number of bytes it is about.
J(handler) == <<handler, None>>

Whole == [flow |-> None, got |-> 0]

Init ==
    /\ jobs = <<>>
    /\ buf = [f \in Flows |-> <<>>]
    /\ time = [f \in Flows |-> 0] /\ queued = {}
    /\ sending = None /\ previous = None
    /\ inLen = FALSE /\ have = FALSE /\ used = 0 /\ blocked = FALSE
    /\ losses = 0 /\ stream = Whole /\ ahead = [f \in Flows |-> 0]

-----------------------------------------------------------------------------
(* PacketPassFairQueue.  A uint64_t wraps; FAIRQUEUE_MAX_TIME is its       *)
(* largest value.                                                          *)

Sub64(a, b) == IF b <= a THEN a - b ELSE (a + MaxTime + 1) - b
Add64(a, b) == IF a + b <= MaxTime THEN a + b ELSE (a + b) - (MaxTime + 1)

\* The flows that compare_flows may put first in queued_tree; the order of
\* flows with one time is the order of their addresses, which can be any.
Earliest(t, q) == {f \in q : \A g \in q : t[f] <= t[g]}

FirstTime(t, q) == t[CHOOSE f \in Earliest(t, q) : TRUE]

\* A flow that starts to wait keeps its old time.
MutGetCurrentTime == 0

GetCurrentTime ==
    IF sending # None THEN time[sending]
    ELSE IF queued # {} /\ previous # None
         THEN IF time[previous] < FirstTime(time, queued) THEN time[previous]
                                                          ELSE FirstTime(time, queued)
    ELSE IF queued # {} THEN FirstTime(time, queued)
    ELSE IF previous # None THEN time[previous]
    ELSE 0

\* Times restart for the flow that overflows only.
MutIncrementSentFlow(flow, amount) ==
    [time EXCEPT ![flow] = IF amount > MaxTime - @ THEN amount ELSE @ + amount]

\* increment_sent_flow: all times are lowered first when the sum would wrap.
IncrementSentFlow(flow, amount) ==
    LET subtract == IF queued = {} THEN time[flow] ELSE FirstTime(time, queued)
        lowered == [f \in Flows |-> IF subtract > time[f] /\ f # flow
                                    THEN 0 ELSE Sub64(time[f], subtract)]
        base == IF amount > MaxTime - time[flow] THEN lowered ELSE time
    IN  [base EXCEPT ![flow] = Add64(@, amount)]

\* schedule(): the first flow of the queue sends; js are the jobs before.
Schedule(js, t, q) ==
    \E f \in Earliest(t, q) :
        /\ queued' = q \ {f}
        /\ sending' = f
        /\ jobs' = BPending_Set(js, J("connOp"))

ScheduleJobSet(js) == \E i \in 1..Len(js) : js[i] = J("schedule")

\* schedule_job_handler
ScheduleJob ==
    /\ BPendingGroup_ExecuteJob(jobs, J("schedule"))
    /\ previous' = None
    /\ \/ queued # {} /\ Schedule(Tail(jobs), time, queued)
       \/ queued = {} /\ jobs' = Tail(jobs) /\ UNCHANGED <<queued, sending>>
    /\ UNCHANGED <<time, buf, outVars>>

\* A flow loses the lead it has when it queues its next packet.
MutQueueInputSend(f) ==
    /\ BPendingGroup_ExecuteJob(jobs, <<"op", f>>)
    /\ previous' = IF f = previous THEN None ELSE previous
    /\ time' = [time EXCEPT ![f] = GetCurrentTime]
    /\ IF sending = None /\ ~ScheduleJobSet(jobs)
       THEN Schedule(Tail(jobs), time', queued \union {f})
       ELSE jobs' = Tail(jobs) /\ queued' = queued \union {f} /\ UNCHANGED sending
    /\ UNCHANGED <<buf, outVars>>

\* input_handler_send of a flow of the queue.
QueueInputSend(f) ==
    /\ BPendingGroup_ExecuteJob(jobs, <<"op", f>>)
    /\ IF f = previous
       THEN previous' = None /\ UNCHANGED time
       ELSE /\ time' = [time EXCEPT ![f] = IF @ < GetCurrentTime THEN GetCurrentTime ELSE @]
            /\ UNCHANGED previous
    /\ IF sending = None /\ ~ScheduleJobSet(jobs)
       THEN Schedule(Tail(jobs), time', queued \union {f})
       ELSE jobs' = Tail(jobs) /\ queued' = queued \union {f} /\ UNCHANGED sending
    /\ UNCHANGED <<buf, outVars>>

\* output_handler_done of the queue: the schedule job is set before the done
\* job of the flow, so the flow may queue its next packet before the next
\* flow is chosen.
QueueOutputDone ==
    /\ BPendingGroup_ExecuteJob(jobs, J("connDone"))
    /\ sending' = None /\ previous' = sending
    /\ time' = IncrementSentFlow(sending, PacketWeight + Head(buf[sending]))
    /\ jobs' = BPending_Set(BPending_Set(Tail(jobs), J("schedule")), <<"done", sending>>)
    /\ UNCHANGED <<queued, buf, outVars>>

-----------------------------------------------------------------------------
(* PacketBuffer: a packet stays in the buffer until it is done.            *)

\* input_handler_done of the buffer, with the packet that connection_send
\* wrote; BufferWriter_StartPacket fails when there is no space.
Write(f, len) ==
    /\ jobs = <<>>
    /\ Len(buf[f]) < BufferSize
    /\ buf' = [buf EXCEPT ![f] = Append(@, len)]
    /\ jobs' = IF buf[f] = <<>> THEN BPending_Set(jobs, <<"op", f>>) ELSE jobs
    /\ UNCHANGED <<queueVars, outVars>>

\* output_handler_done of the buffer.
BufferOutputDone(f) ==
    /\ BPendingGroup_ExecuteJob(jobs, <<"done", f>>)
    /\ buf' = [buf EXCEPT ![f] = Tail(@)]
    /\ ahead' = [ahead EXCEPT ![f] = @ - 1]
    /\ jobs' = IF Len(buf[f]) > 1 THEN BPending_Set(Tail(jobs), <<"op", f>>) ELSE Tail(jobs)
    /\ UNCHANGED <<queueVars, inLen, have, used, blocked, losses, stream>>

-----------------------------------------------------------------------------
(* PacketPassConnector and PacketStreamSender.                             *)

PacketLen == Head(buf[sending])

ConnectorInputSend ==
    /\ BPendingGroup_ExecuteJob(jobs, J("connOp"))
    /\ inLen' = TRUE
    /\ jobs' = IF have THEN BPending_Set(Tail(jobs), J("sendOp")) ELSE Tail(jobs)
    /\ UNCHANGED <<buf, queueVars, have, used, blocked, losses, stream, ahead>>

ConnectorOutputDone ==
    /\ BPendingGroup_ExecuteJob(jobs, J("sendDone"))
    /\ inLen' = FALSE
    /\ jobs' = BPending_Set(Tail(jobs), J("connDone"))
    /\ UNCHANGED <<buf, queueVars, have, used, blocked, losses, stream, ahead>>

\* The sender goes on where it was with another packet.
MutSenderInputSend ==
    /\ BPendingGroup_ExecuteJob(jobs, J("sendOp"))
    /\ jobs' = BPending_Set(Tail(jobs), J("streamOp"))
    /\ used' = used % PacketLen
    /\ UNCHANGED <<buf, queueVars, inLen, have, blocked, losses, stream, ahead>>

SenderInputSend ==
    /\ BPendingGroup_ExecuteJob(jobs, J("sendOp"))
    /\ used' = 0
    /\ jobs' = BPending_Set(Tail(jobs), J("streamOp"))
    /\ UNCHANGED <<buf, queueVars, inLen, have, blocked, losses, stream, ahead>>

SenderOutputDone(n) ==
    /\ BPendingGroup_ExecuteJob(jobs, <<"streamDone", n>>)
    /\ used' = used + n
    /\ jobs' = BPending_Set(Tail(jobs), IF used' < PacketLen THEN J("streamOp") ELSE J("sendDone"))
    /\ UNCHANGED <<buf, queueVars, inLen, have, blocked, losses, stream, ahead>>

-----------------------------------------------------------------------------
(* BConnection, and the server at its other end, which counts bytes of a   *)
(* packet from the length it finds where it expects a header.              *)

\* connection_send writes n of the bytes that the sender has left.
SocketTakes(js, n) ==
    LET got == stream.got + n IN
    /\ n <= PacketLen - used
    /\ jobs' = BPending_Set(js, <<"streamDone", n>>)
    /\ IF got = PacketLen
       THEN /\ stream' = Whole
            /\ ahead' = [ahead EXCEPT ![sending] = @ + 1]
       ELSE /\ stream' = [flow |-> sending, got |-> got]
            /\ UNCHANGED ahead
    /\ blocked' = FALSE
    /\ UNCHANGED <<have, losses>>

\* UdpGwClient_DisconnectServer; the jobs of the freed interfaces go too.
DisconnectServer(js) ==
    /\ losses < LossBound
    /\ have' = FALSE /\ blocked' = FALSE
    /\ losses' = losses + 1
    /\ jobs' = js
    /\ UNCHANGED <<stream, ahead>>

\* connection_send in the job of the interface: the socket takes some bytes,
\* none, or fails.
StreamSend ==
    /\ BPendingGroup_ExecuteJob(jobs, J("streamOp"))
    /\ \/ \E n \in 1..(PacketLen - used) : SocketTakes(Tail(jobs), n)
       \/ /\ jobs' = Tail(jobs) /\ blocked' = TRUE
          /\ UNCHANGED <<have, losses, stream, ahead>>
       \/ DisconnectServer(Tail(jobs))
    /\ UNCHANGED <<buf, queueVars, inLen, used>>

\* connection_fd_handler: the socket is writable.
Writable ==
    /\ jobs = <<>> /\ blocked
    /\ \E n \in 1..(PacketLen - used) : SocketTakes(jobs, n)
    /\ UNCHANGED <<buf, queueVars, inLen, used>>

\* The SOCKS connection ends, or the decoder reports an error.
ServerLost ==
    /\ jobs = <<>> /\ have
    /\ DisconnectServer(jobs)
    /\ UNCHANGED <<buf, queueVars, inLen, used>>

\* A connector that drops the packet of the old connection.
MutConnectServer ==
    /\ jobs = <<>> /\ ~have
    /\ have' = TRUE /\ stream' = Whole
    /\ inLen' = FALSE
    /\ jobs' = IF inLen THEN BPending_Set(jobs, J("connDone")) ELSE jobs
    /\ UNCHANGED <<buf, queueVars, used, blocked, losses, ahead>>

\* UdpGwClient_ConnectServer: a new sender; the connector sends the packet
\* it still has from its beginning.
ConnectServer ==
    /\ jobs = <<>> /\ ~have
    /\ have' = TRUE /\ stream' = Whole
    /\ jobs' = IF inLen THEN BPending_Set(jobs, J("sendOp")) ELSE jobs
    /\ UNCHANGED <<buf, queueVars, inLen, used, blocked, losses, ahead>>

Jobs ==
    \/ ScheduleJob \/ QueueOutputDone \/ ConnectorInputSend \/ ConnectorOutputDone
    \/ SenderInputSend \/ StreamSend
    \/ \E f \in Flows : QueueInputSend(f) \/ BufferOutputDone(f)
    \/ \E len \in Lens : \E n \in 1..len : SenderOutputDone(n)

Next ==
    \/ Jobs
    \/ Writable \/ ServerLost \/ ConnectServer
    \/ \E f \in Flows, len \in Lens : Write(f, len)

Spec == Init /\ [][Next]_vars

\* The reactor executes its jobs, a socket takes more bytes in the end, and a
\* lost server is found again (the reconnect timer tries until it is).
FairSpec == Spec /\ WF_vars(Jobs) /\ WF_vars(Writable) /\ WF_vars(ConnectServer)

-----------------------------------------------------------------------------
OutJobs == {"connOp", "connDone", "sendOp", "sendDone", "streamOp"}
Job == (({"schedule"} \union OutJobs) \X {None})
       \union ({"op", "done"} \X Flows) \union ({"streamDone"} \X (Nat \ {0}))

\* The types of the variables.
TypeOK ==
    /\ jobs \in Seq(Job)
    /\ buf \in [Flows -> Seq(Lens)]
    /\ time \in [Flows -> 0..MaxTime] /\ queued \subseteq Flows
    /\ sending \in Flows \union {None} /\ previous \in Flows \union {None}
    /\ inLen \in BOOLEAN /\ have \in BOOLEAN /\ blocked \in BOOLEAN
    /\ used \in Nat /\ losses \in Nat
    /\ stream \in [flow : Flows \union {None}, got : Nat]
    /\ ahead \in [Flows -> Int]

\* The packet that is being sent is the one whose turn it is: no flow that
\* waits in queued_tree has an earlier time than sending_flow.  A flow that
\* starts to wait is raised to the current time (input_handler_send), so it
\* cannot slip in front of the packet on its way, and increment_sent_flow may
\* lower all times by the first time of the queue.
SendingIsEarliest ==
    sending # None => \A f \in queued : time[sending] <= time[f]

\* When the sent packet is added to its flow's time (increment_sent_flow), the
\* lead that the flow then has over every waiting flow grows by exactly the
\* weight of the packet, also where the 64-bit times would overflow and all
\* of them are lowered first.
LeadGrowsByPacket ==
    [][(sending # None /\ sending' = None) =>
          \A f \in queued :
              time'[sending] + time[f] = time[sending] + PacketWeight + PacketLen + time'[f]]_vars

\* Each server connection carries whole packets: between two events the part
\* of a packet that the server has is the part that PacketStreamSender has
\* sent of the packet in PacketPassConnector, and a new connection starts with
\* the beginning of a packet whatever the old one had sent of it.
StreamCarriesWholePackets ==
    (jobs = <<>> /\ have) =>
        stream = IF blocked /\ used > 0
                 THEN [flow |-> sending, got |-> used]
                 ELSE Whole

\* A packet leaves its PacketBuffer exactly when the socket has taken all of
\* it: between two events no flow is behind (a packet consumed that no server
\* has) or ahead (a packet that will be sent again although a server has it),
\* whenever connections are lost.
TakenOnce ==
    jobs = <<>> => \A f \in Flows : ahead[f] = 0

\* The send path implements PacketQueues: every server receives whole packets,
\* those of a flow in the order in which they were written; a packet is
\* neither lost nor sent twice, and one that a lost connection had cut is sent
\* again from its beginning, through all hand-overs between the layers.
\* A packet that a buffer has consumed and no server has would wait for ever,
\* its length forgotten: a loss is not taken for a reception.
Waiting == [f \in Flows |-> IF ahead[f] = 0 THEN buf[f]
                            ELSE IF ahead[f] = 1 THEN Tail(buf[f]) ELSE <<0>> \o buf[f]]
Queues == INSTANCE PacketQueues WITH waiting <- Waiting, partial <- stream
ImplementsQueues == Queues!Spec

\* No flow starves: a flow that waits in the queue gets its turn, however
\* much the other flows send and however the times overflow.
EveryFlowIsServed ==
    \A f \in Flows : (f \in queued) ~> (sending = f)
=============================================================================
