------------------------------ MODULE Decoder ------------------------------
(***************************************************************************)
(* PacketProtoDecoder: it cuts the stream of the udpgw server into packets *)
(* in one buffer that it reads into, hands packets out of and moves down   *)
(* when it has reached the end.                                            *)
(*                                                                         *)
(* A byte is known by where it belongs: packet pkt (counted modulo         *)
(* LastPkt + 1), a packet with len bytes of data, and byte off of it,      *)
(* header included.  wire is what the socket has to read.                  *)
(***************************************************************************)
EXTENDS Integers, Sequences

CONSTANTS
    Mtu,        \* output_mtu
    MaxLen,     \* the largest length a header can hold
    Wire,       \* bound: bytes in the socket
    LastPkt     \* packets are numbered 0..LastPkt, round and round

ASSUME ConstantsAssumption ==
    Mtu \in Nat /\ MaxLen \in Nat /\ Wire \in Nat /\ LastPkt \in Nat

VARIABLES op,           \* "recv", "send", or "off" without a server
          buf, start, used,
          out,          \* the packet submitted: <<position in buf, length>>
          wire,
          sent, next    \* the packets that the server sends and the user gets next
vars == <<op, buf, start, used, out, wire, sent, next>>

Header == 2
Size == Header + Mtu    \* buf_size
Cells == 0..Size - 1
Pkts == 0..LastPkt
Byte == [pkt : Pkts, len : 0..MaxLen, off : 0..Header + MaxLen - 1]
After(p) == IF p = LastPkt THEN 0 ELSE p + 1
B(p, len, off) == [pkt |-> p, len |-> len, off |-> off]

\* PacketProtoDecoder_Init, which starts to receive into the whole buffer.
Init ==
    /\ op = "recv" /\ start = 0 /\ used = 0 /\ out = <<0, 0>>
    /\ buf = [i \in Cells |-> B(0, 0, 0)]
    /\ wire = <<>> /\ sent = 0 /\ next = 0

-----------------------------------------------------------------------------
\* The length in the header: that of the packet, or anything if these are not
\* the two bytes of a header.
HeaderLen(a, b) ==
    IF a.off = 0 /\ b = B(a.pkt, a.len, 1) THEN {a.len} ELSE 0..MaxLen

\* memmove of the n bytes at s to the start.
Moved(b, s, n) == [i \in Cells |-> IF i < n THEN b[s + i] ELSE b[i]]

\* The buffer is used again from its start only once it is empty.
MutReceive(b, s, n) ==
    /\ op' = "recv" /\ used' = n /\ UNCHANGED out
    /\ IF s + n = Size /\ n = 0 THEN buf' = b /\ start' = 0 ELSE buf' = b /\ start' = s

\* process_data, from "if we reached the end of the buffer".
Receive(b, s, n) ==
    /\ op' = "recv" /\ used' = n /\ UNCHANGED out
    /\ IF s + n = Size THEN buf' = Moved(b, s, n) /\ start' = 0 ELSE buf' = b /\ start' = s

\* The packet is handed out with its header.
MutSubmitHeader(b, s, n, len) ==
    /\ op' = "send" /\ out' = <<s, len>>
    /\ start' = s + Header + len /\ used' = n - Header - len /\ buf' = b

\* process_data, from "update buffer".
Submit(b, s, n, len) ==
    /\ op' = "send" /\ out' = <<s + Header, len>>
    /\ start' = s + Header + len /\ used' = n - Header - len /\ buf' = b

\* process_data, after an error: the buffer is reset, and the handler of the
\* error frees the decoder.
Fail(b) == op' = "off" /\ start' = 0 /\ used' = 0 /\ buf' = b /\ UNCHANGED out

\* A packet of exactly output_mtu bytes is refused.
MutTooLarge(len) == len >= Mtu

TooLarge(len) == len > Mtu

\* One byte more than the packet is waited for.
MutComplete(n, len) == n - Header > len

Complete(n, len) == n - Header >= len

\* process_data of a buffer b with n bytes at s.
ProcessData(b, s, n) ==
    IF n < Header THEN Receive(b, s, n)
    ELSE \E len \in HeaderLen(b[s], b[s + 1]) :
           IF TooLarge(len) THEN Fail(b)
           ELSE IF Complete(n, len) THEN Submit(b, s, n, len) ELSE Receive(b, s, n)

\* The n bytes that the socket has first, in the buffer.
Filled(n) ==
    LET end == start + used
    IN  [i \in Cells |-> IF i >= end /\ i < end + n THEN wire[i - end + 1] ELSE buf[i]]

\* Only a full buffer is processed.
MutInputHandlerDone(n) ==
    /\ op = "recv" /\ n <= Len(wire) /\ n = Size - (start + used)
    /\ wire' = SubSeq(wire, n + 1, Len(wire))
    /\ ProcessData(Filled(n), start, used + n)
    /\ UNCHANGED <<sent, next>>

\* input_handler_done: the socket has given n bytes.
InputHandlerDone(n) ==
    /\ op = "recv" /\ n <= Len(wire) /\ n <= Size - (start + used)
    /\ wire' = SubSeq(wire, n + 1, Len(wire))
    /\ ProcessData(Filled(n), start, used + n)
    /\ UNCHANGED <<sent, next>>

\* output_handler_done: the user is done with the packet.
OutputHandlerDone ==
    /\ op = "send"
    /\ next' = After(next)
    /\ ProcessData(buf, start, used)
    /\ UNCHANGED <<wire, sent>>

-----------------------------------------------------------------------------
(* The server, and the user of the decoder.                                *)

\* The server sends a packet, whatever its length.
ServerSends(len) ==
    /\ op # "off" /\ Len(wire) + Header + len <= Wire
    /\ wire' = wire \o [i \in 1..Header + len |-> B(sent, len, i - 1)]
    /\ sent' = After(sent)
    /\ UNCHANGED <<op, buf, start, used, out, next>>

\* free_server, at any time.
ServerLost ==
    /\ op # "off"
    /\ op' = "off" /\ start' = 0 /\ used' = 0
    /\ UNCHANGED <<buf, out, wire, sent, next>>

\* UdpGwClient_ConnectServer: a new decoder.
ConnectServer ==
    /\ op = "off"
    /\ op' = "recv" /\ start' = 0 /\ used' = 0 /\ out' = <<0, 0>>
    /\ buf' = [i \in Cells |-> B(0, 0, 0)]
    /\ wire' = <<>> /\ sent' = 0 /\ next' = 0

Receives == \E n \in 1..Size : InputHandlerDone(n)

Next ==
    \/ Receives \/ OutputHandlerDone \/ ServerLost \/ ConnectServer
    \/ \E len \in 0..MaxLen : ServerSends(len)

\* The reactor calls the handlers of a socket with data, and runs its jobs.
Spec == Init /\ [][Next]_vars /\ WF_vars(Receives) /\ WF_vars(OutputHandlerDone)
-----------------------------------------------------------------------------
\* The types of the variables.
TypeOK ==
    /\ op \in {"recv", "send", "off"} /\ buf \in [Cells -> Byte]
    /\ start \in 0..Size /\ used \in 0..Size /\ start + used <= Size
    /\ out \in (0..Size) \X (0..Mtu)
    /\ wire \in Seq(Byte) /\ sent \in Pkts /\ next \in Pkts

\* A receive always has room: it is never asked for zero bytes, which would
\* trip the assertions of the stream interface and stop the server for good.
RoomToReceive == op = "recv" => start + used < Size

\* The packet in the hands of the user is the next one of the server, whole
\* and unchanged in the buffer, however the stream was cut into reads.
PacketIsNext ==
    op = "send" => \A i \in 0..out[2] - 1 : buf[out[1] + i] = B(next, out[2], Header + i)

\* The decoder waits for the server only with less than a packet in the
\* buffer: no packet that has arrived is held back until the next one comes.
WaitsForMore ==
    op = "recv" /\ used >= Header =>
      buf[start].off = 0 /\ buf[start].len <= Mtu /\ used < Header + buf[start].len

\* Nothing is left on the way: when the decoder waits and the socket has no
\* more bytes, the buffer is empty and the user has had every packet that the
\* server has sent.
AllHandedOut == op = "recv" /\ wire = <<>> => used = 0 /\ next = sent

\* A stream is given up as "packet too large" only if the server has sent such
\* a packet, and only after all before it.
ErrorIsTooLarge ==
    [][op # "off" /\ op' = "off" /\ ~ServerLost =>
         \E i \in Cells : buf'[i].pkt = next' /\ buf'[i].off = 0 /\ buf'[i].len > Mtu]_vars

\* A packet of the server reaches the user, or the server is lost.
PacketsComeOut == \A p \in Pkts : (op # "off" /\ next = p /\ sent # p) ~> (op = "off" \/ next # p)
=============================================================================
