-------------------------- MODULE TcpRelayProofs --------------------------
(***************************************************************************)
(* What holds of a relayed connection for any size of the window and of    *)
(* the buffers.                                                            *)
(***************************************************************************)
EXTENDS TcpRelay, BSocksClientProofs

USE ConstantsAssumption

Fields ==
  [exists : BOOLEAN, clientClosed : BOOLEAN, bufUsed : 0..TcpWnd,
   socksUp : BOOLEAN, socksClosed : BOOLEAN,
   recvBufUsed : {-1} \union (1..RecvBufSize), recvBufSent : 0..RecvBufSize, waiting : BOOLEAN,
   pending : 0..SndBuf, socks : Client, sending : 0..TcpWnd, receiving : BOOLEAN,
   pcb : {"none", "open", "gone", "released", "twice"}, recvOn : BOOLEAN,
   rcvWnd : 0..TcpWnd, unacked : 0..SndBuf, sync : BOOLEAN, killed : BOOLEAN]

\* The SOCKS half: open and sound, or given back.
SocksHalf(d) ==
  /\ d.socksClosed => d.socks.held = Nothing /\ d.sending = 0 /\ ~d.receiving
  /\ ~d.socksClosed => Sound(d.socks) /\ (d.socksUp <=> d.socks.state = "UP")
  /\ ~d.socksUp => d.sending = 0 /\ ~d.receiving /\ d.unacked = 0 /\ d.recvBufUsed = -1
  /\ d.sending <= d.bufUsed
  /\ d.socksUp /\ ~d.socksClosed /\ d.bufUsed > 0 => d.sending > 0

\* The half of lwIP, while the client is not closed.
ClientHalf(d) ==
  /\ d.pcb = "open"
  /\ d.recvOn <=> ~d.socksClosed
  /\ d.recvOn => d.rcvWnd = TcpWnd - d.bufUsed
  /\ d.pending = d.unacked
  /\ d.recvBufUsed # -1 => d.waiting /\ d.unacked > 0 /\ d.recvBufSent < d.recvBufUsed
  /\ d.socksUp /\ ~d.socksClosed => (d.receiving <=> d.recvBufUsed = -1)
  /\ d.socksClosed => d.socksUp /\ d.unacked > 0

Whole(d) ==
  /\ d \in Fields
  /\ ~d.exists => d.socksClosed /\ d.socks.held = Nothing /\ d.clientClosed
                  /\ d.pcb \in {"none", "released", "gone"}
  /\ d.exists => SocksHalf(d)
  /\ d.exists /\ ~d.clientClosed => ClientHalf(d)
  /\ d.exists /\ d.clientClosed => ~d.socksClosed /\ d.bufUsed > 0 /\ d.pcb \in {"released", "gone"}
  /\ d.clientClosed => ~d.recvOn
  /\ d.sync /\ ~d.killed => d.exists /\ ~d.clientClosed /\ d.pcb = "open"

IInv == Whole(c)

-----------------------------------------------------------------------------
(* The functions of the code.                                              *)

\* What client_free_socks frees, and what it leaves alone.
LEMMA SocksFreedIs ==
  ASSUME NEW d \in Fields, Sound(d.socks)
  PROVE  LET e == SocksFreed(d)
         IN  /\ e \in Fields /\ e.socks.held = Nothing /\ e.socksClosed = TRUE
             /\ e.sending = 0 /\ e.receiving = FALSE
             /\ e.recvOn = (d.recvOn /\ ~(d.socksUp /\ ~d.clientClosed))
             /\ e.exists = d.exists /\ e.clientClosed = d.clientClosed /\ e.bufUsed = d.bufUsed
             /\ e.socksUp = d.socksUp /\ e.recvBufUsed = d.recvBufUsed /\ e.recvBufSent = d.recvBufSent
             /\ e.waiting = d.waiting /\ e.pending = d.pending /\ e.pcb = d.pcb /\ e.rcvWnd = d.rcvWnd
             /\ e.unacked = d.unacked /\ e.sync = d.sync /\ e.killed = d.killed
<1>1. d.socks \in Client /\ BSocksClient_Free(d.socks) = Nothing
  BY FreeReleases, SoundIsClient
<1> DEFINE on == d.recvOn /\ ~(d.socksUp /\ ~d.clientClosed)
           s == [d.socks EXCEPT !.held = Nothing]
<1>2. SocksFreed(d) = [d EXCEPT !.recvOn = on, !.socks = s, !.socksClosed = TRUE, !.sending = 0, !.receiving = FALSE]
  BY <1>1 DEF SocksFreed, Fields
<1>3. s \in Client /\ s.held = Nothing
  BY <1>1, NothingIsHeld DEF Client
<1>4. on \in BOOLEAN
  OBVIOUS
<1> HIDE DEF on, s
<1>5. LET e == SocksFreed(d)
      IN  /\ e \in Fields /\ e.socks = s /\ e.socksClosed = TRUE
          /\ e.sending = 0 /\ e.receiving = FALSE /\ e.recvOn = on
          /\ e.exists = d.exists /\ e.clientClosed = d.clientClosed /\ e.bufUsed = d.bufUsed
          /\ e.socksUp = d.socksUp /\ e.recvBufUsed = d.recvBufUsed /\ e.recvBufSent = d.recvBufSent
          /\ e.waiting = d.waiting /\ e.pending = d.pending /\ e.pcb = d.pcb /\ e.rcvWnd = d.rcvWnd
          /\ e.unacked = d.unacked /\ e.sync = d.sync /\ e.killed = d.killed
  <2> DEFINE f == [d EXCEPT !.recvOn = on, !.socks = s, !.socksClosed = TRUE]
             g == [f EXCEPT !.sending = 0, !.receiving = FALSE]
  <2>1. SocksFreed(d) = g
    BY <1>2
  <2>2. /\ f \in Fields /\ f.socks = s /\ f.socksClosed = TRUE /\ f.recvOn = on
        /\ f.exists = d.exists /\ f.clientClosed = d.clientClosed /\ f.bufUsed = d.bufUsed
        /\ f.socksUp = d.socksUp /\ f.recvBufUsed = d.recvBufUsed /\ f.recvBufSent = d.recvBufSent
        /\ f.waiting = d.waiting /\ f.pending = d.pending /\ f.pcb = d.pcb /\ f.rcvWnd = d.rcvWnd
        /\ f.unacked = d.unacked /\ f.sync = d.sync /\ f.killed = d.killed
    BY <1>3, <1>4, Zenon DEF Fields
  <2> HIDE DEF f
  <2>3. /\ g \in Fields /\ g.socks = f.socks /\ g.socksClosed = f.socksClosed
        /\ g.sending = 0 /\ g.receiving = FALSE /\ g.recvOn = f.recvOn
        /\ g.exists = f.exists /\ g.clientClosed = f.clientClosed /\ g.bufUsed = f.bufUsed
        /\ g.socksUp = f.socksUp /\ g.recvBufUsed = f.recvBufUsed /\ g.recvBufSent = f.recvBufSent
        /\ g.waiting = f.waiting /\ g.pending = f.pending /\ g.pcb = f.pcb /\ g.rcvWnd = f.rcvWnd
        /\ g.unacked = f.unacked /\ g.sync = f.sync /\ g.killed = f.killed
    <3>1. 0 \in 0..TcpWnd
      OBVIOUS
    <3>2. g \in Fields
      BY <2>2, <3>1, Zenon DEF Fields
    <3> QED
      BY <2>2, <3>2 DEF Fields
  <2> HIDE DEF g
  <2> QED
    BY <2>1, <2>2, <2>3
<1> QED
  BY <1>3, <1>5 DEF on

LEMMA DeallocWhole ==
  ASSUME NEW d \in Fields, d.socks.held = Nothing, d.pcb \in {"none", "released", "gone"}, d.sync => d.killed
  PROVE  Whole(Dealloc(d))
<1> DEFINE e == Dealloc(d)
<1>1. /\ e \in Fields /\ e.exists = FALSE /\ e.socksClosed = TRUE /\ e.clientClosed = TRUE /\ e.socks = d.socks
      /\ e.pcb = d.pcb /\ e.recvOn = FALSE /\ e.sync = d.sync /\ e.killed = d.killed
  <2> DEFINE n == NoClient
  <2>1. /\ n \in Fields /\ n.exists = FALSE /\ n.socksClosed = TRUE /\ n.clientClosed = TRUE /\ n.recvOn = FALSE
    <3>1. [state |-> "CONNECTING", held |-> Nothing] \in Client
      BY NothingIsHeld DEF Client, States
    <3> QED
      BY <3>1 DEF NoClient, Fields
  <2> HIDE DEF n
  <2>2. e = [n EXCEPT !.socks = d.socks, !.pcb = d.pcb, !.sync = d.sync, !.killed = d.killed]
    BY DEF Dealloc, n
  <2>3. d.socks \in Client /\ d.sync \in BOOLEAN /\ d.killed \in BOOLEAN
        /\ d.pcb \in {"none", "open", "gone", "released", "twice"}
    BY DEF Fields
  <2> DEFINE k == [n EXCEPT !.socks = d.socks, !.pcb = d.pcb]
  <2>4. /\ k \in Fields /\ k.exists = FALSE /\ k.socksClosed = TRUE /\ k.clientClosed = TRUE /\ k.recvOn = FALSE
        /\ k.socks = d.socks /\ k.pcb = d.pcb
    BY <2>1, <2>3, Zenon DEF Fields
  <2>5. e = [k EXCEPT !.sync = d.sync, !.killed = d.killed]
    BY <2>2
  <2> HIDE DEF k
  <2> QED
    BY <2>3, <2>4, <2>5, ZenonT(30) DEF Fields
<1> HIDE DEF e
<1>2. Whole(e)
  BY <1>1 DEF Whole
<1> QED
  BY <1>2 DEF e

\* The client's end: what it had sent still goes to SOCKS.
LEMMA HandleFreedClientWhole ==
  ASSUME NEW d \in Fields, d.exists, d.pcb \in {"released", "gone"}, ~d.recvOn, SocksHalf(d)
  PROVE  Whole(HandleFreedClient(d))
<1> DEFINE e == [d EXCEPT !.killed = d.sync, !.clientClosed = TRUE]
<1>1. /\ e \in Fields /\ e.exists = d.exists /\ e.clientClosed = TRUE /\ e.bufUsed = d.bufUsed
      /\ e.socksUp = d.socksUp /\ e.socksClosed = d.socksClosed /\ e.recvBufUsed = d.recvBufUsed
      /\ e.socks = d.socks /\ e.sending = d.sending /\ e.receiving = d.receiving /\ e.pcb = d.pcb
      /\ e.recvOn = d.recvOn /\ e.unacked = d.unacked /\ e.sync = d.sync /\ e.killed = d.sync
  BY Zenon DEF Fields
<1>2. HandleFreedClient(d) = IF e.bufUsed > 0 /\ ~e.socksClosed THEN e
                             ELSE Dealloc(IF e.socksClosed THEN e ELSE SocksFreed(e))
  BY DEF HandleFreedClient
<1> HIDE DEF e
<1>3. SocksHalf(e)
  BY <1>1 DEF SocksHalf
<1>4. CASE e.bufUsed > 0 /\ ~e.socksClosed
  <2>1. Whole(e)
    BY <1>1, <1>3, <1>4 DEF Whole
  <2> QED
    BY <1>2, <1>4, <2>1
<1>5. CASE e.socksClosed
  <2>1. Whole(Dealloc(e))
    BY <1>1, <1>3, <1>5, DeallocWhole DEF SocksHalf
  <2> QED
    BY <1>2, <1>5, <2>1
<1>6. CASE ~e.socksClosed /\ ~(e.bufUsed > 0)
  <2>1. Sound(e.socks)
    BY <1>3, <1>6 DEF SocksHalf
  <2> DEFINE f == SocksFreed(e)
  <2>2. f \in Fields /\ f.socks.held = Nothing /\ f.pcb = e.pcb /\ f.sync = e.sync /\ f.killed = e.killed
    BY <1>1, <2>1, SocksFreedIs, Zenon
  <2> HIDE DEF f
  <2>3. Whole(Dealloc(f))
    BY <1>1, <2>2, DeallocWhole
  <2> QED
    BY <1>2, <1>6, <2>3 DEF f
<1> QED
  BY <1>4, <1>5, <1>6

LEMMA FreeClientWhole ==
  ASSUME NEW d \in Fields, d.exists, d.pcb = "open", SocksHalf(d)
  PROVE  Whole(FreeClient(d))
<1> DEFINE e == [d EXCEPT !.pcb = "released", !.recvOn = FALSE]
<1>1. /\ e \in Fields /\ e.exists = d.exists /\ e.bufUsed = d.bufUsed
      /\ e.socksUp = d.socksUp /\ e.socksClosed = d.socksClosed /\ e.recvBufUsed = d.recvBufUsed
      /\ e.socks = d.socks /\ e.sending = d.sending /\ e.receiving = d.receiving /\ e.pcb = "released"
      /\ e.recvOn = FALSE /\ e.unacked = d.unacked
  BY Zenon DEF Fields
<1>2. FreeClient(d) = HandleFreedClient(e)
  BY DEF FreeClient, Released
<1> HIDE DEF e
<1>3. SocksHalf(e)
  BY <1>1 DEF SocksHalf
<1> QED
  BY <1>1, <1>2, <1>3, HandleFreedClientWhole, Zenon

\* The end of SOCKS: what it had sent still goes to the client.
LEMMA FreeSocksWhole ==
  ASSUME NEW d \in Fields, d.exists, ~d.socksClosed, Sound(d.socks),
         d.clientClosed => d.pcb \in {"released", "gone"} /\ (d.sync => d.killed),
         ~d.clientClosed =>
            /\ d.pcb = "open" /\ d.pending = d.unacked /\ d.recvOn
            /\ ~d.socksUp => d.unacked = 0 /\ d.recvBufUsed = -1
            /\ d.recvBufUsed # -1 => d.waiting /\ d.unacked > 0 /\ d.recvBufSent < d.recvBufUsed
  PROVE  Whole(FreeSocks(d))
<1> DEFINE e == SocksFreed(d)
<1>1. /\ e \in Fields /\ e.socks.held = Nothing /\ e.socksClosed = TRUE
      /\ e.sending = 0 /\ e.receiving = FALSE
      /\ e.recvOn = (d.recvOn /\ ~(d.socksUp /\ ~d.clientClosed))
      /\ e.exists = d.exists /\ e.clientClosed = d.clientClosed /\ e.bufUsed = d.bufUsed
      /\ e.socksUp = d.socksUp /\ e.recvBufUsed = d.recvBufUsed /\ e.recvBufSent = d.recvBufSent
      /\ e.waiting = d.waiting /\ e.pending = d.pending /\ e.pcb = d.pcb /\ e.rcvWnd = d.rcvWnd
      /\ e.unacked = d.unacked /\ e.sync = d.sync /\ e.killed = d.killed
  BY SocksFreedIs, Zenon
<1>2. FreeSocks(d) = IF e.socksUp /\ (e.recvBufUsed >= 0 \/ e.pending > 0) /\ ~e.clientClosed THEN e
                     ELSE IF ~e.clientClosed THEN FreeClient(e) ELSE Dealloc(e)
  BY DEF FreeSocks
<1> HIDE DEF e
<1>3. CASE e.clientClosed
  <2>1. Whole(Dealloc(e))
    BY <1>1, <1>3, DeallocWhole
  <2> QED
    BY <1>2, <1>3, <2>1
<1>4. CASE ~e.clientClosed /\ e.socksUp /\ (e.recvBufUsed >= 0 \/ e.pending > 0)
  <2>1. e.recvOn = FALSE /\ e.unacked > 0
    BY <1>1, <1>4 DEF Fields
  <2>2. SocksHalf(e) /\ ClientHalf(e)
    BY <1>1, <1>4, <2>1 DEF SocksHalf, ClientHalf, Fields
  <2>3. Whole(e)
    BY <1>1, <1>4, <2>1, <2>2 DEF Whole
  <2> QED
    BY <1>2, <1>4, <2>3
<1>5. CASE ~e.clientClosed /\ ~(e.socksUp /\ (e.recvBufUsed >= 0 \/ e.pending > 0))
  <2>1. SocksHalf(e)
    BY <1>1, <1>5 DEF SocksHalf, Fields
  <2>2. e.pcb = "open"
    BY <1>1, <1>5
  <2>3. Whole(FreeClient(e))
    BY <1>1, <2>1, <2>2, FreeClientWhole, Zenon
  <2> QED
    BY <1>2, <1>5, <2>3
<1> QED
  BY <1>3, <1>4, <1>5

\* client_socks_recv_send_out either frees the client, or leaves something that
\* the client has to acknowledge.
Same(d, e) ==
  /\ e.exists = d.exists /\ e.clientClosed = d.clientClosed /\ e.bufUsed = d.bufUsed
  /\ e.socksUp = d.socksUp /\ e.socksClosed = d.socksClosed /\ e.socks = d.socks
  /\ e.sending = d.sending /\ e.receiving = d.receiving /\ e.pcb = d.pcb /\ e.recvOn = d.recvOn
  /\ e.rcvWnd = d.rcvWnd /\ e.sync = d.sync /\ e.killed = d.killed

Queued(d, e) ==
  /\ e \in Fields /\ Same(d, e) /\ e.pending = e.unacked /\ e.unacked > 0
  /\ e.recvBufUsed # -1 => e.waiting /\ e.recvBufSent < e.recvBufUsed

LEMMA SendOutQueues ==
  ASSUME NEW d \in Fields, d.exists, d.pcb = "open", SocksHalf(d), d.socksUp, d.pending = d.unacked,
         d.recvBufUsed \in 1..RecvBufSize, d.recvBufSent < d.recvBufUsed,
         NEW o \in SendOut(d)
  PROVE  (o[2] = TRUE /\ Whole(o[1])) \/ (o[2] = FALSE /\ Queued(d, o[1]))
<1>0. Whole(FreeClient(d))
  BY FreeClientWhole
<1>1. CASE o = <<FreeClient(d), TRUE>>
  BY <1>0, <1>1
<1>2. CASE o # <<FreeClient(d), TRUE>>
  <2> DEFINE E(w) == [d EXCEPT !.recvBufSent = @ + w, !.pending = @ + w, !.unacked = @ + w]
  <2>1. PICK w \in 0..(d.recvBufUsed - d.recvBufSent) :
          /\ w <= SndBuf - d.unacked
          /\ o = IF E(w).recvBufSent < E(w).recvBufUsed
                 THEN IF E(w).pending = 0 THEN <<FreeClient(E(w)), TRUE>>
                      ELSE <<[E(w) EXCEPT !.waiting = TRUE], FALSE>>
                 ELSE <<[E(w) EXCEPT !.recvBufUsed = -1], FALSE>>
    BY <1>2, Zenon DEF SendOut
  <2> DEFINE e == E(w)
  <2>2. /\ d.unacked \in 0..SndBuf /\ d.recvBufSent \in 0..RecvBufSize /\ d.recvBufUsed \in Int
        /\ w \in Nat /\ SndBuf \in Nat /\ RecvBufSize \in Nat
    BY DEF Fields
  <2>3. /\ e.recvBufSent = d.recvBufSent + w /\ e.pending = d.unacked + w /\ e.unacked = d.unacked + w
        /\ e.recvBufUsed = d.recvBufUsed /\ e.waiting = d.waiting /\ Same(d, e)
    BY Zenon DEF Fields, Same
  <2>4. e \in Fields
    <3>1. d.recvBufSent + w \in 0..RecvBufSize /\ d.unacked + w \in 0..SndBuf
      BY <2>1, <2>2
    <3>2. e = [d EXCEPT !.recvBufSent = d.recvBufSent + w, !.pending = d.unacked + w, !.unacked = d.unacked + w]
      BY DEF Fields
    <3> QED
      BY <3>1, <3>2, Zenon DEF Fields
  <2>5. o = IF e.recvBufSent < e.recvBufUsed
            THEN IF e.pending = 0 THEN <<FreeClient(e), TRUE>> ELSE <<[e EXCEPT !.waiting = TRUE], FALSE>>
            ELSE <<[e EXCEPT !.recvBufUsed = -1], FALSE>>
    BY <2>1
  <2> HIDE DEF e, E
  <2>6. SocksHalf(e)
    BY <2>3 DEF SocksHalf, Same
  <2>7. CASE e.recvBufSent < e.recvBufUsed /\ e.pending = 0
    BY <2>3, <2>4, <2>5, <2>6, <2>7, FreeClientWhole, Zenon DEF Same
  <2>8. CASE e.recvBufSent < e.recvBufUsed /\ e.pending # 0
    <3> DEFINE f == [e EXCEPT !.waiting = TRUE]
    <3>1. /\ f \in Fields /\ Same(e, f) /\ f.waiting = TRUE /\ f.pending = e.pending /\ f.unacked = e.unacked
          /\ f.recvBufUsed = e.recvBufUsed /\ f.recvBufSent = e.recvBufSent
      BY <2>4, Zenon DEF Fields, Same
    <3>2. o = <<f, FALSE>>
      BY <2>5, <2>8, Zenon
    <3> HIDE DEF f
    <3>3. Queued(d, f)
      BY <2>2, <2>3, <2>8, <3>1 DEF Queued, Same
    <3> QED
      BY <3>2, <3>3
  <2>9. CASE ~(e.recvBufSent < e.recvBufUsed)
    <3> DEFINE f == [e EXCEPT !.recvBufUsed = -1]
    <3>1. /\ f \in Fields /\ Same(e, f) /\ f.recvBufUsed = -1 /\ f.pending = e.pending /\ f.unacked = e.unacked
      BY <2>4 DEF Fields, Same
    <3>2. o = <<f, FALSE>>
      BY <2>5, <2>9, Zenon
    <3> HIDE DEF f
    <3>3. w > 0
      BY <2>1, <2>2, <2>3, <2>9
    <3>4. Queued(d, f)
      BY <2>2, <2>3, <3>1, <3>3 DEF Queued, Same
    <3> QED
      BY <3>2, <3>4
  <2> QED
    BY <2>7, <2>8, <2>9, Zenon
<1> QED
  BY <1>1, <1>2, Zenon

-----------------------------------------------------------------------------
(* The steps.                                                              *)

LEMMA MurderKeeps == IInv /\ ClientMurder => IInv'
<1> SUFFICES ASSUME IInv, ClientMurder PROVE IInv'
  OBVIOUS
<1> DEFINE p == IF c.clientClosed THEN c.pcb ELSE Released(c)
           e == [c EXCEPT !.pcb = p]
<1>1. c \in Fields /\ SocksHalf(c) /\ ~c.sync /\ p \in {"released", "gone"}
  BY DEF IInv, Whole, ClientHalf, Released, ClientMurder
<1>2. /\ e \in Fields /\ e.socks = c.socks /\ e.socksClosed = c.socksClosed /\ e.pcb = p /\ e.sync = c.sync
  BY <1>1 DEF Fields
<1>3. c' = Dealloc(IF e.socksClosed THEN e ELSE SocksFreed(e))
  BY DEF ClientMurder
<1> HIDE DEF e, p
<1>4. CASE e.socksClosed
  BY <1>1, <1>2, <1>3, <1>4, DeallocWhole DEF SocksHalf, IInv
<1>5. CASE ~e.socksClosed
  <2> DEFINE f == SocksFreed(e)
  <2>1. f \in Fields /\ f.socks.held = Nothing /\ f.pcb = p /\ f.sync = c.sync
    BY <1>1, <1>2, <1>5, SocksFreedIs, Zenon DEF SocksHalf
  <2>2. c' = Dealloc(f)
    BY <1>3, <1>5
  <2> HIDE DEF f
  <2> QED
    BY <1>1, <2>1, <2>2, DeallocWhole DEF IInv
<1> QED
  BY <1>4, <1>5

LEMMA AcceptKeeps == IInv /\ ListenerAcceptFunc => IInv'
<1> SUFFICES ASSUME IInv, ListenerAcceptFunc PROVE IInv'
  OBVIOUS
<1> DEFINE e == c'
<1>1. BSocksClient_Init \in Client /\ Sound(BSocksClient_Init) /\ BSocksClient_Init.state = "CONNECTING"
  BY InitIsSound, SoundIsClient
<1>2. e = [exists |-> TRUE, clientClosed |-> FALSE, bufUsed |-> 0,
           socksUp |-> FALSE, socksClosed |-> FALSE,
           recvBufUsed |-> -1, recvBufSent |-> 0, waiting |-> FALSE, pending |-> 0,
           socks |-> BSocksClient_Init, sending |-> 0, receiving |-> FALSE,
           pcb |-> "open", recvOn |-> TRUE, rcvWnd |-> TcpWnd, unacked |-> 0,
           sync |-> TRUE, killed |-> FALSE]
  BY Zenon DEF ListenerAcceptFunc, NoClient
<1> HIDE DEF e
<1>3. e \in Fields
  BY <1>1, <1>2 DEF Fields
<1>4. SocksHalf(e) /\ ClientHalf(e)
  BY <1>1, <1>2 DEF SocksHalf, ClientHalf
<1>5. Whole(e)
  BY <1>2, <1>3, <1>4 DEF Whole
<1> QED
  BY <1>5 DEF IInv, e

LEMMA RecvDataKeeps == \A n \in 1..TcpWnd : IInv /\ ClientRecvData(n) => IInv'
<1> SUFFICES ASSUME NEW n \in 1..TcpWnd, IInv, ClientRecvData(n) PROVE IInv'
  OBVIOUS
<1> DEFINE d == [c EXCEPT !.bufUsed = @ + n, !.rcvWnd = @ - n]
<1>1. /\ c \in Fields /\ c.exists /\ c.pcb = "open" /\ c.recvOn /\ ~c.sync /\ n <= c.rcvWnd /\ n <= TcpWnd - c.bufUsed
      /\ ~c.clientClosed /\ SocksHalf(c) /\ ClientHalf(c)
  BY DEF IInv, Whole, ClientRecvData
<1>2. /\ c.bufUsed \in 0..TcpWnd /\ c.rcvWnd \in 0..TcpWnd /\ ~c.socksClosed /\ c.rcvWnd = TcpWnd - c.bufUsed
      /\ TcpWnd \in Nat
  BY <1>1 DEF Fields, ClientHalf
<1>3. /\ d.bufUsed = c.bufUsed + n /\ d.rcvWnd = c.rcvWnd - n /\ d.exists = c.exists /\ d.clientClosed = c.clientClosed
      /\ d.socksUp = c.socksUp /\ d.socksClosed = c.socksClosed /\ d.recvBufUsed = c.recvBufUsed
      /\ d.recvBufSent = c.recvBufSent /\ d.waiting = c.waiting /\ d.pending = c.pending /\ d.socks = c.socks
      /\ d.sending = c.sending /\ d.receiving = c.receiving /\ d.pcb = c.pcb /\ d.recvOn = c.recvOn
      /\ d.unacked = c.unacked /\ d.sync = c.sync /\ d.killed = c.killed
  BY <1>1, Zenon DEF Fields
<1>4. d \in Fields
  <2>1. c.bufUsed + n \in 0..TcpWnd /\ c.rcvWnd - n \in 0..TcpWnd
    BY <1>1, <1>2
  <2>2. d = [c EXCEPT !.bufUsed = c.bufUsed + n, !.rcvWnd = c.rcvWnd - n]
    BY <1>1 DEF Fields
  <2> QED
    BY <1>1, <2>1, <2>2, Zenon DEF Fields
<1>5. c' = IF d.bufUsed = n /\ d.socksUp THEN SendToSocks([d EXCEPT !.sync = TRUE]) ELSE d
  BY DEF ClientRecvData
<1> HIDE DEF d
<1>6. ClientHalf(d)
  BY <1>1, <1>2, <1>3 DEF ClientHalf
<1>7. CASE ~(d.bufUsed = n /\ d.socksUp)
  <2>1. SocksHalf(d)
    BY <1>1, <1>2, <1>3, <1>7 DEF SocksHalf, Fields
  <2> QED
    BY <1>1, <1>3, <1>4, <1>5, <1>6, <1>7, <2>1, Zenon DEF IInv, Whole
<1>8. CASE d.bufUsed = n /\ d.socksUp
  <2> DEFINE e == [d EXCEPT !.sync = TRUE, !.sending = d.bufUsed]
  <2>1. c' = e
    BY <1>4, <1>5, <1>8, Zenon DEF SendToSocks, Fields
  <2>2. /\ e \in Fields /\ e.sending = d.bufUsed /\ e.sync = TRUE
        /\ e.bufUsed = d.bufUsed /\ e.rcvWnd = d.rcvWnd /\ e.exists = d.exists /\ e.clientClosed = d.clientClosed
        /\ e.socksUp = d.socksUp /\ e.socksClosed = d.socksClosed /\ e.recvBufUsed = d.recvBufUsed
        /\ e.recvBufSent = d.recvBufSent /\ e.waiting = d.waiting /\ e.pending = d.pending /\ e.socks = d.socks
        /\ e.receiving = d.receiving /\ e.pcb = d.pcb /\ e.recvOn = d.recvOn
        /\ e.unacked = d.unacked /\ e.killed = d.killed
    BY <1>4, Zenon DEF Fields
  <2> HIDE DEF e
  <2>3. SocksHalf(e)
    BY <1>1, <1>2, <1>3, <1>8, <2>2 DEF SocksHalf
  <2>4. ClientHalf(e)
    BY <1>6, <2>2 DEF ClientHalf
  <2> QED
    BY <1>1, <1>3, <2>1, <2>2, <2>3, <2>4 DEF IInv, Whole
<1> QED
  BY <1>7, <1>8

\* A client that has queued data for lwIP waits for its acknowledgement, or
\* receives again.
LEMMA QueuedWhole ==
  ASSUME NEW d \in Fields, d.exists, ~d.clientClosed, SocksHalf(d), d.socksUp, ~d.receiving,
         d.pcb = "open",
         d.recvOn <=> ~d.socksClosed, d.recvOn => d.rcvWnd = TcpWnd - d.bufUsed,
         NEW e, Queued(d, e)
  PROVE  /\ e.recvBufUsed # -1 \/ e.socksClosed => Whole(e)
         /\ e.recvBufUsed = -1 /\ ~e.socksClosed =>
              Whole(RecvInitiate(e)) /\ Whole(RecvInitiate([e EXCEPT !.sync = TRUE]))
<1>1. e \in Fields /\ Same(d, e)
  BY DEF Queued
<1>2. SocksHalf(e)
  BY <1>1 DEF SocksHalf, Same
<1>3. e.exists /\ ~e.clientClosed /\ ~e.receiving /\ e.socksUp
  BY <1>1 DEF Same
<1>4. ASSUME e.recvBufUsed # -1 \/ e.socksClosed PROVE Whole(e)
  <2>0. e.receiving = FALSE
    BY <1>1, <1>3 DEF Fields
  <2>1. ClientHalf(e)
    BY <1>1, <1>3, <1>4, <2>0 DEF ClientHalf, Same, Queued
  <2> QED
    BY <1>1, <1>2, <1>3, <2>1 DEF Whole, Same
<1>5. ASSUME e.recvBufUsed = -1, ~e.socksClosed, NEW f \in Fields, f.receiving = TRUE,
             f.sync = e.sync \/ f.sync = TRUE,
             f.exists = e.exists, f.clientClosed = e.clientClosed, f.bufUsed = e.bufUsed, f.socksUp = e.socksUp, f.socksClosed = e.socksClosed,
             f.recvBufUsed = e.recvBufUsed, f.recvBufSent = e.recvBufSent, f.waiting = e.waiting, f.pending = e.pending, f.socks = e.socks,
             f.sending = e.sending, f.pcb = e.pcb, f.recvOn = e.recvOn, f.rcvWnd = e.rcvWnd, f.unacked = e.unacked,
             f.killed = e.killed
      PROVE  Whole(f)
  <2>1. e.pcb = "open"
    BY <1>1, <1>5 DEF Same
  <2>2. SocksHalf(f)
    BY <1>2, <1>3, <1>5 DEF SocksHalf
  <2>3. ClientHalf(f)
    BY <1>1, <1>5, <2>1 DEF ClientHalf, Same, Queued
  <2>4. ~f.clientClosed /\ f.exists /\ f.pcb = "open"
    BY <1>3, <1>5, <2>1
  <2> QED
    BY <1>5, <2>2, <2>3, <2>4 DEF Whole
<1>6. ASSUME e.recvBufUsed = -1, ~e.socksClosed PROVE Whole(RecvInitiate(e))
  <2> DEFINE f == [e EXCEPT !.receiving = TRUE]
  <2>1. /\ f \in Fields /\ f.receiving = TRUE
        /\ f.exists = e.exists /\ f.clientClosed = e.clientClosed /\ f.bufUsed = e.bufUsed /\ f.socksUp = e.socksUp /\ f.socksClosed = e.socksClosed
        /\ f.recvBufUsed = e.recvBufUsed /\ f.recvBufSent = e.recvBufSent /\ f.waiting = e.waiting /\ f.pending = e.pending /\ f.socks = e.socks
        /\ f.sending = e.sending /\ f.pcb = e.pcb /\ f.recvOn = e.recvOn /\ f.rcvWnd = e.rcvWnd /\ f.unacked = e.unacked
        /\ f.sync = e.sync /\ f.killed = e.killed
    BY <1>1, Zenon DEF Fields
  <2>2. RecvInitiate(e) = f
    BY DEF RecvInitiate
  <2> HIDE DEF f
  <2> QED
    BY <1>5, <1>6, <2>1, <2>2, Zenon
<1>7. ASSUME e.recvBufUsed = -1, ~e.socksClosed PROVE Whole(RecvInitiate([e EXCEPT !.sync = TRUE]))
  <2> DEFINE f == [e EXCEPT !.sync = TRUE, !.receiving = TRUE]
  <2>1. /\ f \in Fields /\ f.receiving = TRUE /\ f.sync = TRUE
        /\ f.exists = e.exists /\ f.clientClosed = e.clientClosed /\ f.bufUsed = e.bufUsed /\ f.socksUp = e.socksUp /\ f.socksClosed = e.socksClosed
        /\ f.recvBufUsed = e.recvBufUsed /\ f.recvBufSent = e.recvBufSent /\ f.waiting = e.waiting /\ f.pending = e.pending /\ f.socks = e.socks
        /\ f.sending = e.sending /\ f.pcb = e.pcb /\ f.recvOn = e.recvOn /\ f.rcvWnd = e.rcvWnd /\ f.unacked = e.unacked
        /\ f.killed = e.killed
    BY <1>1, Zenon DEF Fields
  <2>2. RecvInitiate([e EXCEPT !.sync = TRUE]) = f
    BY <1>1 DEF RecvInitiate, Fields
  <2> HIDE DEF f
  <2> QED
    BY <1>5, <1>7, <2>1, <2>2, Zenon
<1> QED
  BY <1>4, <1>6, <1>7

LEMMA RecvClosedKeeps == IInv /\ ClientRecvClosed => IInv'
BY FreeClientWhole DEF IInv, Whole, ClientHalf, ClientRecvClosed

LEMMA ErrKeeps == IInv /\ ClientErrFunc => IInv'
<1> SUFFICES ASSUME IInv, ClientErrFunc PROVE IInv'
  OBVIOUS
<1> DEFINE d == [c EXCEPT !.pcb = "gone", !.recvOn = FALSE]
<1>1. c \in Fields /\ c.exists /\ SocksHalf(c)
  BY DEF IInv, Whole, ClientErrFunc
<1>2. /\ d \in Fields /\ d.pcb = "gone" /\ d.recvOn = FALSE
      /\ d.exists = c.exists /\ d.clientClosed = c.clientClosed /\ d.bufUsed = c.bufUsed /\ d.socksUp = c.socksUp /\ d.socksClosed = c.socksClosed
      /\ d.recvBufUsed = c.recvBufUsed /\ d.recvBufSent = c.recvBufSent /\ d.waiting = c.waiting /\ d.pending = c.pending /\ d.socks = c.socks
      /\ d.sending = c.sending /\ d.receiving = c.receiving /\ d.rcvWnd = c.rcvWnd /\ d.unacked = c.unacked /\ d.sync = c.sync
      /\ d.killed = c.killed
  BY <1>1, Zenon DEF Fields
<1>3. c' = HandleFreedClient(d)
  BY DEF ClientErrFunc
<1> HIDE DEF d
<1>4. SocksHalf(d)
  BY <1>1, <1>2 DEF SocksHalf
<1> QED
  BY <1>1, <1>2, <1>3, <1>4, HandleFreedClientWhole, Zenon DEF IInv

LEMMA SendDoneKeeps == \A n \in 1..TcpWnd : IInv /\ SocksSendHandlerDone(n) => IInv'
<1> SUFFICES ASSUME NEW n \in 1..TcpWnd, IInv, SocksSendHandlerDone(n) PROVE IInv'
  OBVIOUS
<1> DEFINE r == IF c.clientClosed THEN c.rcvWnd ELSE c.rcvWnd + n
           d == [c EXCEPT !.bufUsed = @ - n, !.sending = 0, !.rcvWnd = r]
<1>1. c \in Fields /\ c.exists /\ n \in 1..c.sending /\ SocksHalf(c)
  BY DEF IInv, Whole, SocksSendHandlerDone
<1>2. /\ c.bufUsed \in 0..TcpWnd /\ c.rcvWnd \in 0..TcpWnd /\ c.sending \in 0..TcpWnd /\ TcpWnd \in Nat
      /\ c.sending <= c.bufUsed /\ ~c.socksClosed /\ c.socksUp /\ Sound(c.socks)
  BY <1>1 DEF Fields, SocksHalf
<1>3. ~c.clientClosed => ClientHalf(c) /\ c.rcvWnd = TcpWnd - c.bufUsed /\ c.recvOn /\ c.pcb = "open"
  BY <1>1, <1>2 DEF IInv, Whole, ClientHalf
<1>4. c.bufUsed - n \in 0..TcpWnd /\ r \in 0..TcpWnd /\ 0 \in 0..TcpWnd
  BY <1>1, <1>2, <1>3
<1>5. c' = IF d.bufUsed > 0 THEN SendToSocks(d) ELSE IF d.clientClosed THEN FreeSocks(d) ELSE d
  BY DEF SocksSendHandlerDone
<1>6. /\ d.bufUsed = c.bufUsed - n /\ d.sending = 0 /\ d.rcvWnd = r
      /\ d.exists = c.exists /\ d.clientClosed = c.clientClosed /\ d.socksUp = c.socksUp /\ d.socksClosed = c.socksClosed /\ d.recvBufUsed = c.recvBufUsed
      /\ d.recvBufSent = c.recvBufSent /\ d.waiting = c.waiting /\ d.pending = c.pending /\ d.socks = c.socks /\ d.receiving = c.receiving
      /\ d.pcb = c.pcb /\ d.recvOn = c.recvOn /\ d.unacked = c.unacked /\ d.sync = c.sync /\ d.killed = c.killed
  BY <1>1, Zenon DEF Fields
<1>7. d \in Fields
  <2>1. d = [c EXCEPT !.bufUsed = c.bufUsed - n, !.sending = 0, !.rcvWnd = r]
    BY <1>1 DEF Fields
  <2> HIDE DEF r
  <2> QED
    BY <1>1, <1>4, <2>1, Zenon DEF Fields
<1>8. ~d.clientClosed => d.rcvWnd = TcpWnd - d.bufUsed
  BY <1>1, <1>2, <1>3, <1>6
<1> HIDE DEF d, r
<1>9. ~d.clientClosed => ClientHalf(d)
  BY <1>3, <1>6, <1>8 DEF ClientHalf
<1>10. CASE d.bufUsed > 0
  <2> DEFINE e == [d EXCEPT !.sending = d.bufUsed]
  <2>1. c' = e
    BY <1>5, <1>10 DEF SendToSocks
  <2>2. /\ e \in Fields /\ e.sending = d.bufUsed
        /\ e.exists = d.exists /\ e.clientClosed = d.clientClosed /\ e.bufUsed = d.bufUsed /\ e.socksUp = d.socksUp /\ e.socksClosed = d.socksClosed
        /\ e.recvBufUsed = d.recvBufUsed /\ e.recvBufSent = d.recvBufSent /\ e.waiting = d.waiting /\ e.pending = d.pending /\ e.socks = d.socks
        /\ e.receiving = d.receiving /\ e.pcb = d.pcb /\ e.recvOn = d.recvOn /\ e.rcvWnd = d.rcvWnd /\ e.unacked = d.unacked
        /\ e.sync = d.sync /\ e.killed = d.killed
    BY <1>7 DEF Fields
  <2> HIDE DEF e
  <2>3. SocksHalf(e)
    BY <1>1, <1>2, <1>6, <1>10, <2>2 DEF SocksHalf, Fields
  <2>4. ~e.clientClosed => ClientHalf(e)
    BY <1>9, <2>2 DEF ClientHalf
  <2>5. Whole(e)
    BY <1>1, <1>2, <1>6, <1>10, <2>2, <2>3, <2>4 DEF IInv, Whole
  <2> QED
    BY <2>1, <2>5 DEF IInv
<1>11. CASE ~(d.bufUsed > 0) /\ d.clientClosed
  <2>1. d.exists /\ ~d.socksClosed /\ Sound(d.socks) /\ d.pcb \in {"released", "gone"} /\ (d.sync => d.killed)
    BY <1>1, <1>2, <1>6, <1>11 DEF IInv, Whole
  <2> QED
    BY <1>5, <1>7, <1>11, <2>1, FreeSocksWhole DEF IInv
<1>12. CASE ~(d.bufUsed > 0) /\ ~d.clientClosed
  <2>1. SocksHalf(d)
    BY <1>1, <1>2, <1>4, <1>6, <1>12 DEF SocksHalf, Fields
  <2>2. Whole(d)
    BY <1>1, <1>2, <1>6, <1>7, <1>9, <1>12, <2>1 DEF IInv, Whole
  <2> QED
    BY <1>5, <1>12, <2>2 DEF IInv
<1> QED
  BY <1>10, <1>11, <1>12

LEMMA RecvDoneKeeps == \A n \in 1..RecvBufSize : IInv /\ SocksRecvHandlerDone(n) => IInv'
<1> SUFFICES ASSUME NEW n \in 1..RecvBufSize, IInv, SocksRecvHandlerDone(n) PROVE IInv'
  OBVIOUS
<1> DEFINE d == [c EXCEPT !.receiving = FALSE]
           e == [d EXCEPT !.recvBufUsed = n, !.recvBufSent = 0, !.waiting = FALSE]
<1>1. c \in Fields /\ c.exists /\ c.receiving /\ SocksHalf(c)
  BY DEF IInv, Whole, SocksRecvHandlerDone
<1>2. ~c.socksClosed /\ c.socksUp
  BY <1>1 DEF SocksHalf
<1>3. ~c.clientClosed => ClientHalf(c)
  BY <1>1 DEF IInv, Whole
<1>4. /\ d \in Fields /\ d.receiving = FALSE
      /\ d.exists = c.exists /\ d.clientClosed = c.clientClosed /\ d.bufUsed = c.bufUsed /\ d.socksUp = c.socksUp /\ d.socksClosed = c.socksClosed
      /\ d.recvBufUsed = c.recvBufUsed /\ d.recvBufSent = c.recvBufSent /\ d.waiting = c.waiting /\ d.pending = c.pending /\ d.socks = c.socks
      /\ d.sending = c.sending /\ d.pcb = c.pcb /\ d.recvOn = c.recvOn /\ d.rcvWnd = c.rcvWnd /\ d.unacked = c.unacked
      /\ d.sync = c.sync /\ d.killed = c.killed
  BY <1>1, Zenon DEF Fields
<1>5. IF d.clientClosed THEN c' = d
      ELSE \E o \in SendOut(e) : c' = IF ~o[2] /\ o[1].recvBufUsed = -1 THEN RecvInitiate(o[1]) ELSE o[1]
  BY DEF SocksRecvHandlerDone
<1> HIDE DEF d
<1>6. /\ e \in Fields /\ e.recvBufUsed = n /\ e.recvBufSent = 0 /\ e.waiting = FALSE
      /\ e.exists = d.exists /\ e.clientClosed = d.clientClosed /\ e.bufUsed = d.bufUsed /\ e.socksUp = d.socksUp /\ e.socksClosed = d.socksClosed
      /\ e.pending = d.pending /\ e.socks = d.socks /\ e.sending = d.sending /\ e.receiving = d.receiving /\ e.pcb = d.pcb
      /\ e.recvOn = d.recvOn /\ e.rcvWnd = d.rcvWnd /\ e.unacked = d.unacked /\ e.sync = d.sync /\ e.killed = d.killed
  <2>1. n \in {-1} \union (1..RecvBufSize) /\ 0 \in 0..RecvBufSize
    OBVIOUS
  <2>2. e \in Fields
    BY <1>4, <2>1, Zenon DEF Fields
  <2> QED
    BY <1>4, <2>2 DEF Fields
<1> HIDE DEF e
<1>7. CASE d.clientClosed
  <2>1. SocksHalf(d)
    BY <1>1, <1>2, <1>4 DEF SocksHalf
  <2>2. Whole(d)
    BY <1>1, <1>2, <1>4, <1>7, <2>1 DEF IInv, Whole
  <2> QED
    BY <1>5, <1>7, <2>2 DEF IInv
<1>8. CASE ~d.clientClosed
  <2>1. PICK o \in SendOut(e) : c' = IF ~o[2] /\ o[1].recvBufUsed = -1 THEN RecvInitiate(o[1]) ELSE o[1]
    BY <1>5, <1>8
  <2>2. SocksHalf(e)
    BY <1>1, <1>2, <1>4, <1>6 DEF SocksHalf
  <2>3. /\ e.exists /\ ~e.clientClosed /\ e.socksUp /\ ~e.receiving /\ ~e.socksClosed
        /\ e.pcb = "open" /\ e.recvOn /\ e.rcvWnd = TcpWnd - e.bufUsed /\ e.pending = e.unacked
        /\ e.recvBufUsed \in 1..RecvBufSize /\ e.recvBufSent < e.recvBufUsed
    BY <1>1, <1>2, <1>3, <1>4, <1>6, <1>8 DEF ClientHalf
  <2>4. (o[2] = TRUE /\ Whole(o[1])) \/ (o[2] = FALSE /\ Queued(e, o[1]))
    BY <1>6, <2>2, <2>3, SendOutQueues, Zenon
  <2>5. CASE o[2] = TRUE /\ Whole(o[1])
    BY <2>1, <2>5 DEF IInv
  <2>6. CASE o[2] = FALSE /\ Queued(e, o[1])
    <3>1. /\ o[1].recvBufUsed # -1 => Whole(o[1])
          /\ o[1].recvBufUsed = -1 => Whole(RecvInitiate(o[1]))
      BY <1>6, <2>2, <2>3, <2>6, QueuedWhole, Zenon DEF Queued, Same
    <3> QED
      BY <2>1, <2>6, <3>1 DEF IInv
  <2> QED
    BY <2>4, <2>5, <2>6, Zenon
<1> QED
  BY <1>7, <1>8

LEMMA SentKeeps == \A n \in 1..SndBuf : IInv /\ ClientSentFunc(n) => IInv'
<1> SUFFICES ASSUME NEW n \in 1..SndBuf, IInv, ClientSentFunc(n) PROVE IInv'
  OBVIOUS
<1> DEFINE d == [c EXCEPT !.pending = @ - n, !.unacked = @ - n]
           e == [d EXCEPT !.waiting = FALSE]
<1>1. c \in Fields /\ c.exists /\ ~c.clientClosed /\ ~c.sync /\ n \in 1..c.unacked /\ SocksHalf(c) /\ ClientHalf(c)
  BY DEF IInv, Whole, ClientSentFunc
<1>2. /\ c.unacked \in 0..SndBuf /\ c.pending = c.unacked /\ SndBuf \in Nat /\ c.socksUp
      /\ c.recvBufUsed \in {-1} \union (1..RecvBufSize)
  BY <1>1 DEF Fields, ClientHalf, SocksHalf
<1>3. /\ d \in Fields /\ d.pending = c.unacked - n /\ d.unacked = c.unacked - n
      /\ d.exists = c.exists /\ d.clientClosed = c.clientClosed /\ d.bufUsed = c.bufUsed /\ d.socksUp = c.socksUp /\ d.socksClosed = c.socksClosed
      /\ d.recvBufUsed = c.recvBufUsed /\ d.recvBufSent = c.recvBufSent /\ d.waiting = c.waiting /\ d.socks = c.socks /\ d.sending = c.sending
      /\ d.receiving = c.receiving /\ d.pcb = c.pcb /\ d.recvOn = c.recvOn /\ d.rcvWnd = c.rcvWnd /\ d.sync = c.sync
      /\ d.killed = c.killed
  <2>1. c.unacked - n \in 0..SndBuf
    BY <1>1, <1>2
  <2>2. d = [c EXCEPT !.pending = c.unacked - n, !.unacked = c.unacked - n]
    BY <1>1, <1>2 DEF Fields
  <2> HIDE DEF d
  <2> QED
    BY <1>1, <2>1, <2>2, Zenon DEF Fields
<1>4. IF d.recvBufUsed > 0
      THEN \E o \in SendOut(e) :
             c' = IF ~o[2] /\ o[1].recvBufUsed = -1 /\ ~o[1].socksClosed
                  THEN RecvInitiate([o[1] EXCEPT !.sync = TRUE]) ELSE o[1]
      ELSE c' = IF d.socksClosed /\ d.pending = 0 THEN FreeClient(d) ELSE d
  BY DEF ClientSentFunc
<1> HIDE DEF d
<1>5. /\ e \in Fields /\ e.waiting = FALSE
      /\ e.exists = d.exists /\ e.clientClosed = d.clientClosed /\ e.bufUsed = d.bufUsed /\ e.socksUp = d.socksUp /\ e.socksClosed = d.socksClosed
      /\ e.recvBufUsed = d.recvBufUsed /\ e.recvBufSent = d.recvBufSent /\ e.pending = d.pending /\ e.socks = d.socks /\ e.sending = d.sending
      /\ e.receiving = d.receiving /\ e.pcb = d.pcb /\ e.recvOn = d.recvOn /\ e.rcvWnd = d.rcvWnd /\ e.unacked = d.unacked
      /\ e.sync = d.sync /\ e.killed = d.killed
  BY <1>3, Zenon DEF Fields
<1> HIDE DEF e
<1>6. SocksHalf(d)
  BY <1>1, <1>2, <1>3 DEF SocksHalf
<1>7. CASE d.recvBufUsed > 0
  <2>1. PICK o \in SendOut(e) : c' = IF ~o[2] /\ o[1].recvBufUsed = -1 /\ ~o[1].socksClosed
                                     THEN RecvInitiate([o[1] EXCEPT !.sync = TRUE]) ELSE o[1]
    BY <1>4, <1>7
  <2>2. SocksHalf(e)
    BY <1>5, <1>6 DEF SocksHalf
  <2>3. c.recvBufUsed \in 1..RecvBufSize /\ c.recvBufSent < c.recvBufUsed /\ ~c.receiving
    BY <1>1, <1>2, <1>3, <1>7 DEF ClientHalf, SocksHalf
  <2>4. /\ e.exists /\ ~e.clientClosed /\ e.socksUp /\ ~e.receiving /\ ~e.sync
        /\ e.pcb = "open"
        /\ (e.recvOn <=> ~e.socksClosed) /\ (e.recvOn => e.rcvWnd = TcpWnd - e.bufUsed)
        /\ e.pending = e.unacked /\ e.recvBufUsed \in 1..RecvBufSize /\ e.recvBufSent < e.recvBufUsed
    BY <1>1, <1>2, <1>3, <1>5, <2>3 DEF ClientHalf
  <2>5. (o[2] = TRUE /\ Whole(o[1])) \/ (o[2] = FALSE /\ Queued(e, o[1]))
    BY <1>5, <2>2, <2>4, SendOutQueues, Zenon
  <2>6. CASE o[2] = TRUE /\ Whole(o[1])
    BY <2>1, <2>6 DEF IInv
  <2>7. CASE o[2] = FALSE /\ Queued(e, o[1])
    <3>1. /\ o[1].recvBufUsed # -1 \/ o[1].socksClosed => Whole(o[1])
          /\ o[1].recvBufUsed = -1 /\ ~o[1].socksClosed => Whole(RecvInitiate([o[1] EXCEPT !.sync = TRUE]))
      BY <1>5, <2>2, <2>4, <2>7, QueuedWhole
    <3> QED
      BY <2>1, <2>7, <3>1 DEF IInv
  <2> QED
    BY <2>5, <2>6, <2>7, Zenon
<1>8. CASE ~(d.recvBufUsed > 0) /\ d.socksClosed /\ d.pending = 0
  <2>1. d.pcb = "open"
    BY <1>1, <1>3 DEF ClientHalf
  <2> QED
    BY <1>1, <1>3, <1>4, <1>6, <1>8, <2>1, FreeClientWhole, Zenon DEF IInv
<1>9. CASE ~(d.recvBufUsed > 0) /\ ~(d.socksClosed /\ d.pending = 0)
  <2>1. ClientHalf(d)
    BY <1>1, <1>2, <1>3, <1>9 DEF ClientHalf
  <2>2. Whole(d)
    BY <1>1, <1>3, <1>6, <2>1 DEF Whole
  <2> QED
    BY <1>4, <1>9, <2>2 DEF IInv
<1> QED
  BY <1>7, <1>8, <1>9

LEMMA SocksEventKeeps == IInv /\ SocksEvent => IInv'
<1> SUFFICES ASSUME IInv, SocksEvent PROVE IInv'
  OBVIOUS
<1>1. c \in Fields /\ c.exists /\ ~c.socksClosed /\ SocksHalf(c) /\ Sound(c.socks)
  BY DEF IInv, Whole, SocksEvent, SocksHalf
<1>2. PICK o \in Outcomes(c.socks) : c' = ClientSocksHandler(o[1], o[2])
  BY DEF SocksEvent
<1>3. /\ Sound(o[1]) /\ o[1] \in Client
      /\ o[2] = "UP" => o[1].state = "UP" /\ c.socks.state # "UP"
      /\ o[2] = "none" => c.socks.state # "UP" /\ o[1].state # "UP"
  BY <1>1, OutcomesSound, SoundIsClient
<1> DEFINE d == [c EXCEPT !.socks = o[1]]
           up == [d EXCEPT !.recvBufUsed = -1, !.pending = 0, !.socksUp = TRUE]
           sends == IF up.bufUsed > 0 THEN SendToSocks(up) ELSE up
<1>4. c' = IF o[2] = "none" THEN d ELSE IF o[2] # "UP" THEN FreeSocks(d)
           ELSE IF up.clientClosed THEN sends ELSE RecvInitiate(sends)
  BY <1>2 DEF ClientSocksHandler
<1>5. /\ d \in Fields /\ d.socks = o[1]
      /\ d.exists = c.exists /\ d.clientClosed = c.clientClosed /\ d.bufUsed = c.bufUsed /\ d.socksUp = c.socksUp /\ d.socksClosed = c.socksClosed
      /\ d.recvBufUsed = c.recvBufUsed /\ d.recvBufSent = c.recvBufSent /\ d.waiting = c.waiting /\ d.pending = c.pending /\ d.sending = c.sending
      /\ d.receiving = c.receiving /\ d.pcb = c.pcb /\ d.recvOn = c.recvOn /\ d.rcvWnd = c.rcvWnd /\ d.unacked = c.unacked
      /\ d.sync = c.sync /\ d.killed = c.killed
  BY <1>1, <1>3, Zenon DEF Fields
<1> HIDE DEF d
<1>6. d.exists /\ ~d.socksClosed /\ Sound(d.socks)
  BY <1>1, <1>3, <1>5
<1>7. ~d.clientClosed => ClientHalf(d)
  BY <1>1, <1>5 DEF IInv, Whole, ClientHalf
<1>8. d.clientClosed => d.pcb \in {"released", "gone"} /\ (d.sync => d.killed) /\ d.bufUsed > 0 /\ ~d.recvOn
  BY <1>1, <1>5 DEF IInv, Whole
<1>9. CASE o[2] = "none"
  <2>1. SocksHalf(d)
    BY <1>1, <1>3, <1>5, <1>6, <1>9 DEF SocksHalf
  <2>2. Whole(d)
    BY <1>1, <1>5, <1>6, <1>7, <1>8, <2>1 DEF IInv, Whole
  <2> QED
    BY <1>4, <1>9, <2>2 DEF IInv
<1>10. CASE o[2] # "none" /\ o[2] # "UP"
  <2>1. ~d.socksUp => d.unacked = 0 /\ d.recvBufUsed = -1
    BY <1>1, <1>5 DEF SocksHalf
  <2>2. Whole(FreeSocks(d))
    BY <1>5, <1>6, <1>7, <1>8, <2>1, FreeSocksWhole DEF ClientHalf
  <2> QED
    BY <1>4, <1>10, <2>2 DEF IInv
<1>11. CASE o[2] = "UP"
  <2>1. ~d.socksUp /\ d.sending = 0 /\ ~d.receiving /\ d.unacked = 0 /\ d.recvBufUsed = -1 /\ d.socks.state = "UP"
    BY <1>1, <1>3, <1>5, <1>11 DEF SocksHalf
  <2>2. /\ up \in Fields /\ up.recvBufUsed = -1 /\ up.pending = 0 /\ up.socksUp = TRUE
        /\ up.exists = d.exists /\ up.clientClosed = d.clientClosed /\ up.bufUsed = d.bufUsed /\ up.socksClosed = d.socksClosed /\ up.recvBufSent = d.recvBufSent
        /\ up.waiting = d.waiting /\ up.socks = d.socks /\ up.sending = d.sending /\ up.receiving = d.receiving /\ up.pcb = d.pcb
        /\ up.recvOn = d.recvOn /\ up.rcvWnd = d.rcvWnd /\ up.unacked = d.unacked /\ up.sync = d.sync /\ up.killed = d.killed
    <3>1. -1 \in {-1} \union (1..RecvBufSize) /\ 0 \in 0..SndBuf
      OBVIOUS
    <3>2. up \in Fields
      BY <1>5, <3>1, Zenon DEF Fields
    <3> QED
      BY <1>5, <3>2 DEF Fields
  <2>3. c' = IF up.clientClosed THEN sends ELSE RecvInitiate(sends)
    BY <1>4, <1>11
  <2> HIDE DEF up
  <2> DEFINE x == IF up.bufUsed > 0 THEN up.bufUsed ELSE up.sending
             r == IF up.clientClosed THEN up.receiving ELSE TRUE
             e == [up EXCEPT !.sending = x, !.receiving = r]
  <2>4. x \in 0..TcpWnd /\ r \in BOOLEAN
    BY <2>2, Zenon DEF Fields
  <2>5. c' = e
    <3>1. sends = [up EXCEPT !.sending = x]
      BY <2>2 DEF SendToSocks, Fields
    <3> HIDE DEF sends, x
    <3> QED
      BY <2>2, <2>3, <3>1, Zenon DEF RecvInitiate, Fields
  <2>6. x = up.bufUsed
    BY <2>1, <2>2 DEF Fields
  <2>7. ~up.clientClosed => r = TRUE
    OBVIOUS
  <2> HIDE DEF x, r, sends
  <2>8. /\ e \in Fields /\ e.sending = x /\ e.receiving = r
        /\ e.exists = up.exists /\ e.clientClosed = up.clientClosed /\ e.bufUsed = up.bufUsed /\ e.socksUp = up.socksUp /\ e.socksClosed = up.socksClosed
        /\ e.recvBufUsed = up.recvBufUsed /\ e.recvBufSent = up.recvBufSent /\ e.waiting = up.waiting /\ e.pending = up.pending /\ e.socks = up.socks
        /\ e.pcb = up.pcb /\ e.recvOn = up.recvOn /\ e.rcvWnd = up.rcvWnd /\ e.unacked = up.unacked /\ e.sync = up.sync
        /\ e.killed = up.killed
    <3>1. e \in Fields
      BY <2>2, <2>4, ZenonT(30) DEF Fields
    <3> QED
      BY <2>2, <3>1 DEF Fields
  <2> HIDE DEF e
  <2>9. SocksHalf(e)
    BY <1>6, <2>1, <2>2, <2>6, <2>8 DEF SocksHalf, Fields
  <2>10. ~e.clientClosed => ClientHalf(e)
    BY <1>6, <1>7, <2>1, <2>2, <2>7, <2>8 DEF ClientHalf
  <2>11. e.sync /\ ~e.killed => ~e.clientClosed /\ e.pcb = "open"
    BY <1>1, <1>5, <2>2, <2>8 DEF IInv, Whole
  <2>12. Whole(e)
    BY <1>6, <1>8, <2>2, <2>8, <2>9, <2>10, <2>11 DEF Whole
  <2> QED
    BY <2>5, <2>12 DEF IInv
<1> QED
  BY <1>9, <1>10, <1>11

LEMMA ReturnKeeps == IInv /\ CallbackReturns => IInv'
<1> SUFFICES ASSUME IInv, CallbackReturns PROVE IInv'
  OBVIOUS
<1> DEFINE e == c'
<1>1. /\ e \in Fields /\ e.sync = FALSE /\ e.killed = FALSE
      /\ e.exists = c.exists /\ e.clientClosed = c.clientClosed /\ e.bufUsed = c.bufUsed /\ e.socksUp = c.socksUp /\ e.socksClosed = c.socksClosed
      /\ e.recvBufUsed = c.recvBufUsed /\ e.recvBufSent = c.recvBufSent /\ e.waiting = c.waiting /\ e.pending = c.pending /\ e.socks = c.socks
      /\ e.sending = c.sending /\ e.receiving = c.receiving /\ e.pcb = c.pcb /\ e.recvOn = c.recvOn /\ e.rcvWnd = c.rcvWnd
      /\ e.unacked = c.unacked
  BY Zenon DEF IInv, Whole, CallbackReturns, Fields
<1> HIDE DEF e
<1>2. e.exists => SocksHalf(e)
  BY <1>1 DEF IInv, Whole, SocksHalf
<1>3. e.exists /\ ~e.clientClosed => ClientHalf(e)
  BY <1>1 DEF IInv, Whole, ClientHalf
<1>4. Whole(e)
  BY <1>1, <1>2, <1>3 DEF IInv, Whole
<1> QED
  BY <1>4 DEF IInv, e

-----------------------------------------------------------------------------
(* The properties.                                                         *)

LEMMA RelayInvariant == Spec => []IInv
<1>1. Init => IInv
  <2>1. [state |-> "CONNECTING", held |-> Nothing] \in Client
    BY NothingIsHeld DEF Client, States
  <2>2. NoClient \in Fields
    BY <2>1 DEF NoClient, Fields
  <2> QED
    BY <2>2 DEF Init, NoClient, IInv, Whole
<1>2. IInv /\ [Next]_c => IInv'
  <2> SUFFICES ASSUME IInv, [Next]_c PROVE IInv'
    OBVIOUS
  <2>1. CASE UNCHANGED c
    BY <2>1 DEF IInv
  <2>2. CASE \E n \in 1..TcpWnd : ClientRecvData(n) \/ SocksSendHandlerDone(n)
    BY <2>2, RecvDataKeeps, SendDoneKeeps
  <2>3. CASE \E n \in 1..RecvBufSize : SocksRecvHandlerDone(n)
    BY <2>3, RecvDoneKeeps
  <2>4. CASE \E n \in 1..SndBuf : ClientSentFunc(n)
    BY <2>4, SentKeeps
  <2> QED
    BY <2>1, <2>2, <2>3, <2>4, MurderKeeps, AcceptKeeps, RecvClosedKeeps, ErrKeeps, SocksEventKeeps,
       ReturnKeeps DEF Next
<1> QED
  BY <1>1, <1>2, PTL DEF Spec

\* The two halves of a client (client_free_client, client_free_socks,
\* client_murder) are freed once each, whichever ends first, and a pcb that lwIP
\* has given up is not closed again.
THEOREM HalvesFreedOnceHolds == Spec => []HalvesFreedOnce
<1>1. IInv => HalvesFreedOnce
  BY DEF IInv, Whole, SocksHalf, ClientHalf, HalvesFreedOnce
<1> QED
  BY <1>1, RelayInvariant, PTL

\* client_recv_func is never offered more than buf has left.
THEOREM WindowMatchesBufferHolds == Spec => []WindowMatchesBuffer
<1>1. IInv => WindowMatchesBuffer
  BY DEF IInv, Whole, ClientHalf, WindowMatchesBuffer
<1> QED
  BY <1>1, RelayInvariant, PTL

\* The assertion on socks_recv_tcp_pending in client_sent_func holds.
THEOREM PendingMatchesHolds == Spec => []PendingMatches
<1>1. IInv => PendingMatches
  BY DEF IInv, Whole, ClientHalf, PendingMatches
<1> QED
  BY <1>1, RelayInvariant, PTL

\* A client always has an operation under way, on a pcb that reports its end, or
\* is gone.
THEOREM NoStallHolds == Spec => []NoStall
<1>1. IInv => NoStall
  BY DEF IInv, Whole, SocksHalf, ClientHalf, NoStall, Fields
<1> QED
  BY <1>1, RelayInvariant, PTL

\* A callback of lwIP inside which the client was freed returns ERR_ABRT.
THEOREM AbortReportedHolds == Spec => []AbortReported
<1>1. IInv => AbortReported
  BY DEF IInv, Whole, AbortReported
<1> QED
  BY <1>1, RelayInvariant, PTL

\* The relay's state keeps its type for any window, send buffer and receive
\* buffer: no handler makes a length negative or larger than its buffer.
THEOREM TypeCorrect == Spec => []TypeOK
<1>1. IInv => TypeOK
  BY DEF IInv, Whole, Fields, TypeOK
<1> QED
  BY <1>1, RelayInvariant, PTL

-----------------------------------------------------------------------------
(* What is under way when one side ends.                                   *)

\* SOCKS is open and has data of the client to send.
Unsent(d) == d.bufUsed > 0 /\ d.socksClosed = FALSE

\* client_handle_freed_client waits for the data of the client.
LEMMA FreedClientWaits ==
  ASSUME NEW d \in Fields, Unsent(d)
  PROVE  HandleFreedClient(d).socksClosed = FALSE
<1> DEFINE e == [d EXCEPT !.killed = d.sync, !.clientClosed = TRUE]
<1>1. e.bufUsed = d.bufUsed /\ e.socksClosed = d.socksClosed
  BY DEF Fields
<1> QED
  BY <1>1 DEF HandleFreedClient, Unsent

LEMMA FreeClientWaits ==
  ASSUME NEW d \in Fields, Unsent(d)
  PROVE  FreeClient(d).socksClosed = FALSE
<1> DEFINE e == [d EXCEPT !.pcb = Released(d), !.recvOn = FALSE]
<1>1. e \in Fields /\ e.bufUsed = d.bufUsed /\ e.socksClosed = d.socksClosed
  <2>1. Released(d) \in {"none", "open", "gone", "released", "twice"}
    BY DEF Released
  <2> HIDE DEF e
  <2> QED
    BY <2>1, ZenonT(30) DEF Fields, e
<1>2. HandleFreedClient(e).socksClosed = FALSE
  BY <1>1, FreedClientWaits, Zenon DEF Unsent
<1> QED
  BY <1>2 DEF FreeClient

\* client_socks_recv_send_out, which may abort the client, leaves SOCKS open.
LEMMA SendOutWaits ==
  ASSUME NEW d \in Fields, Unsent(d), d.unacked = d.pending, NEW o \in SendOut(d)
  PROVE  o[1].socksClosed = FALSE
<1>1. CASE o = <<FreeClient(d), TRUE>>
  BY <1>1, FreeClientWaits, Zenon
<1>2. ASSUME NEW w \in 0..(d.recvBufUsed - d.recvBufSent), w <= SndBuf - d.unacked,
             LET e == [d EXCEPT !.recvBufSent = @ + w, !.pending = @ + w, !.unacked = @ + w]
             IN  o = IF e.recvBufSent < e.recvBufUsed
                     THEN IF e.pending = 0 THEN <<FreeClient(e), TRUE>> ELSE <<[e EXCEPT !.waiting = TRUE], FALSE>>
                     ELSE <<[e EXCEPT !.recvBufUsed = -1], FALSE>>
      PROVE  o[1].socksClosed = FALSE
  <2> DEFINE e == [d EXCEPT !.recvBufSent = @ + w, !.pending = @ + w, !.unacked = @ + w]
  <2>1. /\ d.recvBufSent \in 0..RecvBufSize /\ d.recvBufUsed \in {-1} \union (1..RecvBufSize)
        /\ d.pending \in 0..SndBuf /\ d.unacked \in 0..SndBuf
    BY DEF Fields
  <2>2. d.recvBufSent + w \in 0..RecvBufSize /\ d.pending + w \in 0..SndBuf /\ d.unacked + w \in 0..SndBuf
    BY <1>2, <2>1
  <2>3. e \in Fields /\ e.bufUsed = d.bufUsed /\ e.socksClosed = d.socksClosed
    BY <2>2, Zenon DEF Fields
  <2>4. o = IF e.recvBufSent < e.recvBufUsed
            THEN IF e.pending = 0 THEN <<FreeClient(e), TRUE>> ELSE <<[e EXCEPT !.waiting = TRUE], FALSE>>
            ELSE <<[e EXCEPT !.recvBufUsed = -1], FALSE>>
    BY <1>2
  <2> HIDE DEF e
  <2>5. FreeClient(e).socksClosed = FALSE
    BY <2>3, FreeClientWaits, Zenon DEF Unsent
  <2>6. [e EXCEPT !.waiting = TRUE].socksClosed = FALSE /\ [e EXCEPT !.recvBufUsed = -1].socksClosed = FALSE
    BY <2>3 DEF Fields, Unsent
  <2> QED
    BY <2>4, <2>5, <2>6
<1> QED
  BY <1>1, <1>2, Zenon DEF SendOut

\* A handler of the client's side, or of data from SOCKS, does not end SOCKS
\* before the client's data is sent.
LEMMA UnsentWaits ==
  ASSUME IInv, c.exists, Unsent(c),
         \/ ListenerAcceptFunc \/ ClientRecvClosed \/ ClientErrFunc \/ CallbackReturns
         \/ \E n \in 1..TcpWnd : ClientRecvData(n) \/ (SocksSendHandlerDone(n) /\ n # c.bufUsed)
         \/ \E n \in 1..RecvBufSize : SocksRecvHandlerDone(n)
         \/ \E n \in 1..SndBuf : ClientSentFunc(n)
  PROVE  c'.socksClosed = FALSE
<1>0. c \in Fields /\ SocksHalf(c) /\ (~c.clientClosed => ClientHalf(c))
  BY DEF IInv, Whole
<1>1. CASE ClientRecvClosed
  BY <1>0, <1>1, FreeClientWaits, Zenon DEF ClientRecvClosed
<1>2. CASE ClientErrFunc
  <2> DEFINE e == [c EXCEPT !.pcb = "gone", !.recvOn = FALSE]
  <2>1. e \in Fields /\ e.bufUsed = c.bufUsed /\ e.socksClosed = c.socksClosed
    BY <1>0, Zenon DEF Fields
  <2> QED
    BY <1>2, <2>1, FreedClientWaits, Zenon DEF ClientErrFunc, Unsent
<1>3. CASE CallbackReturns
  BY <1>0, <1>3, ZenonT(30) DEF CallbackReturns, Fields, Unsent
<1>4. ASSUME NEW n \in 1..TcpWnd, ClientRecvData(n) PROVE c'.socksClosed = FALSE
  BY <1>0, <1>4, Zenon DEF ClientRecvData, SendToSocks, Fields, Unsent
<1>5. ASSUME NEW n \in 1..TcpWnd, SocksSendHandlerDone(n), n # c.bufUsed PROVE c'.socksClosed = FALSE
  <2> DEFINE d == [c EXCEPT !.bufUsed = @ - n, !.sending = 0, !.rcvWnd = IF c.clientClosed THEN @ ELSE @ + n]
  <2>1. n <= c.sending /\ c.sending <= c.bufUsed /\ c.bufUsed \in Nat /\ c.sending \in Nat
    <3>1. c.bufUsed \in Nat /\ c.sending \in Nat
      BY <1>0, SMTT(30) DEF Fields
    <3>2. n \in 1..c.sending
      BY <1>5, Zenon DEF SocksSendHandlerDone
    <3>3. c.sending <= c.bufUsed
      BY <1>0 DEF SocksHalf
    <3> QED
      BY <3>1, <3>2, <3>3
  <2>2. d.bufUsed = c.bufUsed - n /\ d.socksClosed = c.socksClosed /\ SendToSocks(d).socksClosed = c.socksClosed
    BY <1>0 DEF Fields, SendToSocks
  <2>3. d.bufUsed > 0
    BY <1>5, <2>1, <2>2, SMTT(30)
  <2>4. c' = SendToSocks(d)
    BY <1>5, <2>3, Zenon DEF SocksSendHandlerDone
  <2> QED
    BY <2>2, <2>4 DEF Unsent
<1>6. ASSUME NEW n \in 1..RecvBufSize, SocksRecvHandlerDone(n) PROVE c'.socksClosed = FALSE
  <2> DEFINE d == [c EXCEPT !.receiving = FALSE]
             g == [d EXCEPT !.recvBufUsed = n, !.recvBufSent = 0, !.waiting = FALSE]
  <2>1. d \in Fields /\ d.socksClosed = FALSE /\ d.clientClosed = c.clientClosed
    BY <1>0, Zenon DEF Fields, Unsent
  <2>2. /\ g \in Fields /\ g.socksClosed = FALSE /\ g.bufUsed = c.bufUsed
        /\ g.pending = c.pending /\ g.unacked = c.unacked
    <3>1. d \in Fields /\ d.bufUsed = c.bufUsed /\ d.pending = c.pending /\ d.unacked = c.unacked
      BY <1>0, ZenonT(30) DEF Fields
    <3>2. n \in {-1} \union (1..RecvBufSize) /\ 0 \in 0..RecvBufSize
      OBVIOUS
    <3> HIDE DEF d
    <3> QED
      BY <2>1, <3>1, <3>2, Zenon DEF Fields
  <2>3. CASE c.clientClosed
    BY <1>6, <2>1, <2>3, Zenon DEF SocksRecvHandlerDone
  <2>4. CASE ~c.clientClosed
    <3>1. PICK o \in SendOut(g) : c' = IF ~o[2] /\ o[1].recvBufUsed = -1 THEN RecvInitiate(o[1]) ELSE o[1]
      BY <1>6, <2>1, <2>4, Zenon DEF SocksRecvHandlerDone
    <3>2. g.unacked = g.pending
      BY <1>0, <2>2, <2>4 DEF ClientHalf
    <3> HIDE DEF g
    <3>3. o[1].socksClosed = FALSE
      BY <2>2, <3>2, SendOutWaits, Zenon DEF Unsent
    <3>4. [o[1] EXCEPT !.receiving = TRUE].socksClosed = o[1].socksClosed
      OBVIOUS
    <3> QED
      BY <3>1, <3>3, <3>4 DEF RecvInitiate
  <2> QED
    BY <2>3, <2>4, Zenon
<1>7. ASSUME NEW n \in 1..SndBuf, ClientSentFunc(n) PROVE c'.socksClosed = FALSE
  <2> DEFINE d == [c EXCEPT !.pending = @ - n, !.unacked = @ - n]
             g == [d EXCEPT !.waiting = FALSE]
  <2>0. /\ c.pending = c.unacked /\ c.pending \in 0..SndBuf /\ n <= c.unacked
    <3>1. c.pending \in 0..SndBuf
      BY <1>0, SMTT(30) DEF Fields
    <3>2. ~c.clientClosed /\ n \in 1..c.unacked
      BY <1>7, Zenon DEF ClientSentFunc
    <3>3. c.pending = c.unacked
      BY <1>0, <3>2 DEF ClientHalf
    <3> QED
      BY <3>1, <3>2, <3>3
  <2>1. c.pending - n \in 0..SndBuf /\ c.unacked - n \in 0..SndBuf
    BY <2>0
  <2>2. /\ d.socksClosed = FALSE /\ g \in Fields /\ g.socksClosed = FALSE /\ g.bufUsed = c.bufUsed
        /\ g.pending = g.unacked
    BY <1>0, <2>0, <2>1, Zenon DEF Fields, Unsent
  <2>3. CASE d.recvBufUsed > 0
    <3>1. PICK o \in SendOut(g) : c' = IF ~o[2] /\ o[1].recvBufUsed = -1 /\ ~o[1].socksClosed
                                      THEN RecvInitiate([o[1] EXCEPT !.sync = TRUE]) ELSE o[1]
      BY <1>7, <2>3, Zenon DEF ClientSentFunc
    <3> HIDE DEF g
    <3>2. o[1].socksClosed = FALSE
      BY <2>2, SendOutWaits, Zenon DEF Unsent
    <3>3. [[o[1] EXCEPT !.sync = TRUE] EXCEPT !.receiving = TRUE].socksClosed = o[1].socksClosed
      OBVIOUS
    <3> QED
      BY <3>1, <3>2, <3>3 DEF RecvInitiate
  <2>4. CASE ~(d.recvBufUsed > 0)
    BY <1>7, <2>2, <2>4, Zenon DEF ClientSentFunc
  <2> QED
    BY <2>3, <2>4, Zenon
<1>8. ~ListenerAcceptFunc
  BY DEF ListenerAcceptFunc
<1> QED
  BY <1>1, <1>2, <1>3, <1>4, <1>5, <1>6, <1>7, <1>8, Zenon

\* When the client closes or fails, or client_socks_recv_send_out aborts it,
\* SOCKS is kept until the client's data is sent, for any sizes.
THEOREM ClientDataFlushedHolds == Spec => ClientDataFlushed
<1> DEFINE Flushed == c.exists /\ ~c.socksClosed /\ c'.socksClosed =>
                        c.bufUsed = 0 \/ SocksEvent \/ ClientMurder \/ SocksSendHandlerDone(c.bufUsed)
<1>1. ASSUME IInv, Next PROVE Flushed
  <2> SUFFICES ASSUME c.exists, ~c.socksClosed, c.bufUsed # 0, ~SocksEvent, ~ClientMurder,
                      ~SocksSendHandlerDone(c.bufUsed)
               PROVE  c'.socksClosed = FALSE
    OBVIOUS
  <2>1. Unsent(c)
    BY <1>1 DEF IInv, Whole, Fields, Unsent
  <2>2. \A n : SocksSendHandlerDone(n) => n # c.bufUsed
    OBVIOUS
  <2> QED
    BY <1>1, <2>1, <2>2, UnsentWaits, Zenon DEF Next
<1>2. IInv /\ [Next]_c => [Flushed]_c
  BY <1>1
<1> QED
  BY <1>2, RelayInvariant, PTL DEF Spec, ClientDataFlushed

\* The end of SOCKS (client_socks_handler) keeps the client until it has
\* acknowledged all that SOCKS had sent, for any sizes.
THEOREM ReplyFlushedHolds == Spec => ReplyFlushed
<1> DEFINE Flushed == SocksEvent /\ ~c.clientClosed /\ c'.clientClosed => c.unacked = 0 /\ c.recvBufUsed = -1
<1>1. ASSUME IInv, SocksEvent, ~c.clientClosed, c'.clientClosed PROVE c.unacked = 0 /\ c.recvBufUsed = -1
  <2>1. c \in Fields /\ SocksHalf(c) /\ ClientHalf(c)
    BY <1>1 DEF IInv, Whole, SocksEvent
  <2>2. PICK o \in Outcomes(c.socks) : c' = ClientSocksHandler(o[1], o[2])
    BY <1>1 DEF SocksEvent
  <2> DEFINE d == [c EXCEPT !.socks = o[1]]
             e == SocksFreed(d)
             up == [d EXCEPT !.recvBufUsed = -1, !.pending = 0, !.socksUp = TRUE]
             sends == IF up.bufUsed > 0 THEN SendToSocks(up) ELSE up
  <2>3. /\ d.clientClosed = c.clientClosed /\ e.clientClosed = c.clientClosed /\ e.socksUp = c.socksUp
        /\ e.recvBufUsed = c.recvBufUsed /\ e.pending = c.pending
    BY <2>1 DEF SocksFreed, Fields
  <2>4. up.clientClosed = c.clientClosed /\ sends.clientClosed = c.clientClosed
        /\ RecvInitiate(sends).clientClosed = c.clientClosed
    BY <2>1 DEF SendToSocks, RecvInitiate, Fields
  <2>5. c' = IF o[2] = "none" THEN d ELSE IF o[2] # "UP" THEN FreeSocks(d)
             ELSE IF up.clientClosed THEN sends ELSE RecvInitiate(sends)
    BY <2>2 DEF ClientSocksHandler
  <2> HIDE DEF up, sends
  <2>6. c' = FreeSocks(d)
    BY <1>1, <2>3, <2>4, <2>5
  <2>7. ~(e.socksUp /\ (e.recvBufUsed >= 0 \/ e.pending > 0) /\ ~e.clientClosed)
    BY <1>1, <2>3, <2>6 DEF FreeSocks
  <2>8. CASE ~c.socksUp
    BY <2>1, <2>8 DEF SocksHalf
  <2>9. CASE c.socksUp
    <3>1. ~(c.recvBufUsed >= 0) /\ ~(c.pending > 0)
      BY <1>1, <2>3, <2>7, <2>9, Zenon
    <3>2. c.recvBufUsed \in {-1} \union (1..RecvBufSize) /\ c.pending \in Nat /\ c.pending = c.unacked
      BY <2>1, <1>1 DEF Fields, ClientHalf
    <3> QED
      BY <3>1, <3>2
  <2> QED
    BY <2>8, <2>9
<1>2. IInv /\ [Next]_c => [Flushed]_c
  BY <1>1
<1> QED
  BY <1>2, RelayInvariant, PTL DEF Spec, ReplyFlushed

=============================================================================
