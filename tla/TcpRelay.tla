------------------------------ MODULE TcpRelay ------------------------------
(***************************************************************************)
(* One tcp_client of tun2socks: the relay between a TCP connection that    *)
(* lwIP accepts from the device and a SOCKS connection.  Either end can    *)
(* finish first, and what is buffered for the other is still delivered.    *)
(*                                                                         *)
(* The client is a record c, so that the functions of the code, which call *)
(* one another, are functions on it.  Its last fields are what lwIP and    *)
(* the connection keep: bytes are counted, their contents are left out.    *)
(* A callback of lwIP that starts a transfer runs the pending jobs before  *)
(* it returns (SYNC_COMMIT): sync is TRUE between, when only the SOCKS side *)
(* takes steps.                                                            *)
(***************************************************************************)
EXTENDS BSocksClient

CONSTANTS
    TcpWnd,     \* TCP_WND, the size of buf and lwIP's receive window
    SndBuf,     \* TCP_SND_BUF
    RecvBufSize \* CLIENT_SOCKS_RECV_BUF_SIZE

ASSUME ConstantsAssumption ==
    /\ TcpWnd \in Nat \ {0} /\ SndBuf \in Nat \ {0} /\ RecvBufSize \in Nat \ {0}
    /\ AuthMethods \subseteq {"none", "password"}

VARIABLE c

\* No client; what the SOCKS client holds is kept.
NoClient ==
    [exists |-> FALSE, clientClosed |-> TRUE, bufUsed |-> 0,
     socksUp |-> FALSE, socksClosed |-> TRUE,
     recvBufUsed |-> -1, recvBufSent |-> 0, waiting |-> FALSE, pending |-> 0,
     socks |-> [state |-> "CONNECTING", held |-> Nothing],
     sending |-> 0, receiving |-> FALSE,            \* the SOCKS interfaces
     pcb |-> "none", recvOn |-> FALSE, rcvWnd |-> 0, unacked |-> 0,
     sync |-> FALSE, killed |-> FALSE]              \* dead_client

Init == c = NoClient

-----------------------------------------------------------------------------
(* The end of a client.                                                    *)

\* client_dealloc
Dealloc(d) == [NoClient EXCEPT !.socks = d.socks, !.pcb = d.pcb, !.sync = d.sync, !.killed = d.killed]

\* tcp_close or tcp_abort of the pcb, which must still be lwIP's.
Released(d) == IF d.pcb = "open" THEN "released" ELSE "twice"

\* client_free_socks as far as it frees.  Without the recv callback lwIP drops
\* data, and a FIN leaves the pcb able to send and to be acknowledged.
SocksFreed(d) ==
    [d EXCEPT !.recvOn = d.recvOn /\ ~(d.socksUp /\ ~d.clientClosed),
              !.socks.held = BSocksClient_Free(d.socks), !.socksClosed = TRUE,
              !.sending = 0, !.receiving = FALSE]

\* The data of the client is not waited for.
MutHandleFreedClient(d) ==
    LET e == [d EXCEPT !.killed = d.sync, !.clientClosed = TRUE]
    IN  Dealloc(IF e.socksClosed THEN e ELSE SocksFreed(e))

\* dead_client is not killed.
MutHandleFreedQuiet(d) ==
    LET e == [d EXCEPT !.clientClosed = TRUE]
    IN  IF e.bufUsed > 0 /\ ~e.socksClosed THEN e
        ELSE Dealloc(IF e.socksClosed THEN e ELSE SocksFreed(e))

\* client_handle_freed_client
HandleFreedClient(d) ==
    LET e == [d EXCEPT !.killed = d.sync, !.clientClosed = TRUE]
    IN  IF e.bufUsed > 0 /\ ~e.socksClosed THEN e
        ELSE Dealloc(IF e.socksClosed THEN e ELSE SocksFreed(e))

\* client_free_client and client_abort_client: what they do to a pcb that is
\* not used afterwards makes no difference.
FreeClient(d) == HandleFreedClient([d EXCEPT !.pcb = Released(d), !.recvOn = FALSE])

\* Data that lwIP has not yet taken counts, data it has not delivered does not.
MutFreeSocks(d) ==
    LET e == SocksFreed(d)
    IN  IF e.socksUp /\ e.recvBufUsed >= 0 /\ ~e.clientClosed THEN e
        ELSE IF ~e.clientClosed THEN FreeClient(e) ELSE Dealloc(e)

\* client_free_socks
FreeSocks(d) ==
    LET e == SocksFreed(d)
    IN  IF e.socksUp /\ (e.recvBufUsed >= 0 \/ e.pending > 0) /\ ~e.clientClosed THEN e
        ELSE IF ~e.clientClosed THEN FreeClient(e) ELSE Dealloc(e)

\* SOCKS is freed whether or not it was.
MutClientMurder ==
    /\ c.exists /\ ~c.sync
    /\ c' = Dealloc(SocksFreed([c EXCEPT !.pcb = IF c.clientClosed THEN @ ELSE Released(c)]))

\* client_murder, at the end of tun2socks.
ClientMurder ==
    /\ c.exists /\ ~c.sync
    /\ LET e == [c EXCEPT !.pcb = IF c.clientClosed THEN @ ELSE Released(c)]
       IN  c' = Dealloc(IF e.socksClosed THEN e ELSE SocksFreed(e))

-----------------------------------------------------------------------------
(* From the client to SOCKS.                                               *)

\* listener_accept_func
ListenerAcceptFunc ==
    /\ ~c.exists /\ ~c.sync
    /\ c' = [NoClient EXCEPT !.exists = TRUE, !.clientClosed = FALSE, !.socksClosed = FALSE,
                             !.socks = BSocksClient_Init,
                             !.pcb = "open", !.recvOn = TRUE, !.rcvWnd = TcpWnd, !.sync = TRUE]

\* client_send_to_socks
SendToSocks(d) == [d EXCEPT !.sending = d.bufUsed]

\* client_recv_func with data.  It refuses more than buf has left, which is
\* never offered (WindowMatchesBuffer).
ClientRecvData(n) ==
    /\ c.exists /\ c.pcb = "open" /\ c.recvOn /\ ~c.sync /\ n <= c.rcvWnd
    /\ n <= TcpWnd - c.bufUsed
    /\ LET d == [c EXCEPT !.bufUsed = @ + n, !.rcvWnd = @ - n]
       IN  c' = IF d.bufUsed = n /\ d.socksUp
                THEN SendToSocks([d EXCEPT !.sync = TRUE]) ELSE d

\* client_recv_func without data: the client has closed.
ClientRecvClosed ==
    /\ c.exists /\ c.pcb = "open" /\ c.recvOn /\ ~c.sync
    /\ c' = FreeClient(c)

\* client_err_func: lwIP has given up the pcb.
ClientErrFunc ==
    /\ c.exists /\ ~c.clientClosed /\ c.pcb = "open" /\ ~c.sync
    /\ c' = HandleFreedClient([c EXCEPT !.pcb = "gone", !.recvOn = FALSE])

\* The window is not opened again.
MutSocksSendHandlerDone(n) ==
    /\ c.exists /\ n \in 1..c.sending
    /\ LET d == [c EXCEPT !.bufUsed = @ - n, !.sending = 0]
       IN  c' = IF d.bufUsed > 0 THEN SendToSocks(d) ELSE IF d.clientClosed THEN FreeSocks(d) ELSE d

\* client_socks_send_handler_done
SocksSendHandlerDone(n) ==
    /\ c.exists /\ n \in 1..c.sending
    /\ LET d == [c EXCEPT !.bufUsed = @ - n, !.sending = 0,
                          !.rcvWnd = IF c.clientClosed THEN @ ELSE @ + n]
       IN  c' = IF d.bufUsed > 0 THEN SendToSocks(d) ELSE IF d.clientClosed THEN FreeSocks(d) ELSE d

-----------------------------------------------------------------------------
(* From SOCKS to the client.                                               *)

\* client_socks_recv_initiate
RecvInitiate(d) == [d EXCEPT !.receiving = TRUE]

\* client_socks_recv_send_out: its outcomes, and whether it aborted.  lwIP
\* takes w bytes, fewer than there are when its buffer or memory is full, or
\* reports an error.
SendOut(d) ==
    {<<FreeClient(d), TRUE>>} \union
    {LET e == [d EXCEPT !.recvBufSent = @ + w, !.pending = @ + w, !.unacked = @ + w]
     IN  IF e.recvBufSent < e.recvBufUsed
         THEN IF e.pending = 0 THEN <<FreeClient(e), TRUE>> ELSE <<[e EXCEPT !.waiting = TRUE], FALSE>>
         ELSE <<[e EXCEPT !.recvBufUsed = -1], FALSE>> :
       w \in {x \in 0..(d.recvBufUsed - d.recvBufSent) : x <= SndBuf - d.unacked}}

\* client_socks_recv_handler_done
SocksRecvHandlerDone(n) ==
    /\ c.exists /\ c.receiving
    /\ LET d == [c EXCEPT !.receiving = FALSE]
       IN  IF d.clientClosed THEN c' = d
           ELSE \E o \in SendOut([d EXCEPT !.recvBufUsed = n, !.recvBufSent = 0, !.waiting = FALSE]) :
                  c' = IF ~o[2] /\ o[1].recvBufUsed = -1 THEN RecvInitiate(o[1]) ELSE o[1]

\* Nothing is queued any more once SOCKS has closed.
MutClientSentFunc(n) ==
    /\ c.exists /\ ~c.clientClosed /\ c.pcb = "open" /\ ~c.sync /\ n \in 1..c.unacked
    /\ LET d == [c EXCEPT !.pending = @ - n, !.unacked = @ - n]
       IN  IF d.recvBufUsed > 0 /\ ~d.socksClosed
           THEN \E o \in SendOut([d EXCEPT !.waiting = FALSE]) :
                  c' = IF ~o[2] /\ o[1].recvBufUsed = -1
                       THEN RecvInitiate([o[1] EXCEPT !.sync = TRUE]) ELSE o[1]
           ELSE c' = IF d.socksClosed /\ d.recvBufUsed = -1 /\ d.pending = 0 THEN FreeClient(d) ELSE d

\* client_sent_func: the client has acknowledged n bytes.
ClientSentFunc(n) ==
    /\ c.exists /\ ~c.clientClosed /\ c.pcb = "open" /\ ~c.sync /\ n \in 1..c.unacked
    /\ LET d == [c EXCEPT !.pending = @ - n, !.unacked = @ - n]
       IN  IF d.recvBufUsed > 0
           THEN \E o \in SendOut([d EXCEPT !.waiting = FALSE]) :
                  c' = IF ~o[2] /\ o[1].recvBufUsed = -1 /\ ~o[1].socksClosed
                       THEN RecvInitiate([o[1] EXCEPT !.sync = TRUE]) ELSE o[1]
           ELSE c' = IF d.socksClosed /\ d.pending = 0 THEN FreeClient(d) ELSE d

-----------------------------------------------------------------------------
(* The SOCKS connection, and lwIP.                                         *)

\* client_socks_handler.  UP starts what waits in both directions.
ClientSocksHandler(s, event) ==
    LET d == [c EXCEPT !.socks = s]
        up == [d EXCEPT !.recvBufUsed = -1, !.pending = 0, !.socksUp = TRUE]
        sends == IF up.bufUsed > 0 THEN SendToSocks(up) ELSE up
    IN  IF event = "none" THEN d
        ELSE IF event # "UP" THEN FreeSocks(d)
        ELSE IF up.clientClosed THEN sends ELSE RecvInitiate(sends)

\* The end of the stream is only seen by a receive.
SocksFails(o) == o[2] = "ERROR" \/ (o[2] = "ERROR_CLOSED" /\ c.receiving)
SocksEvent ==
    /\ c.exists /\ ~c.socksClosed
    /\ \E o \in Outcomes(c.socks) :
         (SocksFails(o) \/ o[2] \in {"none", "UP"}) /\ c' = ClientSocksHandler(o[1], o[2])

\* A callback that ran the pending jobs returns, with ERR_ABRT if killed;
\* otherwise lwIP goes on with the pcb.
CallbackReturns ==
    /\ c.sync
    /\ c' = [c EXCEPT !.sync = FALSE, !.killed = FALSE]

Next ==
    \/ ListenerAcceptFunc \/ ClientRecvClosed \/ ClientErrFunc \/ ClientMurder
    \/ SocksEvent \/ CallbackReturns
    \/ \E n \in 1..TcpWnd : ClientRecvData(n) \/ SocksSendHandlerDone(n)
    \/ \E n \in 1..RecvBufSize : SocksRecvHandlerDone(n)
    \/ \E n \in 1..SndBuf : ClientSentFunc(n)

Spec == Init /\ [][Next]_c
-----------------------------------------------------------------------------
\* The types of the fields.
TypeOK ==
    c \in [exists : BOOLEAN, clientClosed : BOOLEAN, bufUsed : 0..TcpWnd,
           socksUp : BOOLEAN, socksClosed : BOOLEAN,
           recvBufUsed : {-1} \union (1..RecvBufSize), recvBufSent : 0..RecvBufSize, waiting : BOOLEAN,
           pending : 0..SndBuf, socks : Client, sending : 0..TcpWnd, receiving : BOOLEAN,
           pcb : {"none", "open", "gone", "released", "twice"}, recvOn : BOOLEAN,
           rcvWnd : 0..TcpWnd, unacked : 0..SndBuf, sync : BOOLEAN, killed : BOOLEAN]

\* In every order of the two ends, of an error of lwIP and of the end of
\* tun2socks, the SOCKS client is freed once, all of it, the pcb is closed or
\* aborted once and never after lwIP has given it up, and no client is
\* deallocated while it holds either.
HalvesFreedOnce ==
    /\ c.pcb # "twice"
    /\ c.socksClosed => c.socks.held = Nothing
    /\ ~c.exists => c.socksClosed /\ c.pcb # "open"

\* The window that lwIP offers to the client is what buf has left, so the
\* "no buffer for data !?!" of client_recv_func cannot happen.
WindowMatchesBuffer == c.recvOn => c.rcvWnd = TcpWnd - c.bufUsed

\* socks_recv_tcp_pending is what lwIP has not had acknowledged: the
\* assertion on the length in client_sent_func holds, and the flush after the
\* end of SOCKS ends with the last byte.
PendingMatches == ~c.clientClosed => c.pending = c.unacked

\* A client never stands still: the side that has data or has not ended has an
\* operation under way, and a client of which one half has closed waits for
\* data of the other that was not delivered yet.  What waits for the device's
\* acknowledgement waits on a pcb that still reports it.
NoStall ==
    c.exists =>
      /\ ~(c.clientClosed /\ c.socksClosed)
      /\ c.clientClosed => c.bufUsed > 0
      /\ ~c.clientClosed => c.pcb = "open"
      /\ c.socksUp /\ ~c.socksClosed /\ c.bufUsed > 0 => c.sending > 0
      /\ c.socksUp /\ ~c.socksClosed /\ ~c.clientClosed => c.receiving \/ (c.waiting /\ c.unacked > 0)
      /\ c.socksClosed => c.unacked > 0

\* A callback of lwIP inside which the client was freed knows it from
\* dead_client and returns ERR_ABRT; otherwise lwIP still has the pcb.
AbortReported == c.sync /\ ~c.killed => c.exists /\ c.pcb = "open"

\* SOCKS is given up with data of the client in the buffer only if it failed
\* itself or tun2socks ends, not because the client has closed or failed.
ClientDataFlushed ==
    [][c.exists /\ ~c.socksClosed /\ c'.socksClosed =>
         c.bufUsed = 0 \/ SocksEvent \/ ClientMurder \/ SocksSendHandlerDone(c.bufUsed)]_c

\* The end of SOCKS closes the client at once only if the client has
\* acknowledged all that SOCKS had sent.
ReplyFlushed ==
    [][SocksEvent /\ ~c.clientClosed /\ c'.clientClosed => c.unacked = 0 /\ c.recvBufUsed = -1]_c
=============================================================================
