---------------------------- MODULE BSocksClient ----------------------------
(***************************************************************************)
(* The SOCKS client as a sequential object: its state, and what it holds.  *)
(* A client is a record; a handler is the set of its outcomes, each a pair *)
(* of the next record and the event the user gets ("none" if there is      *)
(* none).  Messages are not modelled: every message can be accepted,       *)
(* refused or arrive in parts.                                             *)
(***************************************************************************)
EXTENDS Integers

CONSTANT AuthMethods    \* the methods of auth_info: "none", "password"

Resources == {"connector", "connection", "control", "up", "buffer"}

\* How often each resource is held: 1 after its Init, 0 after its Free; a leak
\* stays 1, a double free gives -1.
Add(held, rs, n) == [r \in Resources |-> IF r \in rs THEN held[r] + n ELSE held[r]]
Nothing == [r \in Resources |-> 0]

BSocksClient_Init == [state |-> "CONNECTING", held |-> Add(Nothing, {"connector"}, 1)]

\* reserve_buffer reallocates: the first call takes the buffer.
ReserveBuffer(held) == [held EXCEPT !["buffer"] = 1]

Moved(s, state) == {<<[s EXCEPT !.state = state], "none">>}
Failed(s) == {<<s, "ERROR">>}

\* fail1 that keeps the connection.
MutConnectorHandler(s) ==
    LET up == Add(s.held, {"connection", "control"}, 1)
    IN  Failed(s) \union Failed([s EXCEPT !.held = Add(up, {"control"}, -1)])
        \union {<<[state |-> "SENDING_HELLO", held |-> ReserveBuffer(up)], "none">> : a \in AuthMethods}

\* connector_handler.  fail0: no connection; fail1: no method or no memory,
\* and what was taken is given back, with the state still CONNECTING.
ConnectorHandler(s) ==
    LET up == Add(s.held, {"connection", "control"}, 1)
    IN  Failed(s) \union Failed([s EXCEPT !.held = Add(up, {"connection", "control"}, -1)])
        \union {<<[state |-> "SENDING_HELLO", held |-> ReserveBuffer(up)], "none">> : a \in AuthMethods}

\* connection_handler: the connection has ended.
ConnectionHandler(s) ==
    Failed(s) \union {<<s, "ERROR_CLOSED">> : x \in {s.state} \intersect {"UP"}}

\* send_handler_done: there is no memory to receive the answer, or it is next.
SendHandlerDone(s) ==
    Failed(s) \union
    Moved(s, IF s.state = "SENDING_HELLO" THEN "SENT_HELLO"
             ELSE IF s.state = "SENDING_PASSWORD" THEN "SENT_PASSWORD" ELSE "SENT_REQUEST")

\* The states that a complete and acceptable answer leads to.
AnswerLeadsTo(state) ==
    IF state = "SENT_HELLO"
    THEN {IF a = "none" THEN "SENDING_REQUEST" ELSE "SENDING_PASSWORD" : a \in AuthMethods}
    ELSE IF state = "SENT_PASSWORD" THEN {"SENDING_REQUEST"} ELSE {"RECEIVED_REPLY_HEADER"}

\* recv_handler_done: a part of an answer, a refusal, or the next state; after
\* the rest of the reply the control I/O makes way for the user's.
RecvHandlerDone(s) ==
    Moved(s, s.state) \union
    IF s.state = "RECEIVED_REPLY_HEADER"
    THEN {<<[state |-> "UP", held |-> Add(Add(s.held, {"buffer", "control"}, -1), {"up"}, 1)], "UP">>}
    ELSE Failed(s) \union UNION {Moved(s, t) : t \in AnswerLeadsTo(s.state)}

\* The outcomes of whatever the reactor calls next.
Outcomes(s) ==
    IF s.state = "CONNECTING" THEN ConnectorHandler(s)
    ELSE ConnectionHandler(s) \union
         IF s.state \in {"SENDING_HELLO", "SENDING_PASSWORD", "SENDING_REQUEST"} THEN SendHandlerDone(s)
         ELSE IF s.state = "UP" THEN {} ELSE RecvHandlerDone(s)

\* What BSocksClient_Free leaves held.
BSocksClient_Free(s) ==
    LET io == IF s.state = "CONNECTING" THEN {}
              ELSE {"connection", IF s.state = "UP" THEN "up" ELSE "control"}
        buffer == {r \in {"buffer"} : s.held[r] # 0}
    IN  Add(s.held, {"connector"} \union io \union buffer, -1)

States == {"CONNECTING", "SENDING_HELLO", "SENT_HELLO", "SENDING_PASSWORD", "SENT_PASSWORD",
           "SENDING_REQUEST", "SENT_REQUEST", "RECEIVED_REPLY_HEADER", "UP"}
Client == [state : States, held : [Resources -> Int]]
=============================================================================
