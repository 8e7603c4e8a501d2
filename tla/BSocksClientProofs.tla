------------------------- MODULE BSocksClientProofs -------------------------
(***************************************************************************)
(* What a SOCKS client holds in each state, kept by every handler: the     *)
(* lemmas that the proofs about its two users, UdpGw and TcpRelay, share.  *)
(***************************************************************************)
EXTENDS BSocksClient, TLAPS

\* What a client holds in each state.
HeldIn(state) ==
  Add(Nothing, {"connector"} \union
               IF state = "CONNECTING" THEN {}
               ELSE IF state = "UP" THEN {"connection", "up"}
               ELSE {"connection", "control", "buffer"}, 1)

\* A client in one of its states, holding what the state says.
Sound(s) == s.state \in States /\ s = [state |-> s.state, held |-> HeldIn(s.state)]

LEMMA InitIsSound == Sound(BSocksClient_Init) /\ BSocksClient_Init.state = "CONNECTING"
BY DEF Sound, BSocksClient_Init, HeldIn, States

\* BSocksClient_Free gives back everything, from every state.
LEMMA FreeReleases ==
  ASSUME NEW s, Sound(s) PROVE BSocksClient_Free(s) = Nothing
<1>1. s.state \in States /\ s.held = HeldIn(s.state)
  BY DEF Sound
<1>2. CASE s.state = "CONNECTING"
  BY <1>1, <1>2 DEF BSocksClient_Free, HeldIn, Add, Nothing, Resources
<1>3. CASE s.state = "UP"
  BY <1>1, <1>3 DEF BSocksClient_Free, HeldIn, Add, Nothing, Resources
<1>4. CASE s.state # "CONNECTING" /\ s.state # "UP"
  BY <1>1, <1>4 DEF BSocksClient_Free, HeldIn, Add, Nothing, Resources
<1> QED
  BY <1>2, <1>3, <1>4

\* Every handler leaves a sound client, and reports UP when it gets there.
LEMMA OutcomesSound ==
  ASSUME NEW s, Sound(s), NEW o \in Outcomes(s)
  PROVE  /\ Sound(o[1]) /\ o[2] \in {"none", "UP", "ERROR", "ERROR_CLOSED"}
         /\ o[2] = "UP" => o[1].state = "UP" /\ s.state # "UP"
         /\ o[2] = "none" => s.state # "UP" /\ o[1].state # "UP"
<1>1. s.state \in States /\ s = [state |-> s.state, held |-> HeldIn(s.state)]
  BY DEF Sound
<1>2. CASE s.state = "CONNECTING"
  <2>1. Add(Add(s.held, {"connection", "control"}, 1), {"connection", "control"}, -1) = s.held
    BY <1>1, <1>2 DEF HeldIn, Add, Nothing, Resources
  <2>2. ReserveBuffer(Add(s.held, {"connection", "control"}, 1)) = HeldIn("SENDING_HELLO")
    <3> DEFINE up == Add(s.held, {"connection", "control"}, 1)
    <3>1. up \in [Resources -> Int] /\ \A r \in Resources \ {"buffer"} : up[r] = HeldIn("SENDING_HELLO")[r]
      BY <1>1, <1>2 DEF HeldIn, Add, Nothing, Resources
    <3>2. HeldIn("SENDING_HELLO") \in [Resources -> Int] /\ HeldIn("SENDING_HELLO")["buffer"] = 1
      BY DEF HeldIn, Add, Nothing, Resources
    <3>3. ReserveBuffer(up) = HeldIn("SENDING_HELLO")
      <4> HIDE DEF up
      <4> QED
        BY <3>1, <3>2 DEF ReserveBuffer, Resources
    <3> QED
      BY <3>3
  <2>3. o \in ConnectorHandler(s)
    BY <1>2 DEF Outcomes
  <2>4. o = <<s, "ERROR">> \/ o = <<[state |-> "SENDING_HELLO", held |-> HeldIn("SENDING_HELLO")], "none">>
    BY <1>1, <2>1, <2>2, <2>3 DEF ConnectorHandler, Failed
  <2> QED
    BY <1>1, <1>2, <2>4 DEF Sound, States
<1>3. CASE s.state = "UP"
  <2>1. o \in ConnectionHandler(s)
    BY <1>3 DEF Outcomes
  <2> QED
    BY <1>1, <1>3, <2>1 DEF ConnectionHandler, Failed, Sound
<1>4. CASE s.state # "CONNECTING" /\ s.state # "UP"
  <2> DEFINE Up == [state |-> "UP", held |-> Add(Add(s.held, {"buffer", "control"}, -1), {"up"}, 1)]
             To(t) == [s EXCEPT !.state = t]
  <2>1. s.state = "RECEIVED_REPLY_HEADER" => Up.held = HeldIn("UP")
    BY <1>1, <1>4 DEF HeldIn, Add, Nothing, Resources
  <2>2. \A t : To(t) = [state |-> t, held |-> s.held]
    BY <1>1
  <2>3. \A t \in States : t # "CONNECTING" /\ t # "UP" => Sound(To(t)) /\ To(t).state = t
    BY <1>1, <1>4, <2>2 DEF Sound, HeldIn
  <2>4. o \in ConnectionHandler(s) \/ o \in SendHandlerDone(s) \/ o \in RecvHandlerDone(s)
    BY <1>4 DEF Outcomes
  <2>5. CASE o \in ConnectionHandler(s)
    BY <1>4, <2>5 DEF ConnectionHandler, Failed
  <2>6. CASE o \in SendHandlerDone(s)
    <3>1. o = <<s, "ERROR">> \/ \E t \in {"SENT_HELLO", "SENT_PASSWORD", "SENT_REQUEST"} : o = <<To(t), "none">>
      BY <2>6 DEF SendHandlerDone, Failed, Moved
    <3>2. CASE o = <<s, "ERROR">>
      BY <3>2
    <3>3. ASSUME NEW t \in {"SENT_HELLO", "SENT_PASSWORD", "SENT_REQUEST"}, o = <<To(t), "none">>
          PROVE  Sound(o[1]) /\ o[2] = "none" /\ o[1].state # "UP"
      BY <3>3, <2>3, Zenon DEF States
    <3> HIDE DEF To
    <3> QED
      BY <3>1, <3>2, <3>3, <1>4
  <2>7. CASE o \in RecvHandlerDone(s)
    <3>1. \/ o = <<s, "ERROR">>
          \/ o = <<Up, "UP">> /\ s.state = "RECEIVED_REPLY_HEADER"
          \/ \E t \in {s.state, "SENDING_REQUEST", "SENDING_PASSWORD", "RECEIVED_REPLY_HEADER"} : o = <<To(t), "none">>
      BY <2>7 DEF RecvHandlerDone, Failed, Moved, AnswerLeadsTo
    <3>2. CASE o = <<s, "ERROR">>
      BY <3>2
    <3>3. CASE o = <<Up, "UP">> /\ s.state = "RECEIVED_REPLY_HEADER"
      BY <3>3, <2>1, <1>4 DEF States, Sound
    <3>4. ASSUME NEW t \in {s.state, "SENDING_REQUEST", "SENDING_PASSWORD", "RECEIVED_REPLY_HEADER"},
                 o = <<To(t), "none">>
          PROVE  Sound(o[1]) /\ o[2] = "none" /\ o[1].state # "UP"
      BY <3>4, <2>3, <1>1, <1>4 DEF States
    <3> HIDE DEF To, Up
    <3> QED
      BY <3>1, <3>2, <3>3, <3>4, <1>4
  <2> QED
    BY <2>4, <2>5, <2>6, <2>7
<1> QED
  BY <1>2, <1>3, <1>4
\* A sound client has the fields of a client; so has one that was freed.
LEMMA SoundIsClient == \A s : Sound(s) => s \in Client
BY DEF Sound, Client, HeldIn, Add, Nothing, Resources

LEMMA NothingIsHeld == Nothing \in [Resources -> Int]
BY DEF Nothing

=============================================================================
