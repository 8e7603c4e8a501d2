-------------------------- MODULE ClientFeedProofs --------------------------
(***************************************************************************)
(* The clients of the service, for any number of them, any number of       *)
(* states and any number of deaths of its process.                         *)
(***************************************************************************)
EXTENDS ClientFeed, TLAPS

USE BoundsAssumption

Calls == {"put", "get", "reply"}

\* A client a that the service has listed (in), has still to notify (due), and
\* whose state is s.
Good(a, in, due, s) ==
  a.life # "dead" =>
    /\ a.flag => a.bound
    /\ a.bound => a.flag \/ a.died
    /\ a.service => a.bound
    /\ a.conn # "none" => a.bound
    /\ a.conn = "connected" /\ ~a.died => a.service
    /\ a.conn = "connected" /\ a.service => a.at \in Calls \union {"unbind"} \/ in
    /\ a.stopped /\ a.at \notin {"unregister", "unbind"} => ~a.flag
    /\ a.at \in Calls => a.service /\ a.conn = "connected"
    /\ a.at = "put" => ~in
    /\ a.at \in {"get", "reply"} => in
    /\ in => a.service /\ a.conn = "connected" /\ a.at # "unbind"
    /\ a.newest <= s /\ a.read <= s
    /\ in /\ ~due /\ a.at \notin Calls => a.newest = s /\ (a.by = "notify" => a.last = s)
    /\ in /\ ~due /\ a.at = "reply" => a.read = s \/ a.newest = s

IInv ==
  /\ TypeOK
  /\ ~svc.up => svc.clients = {} /\ svc.todo = {}
  /\ \A c \in Clients : Good(app[c], c \in svc.clients, c \in svc.todo, svc.state)

\* An app of its own type, that calls unregisterClient only on a service.
OkApp(a) == a \in App /\ (a.at = "unregister" => a.service)
\* A service of its type, listing nobody while it is down.
OkSvc(v) ==
  /\ v \in [up : BOOLEAN, state : 0..MaxState, clients : SUBSET Clients, todo : SUBSET Clients]
  /\ ~v.up => v.clients = {} /\ v.todo = {}

LEMMA IInvParts ==
  IInv <=> /\ OkSvc(svc) /\ ends \in 0..MaxEnds
           /\ app \in [Clients -> App] /\ \A c \in Clients : OkApp(app[c])
           /\ \A c \in Clients : Good(app[c], c \in svc.clients, c \in svc.todo, svc.state)
BY DEF IInv, TypeOK, OkApp, OkSvc

\* A step that changes one app.
LEMMA OneApp ==
  ASSUME IInv, NEW c \in Clients, NEW b, app' = [app EXCEPT ![c] = b], ends' = ends, OkApp(b),
         OkSvc(svc'), svc'.state = svc.state,
         Good(b, c \in svc'.clients, c \in svc'.todo, svc.state),
         \A d \in Clients \ {c} : (d \in svc'.clients <=> d \in svc.clients) /\ (d \in svc'.todo <=> d \in svc.todo)
  PROVE  IInv'
<1>1. /\ app \in [Clients -> App] /\ \A d \in Clients : OkApp(app[d])
      /\ \A d \in Clients : Good(app[d], d \in svc.clients, d \in svc.todo, svc.state)
      /\ ends \in 0..MaxEnds
  BY IInvParts
<1>2. app' \in [Clients -> App] /\ app'[c] = b /\ \A d \in Clients \ {c} : app'[d] = app[d]
  BY <1>1 DEF OkApp
<1>3. \A d \in Clients : OkApp(app'[d])
  BY <1>1, <1>2
<1>4. ASSUME NEW d \in Clients
      PROVE  Good(app'[d], d \in svc'.clients, d \in svc'.todo, svc'.state)
  <2>1. CASE d = c
    BY <1>2, <2>1
  <2>2. CASE d # c
    <3>1. app'[d] = app[d] /\ Good(app[d], d \in svc.clients, d \in svc.todo, svc.state)
      BY <1>1, <1>2, <2>2
    <3>2. (d \in svc'.clients <=> d \in svc.clients) /\ (d \in svc'.todo <=> d \in svc.todo)
      BY <2>2
    <3> QED
      BY <3>1, <3>2 DEF Good
  <2> QED
    BY <2>1, <2>2
<1>5. OkSvc(svc') /\ ends' \in 0..MaxEnds
  BY <1>1
<1> QED
  BY <1>2, <1>3, <1>4, <1>5 DEF IInv, TypeOK, OkApp, OkSvc

\* What holds of one app before the step.
LEMMA AppOf ==
  ASSUME IInv, NEW c \in Clients
  PROVE  /\ app[c] \in App /\ OkApp(app[c]) /\ OkSvc(svc) /\ svc.state \in 0..MaxState
         /\ Good(app[c], c \in svc.clients, c \in svc.todo, svc.state)
BY IInvParts DEF OkSvc

LEMMA NewAppType == 0 \in 0..MaxState /\ NewApp \in App
<1>1. 0 \in 0..MaxState
  OBVIOUS
<1> QED
  BY <1>1 DEF NewApp, App, Events

-----------------------------------------------------------------------------
(* The app's actions.                                                      *)

LEMMA OnStartKeeps ==
  ASSUME IInv, NEW c \in Clients, OnStart(c)
  PROVE  IInv'
<1> DEFINE a == app[c]
<1>0. /\ a \in App /\ OkApp(a) /\ OkSvc(svc) /\ a.at = "idle" /\ a.life = "live"
      /\ Good(a, c \in svc.clients, c \in svc.todo, svc.state)
  BY AppOf DEF OnStart, Idle
<1>1. PICK result \in BOOLEAN : app' = [app EXCEPT ![c] = BindService([a EXCEPT !.stopped = FALSE], result)]
  BY Zenon DEF OnStart
<1>2. svc' = svc /\ ends' = ends
  BY DEF OnStart
<1> HIDE DEF a
<1> DEFINE d == [a EXCEPT !.stopped = FALSE]
           b == BindService(d, result)
<1>3. d \in App /\ d.at = "idle" /\ Good(d, c \in svc.clients, c \in svc.todo, svc.state) /\ ~d.stopped
  BY <1>0, Zenon DEF App, Good, Calls
<1> HIDE DEF d
<1>4. b \in App /\ b.at = "idle" /\ Good(b, c \in svc.clients, c \in svc.todo, svc.state)
  <2>1. CASE d.flag
    BY <1>3, <2>1 DEF BindService
  <2>2. CASE ~d.flag /\ result
    BY <1>3, <2>2, Zenon DEF BindService, App, Good, Calls
  <2>3. CASE ~d.flag /\ ~result
    BY <1>3, <2>3 DEF BindService, App, Events, Good, Calls
  <2> QED
    BY <2>1, <2>2, <2>3
<1>5. OkApp(b)
  BY <1>4 DEF OkApp
<1>6. app' = [app EXCEPT ![c] = b]
  BY <1>1 DEF d, a
<1> HIDE DEF b
<1> QED
  BY <1>0, <1>2, <1>4, <1>5, <1>6, OneApp, Zenon

LEMMA StopBeginsKeeps ==
  ASSUME NEW a \in App, NEW in, NEW due, NEW v, a.at = "idle", Good(a, in, due, v)
  PROVE  OkApp(StopBegins(a)) /\ Good(StopBegins(a), in, due, v)
<1> DEFINE b == StopBegins(a)
<1>1. /\ b \in App /\ b.stopped /\ b.by = "unknown" /\ b.at = (IF a.service THEN "unregister" ELSE "unbind")
      /\ b.service = a.service /\ b.flag = a.flag /\ b.bound = a.bound /\ b.died = a.died
      /\ b.conn = a.conn /\ b.newest = a.newest /\ b.read = a.read /\ b.life = a.life
  BY Zenon DEF StopBegins, App, Events
<1> HIDE DEF b
<1>2. OkApp(b)
  BY <1>1 DEF OkApp
<1>3. Good(b, in, due, v)
  BY <1>1 DEF Good, Calls
<1> QED
  BY <1>2, <1>3 DEF b

LEMMA OnStopKeeps ==
  ASSUME IInv, NEW c \in Clients, OnStop(c) \/ Cleanup(c)
  PROVE  IInv'
<1> DEFINE a == app[c]
<1>0. /\ a \in App /\ OkSvc(svc) /\ a.at = "idle" /\ svc' = svc /\ ends' = ends
      /\ Good(a, c \in svc.clients, c \in svc.todo, svc.state) /\ svc.state \in Nat
  BY AppOf DEF OnStop, Cleanup, Idle
<1>1. OkApp(StopBegins(a)) /\ Good(StopBegins(a), c \in svc.clients, c \in svc.todo, svc.state)
  BY <1>0, StopBeginsKeeps
<1>2. CASE OnStop(c)
  <2>1. app' = [app EXCEPT ![c] = StopBegins(a)]
    BY <1>2 DEF OnStop
  <2> HIDE DEF a
  <2> QED
    BY <1>0, <1>1, <2>1, OneApp, Zenon
<1>3. CASE Cleanup(c)
  <2> DEFINE e == StopBegins(a)
             b == [e EXCEPT !.life = "cleaned"]
  <2>1. app' = [app EXCEPT ![c] = b] /\ e.life # "dead"
    BY <1>0, <1>3 DEF Cleanup, StopBegins, App
  <2> HIDE DEF a, e
  <2>2. e \in App /\ OkApp(e) /\ Good(e, c \in svc.clients, c \in svc.todo, svc.state)
    BY <1>1 DEF OkApp, e
  <2>3. OkApp(b) /\ Good(b, c \in svc.clients, c \in svc.todo, svc.state)
    BY <2>1, <2>2 DEF OkApp, App, Good
  <2> HIDE DEF b
  <2> QED
    BY <1>0, <2>1, <2>3, OneApp, Zenon
<1> QED
  BY <1>2, <1>3

LEMMA UnregisterKeeps ==
  ASSUME IInv, NEW c \in Clients, UnregisterClient(c)
  PROVE  IInv'
<1> DEFINE a == app[c]
           b == [a EXCEPT !.at = "unbind"]
<1>0. /\ a \in App /\ OkSvc(svc) /\ a.at = "unregister" /\ a.life # "dead"
      /\ Good(a, c \in svc.clients, c \in svc.todo, svc.state)
  BY AppOf DEF UnregisterClient
<1>1. svc' = [svc EXCEPT !.clients = @ \ {c}] /\ ends' = ends /\ app' = [app EXCEPT ![c] = b]
  BY DEF UnregisterClient
<1> HIDE DEF a
<1>2. /\ OkSvc(svc') /\ svc'.state = svc.state /\ c \notin svc'.clients /\ svc'.todo = svc.todo
      /\ \A d \in Clients \ {c} : (d \in svc'.clients <=> d \in svc.clients)
  BY <1>0, <1>1 DEF OkSvc
<1>3. OkApp(b) /\ Good(b, FALSE, c \in svc.todo, svc.state)
  BY <1>0 DEF OkApp, App, Good, Calls
<1>4. Good(b, c \in svc'.clients, c \in svc'.todo, svc.state)
  BY <1>2, <1>3 DEF Good
<1> HIDE DEF b
<1> QED
  BY <1>1, <1>2, <1>3, <1>4, OneApp, Zenon

LEMMA UnbindKeeps ==
  ASSUME IInv, NEW c \in Clients, Unbind(c)
  PROVE  IInv'
<1> DEFINE a == app[c]
           e == [a EXCEPT !.at = "idle", !.service = FALSE]
           b == IF e.flag THEN [e EXCEPT !.flag = FALSE, !.bound = FALSE, !.conn = "none", !.died = FALSE] ELSE e
<1>0. /\ a \in App /\ OkSvc(svc) /\ a.at = "unbind" /\ a.life # "dead"
      /\ Good(a, c \in svc.clients, c \in svc.todo, svc.state)
  BY AppOf DEF Unbind
<1>1. svc' = svc /\ ends' = ends /\ app' = [app EXCEPT ![c] = b]
  BY DEF Unbind
<1> HIDE DEF a
<1>2. /\ e \in App /\ e.at = "idle" /\ ~e.service /\ e.flag = a.flag /\ e.bound = a.bound /\ e.died = a.died
      /\ e.conn = a.conn /\ e.newest = a.newest /\ e.read = a.read /\ c \notin svc.clients
  BY <1>0, Zenon DEF App, Good
<1> HIDE DEF e
<1>3. OkApp(b) /\ Good(b, c \in svc.clients, c \in svc.todo, svc.state)
  <2>1. CASE e.flag
    <3>1. /\ b \in App /\ b.at = "idle" /\ ~b.service /\ ~b.flag /\ ~b.bound /\ b.conn = "none"
          /\ b.newest = e.newest /\ b.read = e.read
      BY <1>2, <2>1, Zenon DEF App
    <3> HIDE DEF b
    <3> QED
      BY <1>0, <1>2, <3>1 DEF OkApp, Good, Calls
  <2>2. CASE ~e.flag
    <3>1. b = e
      BY <2>2
    <3> QED
      BY <1>0, <1>2, <2>2, <3>1 DEF OkApp, Good, Calls
  <2> QED
    BY <2>1, <2>2
<1> HIDE DEF b
<1> QED
  BY <1>0, <1>1, <1>3, OneApp, Zenon

LEMMA ConnectedKeeps ==
  ASSUME IInv, NEW c \in Clients, OnServiceConnected(c) \/ OnServiceDisconnected(c)
  PROVE  IInv'
<1> DEFINE a == app[c]
<1>0. /\ a \in App /\ OkSvc(svc) /\ a.at = "idle" /\ svc' = svc /\ ends' = ends
      /\ Good(a, c \in svc.clients, c \in svc.todo, svc.state) /\ a.life # "dead"
  BY AppOf DEF OnServiceConnected, OnServiceDisconnected, Idle
<1>1. CASE OnServiceConnected(c)
  <2> DEFINE b == [a EXCEPT !.conn = "connected", !.service = TRUE, !.at = "put"]
  <2>1. app' = [app EXCEPT ![c] = b] /\ a.bound /\ a.conn = "none"
    BY <1>1 DEF OnServiceConnected
  <2> HIDE DEF a
  <2>2. /\ b \in App /\ b.at = "put" /\ b.service /\ b.conn = "connected" /\ b.bound = a.bound /\ b.flag = a.flag
        /\ b.died = a.died /\ b.stopped = a.stopped /\ b.newest = a.newest /\ b.read = a.read
    BY <1>0, Zenon DEF App
  <2> HIDE DEF b
  <2>3. OkApp(b) /\ Good(b, c \in svc.clients, c \in svc.todo, svc.state)
    BY <1>0, <2>1, <2>2 DEF OkApp, Good, Calls
  <2> QED
    BY <1>0, <2>1, <2>3, OneApp, Zenon
<1>2. CASE OnServiceDisconnected(c)
  <2> DEFINE b == [a EXCEPT !.conn = "none", !.service = FALSE, !.by = "stopped", !.flag = FALSE, !.died = TRUE]
  <2>1. app' = [app EXCEPT ![c] = b] /\ a.conn = "lost"
    BY <1>2 DEF OnServiceDisconnected
  <2> HIDE DEF a
  <2>2. /\ b \in App /\ b.at = "idle" /\ ~b.service /\ ~b.flag /\ b.died /\ b.conn = "none"
        /\ b.newest = a.newest /\ b.read = a.read
    BY <1>0, Zenon DEF App, Events
  <2> HIDE DEF b
  <2>3. OkApp(b) /\ Good(b, c \in svc.clients, c \in svc.todo, svc.state)
    BY <1>0, <2>1, <2>2 DEF OkApp, Good, Calls
  <2> QED
    BY <1>0, <2>1, <2>3, OneApp, Zenon
<1> QED
  BY <1>1, <1>2

LEMMA AppDiesKeeps ==
  ASSUME IInv, NEW c \in Clients, AppDies(c)
  PROVE  IInv'
<1> DEFINE t == IF Calling(c) THEN app[c].at ELSE "idle"
           b == [NewApp EXCEPT !.life = "dead", !.at = t]
<1>1. app' = [app EXCEPT ![c] = b] /\ svc' = svc /\ ends' = ends /\ OkSvc(svc)
  BY AppOf DEF AppDies
<1>2a. t \in {"idle", "put", "get", "reply"}
  BY DEF Calling
<1> HIDE DEF t
<1>2. b \in App /\ b.life = "dead" /\ b.at # "unregister"
  BY <1>2a, NewAppType, Zenon DEF App
<1> HIDE DEF b
<1>3. OkApp(b) /\ Good(b, c \in svc.clients, c \in svc.todo, svc.state)
  BY <1>2 DEF OkApp, Good
<1> QED
  BY <1>1, <1>3, OneApp, Zenon

-----------------------------------------------------------------------------
(* The service's actions.                                                  *)

LEMMA RegisterPutKeeps ==
  ASSUME IInv, NEW c \in Clients, RegisterPut(c)
  PROVE  IInv'
<1> DEFINE a == app[c]
           b == [a EXCEPT !.at = IF c \in svc.clients THEN "idle" ELSE "get"]
<1>0. /\ a \in App /\ OkSvc(svc) /\ a.at = "put" /\ svc.up
      /\ Good(a, c \in svc.clients, c \in svc.todo, svc.state)
  BY AppOf DEF RegisterPut
<1>1. svc' = [svc EXCEPT !.clients = @ \union {c}] /\ ends' = ends /\ app' = [app EXCEPT ![c] = b]
  BY DEF RegisterPut
<1> HIDE DEF a
<1>2. /\ OkSvc(svc') /\ svc'.state = svc.state /\ c \in svc'.clients /\ svc'.todo = svc.todo
      /\ \A d \in Clients \ {c} : (d \in svc'.clients <=> d \in svc.clients)
  BY <1>0, <1>1 DEF OkSvc
<1>3. /\ b \in App /\ b.life = a.life /\ b.service = a.service /\ b.conn = a.conn /\ b.bound = a.bound
      /\ b.flag = a.flag /\ b.died = a.died /\ b.stopped = a.stopped /\ b.newest = a.newest /\ b.read = a.read
      /\ b.at = IF c \in svc.clients THEN "idle" ELSE "get"
  BY <1>0 DEF App
<1> HIDE DEF b
<1>4. OkApp(b) /\ Good(b, c \in svc'.clients, c \in svc'.todo, svc.state)
  BY <1>0, <1>2, <1>3 DEF OkApp, Good, Calls
<1> QED
  BY <1>1, <1>2, <1>4, OneApp, Zenon

LEMMA RegisterGetKeeps ==
  ASSUME IInv, NEW c \in Clients, RegisterGet(c)
  PROVE  IInv'
<1> DEFINE a == app[c]
           b == [a EXCEPT !.at = "reply", !.read = svc.state]
<1>0. /\ a \in App /\ OkSvc(svc) /\ a.at = "get" /\ svc.state \in 0..MaxState
      /\ Good(a, c \in svc.clients, c \in svc.todo, svc.state)
  BY AppOf DEF RegisterGet
<1>1. svc' = svc /\ ends' = ends /\ app' = [app EXCEPT ![c] = b]
  BY DEF RegisterGet
<1> HIDE DEF a
<1>3. /\ b \in App /\ b.life = a.life /\ b.service = a.service /\ b.conn = a.conn /\ b.bound = a.bound
      /\ b.flag = a.flag /\ b.died = a.died /\ b.stopped = a.stopped /\ b.newest = a.newest
      /\ b.read = svc.state /\ b.at = "reply"
  BY <1>0, Zenon DEF App
<1> HIDE DEF b
<1>4. OkApp(b) /\ Good(b, c \in svc.clients, c \in svc.todo, svc.state)
  BY <1>0, <1>3 DEF OkApp, Good, Calls
<1> QED
  BY <1>0, <1>1, <1>4, OneApp, Zenon

LEMMA ReplyKeeps ==
  ASSUME IInv, NEW c \in Clients, RegisterReply(c)
  PROVE  IInv'
<1> DEFINE a == app[c]
           e == [a EXCEPT !.at = "idle", !.read = 0]
           b == [e EXCEPT !.last = a.read, !.by = "register", !.newest = Newer(@, a.read)]
<1>0. /\ a \in App /\ OkSvc(svc) /\ a.at = "reply" /\ svc.state \in 0..MaxState /\ ends' = ends /\ svc.up
      /\ Good(a, c \in svc.clients, c \in svc.todo, svc.state)
  BY AppOf DEF RegisterReply
<1>1. IF e.life = "dead"
      THEN svc' = [svc EXCEPT !.clients = @ \ {c}, !.todo = svc.todo] /\ app' = [app EXCEPT ![c] = e]
      ELSE svc' = [svc EXCEPT !.todo = svc.todo] /\ app' = [app EXCEPT ![c] = b]
  BY DEF RegisterReply, NotifyClient
<1> HIDE DEF a
<1>2. /\ e \in App /\ e.life = a.life /\ e.service = a.service /\ e.conn = a.conn /\ e.bound = a.bound
      /\ e.flag = a.flag /\ e.died = a.died /\ e.stopped = a.stopped /\ e.newest = a.newest /\ e.read = 0
      /\ e.at = "idle"
  BY <1>0, NewAppType, Zenon DEF App
<1> HIDE DEF e
<1>3. CASE e.life = "dead"
  <2>1. svc' = [svc EXCEPT !.clients = @ \ {c}, !.todo = svc.todo] /\ app' = [app EXCEPT ![c] = e]
    BY <1>1, <1>3
  <2>2. /\ OkSvc(svc') /\ svc'.state = svc.state /\ svc'.todo = svc.todo
        /\ \A d \in Clients \ {c} : (d \in svc'.clients <=> d \in svc.clients)
    BY <1>0, <2>1, Zenon DEF OkSvc
  <2>3. OkApp(e) /\ Good(e, c \in svc'.clients, c \in svc'.todo, svc.state)
    BY <1>2, <1>3 DEF OkApp, Good
  <2> QED
    BY <1>0, <2>1, <2>2, <2>3, OneApp, Zenon
<1>4. CASE e.life # "dead"
  <2>1. svc' = [svc EXCEPT !.todo = svc.todo] /\ app' = [app EXCEPT ![c] = b]
    BY <1>1, <1>4
  <2>2. svc' = svc
    BY <1>0, <2>1 DEF OkSvc
  <2>3. a.read \in 0..MaxState /\ a.newest \in 0..MaxState /\ Newer(a.newest, a.read) \in 0..MaxState
    BY <1>0 DEF App, Newer
  <2>4. /\ b \in App /\ b.life = e.life /\ b.service = e.service /\ b.conn = e.conn /\ b.bound = e.bound
        /\ b.flag = e.flag /\ b.died = e.died /\ b.stopped = e.stopped /\ b.read = e.read /\ b.at = e.at
        /\ b.newest = Newer(a.newest, a.read) /\ b.by = "register"
    BY <1>2, <2>3, Zenon DEF App, Events
  <2> HIDE DEF b
  <2>5. a.newest <= svc.state /\ a.read <= svc.state
        /\ (c \in svc.clients /\ c \notin svc.todo => a.read = svc.state \/ a.newest = svc.state)
    BY <1>0, <1>2, <1>4 DEF Good
  <2>6. b.newest <= svc.state /\ (c \in svc.clients /\ c \notin svc.todo => b.newest = svc.state)
    BY <1>0, <2>3, <2>4, <2>5 DEF Newer
  <2>7. OkApp(b) /\ Good(b, c \in svc.clients, c \in svc.todo, svc.state)
    BY <1>0, <1>2, <1>4, <2>4, <2>6 DEF OkApp, Good, Calls
  <2> QED
    BY <1>0, <2>1, <2>2, <2>7, OneApp, Zenon
<1> QED
  BY <1>3, <1>4

LEMMA NotifyKeeps ==
  ASSUME IInv, NEW c \in Clients, NotifyNext(c)
  PROVE  IInv'
<1> DEFINE a == app[c]
           b == [a EXCEPT !.last = svc.state, !.by = "notify", !.newest = Newer(@, svc.state)]
<1>0. /\ a \in App /\ OkApp(a) /\ OkSvc(svc) /\ svc.state \in 0..MaxState /\ ends' = ends /\ svc.up
      /\ Good(a, c \in svc.clients, c \in svc.todo, svc.state)
  BY AppOf DEF NotifyNext
<1>1. IF a.life = "dead"
      THEN svc' = [svc EXCEPT !.clients = @ \ {c}, !.todo = svc.todo \ {c}] /\ app' = [app EXCEPT ![c] = a]
      ELSE svc' = [svc EXCEPT !.todo = svc.todo \ {c}] /\ app' = [app EXCEPT ![c] = b]
  BY DEF NotifyNext, NotifyClient
<1> HIDE DEF a
<1>3. CASE a.life = "dead"
  <2>1. svc' = [svc EXCEPT !.clients = @ \ {c}, !.todo = svc.todo \ {c}] /\ app' = [app EXCEPT ![c] = a]
    BY <1>1, <1>3
  <2>2. /\ OkSvc(svc') /\ svc'.state = svc.state
        /\ \A d \in Clients \ {c} : (d \in svc'.clients <=> d \in svc.clients) /\ (d \in svc'.todo <=> d \in svc.todo)
    BY <1>0, <2>1, Zenon DEF OkSvc
  <2>3. Good(a, c \in svc'.clients, c \in svc'.todo, svc.state)
    BY <1>3 DEF Good
  <2> QED
    BY <1>0, <2>1, <2>2, <2>3, OneApp, Zenon
<1>4. CASE a.life # "dead"
  <2>1. svc' = [svc EXCEPT !.todo = svc.todo \ {c}] /\ app' = [app EXCEPT ![c] = b]
    BY <1>1, <1>4
  <2>2. /\ OkSvc(svc') /\ svc'.state = svc.state /\ svc'.clients = svc.clients
        /\ \A d \in Clients \ {c} : (d \in svc'.todo <=> d \in svc.todo)
    BY <1>0, <2>1 DEF OkSvc
  <2>3. a.newest \in 0..MaxState /\ a.newest <= svc.state
    BY <1>0, <1>4 DEF App, Good
  <2>4. Newer(a.newest, svc.state) = svc.state
    BY <1>0, <2>3 DEF Newer
  <2>5. /\ b \in App /\ b.life = a.life /\ b.service = a.service /\ b.conn = a.conn /\ b.bound = a.bound
        /\ b.flag = a.flag /\ b.died = a.died /\ b.stopped = a.stopped /\ b.read = a.read /\ b.at = a.at
        /\ b.newest = svc.state /\ b.by = "notify" /\ b.last = svc.state
    BY <1>0, <2>4, Zenon DEF App, Events
  <2> HIDE DEF b
  <2>6. OkApp(b) /\ Good(b, c \in svc'.clients, c \in svc'.todo, svc.state)
    BY <1>0, <1>4, <2>2, <2>5 DEF OkApp, Good, Calls
  <2> QED
    BY <1>0, <2>1, <2>2, <2>6, OneApp, Zenon
<1> QED
  BY <1>3, <1>4

LEMMA UpdateKeeps ==
  ASSUME IInv, UpdatePsiphonState
  PROVE  IInv'
<1>0. OkSvc(svc) /\ app \in [Clients -> App] /\ (\A c \in Clients : OkApp(app[c])) /\ ends \in 0..MaxEnds
  BY IInvParts
<1>1. /\ svc' = [svc EXCEPT !.state = @ + 1, !.todo = svc.clients] /\ app' = app /\ ends' = ends
      /\ svc.up /\ svc.state < MaxState
  BY DEF UpdatePsiphonState
<1>2. svc.state \in Nat /\ svc.state + 1 \in 0..MaxState
  BY <1>0, <1>1 DEF OkSvc
<1>3. OkSvc(svc') /\ svc'.state = svc.state + 1 /\ svc'.clients = svc.clients /\ svc'.todo = svc.clients
  BY <1>0, <1>1, <1>2, Zenon DEF OkSvc
<1>4. ASSUME NEW c \in Clients
      PROVE  Good(app'[c], c \in svc'.clients, c \in svc'.todo, svc'.state)
  <2> DEFINE a == app[c]
  <2>1. a \in App /\ Good(a, c \in svc.clients, c \in svc.todo, svc.state)
    BY AppOf
  <2> HIDE DEF a
  <2>2. a.life # "dead" => a.newest <= svc.state + 1 /\ a.read <= svc.state + 1
    BY <1>2, <2>1 DEF App, Good
  <2>3. Good(a, c \in svc'.clients, c \in svc'.todo, svc'.state)
    BY <1>3, <2>1, <2>2 DEF Good
  <2> QED
    BY <1>1, <2>3 DEF a
<1> QED
  BY <1>0, <1>1, <1>3, <1>4 DEF IInv, TypeOK, OkApp, OkSvc

LEMMA CreatedKeeps ==
  ASSUME IInv, ServiceCreated
  PROVE  IInv'
<1>0. /\ OkSvc(svc) /\ app \in [Clients -> App] /\ (\A c \in Clients : OkApp(app[c])) /\ ends \in 0..MaxEnds
      /\ \A c \in Clients : Good(app[c], c \in svc.clients, c \in svc.todo, svc.state)
  BY IInvParts
<1>1. svc' = [svc EXCEPT !.up = TRUE] /\ app' = app /\ ends' = ends
  BY DEF ServiceCreated
<1>2. OkSvc(svc') /\ svc'.state = svc.state /\ svc'.clients = svc.clients /\ svc'.todo = svc.todo
  BY <1>0, <1>1, Zenon DEF OkSvc
<1>3. \A c \in Clients : Good(app'[c], c \in svc'.clients, c \in svc'.todo, svc'.state)
  BY <1>0, <1>1, <1>2
<1> QED
  BY <1>0, <1>1, <1>2, <1>3 DEF IInv, TypeOK, OkApp, OkSvc

LEMMA EndsKeeps ==
  ASSUME IInv, ServiceEnds
  PROVE  IInv'
<1>0. OkSvc(svc) /\ svc.state \in Nat /\ ends \in 0..MaxEnds
  BY IInvParts DEF OkSvc
<1>1. /\ svc' = [up |-> FALSE, state |-> svc.state + 1, clients |-> {}, todo |-> {}] /\ ends' = ends + 1
      /\ svc.state < MaxState /\ ends < MaxEnds
      /\ app' = [c \in Clients |->
           [app[c] EXCEPT !.at = IF Calling(c) THEN "idle" ELSE @, !.conn = IF @ = "connected" THEN "lost" ELSE @]]
  BY Zenon DEF ServiceEnds
<1>1a. svc.state < MaxState /\ ends < MaxEnds
  BY <1>1, Zenon
<1>2. svc.state + 1 \in 0..MaxState /\ ends + 1 \in 0..MaxEnds
  BY <1>0, <1>1a
<1>3. OkSvc(svc') /\ svc'.state = svc.state + 1 /\ svc'.clients = {} /\ svc'.todo = {}
  BY <1>1, <1>2, Zenon DEF OkSvc
<1>4. ASSUME NEW c \in Clients
      PROVE  OkApp(app'[c]) /\ Good(app'[c], c \in svc'.clients, c \in svc'.todo, svc'.state)
  <2> DEFINE a == app[c]
             b == [a EXCEPT !.at = IF Calling(c) THEN "idle" ELSE @, !.conn = IF @ = "connected" THEN "lost" ELSE @]
  <2>1. a \in App /\ OkApp(a) /\ Good(a, c \in svc.clients, c \in svc.todo, svc.state)
    BY AppOf
  <2>2. app'[c] = b /\ (Calling(c) <=> a.at \in Calls)
    BY <1>1, Zenon DEF Calling, Calls
  <2> HIDE DEF a
  <2>3. /\ b \in App /\ b.life = a.life /\ b.service = a.service /\ b.bound = a.bound
        /\ b.flag = a.flag /\ b.died = a.died /\ b.stopped = a.stopped /\ b.read = a.read
        /\ b.at = (IF a.at \in Calls THEN "idle" ELSE a.at) /\ b.newest = a.newest
        /\ b.conn = (IF a.conn = "connected" THEN "lost" ELSE a.conn)
    BY <2>1, <2>2, Zenon DEF App
  <2> HIDE DEF b
  <2>4. a.life # "dead" => a.newest <= svc.state + 1 /\ a.read <= svc.state + 1
    BY <1>0, <2>1 DEF App, Good
  <2>5. OkApp(b)
    BY <2>1, <2>3 DEF OkApp, Calls
  <2>6. Good(b, c \in svc'.clients, c \in svc'.todo, svc'.state)
    BY <1>3, <2>1, <2>3, <2>4 DEF Good, Calls
  <2> QED
    BY <2>2, <2>5, <2>6
<1>5. app' \in [Clients -> App]
  BY <1>1, <1>4, Zenon DEF OkApp
<1> QED
  BY <1>1, <1>2, <1>3, <1>4, <1>5, Zenon DEF IInv, TypeOK, OkApp, OkSvc

LEMMA InitIInv == Init => IInv
<1> SUFFICES ASSUME Init PROVE IInv
  OBVIOUS
<1>1. svc = [up |-> FALSE, state |-> 0, clients |-> {}, todo |-> {}] /\ app = [c \in Clients |-> NewApp] /\ ends = 0
  BY DEF Init
<1>2. \A c \in Clients : OkApp(app[c])
  BY <1>1, NewAppType, Zenon DEF OkApp, NewApp
<1>3. OkSvc(svc) /\ ends \in 0..MaxEnds /\ app \in [Clients -> App]
  BY <1>1, NewAppType DEF OkSvc
<1>4. \A c \in Clients : Good(app[c], c \in svc.clients, c \in svc.todo, svc.state)
  BY <1>1 DEF NewApp, Good, Calls
<1> QED
  BY <1>2, <1>3, <1>4, IInvParts

\* Every action keeps the inductive invariant.
LEMMA NextKeeps == IInv /\ [Next]_vars => IInv'
<1> SUFFICES ASSUME IInv, [Next]_vars PROVE IInv'
  OBVIOUS
<1>1. ASSUME NEW c \in Clients,
             \/ OnStart(c) \/ OnStop(c) \/ Cleanup(c) \/ AppDies(c)
             \/ MainThread(c) \/ Binder(c) \/ NotifyNext(c)
      PROVE  IInv'
  BY <1>1, OnStartKeeps, OnStopKeeps, AppDiesKeeps, UnregisterKeeps, UnbindKeeps, ConnectedKeeps,
     RegisterPutKeeps, RegisterGetKeeps, ReplyKeeps, NotifyKeeps DEF MainThread, Binder
<1>2. CASE UpdatePsiphonState \/ ServiceCreated \/ ServiceEnds
  BY <1>2, UpdateKeeps, CreatedKeeps, EndsKeeps
<1>3. CASE UNCHANGED vars
  BY <1>3 DEF vars, IInv, TypeOK
<1> QED
  BY <1>1, <1>2, <1>3 DEF Next

LEMMA IInvAlways == Spec => []IInv
BY InitIInv, NextKeeps, PTL DEF Spec

-----------------------------------------------------------------------------
\* registerClient and updatePsiphonState in any order: a registered client has
\* been given the current state.
THEOREM NoStateMissedHolds == Spec => []NoStateMissed
<1>1. IInv => NoStateMissed
  <2> SUFFICES ASSUME IInv, NEW c \in Clients, Settled(c) PROVE app[c].newest = svc.state
    BY DEF NoStateMissed
  <2> QED
    BY AppOf DEF Settled, Idle, Good, Calls
<1> QED
  BY <1>1, IInvAlways, PTL

\* notifyAllClients never leaves a registered client with an older state.
THEOREM StaleOnlyFromRegisterHolds == Spec => []StaleOnlyFromRegister
<1>1. IInv => StaleOnlyFromRegister
  <2> SUFFICES ASSUME IInv, NEW c \in Clients, Settled(c), app[c].by = "notify" PROVE app[c].last = svc.state
    BY DEF StaleOnlyFromRegister
  <2> QED
    BY AppOf DEF Settled, Idle, Good, Calls
<1> QED
  BY <1>1, IInvAlways, PTL

\* The callbacks of PsiphonComms and registerClient, cut short by deaths at any
\* point, leave a connected client listed.
THEOREM ListedWhileConnectedHolds == Spec => []ListedWhileConnected
<1>1. IInv => ListedWhileConnected
  <2> SUFFICES ASSUME IInv, NEW c \in Clients, Idle(c), app[c].conn = "connected", ~app[c].died
               PROVE  c \in svc.clients
    BY DEF ListedWhileConnected
  <2> QED
    BY AppOf DEF Idle, Good, Calls
<1> QED
  BY <1>1, IInvAlways, PTL

\* PsiphonComms unbinds only what is bound.
THEOREM FlagMeansBindingHolds == Spec => []FlagMeansBinding
<1>1. IInv => FlagMeansBinding
  <2> SUFFICES ASSUME IInv, NEW c \in Clients, app[c].flag, app[c].life # "dead" PROVE app[c].bound
    BY DEF FlagMeansBinding
  <2> QED
    BY AppOf DEF Good
<1> QED
  BY <1>1, IInvAlways, PTL

\* PsiphonComms.stop leaves nothing behind unless the service has died.
THEOREM StopReleasesHolds == Spec => []StopReleases
<1>1. IInv => StopReleases
  <2> SUFFICES ASSUME IInv, NEW c \in Clients, Idle(c), app[c].stopped, ~app[c].died
               PROVE  ~app[c].bound /\ ~app[c].service /\ c \notin svc.clients
    BY DEF StopReleases
  <2> QED
    BY AppOf DEF Idle, Good
<1> QED
  BY <1>1, IInvAlways, PTL
\* The state of the clients and of the service they bind to keeps its type.
THEOREM TypeCorrect == Spec => []TypeOK
<1>1. IInv => TypeOK
  BY DEF IInv
<1> QED
  BY <1>1, IInvAlways, PTL

=============================================================================
