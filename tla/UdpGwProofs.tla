---------------------------- MODULE UdpGwProofs ----------------------------
(***************************************************************************)
(* What holds of the udpgw client for any number of connections, any       *)
(* buffer size and any addresses: who holds what of the SOCKS client, what *)
(* the pending jobs leave alone, and how the indexes of the connections    *)
(* agree.                                                                  *)
(***************************************************************************)
EXTENDS UdpGw, BSocksClientProofs, SequenceTheorems

USE ConstantsAssumption

-----------------------------------------------------------------------------
(* The SOCKS connection.                                                   *)

\* The flags of SocksUdpGwClient and UdpGwClient follow the state of the client.
SocksInv ==
  /\ alive \in BOOLEAN /\ haveSocks \in BOOLEAN /\ timer \in BOOLEAN
  /\ haveServer \in BOOLEAN /\ socksUp \in BOOLEAN
  /\ haveSocks <=> alive /\ ~timer
  /\ timer => alive
  /\ haveSocks => Sound(socks)
  /\ ~haveSocks => socks.held = Nothing
  /\ haveSocks => (socksUp <=> socks.state = "UP")
  /\ haveServer <=> haveSocks /\ socks.state = "UP"

\* free_socks with the client in a sound state, and the timer as it is set.
LEMMA FreeSocksKeeps ==
  ASSUME SocksInv, NEW s, Sound(s), FreeSocks(s), alive' \in BOOLEAN, timer' = alive',
         haveServer => socksUp
  PROVE  SocksInv'
<1>1. /\ haveSocks' = FALSE /\ socksUp' = socksUp /\ socks'.held = Nothing
      /\ haveServer' = FALSE
  BY FreeReleases DEF FreeSocks, SocksInv, Sound
<1> QED
  BY <1>1, Zenon DEF SocksInv

LEMMA TryConnectKeeps ==
  ASSUME SocksInv, ~haveSocks, TryConnect, alive' = TRUE, haveServer' = haveServer
  PROVE  SocksInv'
<1>1. CASE haveSocks' = TRUE /\ socksUp' = FALSE /\ timer' = FALSE /\ socks' = BSocksClient_Init
  BY <1>1, InitIsSound, Zenon DEF SocksInv
<1>2. CASE haveSocks' = FALSE /\ timer' = TRUE /\ socksUp' = socksUp /\ socks' = socks
  BY <1>2, Zenon DEF SocksInv
<1> QED
  BY <1>1, <1>2, Zenon DEF TryConnect

LEMMA SocksInvHolds == Spec => []SocksInv
<1>1. Init => SocksInv
  <2>1. Init => socks.held = Nothing /\ alive = FALSE /\ haveSocks = FALSE /\ timer = FALSE
                /\ haveServer = FALSE /\ socksUp = FALSE
    BY DEF Init
  <2> QED
    BY <2>1, Zenon DEF SocksInv
<1>2. ASSUME SocksInv, [Next]_vars PROVE SocksInv'
  <2>0. haveServer => socksUp
    BY <1>2 DEF SocksInv
  <2>1. CASE SocksUdpGwClient_Init
    <3>1. ~haveSocks
      BY <1>2, <2>1 DEF SocksUdpGwClient_Init, SocksInv
    <3> QED
      BY <1>2, <2>1, <3>1, TryConnectKeeps DEF SocksUdpGwClient_Init
  <2>2. CASE SocksUdpGwClient_Free
    <3>1. CASE haveSocks
      BY <1>2, <2>0, <2>2, <3>1, FreeSocksKeeps, Zenon DEF SocksUdpGwClient_Free, UdpGwClient_Free, SocksInv
    <3>2. CASE ~haveSocks
      BY <1>2, <2>2, <3>2, Zenon DEF SocksUdpGwClient_Free, UdpGwClient_Free, SocksInv
    <3> QED
      BY <3>1, <3>2
  <2>3. CASE ReconnectTimerHandler
    <3>1. ~haveSocks
      BY <1>2, <2>3 DEF ReconnectTimerHandler, SocksInv
    <3> QED
      BY <1>2, <2>3, <3>1, TryConnectKeeps DEF ReconnectTimerHandler, SocksInv
  <2>4. CASE Socks
    <3>1. PICK o \in Outcomes(socks) : SocksClientHandler(o[1], o[2])
      BY <2>4 DEF Socks
    <3>2. haveSocks /\ alive /\ alive' = alive /\ Sound(socks)
      BY <1>2, <2>4 DEF Socks, SocksInv
    <3>3. /\ Sound(o[1])
          /\ o[2] = "UP" => o[1].state = "UP" /\ socks.state # "UP"
          /\ o[2] = "none" => socks.state # "UP" /\ o[1].state # "UP"
      BY <3>2, OutcomesSound
    <3>4. CASE o[2] # "none" /\ FreeSocks(o[1]) /\ timer' = TRUE
      BY <1>2, <2>0, <3>2, <3>3, <3>4, FreeSocksKeeps DEF SocksInv
    <3>5. CASE /\ o[2] \in {"none", "UP"} /\ socks' = o[1]
               /\ haveServer' = (haveServer \/ o[2] = "UP") /\ socksUp' = (socksUp \/ o[2] = "UP")
               /\ UNCHANGED <<haveSocks, timer, answers>>
      BY <1>2, <3>2, <3>3, <3>5, Zenon DEF SocksInv
    <3> QED
      BY <3>1, <3>4, <3>5, Zenon DEF SocksClientHandler
  <2>5. CASE ServerError
    <3>1. Sound(socks) /\ alive' = TRUE /\ timer' = TRUE /\ FreeSocks(socks)
      BY <1>2, <2>5 DEF ServerError, SocksInv
    <3> QED
      BY <1>2, <2>0, <3>1, FreeSocksKeeps
  <2>6. CASE UNCHANGED <<alive, socksVars>>
    BY <1>2, <2>6 DEF SocksInv, socksVars, Sound
  <2>7. \/ SocksUdpGwClient_Init \/ SocksUdpGwClient_Free \/ ReconnectTimerHandler \/ Socks \/ ServerError
        \/ UNCHANGED <<alive, socksVars>>
    BY <1>2, Zenon DEF Next, vars, Readable, DeviceReadHandlerSend, DeviceJob, RecvInterfaceHandlerSend,
                FirstJob, FillJob, TakenJob, PacketSent, restVars
  <2> QED
    BY <2>1, <2>2, <2>3, <2>4, <2>5, <2>6, <2>7
<1> QED
  BY <1>1, <1>2, PTL DEF Spec

\* However connecting, the handshake, the transfer and the end of a session
\* interleave, SocksUdpGwClient has either a SOCKS client or a running timer.
THEOREM SocksOrTimerHolds == Spec => []SocksOrTimer
<1>1. SocksInv => SocksOrTimer
  BY Zenon DEF SocksInv, SocksOrTimer
<1> QED
  BY <1>1, SocksInvHolds, PTL

\* UdpGwClient has a server exactly while the SOCKS client is up.
THEOREM ServerWhileUpHolds == Spec => []ServerWhileUp
<1>1. SocksInv => ServerWhileUp
  BY DEF SocksInv, ServerWhileUp
<1> QED
  BY <1>1, SocksInvHolds, PTL

\* Whatever handler of the SOCKS client ends it, and in whatever state,
\* BSocksClient_Free gives back all of it, and nothing twice.
THEOREM SocksReleasedHolds == Spec => []SocksReleased
<1>1. SocksInv => SocksReleased
  BY DEF SocksInv, SocksReleased
<1> QED
  BY <1>1, SocksInvHolds, PTL

-----------------------------------------------------------------------------
(* The connections and the jobs.                                           *)

Answer == [conid : ConIds, addr : Addrs]

ConType ==
  /\ conaddr \in [ConIds -> Addrs \union {None}] /\ list \in Seq(ConIds) /\ nextConid \in ConIds
  /\ ready \subseteq ConIds /\ buf \in [ConIds -> Seq(Packet)]
  /\ frame \in Addrs \union {None}
  /\ answers \in Seq(Answer)

\* The conids are given out in order, for no connection ends before the client.
InOrder ==
  /\ Connections = 0..(Len(list) - 1)
  /\ nextConid \in {Len(list) - 1, Len(list)}

\* The first packet of c is in the device's buffer, and no job before
\* first_job can change it.
Opening(c) == frame = conaddr[c] /\ frame # None

Device == J("device", None)

\* All lists of jobs that occur: what runs between two events is short.
JobLists ==
  \/ jobs \in {<<>>, <<J("packet", None)>>, <<Device>>}
  \/ \E c \in ConIds :
       \/ jobs \in {<<J("fill", c)>>, <<J("fill", c), Device>>, <<J("taken", c), Device>>}
       \/ jobs = <<J("fill", c), J("first", c), Device>> /\ Opening(c)
       \/ jobs = <<J("first", c), Device>> /\ Opening(c) /\ c \in ready

ConInv == ConType /\ InOrder /\ IndexesAgree /\ JobLists /\ PacketsIntact

\* TAILQ remove and append keep every connection in the list once.
LEMMA MovedToEndKeeps ==
  ASSUME ConType, IndexesAgree, NEW c \in Connections
  PROVE  LET m == MovedToEnd(c)
         IN  /\ m \in Seq(ConIds) /\ Len(m) = Len(list)
             /\ \A i, k \in 1..Len(m) : m[i] \in Connections /\ (m[i] = m[k] => i = k)
             /\ \A d \in Connections : \E i \in 1..Len(m) : m[i] = d
<1> DEFINE n == Len(list)
           j == IndexIn(c)
           m == MovedToEnd(c)
<1>1. n \in Nat /\ list \in [1..n -> ConIds]
  BY DEF ConType
<1>2. j \in 1..n /\ list[j] = c
  BY DEF IndexIn, IndexesAgree
<1>3. m = [i \in 1..n |-> IF i = n THEN c ELSE IF i < j THEN list[i] ELSE list[i + 1]]
  BY DEF MovedToEnd
<1>4. c \in ConIds
  BY DEF Connections
<1> HIDE DEF n, j, m
<1>5. m \in [1..n -> ConIds]
  BY <1>1, <1>2, <1>3, <1>4
<1>6. m \in Seq(ConIds) /\ Len(m) = n
  BY <1>1, <1>5
<1>7. \A i, k \in 1..n : list[i] \in Connections /\ (list[i] = list[k] => i = k)
  BY DEF IndexesAgree, n
<1>8. \A i, k \in 1..n : m[i] \in Connections /\ (m[i] = m[k] => i = k)
  BY <1>1, <1>2, <1>3, <1>7
<1>9. ASSUME NEW d \in Connections PROVE \E i \in 1..n : m[i] = d
  <2>1. PICK i \in 1..n : list[i] = d
    BY DEF IndexesAgree, n
  <2>2. CASE i = j
    BY <1>1, <1>2, <1>3, <2>1, <2>2
  <2>3. CASE i < j
    BY <1>1, <1>2, <1>3, <2>1, <2>3
  <2>4. CASE i > j
    <3>1. i - 1 \in 1..n /\ i - 1 # n /\ ~(i - 1 < j) /\ (i - 1) + 1 = i
      BY <1>1, <1>2, <2>4
    <3> QED
      BY <1>3, <2>1, <3>1
  <2> QED
    BY <1>1, <1>2, <2>2, <2>3, <2>4
<1> QED
  BY <1>6, <1>8, <1>9 DEF m, n

\* find_unused_conid finds the next conid in order.
LEMMA FindUnusedInOrder ==
  ASSUME ConType, InOrder, Len(list) < MaxConnections
  PROVE  FindUnusedConid = Len(list)
<1> DEFINE n == Len(list)
           P(k) == UnusedAfter(k) /\ \A i \in 0..(k - 1) : ~UnusedAfter(i)
<1>1. n \in Nat /\ n < MaxConnections /\ MaxConnections \in Nat
  BY DEF ConType
<1>2. \A a \in Nat : a < MaxConnections => a % MaxConnections = a
  BY <1>1
<1>3. Connections = 0..(n - 1) /\ nextConid \in ConIds
  BY DEF InOrder, ConType
<1>4. CASE nextConid = n
  <2>1. UnusedAfter(0)
    BY <1>1, <1>2, <1>3, <1>4 DEF UnusedAfter
  <2>2. 0 \in ConIds /\ P(0) /\ \A k \in ConIds : P(k) => k = 0
    BY <1>1, <2>1 DEF ConIds
  <2>3. (CHOOSE k \in ConIds : P(k)) = 0
    BY <2>2
  <2> QED
    <3>1. FindUnusedConid = (nextConid + 0) % MaxConnections
      BY <2>3, Zenon DEF FindUnusedConid
    <3> QED
      BY <1>1, <1>2, <1>4, <3>1
<1>5. CASE nextConid = n - 1
  <2>0. n >= 1 /\ MaxConnections >= 2
    BY <1>1, <1>3, <1>5 DEF ConIds
  <2>1. ~UnusedAfter(0) /\ UnusedAfter(1)
    <3>1. (nextConid + 0) % MaxConnections = n - 1 /\ (nextConid + 1) % MaxConnections = n
      BY <1>1, <1>2, <1>5, <2>0
    <3> QED
      BY <1>1, <1>3, <2>0, <3>1 DEF UnusedAfter
  <2>2. 1 \in ConIds /\ P(1) /\ \A k \in ConIds : P(k) => k = 1
    BY <1>1, <2>0, <2>1 DEF ConIds
  <2>3. (CHOOSE k \in ConIds : P(k)) = 1
    BY <2>2
  <2> QED
    <3>1. FindUnusedConid = (nextConid + 1) % MaxConnections
      BY <2>3, Zenon DEF FindUnusedConid
    <3> QED
      BY <1>1, <1>2, <1>5, <2>0, <3>1
<1> QED
  BY <1>4, <1>5 DEF InOrder

-----------------------------------------------------------------------------
(* The steps.                                                              *)

\* BPending_Set and the first job, on the lists that occur.
LEMMA JobsPushed ==
  ASSUME NEW x, NEW y, NEW z
  PROVE  /\ BPending_Set(<<>>, x) = <<x>> /\ BPending_Set(<<y>>, x) = <<x, y>>
         /\ BPending_Set(<<y, z>>, x) = <<x, y, z>>
<1> DEFINE S == {x, y, z}
<1>1. /\ <<>> \in Seq(S) /\ <<x>> \in Seq(S) /\ <<y>> \in Seq(S) /\ <<x, y>> \in Seq(S)
      /\ <<y, z>> \in Seq(S) /\ <<x, y, z>> \in Seq(S)
  OBVIOUS
<1>2. <<x>> \o <<>> = <<x>>
  BY <1>1, ConcatEmptySeq
<1>3. <<x>> \o <<y>> = <<x, y>>
  <2>1. /\ <<x>> \o <<y>> \in Seq(S) /\ Len(<<x>> \o <<y>>) = 2
        /\ (<<x>> \o <<y>>)[1] = x /\ (<<x>> \o <<y>>)[2] = y
    BY <1>1
  <2> DEFINE s == <<x>> \o <<y>>
             t == <<x, y>>
  <2>2. s \in Seq(S) /\ t \in Seq(S) /\ Len(s) = Len(t) /\ \A i \in 1..Len(s) : s[i] = t[i]
    BY <1>1, <2>1
  <2> HIDE DEF S, s, t
  <2>3. s = t
    BY <2>2, SeqEqual
  <2> QED
    BY <2>3 DEF s, t
<1>4. <<x>> \o <<y, z>> = <<x, y, z>>
  <2>1. /\ <<x>> \o <<y, z>> \in Seq(S) /\ Len(<<x>> \o <<y, z>>) = 3
        /\ (<<x>> \o <<y, z>>)[1] = x /\ (<<x>> \o <<y, z>>)[2] = y /\ (<<x>> \o <<y, z>>)[3] = z
    BY <1>1
  <2> DEFINE s == <<x>> \o <<y, z>>
             t == <<x, y, z>>
  <2>2. s \in Seq(S) /\ t \in Seq(S) /\ Len(s) = Len(t) /\ \A i \in 1..Len(s) : s[i] = t[i]
    BY <1>1, <2>1
  <2> HIDE DEF S, s, t
  <2>3. s = t
    BY <2>2, SeqEqual
  <2> QED
    BY <2>3 DEF s, t
<1> QED
  BY <1>2, <1>3, <1>4 DEF BPending_Set

LEMMA JobsPopped ==
  ASSUME NEW x, NEW y, NEW z
  PROVE  /\ Head(<<x>>) = x /\ Head(<<x, y>>) = x /\ Head(<<x, y, z>>) = x
         /\ Tail(<<x>>) = <<>> /\ Tail(<<x, y>>) = <<y>> /\ Tail(<<x, y, z>>) = <<y, z>>
         /\ <<x>> # <<>> /\ <<x, y>> # <<>> /\ <<x, y, z>> # <<>>
OBVIOUS

\* What connection_send needs and keeps: the data it stores is the address's.
LEMMA ConnectionSendKeeps ==
  ASSUME ConType, PacketsIntact, NEW c \in ConIds, NEW a \in Addrs, NEW rebind \in BOOLEAN,
         frame = a, ConnectionSend(<<Device>>, c, a, rebind)
  PROVE  /\ ready' \subseteq ConIds /\ buf' \in [ConIds -> Seq(Packet)] /\ PacketsIntact'
         /\ jobs' \in {<<Device>>, <<J("taken", c), Device>>}
<1>1. CASE c \in ready
  <2> DEFINE p == [addr |-> a, rebind |-> rebind, data |-> frame]
  <2>1. p \in Packet /\ p.data = p.addr
    BY DEF Packet, ConType
  <2>2. /\ ready' = ready \ {c} /\ buf' = [buf EXCEPT ![c] = Append(buf[c], p)]
        /\ jobs' = <<J("taken", c), Device>>
    BY <1>1, JobsPushed, Zenon DEF ConnectionSend
  <2>3. buf[c] \in Seq(Packet) /\ buf \in [ConIds -> Seq(Packet)]
    BY DEF ConType
  <2> HIDE DEF p
  <2>4. buf' \in [ConIds -> Seq(Packet)]
    BY <2>1, <2>2, <2>3
  <2>5. ASSUME NEW d \in ConIds, NEW i \in 1..Len(buf'[d])
        PROVE  buf'[d][i].data = buf'[d][i].addr
    <3>1. CASE d # c
      BY <2>2, <2>3, <2>5, <3>1 DEF PacketsIntact
    <3>2. CASE d = c /\ i \in 1..Len(buf[c])
      BY <2>2, <2>3, <2>5, <3>2 DEF PacketsIntact
    <3>3. CASE d = c /\ i = Len(buf[c]) + 1
      BY <2>1, <2>2, <2>3, <3>3
    <3> QED
      BY <2>2, <2>3, <2>5, <3>1, <3>2, <3>3
  <2> QED
    BY <2>2, <2>4, <2>5 DEF PacketsIntact, ConType
<1>2. CASE c \notin ready
  BY <1>2 DEF ConnectionSend, ConType, PacketsIntact
<1> QED
  BY <1>1, <1>2

\* An address is given to a connection, and the connection moved to the end.
LEMMA TouchedKeeps ==
  ASSUME ConType, InOrder, IndexesAgree, NEW c \in Connections, NEW a \in Addrs,
         a = conaddr[c] \/ FindByConaddr(a) = {},
         conaddr' = [conaddr EXCEPT ![c] = a], list' = MovedToEnd(c), nextConid' = nextConid
  PROVE  IndexesAgree' /\ InOrder' /\ list' \in Seq(ConIds) /\ conaddr' \in [ConIds -> Addrs \union {None}]
<1> DEFINE m == MovedToEnd(c)
<1>1. /\ m \in Seq(ConIds) /\ Len(m) = Len(list)
      /\ \A i, k \in 1..Len(m) : m[i] \in Connections /\ (m[i] = m[k] => i = k)
      /\ \A d \in Connections : \E i \in 1..Len(m) : m[i] = d
  BY MovedToEndKeeps, Zenon
<1>2. list' = m
  OBVIOUS
<1> HIDE DEF m
<1>3. /\ conaddr' \in [ConIds -> Addrs \union {None}] /\ c \in ConIds
      /\ conaddr'[c] = a /\ \A d \in ConIds : d # c => conaddr'[d] = conaddr[d]
  BY DEF ConType, Connections
<1>4. Connections' = Connections
  BY <1>3 DEF Connections
<1>5. ASSUME NEW d \in Connections, NEW e \in Connections, conaddr'[d] = conaddr'[e] PROVE d = e
  BY <1>3, <1>5 DEF IndexesAgree, FindByConaddr, Connections
<1>6. IndexesAgree'
  BY <1>1, <1>2, <1>4, <1>5, Zenon DEF IndexesAgree
<1>7. InOrder'
  BY <1>1, <1>2, <1>4 DEF InOrder
<1> QED
  BY <1>1, <1>2, <1>3, <1>6, <1>7

\* A connection is created for an address that has none.
LEMMA CreatedKeeps ==
  ASSUME ConType, InOrder, IndexesAgree, NEW a \in Addrs, FindByConaddr(a) = {},
         Len(list) < MaxConnections, NEW c, c = Len(list),
         conaddr' = [conaddr EXCEPT ![c] = a], list' = Append(list, c), nextConid' = c
  PROVE  /\ IndexesAgree' /\ InOrder' /\ list' \in Seq(ConIds) /\ nextConid' \in ConIds
         /\ conaddr' \in [ConIds -> Addrs \union {None}] /\ c \in ConIds /\ conaddr'[c] = a
<1> DEFINE n == Len(list)
<1>1. n \in Nat /\ c = n /\ c \in ConIds /\ c \notin Connections /\ list \in Seq(ConIds)
  BY DEF ConType, InOrder, ConIds
<1>2. /\ conaddr' \in [ConIds -> Addrs \union {None}]
      /\ conaddr'[c] = a /\ \A d \in ConIds : d # c => conaddr'[d] = conaddr[d]
  BY <1>1 DEF ConType
<1>3. Connections' = Connections \union {c}
  BY <1>1, <1>2 DEF Connections
<1>4. /\ list' \in Seq(ConIds) /\ Len(list') = n + 1 /\ list'[n + 1] = c
      /\ \A i \in 1..n : list'[i] = list[i]
  BY <1>1
<1>5. InOrder'
  BY <1>1, <1>3, <1>4 DEF InOrder
<1>6. ASSUME NEW d \in Connections', NEW e \in Connections', conaddr'[d] = conaddr'[e] PROVE d = e
  <2>1. \A x \in Connections : x \in ConIds /\ x # c /\ conaddr'[x] = conaddr[x] /\ conaddr[x] # a
    BY <1>1, <1>2 DEF Connections, FindByConaddr
  <2> QED
    BY <1>2, <1>3, <1>6, <2>1 DEF IndexesAgree
<1>7. ASSUME NEW d \in Connections' PROVE \E i \in 1..Len(list') : list'[i] = d
  <2>1. CASE d = c
    BY <1>1, <1>4, <2>1
  <2>2. CASE d \in Connections
    <3>1. PICK i \in 1..n : list[i] = d
      BY <2>2 DEF IndexesAgree
    <3> QED
      BY <1>1, <1>4, <3>1
  <2> QED
    BY <1>3, <1>7, <2>1, <2>2
<1>8. ASSUME NEW i \in 1..Len(list'), NEW k \in 1..Len(list')
      PROVE  list'[i] \in Connections' /\ (list'[i] = list'[k] => i = k)
  <2> HIDE DEF n
  <2>1. \A x, y \in 1..n : list[x] \in Connections /\ (list[x] = list[y] => x = y)
    BY DEF IndexesAgree, n
  <2> QED
    BY <1>1, <1>3, <1>4, <1>8, <2>1
<1>9. IndexesAgree'
  BY <1>6, <1>7, <1>8 DEF IndexesAgree
<1> QED
  BY <1>1, <1>2, <1>4, <1>5, <1>9

\* What the first job says of the list.
FirstSays(j) ==
  /\ j = J("packet", None) => jobs = <<j>>
  /\ j = Device => jobs = <<j>>
  /\ \A c \in ConIds :
       /\ j = J("first", c) => jobs = <<j, Device>> /\ Opening(c) /\ c \in ready
       /\ j = J("fill", c) => \/ jobs \in {<<j>>, <<j, Device>>}
                              \/ jobs = <<j, J("first", c), Device>> /\ Opening(c)
       /\ j = J("taken", c) => jobs = <<j, Device>>

LEMMA FirstOfList ==
  ASSUME JobLists, NEW j, BPendingGroup_ExecuteJob(jobs, j)
  PROVE  FirstSays(j)
<1>1. jobs # <<>> /\ Head(jobs) = j
  BY DEF BPendingGroup_ExecuteJob
<1>2. CASE jobs = <<J("packet", None)>>
  <2>1. j = J("packet", None)
    BY <1>1, <1>2, JobsPopped
  <2> QED
    BY <1>2, <2>1 DEF J, Device, FirstSays
<1>3. CASE jobs = <<Device>>
  <2>1. j = Device
    BY <1>1, <1>3, JobsPopped
  <2> QED
    BY <1>3, <2>1 DEF J, Device, FirstSays
<1>4. ASSUME NEW c \in ConIds,
             \/ jobs \in {<<J("fill", c)>>, <<J("fill", c), Device>>}
             \/ jobs = <<J("fill", c), J("first", c), Device>> /\ Opening(c)
      PROVE  FirstSays(j)
  <2>1. j = J("fill", c)
    BY <1>1, <1>4, JobsPopped
  <2>2. \A d : j = J("fill", d) => d = c
    BY <2>1 DEF J
  <2>3. j # J("packet", None) /\ j # Device /\ \A d : j # J("first", d) /\ j # J("taken", d)
    BY <2>1 DEF J, Device
  <2> QED
    BY <1>4, <2>1, <2>2, <2>3 DEF FirstSays
<1>5. ASSUME NEW c \in ConIds,
             \/ jobs = <<J("taken", c), Device>>
             \/ jobs = <<J("first", c), Device>> /\ Opening(c) /\ c \in ready
      PROVE  FirstSays(j)
  <2>1. CASE jobs = <<J("taken", c), Device>>
    <3>1. j = J("taken", c)
      BY <1>1, <2>1, JobsPopped
    <3> QED
      BY <2>1, <3>1 DEF J, Device, FirstSays
  <2>2. CASE jobs = <<J("first", c), Device>> /\ Opening(c) /\ c \in ready
    <3>1. j = J("first", c)
      BY <1>1, <2>2, JobsPopped
    <3>2. \A d : j = J("first", d) => d = c
      BY <3>1 DEF J
    <3>3. j # J("packet", None) /\ j # Device /\ \A d : j # J("fill", d) /\ j # J("taken", d)
      BY <3>1 DEF J, Device
    <3> QED
      BY <2>2, <3>1, <3>2, <3>3 DEF FirstSays
  <2> QED
    BY <1>5, <2>1, <2>2
<1> QED
  BY <1>1, <1>2, <1>3, <1>4, <1>5 DEF JobLists

\* A packet for which nothing is done but a job.
LEMMA QuietKeeps ==
  ASSUME ConInv, UNCHANGED conVars, answers' \in Seq(Answer), frame' \in Addrs \union {None}, JobLists'
  PROVE  ConInv'
<1>1. ConType' /\ PacketsIntact'
  BY DEF ConInv, ConType, PacketsIntact, conVars
<1>2. Connections' = Connections
  BY DEF Connections, conVars
<1>3. InOrder' /\ IndexesAgree'
  BY <1>2 DEF ConInv, InOrder, IndexesAgree, conVars
<1> QED
  BY <1>1, <1>3 DEF ConInv

\* UdpGwClient_SubmitPacket, called by the device.
LEMMA SubmitPacketKeeps ==
  ASSUME ConInv, frame \in Addrs, SubmitPacket(<<Device>>), UNCHANGED <<frame, answers>>
  PROVE  /\ ConInv'
         /\ \A c \in Connections : c = list[Len(list)] /\ MaxConnections > 1 => conaddr'[c] = conaddr[c]
<1> DEFINE a == frame
           Active == \A c \in Connections : c = list[Len(list)] /\ MaxConnections > 1 => conaddr'[c] = conaddr[c]
<1>0. ConType /\ InOrder /\ IndexesAgree /\ PacketsIntact
  BY DEF ConInv
<1>1. ASSUME NEW c \in FindByConaddr(a), list' = MovedToEnd(c), ConnectionSend(<<Device>>, c, a, FALSE),
             UNCHANGED <<conaddr, nextConid>>
      PROVE  ConInv' /\ Active
  <2>1. c \in Connections /\ c \in ConIds /\ conaddr[c] = a
    BY DEF FindByConaddr, Connections
  <2>2. conaddr' = [conaddr EXCEPT ![c] = a]
    BY <1>0, <1>1, <2>1 DEF ConType
  <2>3. IndexesAgree' /\ InOrder' /\ list' \in Seq(ConIds) /\ conaddr' \in [ConIds -> Addrs \union {None}]
    BY <1>0, <1>1, <2>1, <2>2, TouchedKeeps, Zenon
  <2>4. /\ ready' \subseteq ConIds /\ buf' \in [ConIds -> Seq(Packet)] /\ PacketsIntact'
        /\ jobs' \in {<<Device>>, <<J("taken", c), Device>>}
    BY <1>0, <1>1, <2>1, ConnectionSendKeeps, Zenon
  <2> QED
    BY <1>0, <1>1, <2>1, <2>3, <2>4 DEF ConInv, ConType, JobLists, Device, J
<1>2. ASSUME FindByConaddr(a) = {}, Len(list) = MaxConnections, NEW c, c = ReuseConnection,
             conaddr' = [conaddr EXCEPT ![c] = a], list' = MovedToEnd(c),
             ConnectionSend(<<Device>>, c, a, TRUE), UNCHANGED nextConid
      PROVE  ConInv' /\ Active
  <2>1. list \in Seq(ConIds) /\ Len(list) >= 1 /\ c = list[1] /\ c \in Connections /\ c \in ConIds
    <3>1. list \in Seq(ConIds) /\ Len(list) >= 1 /\ c = list[1]
      BY <1>0, <1>2 DEF ConType, ReuseConnection
    <3>2. 1 \in 1..Len(list)
      BY <3>1
    <3>3. list[1] \in Connections
      BY <1>0, <3>2 DEF IndexesAgree
    <3> QED
      BY <3>1, <3>3 DEF Connections
  <2>2. IndexesAgree' /\ InOrder' /\ list' \in Seq(ConIds) /\ conaddr' \in [ConIds -> Addrs \union {None}]
    BY <1>0, <1>2, <2>1, TouchedKeeps, Zenon
  <2>3. /\ ready' \subseteq ConIds /\ buf' \in [ConIds -> Seq(Packet)] /\ PacketsIntact'
        /\ jobs' \in {<<Device>>, <<J("taken", c), Device>>}
    BY <1>0, <1>2, <2>1, ConnectionSendKeeps, Zenon
  <2>4. ConInv'
    BY <1>0, <1>2, <2>1, <2>2, <2>3 DEF ConInv, ConType, JobLists, Device, J
  <2>5. Active
    <3>1. \A d \in Connections : d # c => conaddr'[d] = conaddr[d]
      BY <1>0, <1>2 DEF Connections, ConType
    <3>2. MaxConnections > 1 => list[Len(list)] # c
      BY <1>0, <1>2, <2>1 DEF IndexesAgree
    <3> QED
      BY <3>1, <3>2
  <2> QED
    BY <2>4, <2>5
<1>3. ASSUME FindByConaddr(a) = {}, Len(list) < MaxConnections, ConnectionInit(<<Device>>, a)
      PROVE  ConInv' /\ Active
  <2> DEFINE c == FindUnusedConid
  <2>1. c = Len(list) /\ c \in ConIds
    BY <1>0, <1>3, FindUnusedInOrder DEF ConType, ConIds
  <2> HIDE DEF c
  <2>2. CASE /\ nextConid' = c /\ conaddr' = [conaddr EXCEPT ![c] = a] /\ list' = Append(list, c)
             /\ jobs' = BPending_Set(BPending_Set(<<Device>>, J("first", c)), J("fill", c))
             /\ UNCHANGED <<ready, buf>>
    <3>1. /\ IndexesAgree' /\ InOrder' /\ list' \in Seq(ConIds) /\ nextConid' \in ConIds
          /\ conaddr' \in [ConIds -> Addrs \union {None}] /\ c \in ConIds /\ conaddr'[c] = a
      BY <1>0, <1>3, <2>1, <2>2, CreatedKeeps, Zenon
    <3>2. jobs' = <<J("fill", c), J("first", c), Device>>
      <4>1. BPending_Set(<<Device>>, J("first", c)) = <<J("first", c), Device>>
        BY JobsPushed, Zenon
      <4>2. BPending_Set(<<J("first", c), Device>>, J("fill", c)) = <<J("fill", c), J("first", c), Device>>
        BY JobsPushed, Zenon
      <4> QED
        BY <2>2, <4>1, <4>2, Zenon
    <3>3. JobLists'
      BY <2>1, <3>1, <3>2 DEF JobLists, Opening, Device, J
    <3>4. Active
      BY <1>0, <2>1, <2>2 DEF InOrder, ConType
    <3>5. ConType' /\ PacketsIntact'
      BY <1>0, <2>2, <3>1 DEF ConType, PacketsIntact
    <3> QED
      BY <3>1, <3>3, <3>4, <3>5 DEF ConInv
  <2>3. CASE nextConid' \in {nextConid, c} /\ jobs' = <<Device>> /\ UNCHANGED <<conaddr, list, ready, buf>>
    <3>1. ConType' /\ PacketsIntact'
      BY <1>0, <2>1, <2>3, Zenon DEF ConType, PacketsIntact
    <3>2. Connections' = Connections
      BY <2>3 DEF Connections
    <3>3. InOrder' /\ IndexesAgree'
      BY <1>0, <2>1, <2>3, <3>2 DEF InOrder, IndexesAgree
    <3> QED
      BY <2>3, <3>1, <3>3 DEF ConInv, JobLists, Device, J
  <2> QED
    BY <1>3, <2>2, <2>3 DEF ConnectionInit, c
<1> QED
  BY <1>1, <1>2, <1>3, Zenon DEF SubmitPacket

\* What a step keeps: the invariant, and the address used last.
StepKeeps ==
  /\ ConInv'
  /\ alive' => \A c \in Connections : c = list[Len(list)] /\ MaxConnections > 1 => conaddr'[c] = conaddr[c]

LEMMA DeviceReadKeeps == ConInv /\ DeviceReadHandlerSend => StepKeeps
<1> SUFFICES ASSUME ConInv, DeviceReadHandlerSend PROVE StepKeeps
  OBVIOUS
<1>1. jobs = <<J("packet", None)>>
  BY FirstOfList DEF DeviceReadHandlerSend, ConInv, FirstSays
<1>2. BPending_Set(Tail(jobs), J("device", None)) = <<Device>>
  <2>1. Tail(jobs) = <<>>
    BY <1>1, JobsPopped
  <2>2. BPending_Set(<<>>, Device) = <<Device>>
    BY JobsPushed, Zenon
  <2> QED
    BY <2>1, <2>2, Zenon DEF Device
<1>3. UNCHANGED <<frame, answers>> /\ frame \in Addrs \union {None} /\ answers' \in Seq(Answer)
  BY DEF DeviceReadHandlerSend, restVars, ConInv, ConType
<1>4. CASE frame = None
  <2>1. jobs' = <<Device>> /\ UNCHANGED conVars
    BY <1>2, <1>4 DEF DeviceReadHandlerSend
  <2>2. JobLists'
    BY <2>1 DEF JobLists, Device, J
  <2> QED
    BY <1>3, <2>1, <2>2, QuietKeeps DEF StepKeeps, conVars
<1>5. CASE frame \in Addrs
  <2>1. SubmitPacket(<<Device>>)
    BY <1>2, <1>5 DEF DeviceReadHandlerSend
  <2> QED
    BY <1>3, <1>5, <2>1, SubmitPacketKeeps DEF StepKeeps
<1> QED
  BY <1>3, <1>4, <1>5

LEMMA DeviceKeeps == ConInv /\ (Readable \/ DeviceJob) => StepKeeps
<1> SUFFICES ASSUME ConInv, Readable \/ DeviceJob PROVE StepKeeps
  OBVIOUS
<1>1. UNCHANGED conVars /\ answers' \in Seq(Answer) /\ frame' \in Addrs \union {None}
  BY DEF Readable, DeviceJob, restVars, ConInv, ConType
<1>2. jobs' \in {<<J("packet", None)>>, <<>>}
  <2>1. CASE Readable
    BY <2>1, JobsPushed, Zenon DEF Readable
  <2>2. CASE DeviceJob
    <3>1. jobs = <<Device>> /\ Tail(<<Device>>) = <<>>
      BY <2>2, FirstOfList, JobsPopped, Zenon DEF DeviceJob, ConInv, FirstSays, Device
    <3> QED
      BY <2>2, <3>1, JobsPushed, Zenon DEF DeviceJob
  <2> QED
    BY <2>1, <2>2
<1>3. JobLists'
  BY <1>2 DEF JobLists, J
<1> QED
  BY <1>1, <1>3, QuietKeeps DEF StepKeeps, conVars

LEMMA FirstJobKeeps == \A c \in ConIds : ConInv /\ FirstJob(c) => StepKeeps
<1> SUFFICES ASSUME NEW c \in ConIds, ConInv, FirstJob(c) PROVE StepKeeps
  OBVIOUS
<1>1. jobs = <<J("first", c), Device>> /\ Opening(c)
  BY FirstOfList DEF FirstJob, ConInv, FirstSays
<1>2. Tail(jobs) = <<Device>>
  BY <1>1, JobsPopped
<1>3. ConnectionSend(<<Device>>, c, conaddr[c], TRUE) /\ conaddr[c] \in Addrs /\ frame = conaddr[c]
  BY <1>1, <1>2, Zenon DEF FirstJob, Opening, ConInv, ConType
<1>4. /\ ready' \subseteq ConIds /\ buf' \in [ConIds -> Seq(Packet)] /\ PacketsIntact'
      /\ jobs' \in {<<Device>>, <<J("taken", c), Device>>}
  BY <1>3, ConnectionSendKeeps, Zenon DEF ConInv
<1>5. UNCHANGED <<frame, conaddr, list, nextConid, answers>>
  BY DEF FirstJob, restVars
<1>6. Connections' = Connections
  BY <1>5 DEF Connections
<1>7. ConType' /\ InOrder' /\ IndexesAgree'
  BY <1>4, <1>5, <1>6 DEF ConInv, ConType, InOrder, IndexesAgree
<1>8. JobLists'
  BY <1>4 DEF JobLists, Device, J
<1> QED
  BY <1>4, <1>5, <1>7, <1>8 DEF StepKeeps, ConInv

LEMMA FillJobKeeps == \A c \in ConIds : ConInv /\ FillJob(c) => StepKeeps
<1> SUFFICES ASSUME NEW c \in ConIds, ConInv, FillJob(c) PROVE StepKeeps
  OBVIOUS
<1>1. \/ jobs \in {<<J("fill", c)>>, <<J("fill", c), Device>>}
      \/ jobs = <<J("fill", c), J("first", c), Device>> /\ Opening(c)
  BY FirstOfList DEF FillJob, ConInv, FirstSays
<1>2. UNCHANGED <<frame, conaddr, list, nextConid, buf, answers>> /\ ready' = ready \union {c} /\ jobs' = Tail(jobs)
  BY DEF FillJob, restVars
<1>3. \/ jobs' = <<>> \/ jobs' = <<Device>>
      \/ jobs' = <<J("first", c), Device>> /\ Opening(c)
  <2>1. Tail(<<J("fill", c)>>) = <<>> /\ Tail(<<J("fill", c), Device>>) = <<Device>>
    BY JobsPopped
  <2>2. Tail(<<J("fill", c), J("first", c), Device>>) = <<J("first", c), Device>>
    BY JobsPopped
  <2> QED
    BY <1>1, <1>2, <2>1, <2>2, Zenon
<1>4. JobLists'
  BY <1>2, <1>3 DEF JobLists, Opening, Device, J
<1>5. Connections' = Connections
  BY <1>2 DEF Connections
<1>6. ConType' /\ InOrder' /\ IndexesAgree' /\ PacketsIntact'
  BY <1>2, <1>5 DEF ConInv, ConType, InOrder, IndexesAgree, PacketsIntact
<1> QED
  BY <1>2, <1>4, <1>6 DEF StepKeeps, ConInv

LEMMA TakenJobKeeps == \A c \in ConIds : ConInv /\ TakenJob(c) => StepKeeps
<1> SUFFICES ASSUME NEW c \in ConIds, ConInv, TakenJob(c) PROVE StepKeeps
  OBVIOUS
<1>1. jobs = <<J("taken", c), Device>>
  BY FirstOfList DEF TakenJob, ConInv, FirstSays
<1>2. UNCHANGED conVars /\ answers' \in Seq(Answer) /\ frame' \in Addrs \union {None}
  BY DEF TakenJob, restVars, ConInv, ConType
<1>3. Tail(jobs) = <<Device>> /\ BPending_Set(<<Device>>, J("fill", c)) = <<J("fill", c), Device>>
  <2>1. Tail(jobs) = <<Device>>
    BY <1>1, JobsPopped
  <2>2. BPending_Set(<<Device>>, J("fill", c)) = <<J("fill", c), Device>>
    BY JobsPushed, Zenon
  <2> QED
    BY <2>1, <2>2
<1>4. jobs' \in {<<J("fill", c), Device>>, <<Device>>}
  BY <1>3, Zenon DEF TakenJob
<1>5. JobLists'
  BY <1>4 DEF JobLists, Device, J
<1> QED
  BY <1>2, <1>5, QuietKeeps DEF StepKeeps, conVars

LEMMA PacketSentKeeps == \A c \in ConIds : ConInv /\ PacketSent(c) => StepKeeps
<1> SUFFICES ASSUME NEW c \in ConIds, ConInv, PacketSent(c) PROVE StepKeeps
  OBVIOUS
<1>1. /\ UNCHANGED <<frame, conaddr, list, nextConid, ready>> /\ buf[c] # <<>>
      /\ buf' = [buf EXCEPT ![c] = Tail(buf[c])]
  BY DEF PacketSent
<1>2. buf \in [ConIds -> Seq(Packet)] /\ buf[c] \in Seq(Packet) /\ Head(buf[c]) \in Packet
  BY <1>1 DEF ConInv, ConType
<1>3. buf' \in [ConIds -> Seq(Packet)]
  BY <1>1, <1>2
<1>4. PacketsIntact'
  <2> SUFFICES ASSUME NEW d \in ConIds, NEW i \in 1..Len(buf'[d]) PROVE buf'[d][i].data = buf'[d][i].addr
    BY DEF PacketsIntact
  <2>1. CASE d # c
    BY <1>1, <1>2, <2>1 DEF ConInv, PacketsIntact
  <2>2. CASE d = c
    <3>1. i + 1 \in 1..Len(buf[c]) /\ buf'[d][i] = buf[c][i + 1]
      BY <1>1, <1>2, <2>2
    <3> QED
      BY <3>1 DEF ConInv, PacketsIntact
  <2> QED
    BY <2>1, <2>2
<1>5. answers' \in Seq(Answer)
  <2>1. Head(buf[c]).addr \in Addrs
    BY <1>2 DEF Packet
  <2>2. [conid |-> c, addr |-> Head(buf[c]).addr] \in Answer
    BY <2>1 DEF Answer
  <2>3. \/ answers' = answers
        \/ answers' = Append(answers, [conid |-> c, addr |-> Head(buf[c]).addr])
    BY DEF PacketSent
  <2>4. answers \in Seq(Answer)
    BY DEF ConInv, ConType
  <2> QED
    BY <2>2, <2>3, <2>4
<1>6. jobs' \in {<<J("fill", c)>>, <<>>}
  BY JobsPushed, Zenon DEF PacketSent
<1>7. JobLists'
  BY <1>6 DEF JobLists, Device, J
<1>8. Connections' = Connections
  BY <1>1 DEF Connections
<1>9. ConType' /\ InOrder' /\ IndexesAgree'
  BY <1>1, <1>3, <1>5, <1>8 DEF ConInv, ConType, InOrder, IndexesAgree
<1> QED
  BY <1>1, <1>4, <1>7, <1>9 DEF StepKeeps, ConInv

LEMMA ReceiveKeeps == ConInv /\ RecvInterfaceHandlerSend => StepKeeps
<1> SUFFICES ASSUME ConInv, RecvInterfaceHandlerSend PROVE StepKeeps
  OBVIOUS
<1> DEFINE c == Head(answers).conid
<1>1. UNCHANGED <<frame, jobs, conaddr, nextConid, ready, buf>> /\ answers' = Tail(answers) /\ answers # <<>>
  BY DEF RecvInterfaceHandlerSend
<1>2. answers' \in Seq(Answer) /\ c \in ConIds
  <2>1. answers \in Seq(Answer)
    BY DEF ConInv, ConType
  <2>2. Head(answers) \in Answer
    BY <1>1, <2>1
  <2> QED
    BY <1>1, <2>1, <2>2 DEF Answer
<1>3. list' = list \/ (conaddr[c] # None /\ list' = MovedToEnd(c))
  BY DEF RecvInterfaceHandlerSend
<1> HIDE DEF c
<1>4. InOrder' /\ IndexesAgree' /\ list' \in Seq(ConIds)
  <2>1. CASE list' = list
    <3>1. Connections' = Connections
      BY <1>1 DEF Connections
    <3> QED
      BY <1>1, <2>1, <3>1, SMTT(30) DEF ConInv, ConType, InOrder, IndexesAgree
  <2>2. CASE conaddr[c] # None /\ list' = MovedToEnd(c)
    <3>1. c \in Connections /\ conaddr[c] \in Addrs /\ conaddr' = [conaddr EXCEPT ![c] = conaddr[c]]
      BY <1>1, <1>2, <2>2 DEF Connections, ConInv, ConType
    <3> QED
      BY <1>1, <2>2, <3>1, TouchedKeeps, Zenon DEF ConInv
  <2> QED
    BY <1>3, <2>1, <2>2
<1>5. JobLists' /\ PacketsIntact' /\ ConType'
  BY <1>1, <1>2, <1>4, Zenon DEF ConInv, ConType, JobLists, Opening, PacketsIntact
<1> QED
  BY <1>1, <1>4, <1>5 DEF StepKeeps, ConInv

\* No connections, no jobs: before a session and after it.
Empty ==
  /\ conaddr = [c \in ConIds |-> None] /\ list = <<>> /\ nextConid = 0
  /\ ready = {} /\ buf = [c \in ConIds |-> <<>>] /\ frame = None /\ jobs = <<>>
  /\ answers \in Seq(Answer)

LEMMA EmptyIsConInv == Empty => ConInv
<1> SUFFICES ASSUME Empty PROVE ConInv
  OBVIOUS
<1>1. Connections = {} /\ Len(list) = 0 /\ \A c \in ConIds : Len(buf[c]) = 0
  BY DEF Connections, Empty
<1>2. ConType
  BY DEF ConType, ConIds, Empty
<1> QED
  BY <1>1, <1>2 DEF ConInv, InOrder, IndexesAgree, JobLists, PacketsIntact, Empty

LEMMA ConInvStep == ConInv /\ [Next]_vars => StepKeeps
<1> SUFFICES ASSUME ConInv, [Next]_vars PROVE StepKeeps
  OBVIOUS
<1>1. CASE SocksUdpGwClient_Free
  <2>0. answers' = <<>> \/ answers' = answers
    BY <1>1 DEF SocksUdpGwClient_Free, UdpGwClient_Free, FreeSocks
  <2>1. answers' \in Seq(Answer)
    BY <2>0, EmptySeq, Zenon DEF ConInv, ConType
  <2>2. Empty' /\ alive' = FALSE
    BY <1>1, <2>1 DEF SocksUdpGwClient_Free, UdpGwClient_Free, Empty
  <2>3. ConInv'
    BY <2>2, EmptyIsConInv, PTL
  <2> QED
    BY <2>2, <2>3 DEF StepKeeps
<1>2. CASE SocksUdpGwClient_Init \/ ReconnectTimerHandler \/ Socks \/ ServerError \/ UNCHANGED vars
  <2>1. /\ UNCHANGED <<conVars, frame, jobs>> /\ (answers' = answers \/ answers' = <<>>)
    BY <1>2 DEF SocksUdpGwClient_Init, ReconnectTimerHandler, Socks, ServerError, vars, FreeSocks, SocksClientHandler
  <2>2. answers' \in Seq(Answer) /\ frame' \in Addrs \union {None}
    BY <2>1, EmptySeq, Zenon DEF ConInv, ConType
  <2>3. JobLists'
    BY <2>1 DEF ConInv, JobLists, Opening, conVars
  <2> QED
    BY <2>1, <2>2, <2>3, QuietKeeps DEF StepKeeps, conVars
<1>3. CASE Readable \/ DeviceJob \/ DeviceReadHandlerSend \/ RecvInterfaceHandlerSend
  BY <1>3, DeviceKeeps, DeviceReadKeeps, ReceiveKeeps
<1>4. ASSUME NEW c \in ConIds, FirstJob(c) \/ FillJob(c) \/ TakenJob(c) \/ PacketSent(c) PROVE StepKeeps
  BY <1>4, FirstJobKeeps, FillJobKeeps, TakenJobKeeps, PacketSentKeeps
<1> QED
  BY <1>1, <1>2, <1>3, <1>4 DEF Next

LEMMA ConInvHolds == Spec => []ConInv
<1>1. Init => ConInv
  BY EmptyIsConInv, SMTT(30) DEF Init, Empty
<1>2. ConInv /\ [Next]_vars => ConInv'
  BY ConInvStep DEF StepKeeps
<1> QED
  BY <1>1, <1>2, PTL DEF Spec

\* For any number of connections the two trees and the list agree.
THEOREM IndexesAgreeHolds == Spec => []IndexesAgree
<1>1. ConInv => IndexesAgree
  BY DEF ConInv
<1> QED
  BY <1>1, ConInvHolds, PTL

\* The order of the pending jobs keeps the data of the first packet of a
\* connection in the device's buffer until first_job has copied it.
THEOREM PacketsIntactHolds == Spec => []PacketsIntact
<1>1. ConInv => PacketsIntact
  BY DEF ConInv
<1> QED
  BY <1>1, ConInvHolds, PTL

\* The first packet of a connection finds room, whatever the buffer size.
THEOREM FirstPacketHasRoomHolds == Spec => []FirstPacketHasRoom
<1>1. ConInv => FirstPacketHasRoom
  BY FirstOfList DEF ConInv, FirstPacketHasRoom, FirstSays, BPendingGroup_ExecuteJob
<1> QED
  BY <1>1, ConInvHolds, PTL

\* The address used last is never the one that loses its connection.
THEOREM ActiveKeepsConnectionHolds == Spec => ActiveKeepsConnection
<1>1. ConInv /\ [Next]_vars =>
        [alive' => \A c \in Connections :
           c = list[Len(list)] /\ MaxConnections > 1 => conaddr'[c] = conaddr[c]]_vars
  BY ConInvStep DEF StepKeeps
<1> QED
  BY <1>1, ConInvHolds, PTL DEF Spec, ActiveKeepsConnection
-----------------------------------------------------------------------------
(* The table of addresses.                                                 *)

LEMMA AddressesListed ==
  ASSUME ConType, IndexesAgree
  PROVE  /\ Addresses \in Seq(Addrs) /\ Len(Addresses) = Len(list) /\ Len(list) \in Nat
         /\ \A i \in 1..Len(list) : Addresses[i] = conaddr[list[i]]
<1> DEFINE n == Len(list)
<1>1. n \in Nat
  BY DEF ConType
<1>2. \A i \in 1..n : conaddr[list[i]] \in Addrs
  <2>1. \A i \in 1..n : list[i] \in Connections
    BY DEF IndexesAgree
  <2>2. \A d \in Connections : conaddr[d] \in Addrs
    BY DEF ConType, Connections
  <2> QED
    BY <2>1, <2>2, Zenon
<1>3. Addresses = [i \in 1..n |-> conaddr[list[i]]]
  BY DEF Addresses
<1> HIDE DEF n
<1>4. Addresses \in [1..n -> Addrs] /\ \A i \in 1..n : Addresses[i] = conaddr[list[i]]
  BY <1>2, <1>3
<1>5. Addresses \in Seq(Addrs) /\ Len(Addresses) = n
  BY <1>1, <1>4
<1> QED
  BY <1>1, <1>4, <1>5 DEF n

\* find_connection_by_conaddr finds what is in the table.
LEMMA UnknownAddress ==
  ASSUME ConType, IndexesAgree, NEW a, FindByConaddr(a) = {}
  PROVE  ~Table!Known(a)
<1>1. \A i \in 1..Len(list) : list[i] \in Connections
  BY DEF IndexesAgree
<1>2. \A d \in Connections : conaddr[d] # a
  BY DEF FindByConaddr
<1>3. Len(Addresses) = Len(list) /\ \A i \in 1..Len(list) : Addresses[i] = conaddr[list[i]]
  BY AddressesListed, Zenon
<1> QED
  BY <1>1, <1>2, <1>3 DEF Table!Known

\* The connection c goes to the end of the list, with another address or its own.
LEMMA AddressMoved ==
  ASSUME ConType, IndexesAgree, NEW c \in Connections, list' = MovedToEnd(c),
         \A d \in ConIds : d # c => conaddr'[d] = conaddr[d]
  PROVE  LET n == Len(Addresses)
         IN  \E j \in 1..n :
               /\ list[j] = c
               /\ Addresses' = [k \in 1..n |-> IF k = n THEN conaddr'[c]
                                               ELSE IF k < j THEN Addresses[k] ELSE Addresses[k + 1]]
<1> DEFINE n == Len(list)
           j == IndexIn(c)
<1>1. n \in Nat /\ Len(Addresses) = n /\ \A k \in 1..n : Addresses[k] = conaddr[list[k]]
  BY AddressesListed, Zenon
<1>2. j \in 1..n /\ list[j] = c
  BY DEF IndexIn, IndexesAgree
<1>3. list' = [i \in 1..n |-> IF i = n THEN c ELSE IF i < j THEN list[i] ELSE list[i + 1]]
  BY DEF MovedToEnd
<1>4. Len(list') = n
  BY MovedToEndKeeps, Zenon
<1>5. \A k \in 1..n : list[k] \in ConIds /\ (k # j => list[k] # c)
  BY <1>2 DEF IndexesAgree, Connections
<1> DEFINE New(k) == IF k = n THEN conaddr'[c] ELSE IF k < j THEN Addresses[k] ELSE Addresses[k + 1]
<1>6. Addresses' = [k \in 1..n |-> conaddr'[list'[k]]]
  BY <1>4, Zenon DEF Addresses
<1> HIDE DEF n, j
<1>7. ASSUME NEW k \in 1..n PROVE conaddr'[list'[k]] = New(k)
  <2>1. CASE k = n
    BY <1>3, <2>1
  <2>2. CASE k # n /\ k < j
    <3>1. list'[k] = list[k] /\ k # j
      BY <1>1, <1>2, <1>3, <2>2
    <3> QED
      BY <1>1, <1>5, <2>2, <3>1
  <2>3. CASE k # n /\ ~(k < j)
    <3>1. list'[k] = list[k + 1] /\ k + 1 \in 1..n /\ k + 1 # j
      BY <1>1, <1>2, <1>3, <2>3
    <3> QED
      BY <1>1, <1>5, <2>3, <3>1
  <2> QED
    BY <2>1, <2>2, <2>3
<1> HIDE DEF New
<1>8. Addresses' = [k \in 1..n |-> New(k)]
  BY <1>6, <1>7, Zenon
<1> QED
  BY <1>1, <1>2, <1>8, Zenon DEF New

LEMMA AddressUsed ==
  ASSUME ConType, IndexesAgree, NEW c \in Connections, list' = MovedToEnd(c), conaddr' = conaddr
  PROVE  Table!Next
<1>1. PICK j \in 1..Len(Addresses) :
        /\ list[j] = c
        /\ Addresses' = [k \in 1..Len(Addresses) |->
             IF k = Len(Addresses) THEN conaddr'[c] ELSE IF k < j THEN Addresses[k] ELSE Addresses[k + 1]]
  BY AddressMoved
<1>2. conaddr'[c] = Addresses[j]
  BY <1>1, AddressesListed
<1>3. Table!Used(j)
  BY <1>1, <1>2 DEF Table!Used
<1> QED
  BY <1>3 DEF Table!Next

\* reuse_connection: the first address leaves.
LEMMA AddressReplaced ==
  ASSUME ConType, IndexesAgree, NEW a \in Addrs, FindByConaddr(a) = {}, Len(list) = MaxConnections,
         conaddr' = [conaddr EXCEPT ![ReuseConnection] = a], list' = MovedToEnd(ReuseConnection)
  PROVE  Table!Next
<1> DEFINE c == ReuseConnection
           n == Len(Addresses)
<1>1. /\ n = Len(list) /\ n \in Nat /\ n >= 1 /\ Addresses \in Seq(Addrs)
      /\ c = list[1] /\ 1 \in 1..Len(list)
  BY AddressesListed DEF ReuseConnection, ConType
<1>2. c \in Connections /\ c \in ConIds
  BY <1>1 DEF IndexesAgree, Connections
<1>3. conaddr'[c] = a /\ \A d \in ConIds : d # c => conaddr'[d] = conaddr[d]
  BY <1>2 DEF ConType
<1> HIDE DEF c
<1>4. PICK j \in 1..n :
        /\ list[j] = c
        /\ Addresses' = [k \in 1..n |-> IF k = n THEN conaddr'[c]
                                        ELSE IF k < j THEN Addresses[k] ELSE Addresses[k + 1]]
  BY <1>2, <1>3, AddressMoved DEF c
<1>5. j = 1
  BY <1>1, <1>4 DEF IndexesAgree
<1>6. Addresses' = [k \in 1..n |-> IF k = n THEN a ELSE Addresses[k + 1]]
  BY <1>1, <1>3, <1>4, <1>5
<1> DEFINE new == Append(Tail(Addresses), a)
<1>7. new \in Seq(Addrs) /\ Len(new) = n
  BY <1>1
<1>8. \A k \in 1..n : new[k] = IF k = n THEN a ELSE Addresses[k + 1]
  BY <1>1
<1> HIDE DEF new, n
<1>9. new \in [1..n -> Addrs]
  BY <1>7
<1>10. Addresses' = new
  BY <1>6, <1>8, <1>9, Zenon
<1>11. Table!Replaced(a)
  BY <1>1, <1>10, UnknownAddress DEF Table!Replaced, new, n
<1> QED
  BY <1>11 DEF Table!Next

\* connection_init: the new address goes to the end.
LEMMA AddressAdded ==
  ASSUME ConType, InOrder, IndexesAgree, NEW a \in Addrs, FindByConaddr(a) = {},
         Len(list) < MaxConnections, NEW c, c = Len(list),
         conaddr' = [conaddr EXCEPT ![c] = a], list' = Append(list, c)
  PROVE  Table!Next
<1> DEFINE n == Len(list)
<1>1. n \in Nat /\ c \in ConIds /\ c \notin Connections /\ list \in Seq(ConIds)
  BY DEF ConType, InOrder, ConIds
<1>2. conaddr'[c] = a /\ \A d \in ConIds : d # c => conaddr'[d] = conaddr[d]
  BY <1>1 DEF ConType
<1>3. Len(list') = n + 1 /\ list'[n + 1] = c /\ \A i \in 1..n : list'[i] = list[i]
  BY <1>1
<1>4. \A i \in 1..n : list[i] \in ConIds /\ list[i] # c
  BY <1>1 DEF IndexesAgree, Connections
<1>5. Len(Addresses) = n /\ Addresses \in Seq(Addrs) /\ \A i \in 1..n : Addresses[i] = conaddr[list[i]]
  BY AddressesListed, Zenon
<1>6. Addresses' = [i \in 1..(n + 1) |-> conaddr'[list'[i]]]
  BY <1>3, Zenon DEF Addresses
<1> DEFINE new == Append(Addresses, a)
<1>7. new \in Seq(Addrs) /\ Len(new) = n + 1 /\ new[n + 1] = a /\ \A i \in 1..n : new[i] = Addresses[i]
  BY <1>1, <1>5
<1> HIDE DEF new, n
<1>7a. new \in [1..(n + 1) -> Addrs]
  BY <1>7
<1>8. \A i \in 1..(n + 1) : i = n + 1 \/ i \in 1..n
  BY <1>1
<1>9. ASSUME NEW i \in 1..(n + 1) PROVE conaddr'[list'[i]] = new[i]
  <2>1. CASE i = n + 1
    BY <1>2, <1>3, <1>7, <2>1, Zenon
  <2>2. CASE i \in 1..n
    <3>1. list'[i] = list[i] /\ list[i] \in ConIds /\ list[i] # c
      BY <1>3, <1>4, <2>2, Zenon
    <3>2. conaddr'[list[i]] = conaddr[list[i]]
      BY <1>2, <3>1
    <3> QED
      BY <1>5, <1>7, <2>2, <3>1, <3>2, Zenon
  <2> QED
    BY <1>8, <2>1, <2>2, Zenon
<1>10. Addresses' = new
  BY <1>6, <1>7a, <1>9, Zenon
<1>11. Table!Added(a)
  BY <1>5, <1>10, UnknownAddress DEF Table!Added, new, n
<1> QED
  BY <1>11 DEF Table!Next

LEMMA AddressSubmitted ==
  ASSUME ConInv, frame \in Addrs, NEW js, SubmitPacket(js)
  PROVE  Table!Next \/ Addresses' = Addresses
<1>0. ConType /\ InOrder /\ IndexesAgree
  BY DEF ConInv
<1>1. ASSUME NEW c \in FindByConaddr(frame), list' = MovedToEnd(c), conaddr' = conaddr
      PROVE  Table!Next
  <2>1. c \in Connections
    BY DEF FindByConaddr
  <2> QED
    BY <1>0, <1>1, <2>1, AddressUsed, Zenon
<1>2. ASSUME FindByConaddr(frame) = {}, Len(list) = MaxConnections,
             conaddr' = [conaddr EXCEPT ![ReuseConnection] = frame], list' = MovedToEnd(ReuseConnection)
      PROVE  Table!Next
  BY <1>0, <1>2, AddressReplaced, Zenon
<1>3. ASSUME FindByConaddr(frame) = {}, Len(list) < MaxConnections, ConnectionInit(js, frame)
      PROVE  Table!Next \/ Addresses' = Addresses
  <2> DEFINE c == FindUnusedConid
  <2>1. c = Len(list)
    BY <1>0, <1>3, FindUnusedInOrder, Zenon
  <2>2. \/ conaddr' = [conaddr EXCEPT ![c] = frame] /\ list' = Append(list, c)
        \/ UNCHANGED <<conaddr, list>>
    BY <1>3, Zenon DEF ConnectionInit
  <2> HIDE DEF c
  <2>3. CASE conaddr' = [conaddr EXCEPT ![c] = frame] /\ list' = Append(list, c)
    BY <1>0, <1>3, <2>1, <2>3, AddressAdded, Zenon
  <2>4. CASE UNCHANGED <<conaddr, list>>
    BY <2>4 DEF Addresses
  <2> QED
    BY <2>2, <2>3, <2>4, Zenon
<1> QED
  BY <1>1, <1>2, <1>3, Zenon DEF SubmitPacket

\* Every step of the client is a step of the table or leaves it as it is.
LEMMA TableStep == ConInv /\ [Next]_vars => [Table!Next]_Addresses
<1> SUFFICES ASSUME ConInv, [Next]_vars PROVE Table!Next \/ Addresses' = Addresses
  BY Zenon
<1>0. ConType /\ InOrder /\ IndexesAgree
  BY DEF ConInv
<1>1. ASSUME UNCHANGED <<conaddr, list>> PROVE Addresses' = Addresses
  BY <1>1 DEF Addresses
<1>2. CASE SocksUdpGwClient_Free
  <2>1. list' = <<>>
    BY <1>2 DEF SocksUdpGwClient_Free, UdpGwClient_Free
  <2>2. Addresses' = <<>>
    BY <2>1 DEF Addresses
  <2> QED
    BY <2>2, Zenon DEF Table!Next, Table!Cleared
<1>3. CASE DeviceReadHandlerSend
  <2>1. CASE frame = None
    BY <1>1, <1>3, <2>1, Zenon DEF DeviceReadHandlerSend, conVars
  <2>2. CASE frame # None
    <3>1. frame \in Addrs
      BY <1>0, <2>2 DEF ConType
    <3>2. SubmitPacket(BPending_Set(Tail(jobs), J("device", None)))
      BY <1>3, <2>2, Zenon DEF DeviceReadHandlerSend
    <3> QED
      BY <3>1, <3>2, AddressSubmitted, Zenon
  <2> QED
    BY <2>1, <2>2
<1>4. CASE RecvInterfaceHandlerSend
  <2> DEFINE c == Head(answers).conid
  <2>1. conaddr' = conaddr /\ answers # <<>> /\ (list' = list \/ (conaddr[c] # None /\ list' = MovedToEnd(c)))
    BY <1>4, Zenon DEF RecvInterfaceHandlerSend
  <2>2. c \in ConIds
    <3>1. answers \in Seq(Answer)
      BY <1>0 DEF ConType
    <3>2. Head(answers) \in Answer
      BY <2>1, <3>1
    <3> QED
      BY <3>2 DEF Answer
  <2> HIDE DEF c
  <2>3. CASE list' = list
    BY <1>1, <2>1, <2>3
  <2>4. CASE conaddr[c] # None /\ list' = MovedToEnd(c)
    <3>1. c \in Connections
      BY <2>2, <2>4 DEF Connections
    <3> QED
      BY <1>0, <2>1, <2>4, <3>1, AddressUsed, Zenon
  <2> QED
    BY <2>1, <2>3, <2>4
<1>5. CASE \/ SocksUdpGwClient_Init \/ ReconnectTimerHandler \/ Socks \/ ServerError \/ Readable \/ DeviceJob
           \/ UNCHANGED vars
  <2>1. UNCHANGED <<conaddr, list>>
    BY <1>5, Zenon DEF SocksUdpGwClient_Init, ReconnectTimerHandler, Socks, ServerError, Readable, DeviceJob, vars, conVars
  <2> QED
    BY <1>1, <2>1
<1>6. ASSUME NEW c \in ConIds, FirstJob(c) \/ FillJob(c) \/ TakenJob(c) \/ PacketSent(c)
      PROVE  Addresses' = Addresses
  <2>1. UNCHANGED <<conaddr, list>>
    BY <1>6, Zenon DEF FirstJob, FillJob, TakenJob, PacketSent, conVars
  <2> QED
    BY <1>1, <2>1
<1> QED
  BY <1>2, <1>3, <1>4, <1>5, <1>6, Zenon DEF Next

\* The connections of UdpGwClient are a least-recently-used table of addresses,
\* for any number of connections and addresses.
THEOREM ImplementsTableHolds == Spec => ImplementsTable
<1>1. Init => Table!Init
  BY DEF Init, Table!Init, Addresses
<1> QED
  BY <1>1, TableStep, ConInvHolds, PTL DEF Spec, ImplementsTable, Table!Spec

-----------------------------------------------------------------------------
(* Types.                                                                  *)

\* What the two invariants leave open of the type.
Rest == socks \in Client /\ got \in {None} \union (Addrs \X Addrs)

\* free_socks and try_connect leave a client of its type behind.
LEMMA FreedIsClient ==
  ASSUME NEW s, Sound(s), FreeSocks(s)
  PROVE  socks' \in Client
<1>1. s \in Client /\ BSocksClient_Free(s) = Nothing
  BY SoundIsClient, FreeReleases DEF Sound
<1> QED
  BY <1>1, NothingIsHeld, Zenon DEF FreeSocks, Client

LEMMA TriedIsClient == Rest /\ TryConnect => socks' \in Client
BY InitIsSound, SoundIsClient DEF Rest, TryConnect

LEMMA RestStep == Rest /\ SocksInv /\ ConInv /\ [Next]_vars => Rest'
<1> SUFFICES ASSUME Rest, SocksInv, ConInv, [Next]_vars PROVE Rest'
  OBVIOUS
<1>1. CASE SocksUdpGwClient_Init \/ ReconnectTimerHandler
  BY <1>1, TriedIsClient DEF SocksUdpGwClient_Init, ReconnectTimerHandler, Rest
<1>2. CASE SocksUdpGwClient_Free
  BY <1>2, FreedIsClient DEF SocksUdpGwClient_Free, UdpGwClient_Free, SocksInv, Rest
<1>3. CASE Socks
  <2>1. PICK o \in Outcomes(socks) : SocksClientHandler(o[1], o[2])
    BY <1>3 DEF Socks
  <2>2. Sound(o[1]) /\ got' = got
    BY <1>3, OutcomesSound DEF Socks, SocksInv
  <2> QED
    BY <2>1, <2>2, FreedIsClient, SoundIsClient DEF SocksClientHandler, Rest
<1>4. CASE ServerError
  BY <1>4, FreedIsClient DEF ServerError, SocksInv, Rest
<1>5. CASE RecvInterfaceHandlerSend
  <2>1. Head(answers) \in Answer /\ socks' = socks
    BY <1>5 DEF RecvInterfaceHandlerSend, ConInv, ConType, socksVars
  <2>2. Head(answers).conid \in ConIds /\ Head(answers).addr \in Addrs
    BY <2>1 DEF Answer
  <2>3. conaddr[Head(answers).conid] \in Addrs \union {None}
    BY <2>2 DEF ConInv, ConType
  <2> QED
    BY <1>5, <2>1, <2>2, <2>3 DEF RecvInterfaceHandlerSend, Rest
<1>6. CASE UNCHANGED <<socks, got>>
  BY <1>6 DEF Rest
<1>7. \/ SocksUdpGwClient_Init \/ SocksUdpGwClient_Free \/ ReconnectTimerHandler \/ Socks
      \/ ServerError \/ RecvInterfaceHandlerSend \/ UNCHANGED <<socks, got>>
  BY Zenon DEF Next, vars, Readable, DeviceReadHandlerSend, DeviceJob, FirstJob, FillJob, TakenJob,
         PacketSent, restVars, socksVars
<1> QED
  BY <1>1, <1>2, <1>3, <1>4, <1>5, <1>6, <1>7

LEMMA JobListsTyped == JobLists => jobs \in Seq(Job)
<1>1. \A a \in Job : <<a>> \in Seq(Job)
  OBVIOUS
<1>2. \A a, b \in Job : <<a, b>> \in Seq(Job)
  OBVIOUS
<1>3. \A a, b, d \in Job : <<a, b, d>> \in Seq(Job)
  OBVIOUS
<1>4. Device \in Job /\ J("packet", None) \in Job
  BY DEF Device, J, Job
<1>5. \A c \in ConIds : J("fill", c) \in Job /\ J("first", c) \in Job /\ J("taken", c) \in Job
  BY DEF J, Job
<1>6. <<>> \in Seq(Job)
  OBVIOUS
<1>7. \A c \in ConIds : /\ <<J("fill", c)>> \in Seq(Job) /\ <<J("fill", c), Device>> \in Seq(Job)
                        /\ <<J("taken", c), Device>> \in Seq(Job) /\ <<J("first", c), Device>> \in Seq(Job)
                        /\ <<J("fill", c), J("first", c), Device>> \in Seq(Job)
  BY <1>1, <1>2, <1>3, <1>4, <1>5, Zenon
<1>8. CASE jobs \in {<<>>, <<J("packet", None)>>, <<Device>>}
  BY <1>1, <1>4, <1>6, <1>8, Zenon
<1>9. ASSUME NEW c \in ConIds,
             jobs \in {<<J("fill", c)>>, <<J("fill", c), Device>>, <<J("taken", c), Device>>,
                      <<J("fill", c), J("first", c), Device>>, <<J("first", c), Device>>}
      PROVE  jobs \in Seq(Job)
  BY <1>7, <1>9, Zenon
<1> QED
  BY <1>8, <1>9, Zenon DEF JobLists

\* The udpgw client's state keeps its type, for any number of connections:
\* SubmitPacket, the jobs, the answers and the end of a session included.
THEOREM TypeCorrect == Spec => []TypeOK
<1>1. Init => Rest
  <2>1. Nothing \in [Resources -> Int] /\ "CONNECTING" \in States
    BY NothingIsHeld DEF States
  <2> QED
    BY <2>1 DEF Init, Rest, Client
<1>2. Rest /\ SocksInv /\ ConInv => TypeOK
  BY JobListsTyped DEF Rest, SocksInv, ConInv, ConType, Answer, TypeOK
<1> QED
  BY <1>1, <1>2, RestStep, SocksInvHolds, ConInvHolds, PTL DEF Spec

-----------------------------------------------------------------------------
(* Answers.                                                                *)

\* All conids are in use; only then is a connection given another address.
Full == Len(list) = MaxConnections
PacketsOwn == \A c \in ConIds : \A i \in 1..Len(buf[c]) : buf[c][i].addr = conaddr[c]
AnswersOwn == \A i \in 1..Len(answers) : answers[i].addr = conaddr[answers[i].conid]

\* Until then packets and answers under way are of the connection's address.
AnswerInv ==
  /\ ~haveSocks => answers = <<>>
  /\ Full \/ (PacketsOwn /\ AnswersOwn)
  /\ AnswerFromItsRemote

\* connection_send stores the address of the connection.
LEMMA SendKeepsOwn ==
  ASSUME ConType, PacketsOwn, NEW js, NEW c \in ConIds, NEW rebind,
         ConnectionSend(js, c, conaddr[c], rebind), conaddr' = conaddr
  PROVE  PacketsOwn'
<1>0. buf \in [ConIds -> Seq(Packet)] /\ buf[c] \in Seq(Packet)
  BY SMTT(30) DEF ConType
<1>1. CASE c \in ready
  <2> DEFINE p == [addr |-> conaddr[c], rebind |-> rebind, data |-> frame]
  <2>1. buf' = [buf EXCEPT ![c] = Append(buf[c], p)] /\ p.addr = conaddr[c]
    BY <1>1, Zenon DEF ConnectionSend
  <2> HIDE DEF p
  <2>2. ASSUME NEW d \in ConIds, NEW i \in 1..Len(buf'[d]) PROVE buf'[d][i].addr = conaddr'[d]
    <3>1. CASE d # c
      BY <1>0, <2>1, <2>2, <3>1 DEF PacketsOwn
    <3>2. CASE d = c
      <4>1. buf'[c] = Append(buf[c], p)
        BY <1>0, <2>1
      <4>2. \/ i \in 1..Len(buf[c]) /\ buf'[c][i] = buf[c][i]
            \/ buf'[c][i] = p
        BY <1>0, <2>2, <3>2, <4>1
      <4> QED
        BY <2>1, <3>2, <4>2 DEF PacketsOwn
    <3> QED
      BY <3>1, <3>2
  <2> QED
    BY <2>2, Zenon DEF PacketsOwn
<1>2. CASE c \notin ready
  BY <1>2 DEF ConnectionSend, PacketsOwn
<1> QED
  BY <1>1, <1>2

\* A connection is created with a conid that nothing under way has.
LEMMA CreatedKeepsOwn ==
  ASSUME ConType, PacketsOwn, AnswersOwn, NEW c \in ConIds, conaddr[c] = None, NEW a,
         conaddr' = [conaddr EXCEPT ![c] = a], UNCHANGED <<buf, answers>>
  PROVE  PacketsOwn' /\ AnswersOwn'
<1>1. ASSUME NEW d \in ConIds, NEW i \in 1..Len(buf[d]) PROVE buf[d][i].addr = conaddr'[d]
  <2>1. buf[d][i] \in Packet /\ buf[d][i].addr = conaddr[d]
    BY <1>1 DEF ConType, PacketsOwn
  <2>2. d # c
    BY <2>1 DEF Packet
  <2> QED
    BY <2>1, <2>2 DEF ConType
<1>2. ASSUME NEW i \in 1..Len(answers) PROVE answers[i].addr = conaddr'[answers[i].conid]
  <2>1. answers[i] \in Answer /\ answers[i].addr = conaddr[answers[i].conid]
    BY <1>2 DEF ConType, AnswersOwn
  <2>2. answers[i].conid # c /\ answers[i].conid \in ConIds
    BY <2>1 DEF Answer
  <2> QED
    BY <2>1, <2>2 DEF ConType
<1> QED
  BY <1>1, <1>2 DEF PacketsOwn, AnswersOwn

\* What the steps below leave as it is.
LEMMA OwnKeeps ==
  ASSUME AnswerInv, Full => Full', Full' \/ Full \/ (PacketsOwn' /\ AnswersOwn'),
         got' = got, ~haveSocks' => answers' = <<>>
  PROVE  AnswerInv'
BY DEF AnswerInv, AnswerFromItsRemote, Full

LEMMA SubmitKeepsAnswers ==
  ASSUME ConInv, AnswerInv, frame \in Addrs, NEW js, SubmitPacket(js), UNCHANGED restVars
  PROVE  AnswerInv'
<1>0. ConType /\ InOrder /\ IndexesAgree /\ UNCHANGED <<answers, got, haveSocks>>
  BY DEF ConInv, restVars, socksVars
<1>1. ASSUME NEW c \in FindByConaddr(frame), list' = MovedToEnd(c), ConnectionSend(js, c, frame, FALSE),
             UNCHANGED conaddr
      PROVE  AnswerInv'
  <2>1. c \in Connections /\ c \in ConIds /\ conaddr[c] = frame
    BY DEF FindByConaddr, Connections
  <2>2. Len(list') = Len(list)
    BY <1>0, <1>1, <2>1, MovedToEndKeeps
  <2>3. PacketsOwn => PacketsOwn'
    BY <1>0, <1>1, <2>1, SendKeepsOwn, Zenon
  <2>4. AnswersOwn => AnswersOwn'
    BY <1>0, <1>1 DEF AnswersOwn
  <2> QED
    BY <1>0, <2>2, <2>3, <2>4, OwnKeeps DEF AnswerInv, Full
<1>2. ASSUME Full, list' = MovedToEnd(ReuseConnection) PROVE AnswerInv'
  <2>1. ReuseConnection = list[1] /\ 1 \in 1..Len(list)
    BY <1>0, <1>2 DEF ReuseConnection, ConType, Full
  <2>2. ReuseConnection \in Connections
    BY <1>0, <2>1 DEF IndexesAgree
  <2>3. Len(list') = Len(list)
    BY <1>0, <1>2, <2>2, MovedToEndKeeps
  <2> QED
    BY <1>0, <1>2, <2>3, OwnKeeps DEF AnswerInv, Full
<1>3. ASSUME Len(list) < MaxConnections, ConnectionInit(js, frame) PROVE AnswerInv'
  <2> DEFINE c == FindUnusedConid
  <2>1. c = Len(list) /\ c \in ConIds
    BY <1>0, <1>3, FindUnusedInOrder DEF ConType, ConIds
  <2>2. c \notin Connections
    BY <1>0, <2>1 DEF InOrder, ConType
  <2>3. conaddr[c] = None
    BY <2>1, <2>2 DEF Connections
  <2>4. ~Full
    BY <1>0, <1>3 DEF Full, ConType
  <2>5. /\ UNCHANGED buf
        /\ conaddr' = conaddr \/ conaddr' = [conaddr EXCEPT ![c] = frame]
    BY <1>3 DEF ConnectionInit
  <2> HIDE DEF c
  <2>6. PacketsOwn' /\ AnswersOwn'
    <3>1. PacketsOwn /\ AnswersOwn
      BY <2>4 DEF AnswerInv
    <3>2. CASE conaddr' = conaddr
      BY <1>0, <2>5, <3>1, <3>2 DEF PacketsOwn, AnswersOwn
    <3>3. CASE conaddr' = [conaddr EXCEPT ![c] = frame]
      BY <1>0, <2>1, <2>3, <2>5, <3>1, <3>3, CreatedKeepsOwn, Zenon
    <3> QED
      BY <2>5, <3>2, <3>3
  <2> QED
    BY <1>0, <2>4, <2>6, OwnKeeps DEF AnswerInv
<1> QED
  BY <1>1, <1>2, <1>3, Zenon DEF SubmitPacket, Full

LEMMA PacketSentKeepsAnswers ==
  ASSUME ConInv, SocksInv, AnswerInv, NEW c \in ConIds, PacketSent(c)
  PROVE  AnswerInv'
<1>1. /\ buf \in [ConIds -> Seq(Packet)] /\ buf[c] \in Seq(Packet) /\ buf[c] # <<>>
      /\ answers \in Seq(Answer)
  BY DEF ConInv, ConType, PacketSent
<1>2. buf' = [buf EXCEPT ![c] = Tail(buf[c])] /\ UNCHANGED <<conaddr, list, got, haveSocks>> /\ haveSocks
  BY DEF PacketSent, socksVars, SocksInv
<1>3. ASSUME PacketsOwn PROVE PacketsOwn'
  <2> SUFFICES ASSUME NEW d \in ConIds, NEW i \in 1..Len(buf'[d]) PROVE buf'[d][i].addr = conaddr[d]
    BY <1>2, Zenon DEF PacketsOwn
  <2>1. CASE d # c
    BY <1>1, <1>2, <1>3, <2>1 DEF PacketsOwn
  <2>2. CASE d = c
    <3>1. i + 1 \in 1..Len(buf[c]) /\ buf'[d][i] = buf[c][i + 1]
      BY <1>1, <1>2, <2>2
    <3> QED
      BY <1>3, <2>2, <3>1 DEF PacketsOwn
  <2> QED
    BY <2>1, <2>2
<1>4. ASSUME PacketsOwn, AnswersOwn PROVE AnswersOwn'
  <2> DEFINE x == [conid |-> c, addr |-> Head(buf[c]).addr]
  <2>1. x.addr = conaddr[x.conid]
    <3>1. 1 \in 1..Len(buf[c]) /\ Head(buf[c]) = buf[c][1]
      BY <1>1
    <3> QED
      BY <1>4, <3>1 DEF PacketsOwn
  <2>2. answers' = answers \/ answers' = Append(answers, x)
    BY DEF PacketSent
  <2> HIDE DEF x
  <2>3. ASSUME NEW i \in 1..Len(answers') PROVE answers'[i] = x \/ (i \in 1..Len(answers) /\ answers'[i] = answers[i])
    BY <1>1, <2>2, <2>3
  <2> QED
    BY <1>2, <1>4, <2>1, <2>3 DEF AnswersOwn
<1> QED
  BY <1>2, <1>3, <1>4, OwnKeeps DEF AnswerInv, Full

LEMMA ReceiveKeepsAnswers ==
  ASSUME ConInv, SocksInv, AnswerInv, RecvInterfaceHandlerSend
  PROVE  AnswerInv'
<1> DEFINE x == Head(answers)
<1>1. answers \in Seq(Answer) /\ answers # <<>> /\ answers' = Tail(answers)
  BY DEF ConInv, ConType, RecvInterfaceHandlerSend
<1>2. UNCHANGED <<conaddr, buf, haveSocks>> /\ haveSocks
  BY DEF RecvInterfaceHandlerSend, socksVars, SocksInv
<1>3. x \in Answer /\ x = answers[1] /\ 1 \in 1..Len(answers)
  BY <1>1
<1>4. \/ list' = list /\ got' = got
      \/ /\ conaddr[x.conid] # None /\ conaddr[x.conid][2] = x.addr[2]
         /\ list' = MovedToEnd(x.conid) /\ got' = <<conaddr[x.conid], x.addr>>
  BY DEF RecvInterfaceHandlerSend
<1> HIDE DEF x
<1>5. ASSUME AnswersOwn PROVE AnswersOwn'
  <2> SUFFICES ASSUME NEW i \in 1..Len(answers') PROVE answers'[i].addr = conaddr[answers'[i].conid]
    BY <1>2 DEF AnswersOwn
  <2>1. i + 1 \in 1..Len(answers) /\ answers'[i] = answers[i + 1]
    BY <1>1
  <2> QED
    BY <1>5, <2>1 DEF AnswersOwn
<1>6. PacketsOwn => PacketsOwn'
  BY <1>2 DEF PacketsOwn
<1>7. CASE list' = list /\ got' = got
  BY <1>2, <1>5, <1>6, <1>7, OwnKeeps DEF AnswerInv, Full
<1>8. CASE /\ conaddr[x.conid] # None /\ conaddr[x.conid][2] = x.addr[2]
           /\ list' = MovedToEnd(x.conid) /\ got' = <<conaddr[x.conid], x.addr>>
  <2>1. x.conid \in Connections
    BY <1>3, <1>8 DEF Connections, Answer
  <2>2. Len(list') = Len(list)
    BY <1>8, <2>1, MovedToEndKeeps DEF ConInv
  <2>3. got'[1] # got'[2] => Full
    BY <1>3, <1>8 DEF AnswerInv, AnswersOwn
  <2>4. got'[1][2] = got'[2][2]
    BY <1>8
  <2>5. AnswerFromItsRemote'
    BY <2>2, <2>3, <2>4 DEF AnswerFromItsRemote, Full
  <2>6. Full' \/ (PacketsOwn' /\ AnswersOwn')
    BY <1>5, <1>6, <2>2 DEF AnswerInv, Full
  <2> QED
    BY <1>2, <2>5, <2>6 DEF AnswerInv
<1> QED
  BY <1>4, <1>7, <1>8

LEMMA AnswerInvStep == ConInv /\ SocksInv /\ AnswerInv /\ [Next]_vars => AnswerInv'
<1> SUFFICES ASSUME ConInv, SocksInv, AnswerInv, [Next]_vars PROVE AnswerInv'
  OBVIOUS
<1>1. CASE SocksUdpGwClient_Free
  <2>1. answers' = <<>> /\ buf' = [c \in ConIds |-> <<>>] /\ got' = None
    BY <1>1 DEF SocksUdpGwClient_Free, UdpGwClient_Free, FreeSocks, AnswerInv
  <2>2. PacketsOwn' /\ AnswersOwn'
    BY <2>1 DEF PacketsOwn, AnswersOwn
  <2> QED
    BY <2>1, <2>2 DEF AnswerInv, AnswerFromItsRemote
<1>2. CASE /\ UNCHANGED <<conaddr, list, buf, got>> /\ (answers' = answers \/ answers' = <<>>)
           /\ (haveSocks' => answers' = <<>> \/ haveSocks \/ answers = <<>>) /\ (~haveSocks' => answers' = <<>>)
  <2>1. PacketsOwn => PacketsOwn'
    BY <1>2 DEF PacketsOwn
  <2>2. AnswersOwn => AnswersOwn'
    BY <1>2 DEF AnswersOwn
  <2> QED
    BY <1>2, <2>1, <2>2, OwnKeeps DEF AnswerInv, Full
<1>3. CASE SocksUdpGwClient_Init \/ ReconnectTimerHandler
  <2>1. ~haveSocks /\ UNCHANGED <<conVars, got, answers>>
    BY <1>3 DEF SocksUdpGwClient_Init, ReconnectTimerHandler, SocksInv
  <2> QED
    BY <1>2, <2>1 DEF AnswerInv, conVars
<1>4. CASE Socks \/ ServerError
  <2>1. UNCHANGED <<conVars, got>> /\ (answers' = <<>> \/ (answers' = answers /\ haveSocks' = haveSocks))
    BY <1>4 DEF Socks, ServerError, SocksClientHandler, FreeSocks
  <2> QED
    BY <1>2, <2>1 DEF AnswerInv, conVars
<1>5. CASE UNCHANGED <<conaddr, list, buf, got, answers, haveSocks>>
  BY <1>2, <1>5 DEF AnswerInv
<1>6. CASE DeviceReadHandlerSend
  <2>1. CASE frame = None
    BY <1>5, <1>6, <2>1 DEF DeviceReadHandlerSend, conVars, restVars, socksVars
  <2>2. CASE frame # None
    <3>1. frame \in Addrs
      BY <2>2 DEF ConInv, ConType
    <3> QED
      BY <1>6, <2>2, <3>1, SubmitKeepsAnswers DEF DeviceReadHandlerSend
  <2> QED
    BY <2>1, <2>2
<1>7. ASSUME NEW c \in ConIds, FirstJob(c) PROVE AnswerInv'
  <2>1. UNCHANGED <<conaddr, list, got, answers, haveSocks>> /\ ConType
    BY <1>7 DEF FirstJob, restVars, socksVars, ConInv
  <2>2. PacketsOwn => PacketsOwn'
    BY <1>7, <2>1, SendKeepsOwn, Zenon DEF FirstJob
  <2>3. AnswersOwn => AnswersOwn'
    BY <2>1, SMTT(30) DEF AnswersOwn
  <2> QED
    BY <2>1, <2>2, <2>3, OwnKeeps DEF AnswerInv, Full
<1>8. CASE Readable \/ DeviceJob \/ UNCHANGED vars \/ \E c \in ConIds : FillJob(c) \/ TakenJob(c)
  BY <1>5, <1>8, Zenon DEF Readable, DeviceJob, FillJob, TakenJob, vars, conVars, restVars, socksVars
<1> QED
  BY <1>1, <1>3, <1>4, <1>6, <1>7, <1>8, PacketSentKeepsAnswers, ReceiveKeepsAnswers DEF Next

\* Whatever is reused while a packet or an answer is on its way, the answer
\* that recv_interface_handler_send passes on is from the connection's remote
\* address, and for its local one unless all conids are in use.
THEOREM AnswerFromItsRemoteHolds == Spec => []AnswerFromItsRemote
<1>1. ASSUME Init PROVE AnswerInv
  <2>1. answers = <<>> /\ got = None /\ buf = [c \in ConIds |-> <<>>]
    BY <1>1 DEF Init
  <2>2. PacketsOwn /\ AnswersOwn
    BY <2>1 DEF PacketsOwn, AnswersOwn
  <2> QED
    BY <2>1, <2>2 DEF AnswerInv, AnswerFromItsRemote
<1>2. AnswerInv => AnswerFromItsRemote
  BY DEF AnswerInv
<1> QED
  BY <1>1, <1>2, AnswerInvStep, ConInvHolds, SocksInvHolds, PTL DEF Spec

=============================================================================
