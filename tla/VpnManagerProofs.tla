-------------------------- MODULE VpnManagerProofs --------------------------
(***************************************************************************)
(* The safety of PsiphonVpnManager for any set of thread identities and    *)
(* ports.  IInv ties the four pieces of state the code never compares      *)
(* directly: the job's position, the tun descriptor, tun2SocksThread and   *)
(* the thread that really runs.                                            *)
(***************************************************************************)
EXTENDS VpnManager, TLAPS

\* A thread that exists is the one tun2SocksThread refers to.
LiveIsCurrent == \A t \in Threads : native[t] # "none" => tun2SocksThread = t

\* The descriptor and the thread reference follow the session.  In particular
\* a referenced thread always has isRouting set when vpnTeardown looks at it,
\* so the teardown never skips stopTun2Socks.
SessionShape ==
  /\ job \in {"up", "join"} => tunFd
  /\ job \in {"idle", "failed", "closed"} => ~tunFd /\ tun2SocksThread = NoThread
  /\ job = "up" /\ tun2SocksThread # NoThread => isRouting
  /\ job = "join" => tun2SocksThread # NoThread

\* Past its compare-and-swap a thread sees g_terminate only during a join.
TerminateIsCurrent ==
  \A t \in Threads : native[t] \in {"init", "loop"} /\ gTerminate = 1 => job = "join"

IInv == TypeOK /\ LiveIsCurrent /\ SessionShape /\ TerminateIsCurrent

USE ThreadsAssumption, PortsAssumption, AddrsAssumption

LEMMA SelectType == \A used : SelectPrivateAddress(used) \in {"10", "172", "192", "169"}
BY DEF SelectPrivateAddress

LEMMA InitTypeOK == Init => TypeOK
<1> SUFFICES ASSUME Init PROVE TypeOK
  OBVIOUS
<1>1. core \in [call : {"none", "route"}, port : Ports \cup {0}]
  BY DEF Init, NoCall
<1>2. tunFd \in BOOLEAN /\ isRouting \in BOOLEAN
  BY Zenon DEF Init
<1>3. native \in [Threads -> NativeStates]
  BY DEF Init, NativeStates
<1>4. job \in JobStates /\ tun2SocksThread \in Threads \cup {NoThread} /\ gTerminate \in {0, 1}
      /\ privateAddress \in {"none", "10", "172", "192", "169"} /\ inUse \subseteq Addrs
  BY DEF Init, JobStates
<1> QED
  BY <1>1, <1>2, <1>3, <1>4 DEF TypeOK

\* The type invariant holds in every reachable state.
THEOREM TypeCorrect == Spec => []TypeOK
<1>1. Init => TypeOK
  BY InitTypeOK
<1>2. TypeOK /\ [Next]_vars => TypeOK'
  <2> SUFFICES ASSUME TypeOK, [Next]_vars PROVE TypeOK'
    OBVIOUS
  <2> USE DEF TypeOK, JobStates, NativeStates
  <2> USE DEF address
  <2>1. CASE VpnEstablish
    <3>1. core' = core /\ tun2SocksThread' = tun2SocksThread /\ native' = native /\ gTerminate' = gTerminate
      BY <2>1 DEF VpnEstablish
    <3>2. job' \in JobStates /\ inUse' \subseteq Addrs
      BY <2>1 DEF VpnEstablish
    <3>3. privateAddress' \in {"none", "10", "172", "192", "169"}
      BY <2>1, SelectType DEF VpnEstablish
    <3>4. tunFd' \in BOOLEAN /\ isRouting' \in BOOLEAN
      BY <2>1, ZenonT(30) DEF VpnEstablish
    <3> QED
      BY <3>1, <3>2, <3>3, <3>4
  <2>2. CASE VpnTeardown
    <3>1. privateAddress' = privateAddress /\ inUse' = inUse
      BY <2>2 DEF VpnTeardown
    <3>2. core' = core /\ tun2SocksThread' = tun2SocksThread /\ native' = native
      BY <2>2 DEF VpnTeardown
    <3>3. job' \in JobStates /\ gTerminate' \in {0, 1}
      BY <2>2 DEF VpnTeardown, CloseTun, TerminateTun2Socks
    <3>4. tunFd' \in BOOLEAN /\ isRouting' \in BOOLEAN
      BY <2>2, ZenonT(30) DEF VpnTeardown, CloseTun
    <3> QED
      BY <3>1, <3>2, <3>3, <3>4
  <2>3. CASE JoinReturns
    BY <2>3, Zenon DEF JoinReturns, CloseTun
  <2>4. CASE CoreStops
    BY <2>4 DEF CoreStops
  <2>5. CASE CallRoute
    BY <2>5 DEF CallRoute
  <2>6. ASSUME NEW f \in BOOLEAN, RouteThroughTunnel(f) PROVE TypeOK'
    BY <2>6 DEF RouteThroughTunnel, StartTun2Socks, NoCall, Live
  <2>7. ASSUME NEW t \in Threads, RunTun2Socks(t) PROVE TypeOK'
    BY <2>7 DEF RunTun2Socks, NativeMoves
  <2>8. ASSUME NEW t \in Threads, RunInit(t) PROVE TypeOK'
    BY <2>8 DEF RunInit, NativeMoves
  <2>9. ASSUME NEW t \in Threads, TcpTimer(t) \/ DeviceError(t) \/ RunCleanup(t) PROVE TypeOK'
    BY <2>9 DEF TcpTimer, DeviceError, RunCleanup, NativeMoves
  <2>10. CASE UNCHANGED vars
    BY <2>10 DEF vars
  <2> QED
    BY <2>1, <2>2, <2>3, <2>4, <2>5, <2>6, <2>7, <2>8, <2>9, <2>10 DEF Next
<1> QED
  BY <1>1, <1>2, PTL DEF Spec

LEMMA InitIInv == Init => IInv
<1> SUFFICES ASSUME Init PROVE LiveIsCurrent /\ SessionShape /\ TerminateIsCurrent
  BY InitTypeOK DEF IInv
<1>1. LiveIsCurrent /\ TerminateIsCurrent
  BY DEF Init, LiveIsCurrent, TerminateIsCurrent
<1>2. SessionShape
  BY DEF Init, SessionShape
<1> QED
  BY <1>1, <1>2

\* Every step keeps the strengthened invariant.
LEMMA StepIInv == IInv /\ TypeOK' /\ [Next]_vars => IInv'
<1> SUFFICES ASSUME IInv, TypeOK', [Next]_vars PROVE IInv'
  OBVIOUS
<1> USE DEF IInv, TypeOK, LiveIsCurrent, SessionShape, TerminateIsCurrent
<1>1. CASE VpnEstablish
  BY <1>1 DEF VpnEstablish
<1>2. CASE VpnTeardown
  BY <1>2 DEF VpnTeardown, CloseTun, TerminateTun2Socks
<1>3. CASE JoinReturns
  BY <1>3 DEF JoinReturns, CloseTun
<1>4. CASE CoreStops
  BY <1>4 DEF CoreStops
<1>5. CASE CallRoute
  BY <1>5 DEF CallRoute
<1>6. ASSUME NEW f \in BOOLEAN, RouteThroughTunnel(f) PROVE IInv'
  BY <1>6 DEF RouteThroughTunnel, StartTun2Socks, Live, JobStates, NativeStates
<1>7. ASSUME NEW t \in Threads, RunTun2Socks(t) PROVE IInv'
  BY <1>7 DEF RunTun2Socks, NativeMoves
<1>8. ASSUME NEW t \in Threads, RunInit(t) PROVE IInv'
  BY <1>8 DEF RunInit, NativeMoves
<1>9. ASSUME NEW t \in Threads, TcpTimer(t) \/ DeviceError(t) \/ RunCleanup(t) PROVE IInv'
  BY <1>9 DEF TcpTimer, DeviceError, RunCleanup, NativeMoves
<1>10. CASE UNCHANGED vars
  BY <1>10 DEF vars
<1> QED
  BY <1>1, <1>2, <1>3, <1>4, <1>5, <1>6, <1>7, <1>8, <1>9, <1>10 DEF Next

LEMMA Invariance == Spec => []IInv
BY InitIInv, StepIInv, TypeCorrect, PTL DEF Spec

\* Two tun2socks threads are never inside the native code, which keeps its
\* state in globals, at the same time.
THEOREM OneTun2SocksHolds == Spec => []OneTun2Socks
<1>1. IInv => OneTun2Socks
  BY DEF IInv, LiveIsCurrent, OneTun2Socks, Live
<1> QED
  BY <1>1, Invariance, PTL

\* After vpnTeardown the descriptor is closed and no tun2socks thread is left.
THEOREM TornDownHolds == Spec => []TornDown
<1>1. IInv => TornDown
  BY DEF IInv, TypeOK, LiveIsCurrent, SessionShape, TornDown, Live
<1> QED
  BY <1>1, Invariance, PTL

\* What the comparison of text takes for 172.16/12 includes all of it, and
\* besides it 172.2, 172.3 and 172.160 to 172.255.
LEMMA TextCovers ==
  \A o \in 0..255 : TwoChars(o) >= 16 /\ TwoChars(o) <= 31 <=> o \in 16..31 \cup {2, 3} \cup 160..255
BY DEF TwoChars

\* selectPrivateAddress never chooses one of the three private ranges that an
\* address of an interface is in.
LEMMA SelectFree ==
  ASSUME NEW used \in SUBSET Addrs, NEW x \in used
  PROVE  ~InRange(x, SelectPrivateAddress(used))
<1>1. x[1] = 10 => "10" \in Taken(used)
  BY DEF Taken
<1>2. x[1] = 172 /\ x[2] \in 16..31 => "172" \in Taken(used)
  BY TextCovers DEF Taken
<1>3. x = <<192, 168>> => "192" \in Taken(used)
  BY DEF Taken
<1> QED
  BY <1>1, <1>2, <1>3 DEF SelectPrivateAddress, InRange

\* A candidate that selectPrivateAddress removes is one of the three, and has
\* an address in it or one that compares inside.
LEMMA TakenFor ==
  ASSUME NEW used \in SUBSET Addrs, NEW k \in {"10", "172", "192"}, k \in Taken(used)
  PROVE  \E x \in used : InRange(x, k) \/ LooksInRange(x, k)
<1>1. PICK x \in used : k = IF x[1] = 10 THEN "10"
                           ELSE IF x[1] = 172 /\ TwoChars(x[2]) >= 16 /\ TwoChars(x[2]) <= 31 THEN "172"
                           ELSE IF x = <<192, 168>> THEN "192" ELSE "none"
  BY DEF Taken
<1>2. x[2] \in 0..255
  BY AddrsAssumption
<1> QED
  BY <1>1, <1>2, TextCovers DEF InRange, LooksInRange

\* selectPrivateAddress passes over a candidate only if it was removed.
LEMMA SelectFirst ==
  ASSUME NEW used \in SUBSET Addrs, NEW k \in Before(SelectPrivateAddress(used))
  PROVE  \E x \in used : InRange(x, k) \/ LooksInRange(x, k)
<1>1. k \in {"10", "172", "192"} /\ k \in Taken(used)
  BY DEF Before, SelectPrivateAddress
<1> QED
  BY <1>1, TakenFor

\* The interface's address is of the first of the three private ranges that no
\* other interface uses, and of 169.254.1/24 only if each of them was removed.
THEOREM FirstFreeRangeHolds == Spec => []FirstFreeRange
<1> DEFINE Inv == privateAddress # "none" => privateAddress = SelectPrivateAddress(inUse)
<1>1. Init => Inv
  BY DEF Init
<1>2. TypeOK /\ Inv /\ [Next]_vars => Inv'
  <2> SUFFICES ASSUME Inv, [Next]_vars PROVE Inv'
    OBVIOUS
  <2>1. CASE VpnEstablish
    BY <2>1 DEF VpnEstablish, address
  <2>2. CASE UNCHANGED address
    BY <2>2 DEF address
  <2> QED
    BY <2>1, <2>2 DEF Next, vars, address, VpnTeardown, JoinReturns, CoreStops, CallRoute, RouteThroughTunnel,
       RunTun2Socks, RunInit, TcpTimer, DeviceError, RunCleanup, NativeMoves
<1>3. TypeOK /\ Inv => FirstFreeRange
  <2> SUFFICES ASSUME TypeOK, Inv PROVE FirstFreeRange
    OBVIOUS
  <2>1. CASE privateAddress = "none"
    BY <2>1 DEF FirstFreeRange, InRange, Before
  <2>2. CASE privateAddress # "none"
    BY <2>2, SelectFree, SelectFirst DEF TypeOK, FirstFreeRange
  <2> QED
    BY <2>1, <2>2
<1> HIDE DEF Inv
<1> QED
  BY <1>1, <1>2, <1>3, TypeCorrect, PTL DEF Spec

\* A termination request of one session never ends the event loop of another.
THEOREM NoStaleTerminateHolds == Spec => []NoStaleTerminate
<1>1. IInv => NoStaleTerminate
  BY DEF IInv, TerminateIsCurrent, NoStaleTerminate
<1> QED
  BY <1>1, Invariance, PTL
\* The manager implements VpnInterface.
THEOREM ImplementsInterfaceHolds == Spec => ImplementsInterface
<1>1. Init => Interface!Init
  BY SMTT(30) DEF Init, Interface!Init, vpnBar
<1>2. IInv /\ IInv' /\ [Next]_vars => [Interface!Next]_vpnBar
  <2> SUFFICES ASSUME IInv, IInv', [Next]_vars PROVE [Interface!Next]_vpnBar
    OBVIOUS
  <2> USE DEF IInv, TypeOK, LiveIsCurrent, SessionShape, Interface!Next, Interface!Establish,
              Interface!StartRouting, Interface!EndRouting, Interface!TakeDown, vpnBar, Live
  <2>1. CASE VpnEstablish
    BY <2>1 DEF VpnEstablish
  <2>2. CASE VpnTeardown
    BY <2>2 DEF VpnTeardown, CloseTun, TerminateTun2Socks
  <2>3. CASE JoinReturns
    BY <2>3 DEF JoinReturns, CloseTun
  <2>4. CASE CoreStops
    BY <2>4 DEF CoreStops
  <2>5. CASE CallRoute
    BY <2>5 DEF CallRoute
  <2>6. ASSUME NEW f \in BOOLEAN, RouteThroughTunnel(f) PROVE [Interface!Next]_vpnBar
    BY <2>6 DEF RouteThroughTunnel, StartTun2Socks, JobStates
  <2>7. ASSUME NEW t \in Threads, RunTun2Socks(t) PROVE [Interface!Next]_vpnBar
    BY <2>7 DEF RunTun2Socks, NativeMoves
  <2>8. ASSUME NEW t \in Threads, RunInit(t) PROVE [Interface!Next]_vpnBar
    BY <2>8 DEF RunInit, NativeMoves
  <2>9. ASSUME NEW t \in Threads, TcpTimer(t) \/ DeviceError(t) \/ RunCleanup(t)
        PROVE [Interface!Next]_vpnBar
    BY <2>9 DEF TcpTimer, DeviceError, RunCleanup, NativeMoves
  <2>10. CASE UNCHANGED vars
    BY <2>10 DEF vars
  <2> HIDE DEF IInv, TypeOK, LiveIsCurrent, SessionShape, Interface!Next, Interface!Establish,
              Interface!StartRouting, Interface!EndRouting, Interface!TakeDown, vpnBar, Live
  <2>11. CASE \E t \in Threads : RunTun2Socks(t) \/ RunInit(t) \/ TcpTimer(t) \/ DeviceError(t) \/ RunCleanup(t)
    BY <2>7, <2>8, <2>9, <2>11, ZenonT(30)
  <2>12. CASE VpnEstablish \/ VpnTeardown \/ JoinReturns \/ CoreStops \/ CallRoute
    BY <2>1, <2>2, <2>3, <2>4, <2>5, <2>12, Zenon
  <2> QED
    BY <2>6, <2>10, <2>11, <2>12, ZenonT(30) DEF Next
<1> QED
  BY <1>1, <1>2, Invariance, PTL DEF Spec, ImplementsInterface, Interface!Spec

-----------------------------------------------------------------------------
(* The request that a teardown waits for.                                  *)

\* The compare-and-swap at the start of runTun2SocksNative while vpnTeardown
\* waits for that very thread.
RequestWiped == job = "join" /\ \E t \in Threads : RunTun2Socks(t)

\* The compare-and-swap at the start of runTun2SocksNative is all that a request
\* can be lost to: in a behaviour in which it does not come during a join,
\* vpnTeardown never waits for an event loop that has not been told to end,
\* however sessions, late callbacks and native failures interleave.
THEOREM RequestLostOnlyAtStart ==
  Spec /\ [][~RequestWiped]_vars => [](job = "join" => gTerminate = 1)
<1> DEFINE Told == job = "join" => gTerminate = 1
<1>1. Init => Told
  BY DEF Init
<1>2. Told /\ [Next]_vars /\ [~RequestWiped]_vars => Told'
  <2> SUFFICES ASSUME Told, [Next]_vars, [~RequestWiped]_vars PROVE Told'
    OBVIOUS
  <2>1. CASE UNCHANGED vars
    BY <2>1 DEF vars
  <2>2. CASE VpnEstablish \/ VpnTeardown \/ JoinReturns \/ CoreStops
    BY <2>2 DEF VpnEstablish, VpnTeardown, JoinReturns, CoreStops, CloseTun, TerminateTun2Socks
  <2>3. CASE CallRoute \/ \E f \in BOOLEAN : RouteThroughTunnel(f)
    BY <2>3 DEF CallRoute, RouteThroughTunnel
  <2>4. ASSUME NEW t \in Threads, RunInit(t) \/ TcpTimer(t) \/ DeviceError(t) \/ RunCleanup(t) PROVE Told'
    BY <2>4 DEF RunInit, TcpTimer, DeviceError, RunCleanup, NativeMoves
  <2>5. ASSUME NEW t \in Threads, RunTun2Socks(t), ~UNCHANGED vars PROVE Told'
    BY <2>5, Zenon DEF RequestWiped, RunTun2Socks, NativeMoves
  <2> QED
    BY <2>1, <2>2, <2>3, <2>4, <2>5 DEF Next
<1> HIDE DEF Told
<1>3. Told <=> (job = "join" => gTerminate = 1)
  BY DEF Told
<1> QED
  BY <1>1, <1>2, <1>3, PTL DEF Spec

=============================================================================
