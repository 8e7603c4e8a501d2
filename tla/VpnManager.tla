----------------------------- MODULE VpnManager -----------------------------
(***************************************************************************)
(* PsiphonVpnManager.kt: the process-wide owner of the tun file descriptor *)
(* and of the tun2socks native thread, together with the part of           *)
(* tun2socks.c that decides when that thread ends.                         *)
(*                                                                         *)
(* Two threads call the manager: the tunnel job (vpnEstablish when a       *)
(* session starts, vpnTeardown from its finally block) and the tunnel-core *)
(* thread that delivers onConnected (routeThroughTunnel).  All the methods *)
(* are @Synchronized.  Only vpnTeardown blocks inside the monitor, in      *)
(* Thread.join(), so the monitor is held across steps exactly while        *)
(* job = "join"; every other method is a single step taken when the        *)
(* monitor is free.                                                        *)
(***************************************************************************)
EXTENDS Integers, FiniteSets

CONSTANTS Threads,    \* identities of tun2socks threads; an ended one may be used again
          NoThread,   \* the null value of tun2SocksThread
          Ports,      \* values routeThroughTunnel may be called with
          Addrs       \* IPv4 addresses of network interfaces, by their first two octets

ASSUME ThreadsAssumption == Threads # {} /\ NoThread \notin Threads
ASSUME PortsAssumption == Ports \subseteq Int
ASSUME AddrsAssumption == Addrs \subseteq (0..255) \X (0..255)

VARIABLES
  job,               \* where the tunnel job is in its session
  core,              \* what the tunnel-core callback thread is doing
  tunFd,             \* is this.tunFd set (and open)?
  isRouting,         \* isRoutingThroughTunnel
  tun2SocksThread,   \* the thread the manager refers to, or NoThread
  native,            \* where each tun2socks thread is
  gTerminate,        \* g_terminate of tun2socks.c
  privateAddress,    \* the range of the interface's address, by its key
  inUse              \* the addresses selectPrivateAddress has seen

vars == <<job, core, tunFd, isRouting, tun2SocksThread, native, gTerminate, privateAddress, inUse>>
address == <<privateAddress, inUse>>

JobStates == {"idle", "failed", "up", "join", "closed"}
NativeStates == {"none", "started", "init", "loop", "quit"}

\* The threads that exist: Thread.start() was called and run() has not returned.
Live == {t \in Threads : native[t] # "none"}

MonitorFree == job # "join"

NoCall == [call |-> "none", port |-> 0]

Init ==
  /\ job = "idle"
  /\ core = NoCall
  /\ tunFd = FALSE
  /\ isRouting = FALSE
  /\ tun2SocksThread = NoThread
  /\ native = [t \in Threads |-> "none"]
  /\ gTerminate = 0
  /\ privateAddress = "none"
  /\ inUse = {}

-----------------------------------------------------------------------------
(* The tunnel job. *)

\* The first two characters of an octet and of the dot that follows it, as a
\* number that orders them like text: a dot comes before every digit.
TwoChars(o) == IF o < 10 THEN 10 * o - 1 ELSE IF o < 100 THEN o ELSE o \div 10

\* A faulty Taken that leaves out the last of the ranges 172.16 to 172.31.
TakenShort(used) ==
  { IF x[1] = 10 THEN "10"
    ELSE IF x[1] = 172 /\ TwoChars(x[2]) >= 16 /\ TwoChars(x[2]) < 31 THEN "172"
    ELSE IF x = <<192, 168>> THEN "192" ELSE "none" : x \in used }

\* The candidates that selectPrivateAddress removes: it compares text.
Taken(used) ==
  { IF x[1] = 10 THEN "10"
    ELSE IF x[1] = 172 /\ TwoChars(x[2]) >= 16 /\ TwoChars(x[2]) <= 31 THEN "172"
    ELSE IF x = <<192, 168>> THEN "192" ELSE "none" : x \in used }

\* The first candidate left; "169" always is.
SelectPrivateAddress(used) ==
  IF "10" \notin Taken(used) THEN "10"
  ELSE IF "172" \notin Taken(used) THEN "172"
  ELSE IF "192" \notin Taken(used) THEN "192" ELSE "169"

\* vpnEstablish: selectPrivateAddress may throw before any field is assigned,
\* and establish() after privateAddress is.
VpnEstablish ==
  /\ job = "idle"
  /\ MonitorFree
  /\ \/ job' = "failed" /\ UNCHANGED <<tunFd, isRouting, address>>
     \/ /\ inUse' \in SUBSET Addrs
        /\ privateAddress' = SelectPrivateAddress(inUse')
        /\ \/ job' = "failed" /\ UNCHANGED <<tunFd, isRouting>>
           \/ job' = "up" /\ tunFd' = TRUE /\ isRouting' = FALSE
  /\ UNCHANGED <<core, tun2SocksThread, native, gTerminate>>

\* terminateTun2SocksNative: compare-and-swap 0 -> 1.
TerminateTun2Socks == gTerminate' = 1

\* The end of vpnTeardown, once stopRouteThroughTunnel() has returned.
CloseTun ==
  /\ tunFd' = FALSE
  /\ isRouting' = FALSE
  /\ job' = "closed"

\* A faulty VpnTeardown that closes the descriptor before it waits for the thread.
TeardownClosesFirst ==
  /\ job \in {"up", "failed"}
  /\ MonitorFree
  /\ IF isRouting /\ tun2SocksThread # NoThread
     THEN isRouting' = FALSE /\ TerminateTun2Socks /\ job' = "join" /\ tunFd' = FALSE
     ELSE CloseTun /\ UNCHANGED gTerminate
  /\ UNCHANGED <<core, tun2SocksThread, native, address>>

\* vpnTeardown -> stopRouteThroughTunnel -> stopTun2Socks up to thread.join(),
\* which is entered with the monitor held; without a thread there is nothing
\* to wait for and the teardown finishes at once.
VpnTeardown ==
  /\ job \in {"up", "failed"}
  /\ MonitorFree
  /\ IF isRouting /\ tun2SocksThread # NoThread
     THEN /\ isRouting' = FALSE
          /\ TerminateTun2Socks
          /\ job' = "join"
          /\ UNCHANGED tunFd
     ELSE CloseTun /\ UNCHANGED gTerminate
  /\ UNCHANGED <<core, tun2SocksThread, native, address>>

\* A faulty JoinReturns that does not wait for the thread to end.
JoinSkipped ==
  /\ job = "join"
  /\ tun2SocksThread' = NoThread
  /\ CloseTun
  /\ UNCHANGED <<core, native, gTerminate, address>>

\* thread.join() returns; the rest of stopTun2Socks and of vpnTeardown.
JoinReturns ==
  /\ job = "join"
  /\ native[tun2SocksThread] = "none"
  /\ tun2SocksThread' = NoThread
  /\ CloseTun
  /\ UNCHANGED <<core, native, gTerminate, address>>

\* psiphonTunnel.stop() in the job's finally block: it returns when no
\* callback is in progress, and none begins afterwards.
CoreStops ==
  /\ job = "closed"
  /\ core.call = "none"
  /\ job' = "idle"
  /\ UNCHANGED <<core, tunFd, isRouting, tun2SocksThread, native, gTerminate, address>>

-----------------------------------------------------------------------------
(* The tunnel-core callback thread. *)

\* onConnected reaches vpnManager.routeThroughTunnel(port); the core runs from
\* startTunneling(), after vpnEstablish(), to stop(), after vpnTeardown().
CallRoute ==
  /\ core.call = "none"
  /\ job \in {"up", "join", "closed"}
  /\ \E p \in Ports : core' = [call |-> "route", port |-> p]
  /\ UNCHANGED <<job, tunFd, isRouting, tun2SocksThread, native, gTerminate, address>>

\* startTun2Socks: with a thread already there it returns, dropping the dup.
StartTun2Socks ==
  IF tun2SocksThread # NoThread
  THEN UNCHANGED <<tun2SocksThread, native>>
  ELSE \E t \in Threads \ Live :
         /\ tun2SocksThread' = t
         /\ native' = [native EXCEPT ![t] = "started"]

\* routeThroughTunnel: the flag is taken before anything that can fail is
\* tried; "dupFails" is the IOException of ParcelFileDescriptor.dup().
RouteThroughTunnel(dupFails) ==
  /\ core.call = "route"
  /\ MonitorFree
  /\ core' = NoCall
  /\ isRouting' = TRUE
  /\ IF ~isRouting /\ tunFd /\ core.port > 0 /\ ~dupFails
     THEN StartTun2Socks
     ELSE UNCHANGED <<tun2SocksThread, native>>
  /\ UNCHANGED <<job, tunFd, gTerminate, address>>

-----------------------------------------------------------------------------
(* The tun2socks thread t. *)

NativeMoves(t, from, to) ==
  /\ native[t] = from
  /\ native' = [native EXCEPT ![t] = to]
  /\ UNCHANGED <<job, core, tunFd, isRouting, tun2SocksThread, address>>

\* A faulty RunTun2Socks that does not clear g_terminate.
RunKeepsTerminate(t) == NativeMoves(t, "started", "init") /\ UNCHANGED gTerminate

\* runTun2SocksNative up to run(): compare-and-swap of g_terminate 1 -> 0.
RunTun2Socks(t) ==
  /\ NativeMoves(t, "started", "init")
  /\ gTerminate' = 0

\* run() up to BReactor_Exec, or its failure at any of the fail labels.
RunInit(t) ==
  /\ \E next \in {"loop", "none"} : NativeMoves(t, "init", next)
  /\ UNCHANGED gTerminate

\* A faulty TcpTimer that polls g_terminate for the wrong value.
TimerInverted(t) ==
  /\ gTerminate = 0
  /\ NativeMoves(t, "loop", "quit")
  /\ UNCHANGED gTerminate

\* tcp_timer_handler finds g_terminate set and calls terminate(); a tick that
\* finds it clear changes nothing here.
TcpTimer(t) ==
  /\ gTerminate = 1
  /\ NativeMoves(t, "loop", "quit")
  /\ UNCHANGED gTerminate

\* device_error_handler -> terminate().
DeviceError(t) ==
  /\ NativeMoves(t, "loop", "quit")
  /\ UNCHANGED gTerminate

\* run() after BReactor_Exec: clients, listeners, netif and pcbs are freed,
\* BTap_Free closes the descriptor, the thread ends.
RunCleanup(t) ==
  /\ NativeMoves(t, "quit", "none")
  /\ UNCHANGED gTerminate

-----------------------------------------------------------------------------
Next ==
  \/ VpnEstablish
  \/ VpnTeardown
  \/ JoinReturns
  \/ CoreStops
  \/ CallRoute
  \/ \E dupFails \in BOOLEAN : RouteThroughTunnel(dupFails)
  \/ \E t \in Threads :
       RunTun2Socks(t) \/ RunInit(t) \/ TcpTimer(t) \/ DeviceError(t) \/ RunCleanup(t)

(***************************************************************************)
(* Threads that can move do move: the finally block runs to its end, a     *)
(* callback in progress finishes, a started native thread runs and its     *)
(* timer keeps firing.  Nothing is assumed of what starts or ends a        *)
(* session, of callbacks being made, or of device errors.                  *)
(***************************************************************************)
Fairness ==
  /\ WF_vars(job = "failed" /\ VpnTeardown)
  /\ WF_vars(JoinReturns)
  /\ WF_vars(CoreStops)
  /\ WF_vars(\E dupFails \in BOOLEAN : RouteThroughTunnel(dupFails))
  /\ \A t \in Threads :
       WF_vars(RunTun2Socks(t)) /\ WF_vars(RunInit(t)) /\ WF_vars(TcpTimer(t)) /\ WF_vars(RunCleanup(t))

Spec == Init /\ [][Next]_vars
FairSpec == Spec /\ Fairness
-----------------------------------------------------------------------------
(* Properties. *)

\* The state has the declared shape.
TypeOK ==
  /\ job \in JobStates
  /\ core \in [call : {"none", "route"}, port : Ports \cup {0}]
  /\ tunFd \in BOOLEAN
  /\ isRouting \in BOOLEAN
  /\ tun2SocksThread \in Threads \cup {NoThread}
  /\ native \in [Threads -> NativeStates]
  /\ gTerminate \in {0, 1}
  /\ privateAddress \in {"none", "10", "172", "192", "169"}
  /\ inUse \subseteq Addrs

\* tun2socks keeps its whole state in C globals, so two threads must never be
\* inside runTun2Socks at once, however teardowns, new sessions, late callbacks
\* and native failures interleave (PsiphonVpnManager.kt:28-29).
OneTun2Socks == \A s, t \in Live : s = t

\* When vpnTeardown has returned, and until the next vpnEstablish, the tun
\* descriptor is closed and no tun2socks thread is left, even if onConnected
\* calls routeThroughTunnel during or after the teardown.
TornDown == job \in {"idle", "closed"} => ~tunFd /\ Live = {}

\* An address of the candidate's range; 169.254.1/24 is not looked for.
InRange(x, k) ==
  \/ k = "10" /\ x[1] = 10
  \/ k = "172" /\ x[1] = 172 /\ x[2] \in 16..31
  \/ k = "192" /\ x = <<192, 168>>

\* An address outside 172.16/12 that compares as text inside it.
LooksInRange(x, k) == k = "172" /\ x[1] = 172 /\ x[2] \in {2, 3} \cup 160..255

Before(k) == CASE k = "172" -> {"10"} [] k = "192" -> {"10", "172"}
               [] k = "169" -> {"10", "172", "192"} [] OTHER -> {}

\* The interface gets the first of 10/8, 172.16/12 and 192.168/16 that no
\* address of the device is in (PsiphonVpnManager.kt:79-80): the comparison of
\* text misses none of 172.16 to 172.31, and a range is passed over only for an
\* address in it or, for 172.16/12, one that compares inside.  169.254.1/24 is
\* the last resort, taken whether or not it is in use.
FirstFreeRange ==
  tunFd => /\ \A x \in inUse : ~InRange(x, privateAddress)
           /\ \A k \in Before(privateAddress) : \E x \in inUse : InRange(x, k) \/ LooksInRange(x, k)

\* g_terminate is never reset by the side that sets it; a request left over
\* from an earlier session must not end the event loop of a later one: a
\* running loop sees the flag only while a teardown is waiting for it.
NoStaleTerminate == (gTerminate = 1 /\ \E t \in Threads : native[t] = "loop") => job = "join"

\* vpnTeardown waiting in join() gets away, or its request was wiped out by
\* the compare-and-swap at the start of runTun2SocksNative: there is no other
\* way for the join to hang.
JoinEndsOrRequestLost ==
  (job = "join") ~> (job # "join" \/ (gTerminate = 0 /\ native[tun2SocksThread] = "loop"))

\* The manager implements VpnInterface: tun2socks only ever starts on an
\* established interface, and the interface is closed only when tun2socks has
\* let go of it.
vpnBar == IF ~tunFd THEN "down" ELSE IF Live = {} THEN "up" ELSE "routing"
Interface == INSTANCE VpnInterface WITH vpn <- vpnBar
ImplementsInterface == Interface!Spec

\* PsiphonVpnManager.kt:146 of vpnTeardown: "Stop tun2socks if running and close
\* tun FD".  A teardown that waits for tun2socks eventually finishes.
TeardownFinishes == (job = "join") ~> (job = "closed")
=============================================================================
