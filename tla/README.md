# A TLA+ model of psiphon-android-vpn-library

The library runs a Psiphon tunnel inside an Android `VpnService` and routes the
device's traffic through it with tun2socks. This directory holds TLA+ modules
translated from the source, TLC configurations that check them on small
instances, and proofs checked by TLAPS.

## The system

| part | source | module |
|---|---|---|
| tunnel service: intents, the tunnel coroutine, stops, callbacks of the core | `PsiphonVpnService.kt` with `PsiphonState`, `PsiphonServiceParameters`, `Utils` | `VpnService` |
| VPN manager: tun descriptor, tun2socks thread, private address | `PsiphonVpnManager.kt`; JNI entry points, `run()` and timers of `tun2socks.c` | `VpnManager`, `VpnInterface` |
| clients: the service's list of clients, a client's connection, the life cycle of the app | `PsiphonVpnService.kt` (binder), `PsiphonComms.kt`, `PsiphonVpnHelper.kt` | `ClientFeed` |
| TCP relay of tun2socks | `tun2socks.c` from `listener_accept_func` on | `TcpRelay` |
| UDP: connections of the udpgw client, its SOCKS connection, the tun device's buffer | `UdpGwClient.c`, `SocksUdpGwClient.c`, `BTap.c` | `UdpGw`, `ConnectionTable` |
| UDP: from the buffers of the connections to the socket | `PacketBuffer.c`, `PacketPassFairQueue.c`, `PacketPassConnector.c`, `PacketStreamSender.c`, `BConnection_unix.c` | `SendPath`, `PacketQueues` |
| UDP: from the socket to packets | `PacketProtoDecoder.c` | `Decoder` |
| SOCKS client | `BSocksClient.c` | `BSocksClient`, used by `UdpGw` and `TcpRelay` |
| pending jobs of the reactor | `BPending.c` | `BPending`, used by `SendPath` and `UdpGw` |

The service runs in a process of its own (`:vpn` in the manifest). The parts meet in
these places:

- **Main looper.** Intents, `onDestroy`, every `updatePsiphonState` and the
  cancellation of the coroutine run on one FIFO queue; the other threads post to it.
- **Task state.** `tunnelTaskState` is changed by compare-and-set from main, core and
  binder threads (`stopTunnel`), and by plain `set` from the coroutine.
- **VPN manager.** The coroutine brings the interface up and down; the core's
  `onConnected` starts tun2socks on it. One monitor guards the manager.
- **`g_terminate`.** The only word between the manager and the native event loop.
- **Client list.** Binder threads register clients while main sends states to them.
- **The native thread.** Inside it everything is one thread: events one at a time, and
  between two of them the pending jobs, last in first out. The order of jobs is
  what keeps several of its buffers sound.

What is hard to test here is listed in `PROJECT.json` under `hazards`, at the line
where it bites.

## Modules

**VpnManager.** `job` is the session as the manager sees it: `idle`, `up` or `failed`
after `vpnEstablish`, `join` while `vpnTeardown` waits in `Thread.join()` with the
monitor held, `closed` until `psiphonTunnel.stop()` has returned. `core` is a
`routeThroughTunnel` call under way. `native[t]` follows thread `t` from
`Thread.start()` (`started`) over the reset of `g_terminate` (`init`) and
`BReactor_Exec` (`loop`) to the cleanup (`quit`) and its end (`none`). Every other
method is one step, since the monitor is not released inside it. An address of the
device is its first two octets; `Taken` orders their text as the code's string
comparison does. `VpnInterface` is what the manager promises: down, up, routing.

**VpnService.** One service object. A step is a stretch of code with one access to
state another thread writes: `stopTunnel` is three steps (two compare-and-sets, the
posts) for each thread that calls it; the coroutine has a step for each of its calls
and assignments, with the exceptions the calls can throw; `launch` and the assignment
to `tunnelJob` are two steps of main. `job[j]` is the next step of coroutine `j`;
`OwnerSteps` are those before `tunnelTaskState.set(STOPPED)`, `TailSteps` those after.
A coroutine cancelled before `Dispatch` ends without running its body. `queue` is the
looper's queue; an intent stays at its head while `onStartCommand` promotes the service, until
its handler runs. `isInForeground` and Android's own state, `foreground`, are changed one
at a time, by main and by the coroutines. `startRequested`, `bound` and `instance` stand for the activity
manager's decision to destroy the service. `vpn` is `VpnInterface`'s variable: the
service is modelled against what `VpnManager` is shown to implement. The published
state is its event, its error, and whether a port and other session data are set.
`Rest` is a stutter allowed only when nothing is under way, so that deadlock is
checked everywhere else.

**ClientFeed.** States are numbers, so that an older one can be told from a newer.
`registerClient` is three steps of a binder thread (list the client, read the state,
send it), during which the app's main thread is busy; `updatePsiphonState` copies
the list into `todo`, and `NotifyNext` sends to one client of it. Apps start, stop, are
cleaned up or die; the service's process dies and is created again.

**TcpRelay.** One `tcp_client`, a record, with the part of lwIP it sees: the
receive window, unacknowledged bytes, and whether the recv callback is set. Once the relay has
unset it, lwIP drops the client's data and takes its FIN without telling the relay, so neither is
a step. The functions of the code, which call one another and may
free the client in between, are functions on the record. Bytes are counted. `sync` is
TRUE while a callback of lwIP runs the pending jobs before it returns
(`SYNC_FROMHERE`, `SYNC_COMMIT`). Clients share no state, so one is enough.

**UdpGw.** `conaddr`, `list` and `nextConid` are the two trees, the list in order of use
and the next conid of `UdpGwClient`. `frame` is the device's only buffer: a new
connection's first packet stays in it until `first_job` runs. `jobs` is the reactor's
list of pending jobs. `haveSocks`, `socksUp` and `timer` are the fields of
`SocksUdpGwClient`; `socks` is a client of `BSocksClient`, whose handlers are operators
that return every outcome, with a count for each resource held. Chains of jobs that
follow one another immediately are one job. `ConnectionTable` is what the connections promise: a
bounded table of addresses in order of use, of which only the least recently used is replaced,
and only when the table is full; the mapping reads the list as the addresses of its connections.

**SendPath.** Each interface between two layers is the pending job that `Send()` or `Done()`
sets. A packet is its length. `MaxTime` stands for the largest 64-bit time, so that the
overflow of `increment_sent_flow` is reached. `stream` and `ahead` are history: whose
packet the server is receiving, and the packets that have left a buffer against those
a server has taken. `PacketQueues` is what the path promises: per flow a bounded queue,
and servers that receive whole packets from the fronts of the queues; the mapping takes
the first packet off a buffer when the server has all of it, not when the report of that
has come back through the layers, and keeps a packet waiting that a buffer consumed without
a server having it, so that a lost packet does not pass for a received one.

**Decoder.** A byte is known by the packet and the offset it belongs to, so a wrong
cut, a lost byte or an overwritten packet shows. A header read at the wrong place has
any length.

### What is assumed of code outside the repository or below the models

- `PsiphonTunnel`: methods exclude each other; callbacks come one at a time; `stop()`
  waits for the callback in progress and none begins afterwards; the SOCKS port is
  announced before the connection.
- Android: `VpnService.onRevoke` calls `stopSelf()`, runs on a binder thread and only
  once an interface is up; no intent is delivered to an object after the decision to
  destroy it. Binding by clients and by the system are one flag. `onServiceConnected`
  comes once for each service that a binding reaches; a call to a live process
  arrives. The helper's weak reference to its context is not collected.
- Kotlin: a coroutine cancelled before its dispatch never runs; the wait in
  `suspendCancellableCoroutine` ends only by cancellation.
- Nobody interrupts the IO thread in `join()`. `tunnelJob`, a plain field written by
  two threads, is treated as sequentially consistent.
- Posts a thread makes in a row enter the queue together.
- `vpnTeardown` returns in `VpnService`; that it may not is shown in `VpnManager`.
- The reactor runs all pending jobs before the next event.

## Runs

`tlc -workers 2 -config <cfg> <module>`, as listed in `PROJECT.json`. Each passing
property also has a mutant there: a changed definition, the way a plausible mistake in the
code would change it, under which TLC finds the property violated.

| run | instance | what it shows |
|---|---|---|
| `manager` | 3 threads, ports 0 and 1080, addresses of every private range and next to 172.16/12; sessions unbounded; fairness | `OneTun2Socks`; `NoStaleTerminate`: a request of one session does not end the next; `FirstFreeRange`: the interface gets the first of 10/8, 172.16/12 and 192.168/16 that the device has no address in, nor for 172.16/12 one that compares as text inside it, and 169.254.1/24 only when all three are passed over; `JoinEndsOrRequestLost`; `ImplementsInterface` |
| `service_safety` | `SafetyBudgets`: 2 starts and another command, or a callback; 1 start with a bind and 3 callbacks, or a command and 2 callbacks; 1 start with a revocation and a command, or a callback | `OneOwner`: sessions do not overlap; `ForegroundFlagHonest`; `StoppedMeansVpnDown`; `AnnouncedPortKept` |
| `service_progress` | `ProgressBudgets`: 2 starts and a callback; 1 start with two of a command, a callback, a revocation and a bind (a callback and a bind excepted); callbacks that report session data or a port conflict; fairness | `StopCompletes`, `StartCompletes`: `STOPPING` and `STARTING` end; `SessionDataReset` |
| `clients` | 2 clients, 3 states, 1 death of the service; fairness | `NoStateMissed`, `StaleOnlyFromRegister`, `FlagMeansBinding`, `StopReleases`, `ConnectsAgain` |
| `relay` | window 4, send buffer 4, receive buffer 5 | `HalvesFreedOnce`, `WindowMatchesBuffer`, `NoStall`, `AbortReported`, `ClientDataFlushed`, `ReplyFlushed` |
| `udpgw` | 2 connections, 3 addresses, 1 packet per buffer, both SOCKS methods | `IndexesAgree`, `PacketsIntact`, `FirstPacketHasRoom`, `SocksOrTimer`, `SocksReleased`, `AnswerFromItsRemote`, `ImplementsTable`: the connections refine `ConnectionTable` |
| `sendpath` | 2 flows, packets of 1 or 2 bytes, times up to 5, 2 lost connections; fairness | `SendingIsEarliest`, `LeadGrowsByPacket`, `StreamCarriesWholePackets`, `ImplementsQueues`, `EveryFlowIsServed` |
| `decoder` | packets of up to 3 bytes and one too large, 7 bytes in the socket; fairness | `RoomToReceive`, `PacketIsNext`, `WaitsForMore`, `ErrorIsTooLarge`, `PacketsComeOut` |

Runs that refute a comment of the code, quoted in `findings`:

| run | what TLC finds |
|---|---|
| `manager_join` | `terminateTun2Socks()` before the native thread has passed `tun2socks.c:433` is wiped out; `vpnTeardown` never returns |
| `service_wedged` | a stop that cancels the coroutine before it is dispatched leaves `STOPPING` for ever |
| `service_core` | `set(RUNNING)` overwrites `STOPPING`; a parameter update then restarts the core after the cleanup stopped it |
| `service_flag` | the tunnel becomes `RUNNING` between the two compare-and-sets; the stop is dropped with the flag already cleared |

They are about the models, under the assumptions above; none was reproduced on a
device. `service_wedged` leans most on them: on Kotlin's rule for coroutines that were
not dispatched.

Some properties state an exception where the code has one.
`AnnouncedPortKept` says that an announced port is published, or queued with no reset behind
it, until a coroutine posts its reset while a core is listening again: a start taken between
`set(STOPPED)` and that post makes this happen, the port of the new session is wiped, and
`onConnected` stops the tunnel. It does not say that main has run the update when `onConnected`
reads the port: it may not have, and then the tunnel is stopped too. `ForegroundFlagHonest`
excepts the time inside the two calls that change flag and foreground state. An intent that comes
while the coroutine is between `stopForeground()` and `set(false)` finds the flag set and is
handled without a promotion; the property says that the flag does not stay so. The
opposite, a service in the foreground with the flag cleared, can stay: the next intent promotes it
again. `StopCompletes` and `StartCompletes` except a
coroutine that no stop can reach any more; `service_wedged` shows that it occurs.
`SessionDataReset` excepts behaviours with a `LateRestart`, which has the same cause as
`service_core`: a first restart for new parameters brings the core back after the cleanup has
stopped it, the core reports session data behind the reset, and a second restart fails and
leaves the core off; the stopped service then goes on publishing that data. It takes
three commands with two sets of parameters, more than the run's budgets have, and turned up
when the invariant without the exception could not be proved. `StopReleases` excepts the
binding that stays behind when `onServiceDisconnected` has cleared `isServiceBound`.

**Bounds.** The manager has no counters: ended threads are used again, and three
identities let a third thread start if two could live. In the service every hazard
needs at most two sessions (the tail of one and the start of the next), one command and
two or three callbacks (a port, a connection and an error that meet one cleanup). All of
it at once does not fit TLC, so a behaviour starts with one of several budgets; what no
budget combines is revocation with two sessions, and two sessions with both
a command and a callback. For the proved invariants the theorems close that gap; liveness, whose graph
grows faster, is checked for two events beside a start at most. In the native parts
buffers and windows are a few units, so that they fill, drain in parts and wrap: two
connections for three addresses force reuse, times up to 5 overflow after two packets,
a decoder's buffer of one packet has to move its data, windows of 4 bytes against
receives of 5 leave a rest to write later. One answer and one death of the service are
enough to be late. `clients` switches the deadlock check off: all apps may have died,
and the numbered states are used up at `MaxState`.

**Fairness** is weak, and only of what runs by itself.

- `VpnService`: the looper runs its tasks, a call under way goes on, the dispatcher runs
  its coroutines, the activity manager delivers `onDestroy`.
- `VpnManager`: the native thread runs, its 250 ms timer fires, calls under way go on.
- `ClientFeed`: main and binder threads run, Android creates a service that is bound.
- `SendPath`: pending jobs run, the socket takes more bytes in time, a lost server is
  found again (the reconnect timer); losses are bounded by `LossBound`.
- `Decoder`: the reactor reports bytes in the socket, the job that ends a packet runs.

Nothing is assumed of intents, users, callbacks, revocations, device errors or what
servers send.

## Proofs

Checked by TLAPS for every value of the constants that satisfies the named assumption
of the module (`ConstantsAssumption`, and so on), thus for any number of sessions,
connections, clients and flows, and any sizes. Each proof module has `TypeCorrect`
(except `BSocksClientProofs`, which has no behaviour of its own) and the theorems listed
in `PROJECT.json`. Few of the invariants are inductive as they stand; the stronger
ones are these.

- `VpnManagerProofs`: `IInv` adds that a live thread is the one `tun2SocksThread` refers to
  (`LiveIsCurrent`), which fields each stage of a session allows (`SessionShape`),
  and that a pending request belongs to the current teardown once the thread has
  passed its reset (`TerminateIsCurrent`). From it follow the invariants, `TornDown`, and the
  refinement of `VpnInterface`. `RequestLostOnlyAtStart` is the safety part of
  `JoinEndsOrRequestLost`: without the compare-and-swap of `manager_join` no request is
  lost. `FirstFreeRange` rests on `TextCovers`: the comparison of text takes for
  172.16/12 the second octets 16 to 31, all of them, and besides them exactly 2, 3 and 160 to 255.
- `VpnServiceProofs`: `OwnerInv` adds `VpnOwned`: an interface that is not down belongs to
  a coroutine that has still to tear it down. Steps that move no coroutine are one lemma
  (`QuietStep`), steps from one owning stage to another are `OwnerMoves`; left are the
  launch, which needs `STOPPED`, and `set(STOPPED)`, which follows the teardown. The other
  results rest on what a step may do to the queue (`QueueSteps`: main takes its head, or
  posts come behind it) and to the coroutines and the core (`JobSteps`, `CoreSteps`).
  - `AnnouncedPortKept`: `PortIn` says where the port is; posts behind it leave it there
    (`PortInLonger`), and main, taking the head of the queue, publishes it or moves it up
    (`PortInTail`). By `QueueSteps` nothing else happens but the post of a reset.
  - `ForegroundFlagHonest` is inductive with `TypeOK`: main leaves the two calls only by
    their own steps.
  - `SessionDataReset`: `DataInv` says that session data, published or queued, with no reset
    behind them in the queue (`LeftOver`) belong to a core that runs or to a coroutine that
    has yet to post the reset (`Owed`). A failing restart is where a core stops without a
    coroutine; `RestartInv` says that, without a `LateRestart`, the core that main restarts is
    off already or has a coroutine that will stop it.
  - `TimelyRestartsSuffice`: `CoreStopped`, which `service_core` refutes, and `NothingLeft`
    without any exception hold in every behaviour in which `restartPsiphon()` is called only
    while a coroutine has yet to stop the core; nothing else is missing for either.
  - `FlagMeansStoppedUnlessOvertaken`: what `service_flag` refutes holds in every behaviour
    in which RUNNING is not set between the two compare-and-sets (`StopOvertaken`) and no
    ended coroutine clears `tunnelJob` when it is the next one's (`ReferenceLost`); so these
    are all the windows there are. `FlagInv` says where the stop is at each moment.
  - `StoppingServed`: the safety part of `StopCompletes`, from the same invariant and with
    `ReferenceLost` as the only exception.
  - `InterfaceUsedInOrder`: the service calls the manager only as `VpnInterface` allows,
    with `vpnTeardown` as one step; `VpnManagerProofs` shows that the manager implements it.
- `BSocksClientProofs`: in each state of the handshake a client holds exactly the
  resources of that state (`Sound`); every handler keeps it or fails in a state from
  which `BSocksClient_Free` gives all back once.
- `TcpRelayProofs`: `Whole(c)` says what the two halves of a client look like open,
  closing and closed (`SocksHalf`, `ClientHalf`); there is a lemma for each function of the code,
  since each may be called by several handlers. `PendingMatches` (the count of bytes on the way to
  the client is exact) is proved as well. `ClientDataFlushed`
  rests on `UnsentWaits`, which goes through the functions by which the end of the client can
  reach SOCKS; `ReplyFlushed` follows from `Whole` and `PendingMatches`.
- `UdpGwProofs`: `SocksInv` ties the flags of `SocksUdpGwClient` to the state of its SOCKS
  client. `ConInv` adds that conids are given out in order (`InOrder`, for no connection
  ends before the client) and lists the pending jobs that can occur, with what
  each needs of the device's buffer (`JobLists`); from the latter follow `PacketsIntact` and
  `FirstPacketHasRoom`. `AnswerInv` adds, for `AnswerFromItsRemote`, that until all conids are in
  use the packets and answers under way have the address of their connection.
  The refinement of `ConnectionTable` needs of `ConInv` that the list names each connection once
  and no two connections have one address; each way the list changes has a lemma
  (`AddressUsed`, `AddressAdded`, `AddressReplaced`), and all other steps are invisible.
  `ActiveKeepsConnection` says of single steps that the address used last keeps its connection.
- `SendPathProofs`: `IInv` adds that pending jobs exclude each other, what each means for
  the flows (`JobsMean`), who holds a packet (`Holders`) and when `previous_flow` is set
  (`PreviousPending`). `LeadGrowsByPacket` rests on `IncrementExact`: lowering all times
  before one would overflow loses nothing, at any width. `StreamInv` says what the server has
  of the packet on its way at each job of the send path, and `AheadInv` that a packet the server
  has stays in its buffer only while the report of it is pending; from them follow
  `StreamCarriesWholePackets`, `TakenOnce` (between two events a buffer has consumed
  exactly what a server has) and the refinement of `PacketQueues`: bytes the socket takes are the
  server's, a write is an accepted packet, a new connection starts anew, and all other
  steps are invisible.
- `DecoderProofs`: the bytes in the buffer followed by those in the socket are always a
  sequence of framed packets from the next one on (`Framed(Pend(...))`), however the stream was cut.
  `AllHandedOut` is the safety part of `PacketsComeOut`: with nothing left to read, the buffer
  is empty and every packet has been handed out.
- `ClientFeedProofs`: `Good` relates, for each client, what it has seen, whether it is
  listed, whether main still has to send to it, and the stage of its registration.
  `ListedWhileConnected` is the safety part of `ConnectsAgain`: a connected client that is in no
  call is on the service's list, unless the service has died in its binding.

**Only model-checked.** Liveness (`JoinEndsOrRequestLost`, `StopCompletes`,
`StartCompletes`, `EveryFlowIsServed`, `PacketsComeOut`, `ConnectsAgain`), since fairness
and `ENABLED` are out of the prover's reach. All safety properties of the passing runs are
proved.

## Not modelled

Of some 200,000 lines under `src/`, `Android.mk` builds about 27,000 lines of C, 18,000 of
them lwIP; the Kotlin library has 1,600. The rest is the badvpn
distribution (its server, client, `ncd` language, tools, tests, generated parsers) and headers, which `Android.mk` does not build. The
models map about 3,700 lines, some 2,700 of them neither blank nor comment: the Kotlin code that has state and the
parts of tun2socks that are not protocol stack. The remainder of what is built:

- **lwIP.** It is the environment of `TcpRelay`, which models what the relay sees of it.
  Segments, retransmission, reassembly and IPv6 are a project of their own.
- **Reactor, signals, logging.** Assumed: one callback at a time on one thread, and all pending
  jobs before the next event.
- **Two service objects.** `PsiphonVpnManager` is a singleton; a service object that is
  created while the last session of another is still being torn down would share it. `VpnService` has one object; two of them
  over one manager are not composed.
- **Egress regions.** `onAvailableEgressRegions` and the stored list; the reset keeps them.
- **Malformed intents.** `handleParamsChangedAction` throws, and ends the process, for an
  update without parameters (`PsiphonVpnService.kt:252`); `PsiphonComms` sends none.
- **Text.** Notifications, Bundle conversions (each field under its own key), the parsing of the
  embedded server list, IP and UDP headers, the permission dialog.
- **Flows that end.** `PacketPassFairQueueFlow_Free` and cancellation, which the udpgw client
  uses only when it is freed as a whole.

`FirstFreeRange` states what `selectPrivateAddress` does, which is less than its comment says
("depending on which private address range isn't in use", `PsiphonVpnManager.kt:79`): 169.254.1/24
is the last choice whether or not an interface is in it, and an address in 172.2, 172.3 or
172.160 to 172.255 rules out 172.16/12.

Behaviour of the code seen while modelling that no property is about, for want of a
statement in the repository that it should be otherwise: `isRoutingThroughTunnel` stays set when
`dup()` or `run()` fails (`PsiphonVpnManager.kt:163`); `run()` does not close the descriptor when
it fails before `BTap_InitWithFD` (`tun2socks.c:716`); `onConnecting` checks the state and
posts afterwards (`PsiphonVpnService.kt:457`); the update of a stop may be
posted after the reset (`:370`); parameters that change in a transitional state are
stored but not applied (`:269`); a notification may reappear after the service has left the
foreground (`:650`); the packet that would rebind a reused conid is dropped when the
buffer is full (`UdpGwClient.c:346`); the SOCKS handshake has no timeout
(`BSocksClient.c:144`); a client that stops reading is kept until lwIP's timer ends it
(`tun2socks.c:1998`); a late notification after `stop()` restores a state that `stop()` had
reported as unknown (`PsiphonComms.kt:58`).
