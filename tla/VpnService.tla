----------------------------- MODULE VpnService -----------------------------
(***************************************************************************)
(* PsiphonVpnService.kt: the life of one service object, from onCreate to  *)
(* the end of its last coroutine.                                          *)
(*                                                                         *)
(* Threads: "main" runs the tasks of the main looper's queue one by one    *)
(* (intents, life-cycle calls and everything posted to mainHandler);       *)
(* "core" is the tunnel-core thread that makes the HostService callbacks;  *)
(* "binder" is the thread on which Android calls onRevoke; and every       *)
(* accepted start launches a coroutine (a job) on Dispatchers.IO.  A step  *)
(* is a stretch of code with one access to state another thread writes.    *)
(*                                                                         *)
(* vpn is what PsiphonVpnManager shows of itself (see VpnInterface).       *)
(* Notifications, logging and the client callbacks are left out.           *)
(***************************************************************************)
EXTENDS Integers, Sequences, FiniteSets

CONSTANTS
  Jobs,        \* identities of the coroutines launched by startTunnel
  NoJob,       \* tunnelJob == null
  Params,      \* values of PsiphonServiceParameters
  NoParams,    \* none in the intent, or none stored
  Actions,     \* the intent actions the environment sends
  CreatedBound,  \* may a client's bind create the object (TRUE), or an intent (FALSE)?
  Callbacks,   \* the HostService callbacks the core makes
  Budgets      \* bounds on the environment: how many START intents, other
               \* intents, callbacks, revocations and (un)binds there may be

Threads == {"main", "core", "binder"}
TaskStates == {"STOPPED", "STARTING", "RUNNING", "STOPPING"}
AllActions == {"STOP", "START", "UPDATE", "OTHER"}
AllCallbacks == {"connecting", "connected", "listening", "portInUse", "info"}
ErrorCodes == {"VPN_REVOKED", "PROXY_PORT_IN_USE", "SOCKS_PORT_NOT_SET", "TUNNEL_RESTART_FAILED",
               "TUNNEL_START_FAILED", "UNEXPECTED_ERROR"}
NoError == "none"

\* What updatePsiphonState is called with: the update functions of the code.
Updates == ErrorCodes \cup {"start", "CONNECTING", "CONNECTED", "STOPPING", "port", "info", "reset"}

PsiphonStates == [event : {"STOPPED", "CONNECTING", "CONNECTED", "STOPPING"},
                  error : ErrorCodes \cup {NoError}, port : BOOLEAN, info : BOOLEAN]

\* The tasks of the main looper's queue.
Tasks ==
  [kind : {"update"}, arg : Updates] \cup
  [kind : AllActions, arg : Params \cup {NoParams}] \cup
  [kind : {"cancel", "destroy"}, arg : {NoError}]

ASSUME ConstantsAssumption ==
  /\ NoJob \notin Jobs
  /\ NoParams \notin Params
  /\ Actions \subseteq AllActions
  /\ CreatedBound \subseteq BOOLEAN
  /\ Callbacks \subseteq AllCallbacks
  /\ Budgets \subseteq [{"starts", "commands", "callbacks", "revokes", "binds"} -> Nat]

VARIABLES
  taskState,       \* tunnelTaskState
  tunnelJob,       \* the job the field tunnelJob refers to
  assigning,       \* the job main has launched and not yet stored in tunnelJob
  job,             \* the next step of each coroutine
  cancelled,       \* the jobs on which cancel() took effect
  pc,              \* the next step of each thread; "idle" between two calls
  err,             \* the error each thread reports when its stopTunnel() returns
  queue,           \* the main looper's queue
  psiphonState,    \* currentPsiphonState
  isInForeground,  \* the field of that name
  foreground,      \* does Android hold the service in the foreground?
  runningFlag,     \* does the service running flag file exist?
  stored,          \* the parameters in shared preferences
  vpn,             \* the VPN interface: "down", "up", "routing"
  core,            \* tunnel-core: "off", "on", "listening" (its SOCKS port is announced)
  startRequested, bound, instance,   \* the activity manager's record of the service
  left             \* how much the environment may still do

jobRefs == <<tunnelJob, assigning, cancelled>>
jobVars == <<job, jobRefs>>
threadVars == <<pc, err>>
fgVars == <<isInForeground, foreground>>
dataVars == <<psiphonState, fgVars, runningFlag, stored>>
coreVars == <<vpn, core>>
androidVars == <<startRequested, bound, instance>>
envVars == <<androidVars, left>>
vars == <<taskState, jobVars, threadVars, queue, dataVars, coreVars, envVars>>

Task(k, a) == [kind |-> k, arg |-> a]
Update(u) == Task("update", u)
Post(u) == queue' = Append(queue, Update(u))

Goto(t, step) == pc' = [pc EXCEPT ![t] = step]
At(t, step) == pc[t] = step

\* main is between two tasks
MainIdle == At("main", "idle") /\ assigning = NoJob

Spend(what) ==
  /\ left[what] > 0
  /\ left' = [left EXCEPT ![what] = @ - 1]

\* The object as onCreate leaves it.
Init ==
  /\ taskState = "STOPPED"
  /\ tunnelJob = NoJob
  /\ assigning = NoJob
  /\ job = [j \in Jobs |-> "none"]
  /\ cancelled = {}
  /\ pc = [t \in Threads |-> "idle"]
  /\ err = [t \in Threads |-> NoError]
  /\ queue = <<>>
  /\ psiphonState = [event |-> "STOPPED", error |-> NoError, port |-> FALSE, info |-> FALSE]
  /\ isInForeground = FALSE
  /\ foreground = FALSE
  /\ runningFlag \in BOOLEAN
  /\ stored \in Params \cup {NoParams}
  /\ vpn = "down"
  /\ core = "off"
  /\ bound \in CreatedBound
  /\ startRequested = ~bound
  /\ instance = "alive"
  /\ left \in Budgets

-----------------------------------------------------------------------------
(* Android: the activity manager delivers intents and ends the service when *)
(* nothing has started it and no client is bound to it.                     *)

EndsIf(unwanted) == instance' = IF unwanted /\ instance = "alive" THEN "ending" ELSE instance

\* stopSelf(), which names no startId: intents still in the queue do not count.
StopSelf ==
  /\ startRequested' = FALSE
  /\ EndsIf(~bound)
  /\ UNCHANGED bound

\* startForegroundService() of PsiphonComms, the Stop button of the
\* notification, or the system's always-on start.  PsiphonComms sends an update
\* with parameters, always: one without ends the process with an exception.
SendIntent ==
  /\ instance = "alive"
  /\ \E a \in Actions, p \in Params \cup {NoParams} :
       /\ Spend(IF a = "START" THEN "starts" ELSE "commands")
       /\ a \in {"STOP", "OTHER"} => p = NoParams
       /\ a = "UPDATE" => p # NoParams
       /\ queue' = Append(queue, Task(a, p))
  /\ startRequested' = TRUE
  /\ UNCHANGED <<taskState, jobVars, threadVars, dataVars, coreVars, bound, instance>>

Bind ==
  /\ instance = "alive"
  /\ Spend("binds")
  /\ bound' = ~bound
  /\ startRequested' = startRequested
  /\ EndsIf(bound /\ ~startRequested)
  /\ UNCHANGED <<taskState, jobVars, threadVars, queue, dataVars, coreVars>>

SendDestroy ==
  /\ instance = "ending"
  /\ instance' = "ended"
  /\ queue' = Append(queue, Task("destroy", NoError))
  /\ UNCHANGED <<taskState, jobVars, threadVars, dataVars, coreVars, startRequested, bound, left>>

-----------------------------------------------------------------------------
(* main: updates of the published state, and the life-cycle calls.          *)

EventAfter(u, event) ==
  IF u \in {"start", "CONNECTING"} THEN "CONNECTING"
  ELSE IF u \in {"CONNECTED", "STOPPING"} THEN u
  ELSE IF u = "reset" THEN "STOPPED" ELSE event

ErrorAfter(u, error) ==
  IF u \in ErrorCodes THEN u ELSE IF u \in {"start", "CONNECTED"} THEN NoError ELSE error

\* Mutant: the reset of the finally block is a copy() of the old state.
ResetCopies(u, s) ==
  [event |-> EventAfter(u, s.event), error |-> ErrorAfter(u, s.error),
   port |-> (u = "port" \/ s.port), info |-> (u = "info" \/ s.info)]

\* What the update functions given to updatePsiphonState do.  "start" and
\* "CONNECTED" clear the error, "reset" keeps it; info stands for every field
\* of the session but the SOCKS port.
Apply(u, s) ==
  [event |-> EventAfter(u, s.event), error |-> ErrorAfter(u, s.error),
   port |-> (u = "port" \/ (u # "reset" /\ s.port)),
   info |-> (u = "info" \/ (u # "reset" /\ s.info))]

\* main takes the task at the head of the queue.
Take(k) ==
  /\ MainIdle
  /\ queue # <<>>
  /\ Head(queue).kind = k

UpdateTask ==
  /\ Take("update")
  /\ queue' = Tail(queue)
  /\ psiphonState' = Apply(Head(queue).arg, psiphonState)
  /\ UNCHANGED <<taskState, jobVars, threadVars, fgVars, runningFlag, stored, coreVars, envVars>>

\* tunnelJob?.cancel("Stop requested")
CancelTask ==
  /\ Take("cancel")
  /\ queue' = Tail(queue)
  /\ cancelled' = cancelled \cup ({tunnelJob} \cap Jobs)
  /\ UNCHANGED <<taskState, tunnelJob, assigning, job, threadVars, dataVars, coreVars, envVars>>

\* onDestroy cancels tunnelJob and, with serviceScope, every other job.
OnDestroy ==
  /\ Take("destroy")
  /\ queue' = Tail(queue)
  /\ cancelled' = cancelled \cup {j \in Jobs : job[j] \notin {"none", "done"}}
  /\ isInForeground' = FALSE
  /\ foreground' = FALSE
  /\ UNCHANGED <<taskState, tunnelJob, assigning, job, threadVars, psiphonState, runningFlag,
                 stored, coreVars, envVars>>

-----------------------------------------------------------------------------
(* main: onStartCommand and the command handlers.                           *)

\* onStartCommand takes an intent, which stays at the head of the queue until
\* its handler runs: compareAndSet(false, true).  One without an action stops
\* the service at once; one with an unknown action does so in its handler.
OnStartCommand ==
  /\ \E a \in AllActions : Take(a)
  /\ \/ /\ Goto("main", IF isInForeground THEN "handle" ELSE "setForeground")
        /\ isInForeground' = TRUE
        /\ UNCHANGED queue
     \/ /\ Head(queue).kind = "OTHER"
        /\ queue' = Tail(queue)
        /\ Goto("main", "stopForeground")
        /\ UNCHANGED isInForeground
  /\ UNCHANGED <<taskState, jobVars, err, psiphonState, foreground, runningFlag, stored, coreVars, envVars>>

\* isInForeground.set(true) and startForeground()
StartForegroundWithNotification ==
  /\ \/ /\ At("main", "setForeground")
        /\ Goto("main", "startForeground")
        /\ isInForeground' = TRUE
        /\ UNCHANGED foreground
     \/ /\ At("main", "startForeground")
        /\ Goto("main", "handle")
        /\ foreground' = TRUE
        /\ UNCHANGED isInForeground
  /\ UNCHANGED <<taskState, jobVars, err, queue, psiphonState, runningFlag, stored, coreVars, envVars>>

\* stopForegroundAndService, called by main: three steps
StopForegroundAndService ==
  /\ \/ /\ At("main", "stopForeground")
        /\ Goto("main", "clearForeground")
        /\ foreground' = FALSE
        /\ UNCHANGED <<isInForeground, androidVars>>
     \/ /\ At("main", "clearForeground")
        /\ Goto("main", "stopSelf")
        /\ isInForeground' = FALSE
        /\ UNCHANGED <<foreground, androidVars>>
     \/ /\ At("main", "stopSelf")
        /\ Goto("main", "idle")
        /\ StopSelf
        /\ UNCHANGED fgVars
  /\ UNCHANGED <<taskState, jobVars, err, queue, psiphonState, runningFlag, stored, coreVars, left>>

\* The handler of the intent at the head of the queue is called.
Command(a) ==
  /\ At("main", "handle")
  /\ queue # <<>>
  /\ Head(queue).kind = a
  /\ queue' = Tail(queue)

HandleStopAction ==
  /\ Command("STOP")
  /\ \/ /\ taskState \in {"RUNNING", "STARTING"}
        /\ runningFlag' = FALSE
        /\ Goto("main", "cas1")
     \/ /\ taskState \in {"STOPPING", "STOPPED"}
        /\ Goto("main", IF taskState = "STOPPED" THEN "stopForeground" ELSE "idle")
        /\ UNCHANGED runningFlag
  /\ UNCHANGED <<taskState, jobVars, err, psiphonState, fgVars, stored, coreVars, envVars>>

\* Mutant: a start is also accepted while the last session is being stopped.
StartWhileStopping ==
  /\ Command("START")
  /\ Goto("main", "idle")
  /\ \/ /\ taskState \in {"STOPPED", "STOPPING"}
        /\ LET p == Head(queue).arg IN stored' = IF p # NoParams THEN p ELSE stored
        /\ taskState' = "STARTING"
        /\ runningFlag' = TRUE
        /\ \E j \in Jobs :
             /\ job[j] = "none"
             /\ job' = [job EXCEPT ![j] = "new"]
             /\ assigning' = j
     \/ /\ taskState \notin {"STOPPED", "STOPPING"}
        /\ UNCHANGED <<stored, taskState, runningFlag, job, assigning>>
  /\ UNCHANGED <<tunnelJob, cancelled, err, psiphonState, fgVars, coreVars, envVars>>

\* handleStartAction up to the launch; AssignJob is the rest of startTunnel.
HandleStartAction ==
  /\ Command("START")
  /\ Goto("main", "idle")
  /\ \/ /\ taskState = "STOPPED"
        /\ LET p == Head(queue).arg IN stored' = IF p # NoParams THEN p ELSE stored
        /\ taskState' = "STARTING"
        /\ runningFlag' = TRUE
        /\ \E j \in Jobs :
             /\ job[j] = "none"
             /\ job' = [job EXCEPT ![j] = "new"]
             /\ assigning' = j
     \/ /\ taskState # "STOPPED"
        /\ UNCHANGED <<stored, taskState, runningFlag, job, assigning>>
  /\ UNCHANGED <<tunnelJob, cancelled, err, psiphonState, fgVars, coreVars, envVars>>

\* tunnelJob = serviceScope.launch(...)
AssignJob ==
  /\ assigning # NoJob
  /\ tunnelJob' = assigning
  /\ assigning' = NoJob
  /\ UNCHANGED <<taskState, job, cancelled, threadVars, queue, dataVars, coreVars, envVars>>

\* handleParamsChangedAction; RestartTunnel and RestartPsiphon are the rest.
HandleParamsChangedAction ==
  /\ Command("UPDATE")
  /\ stored' = Head(queue).arg
  /\ \/ /\ taskState = "STOPPED"
        /\ Goto("main", "stopForeground")
     \/ /\ taskState = "RUNNING"
        /\ stored' # stored
        /\ Goto("main", "restart")
     \/ /\ taskState # "STOPPED"
        /\ taskState = "RUNNING" => stored' = stored
        /\ Goto("main", "idle")
  /\ UNCHANGED <<taskState, jobVars, err, psiphonState, fgVars, runningFlag, coreVars, envVars>>

HandleUnknownAction ==
  /\ Command("OTHER")
  /\ Goto("main", "stopForeground")
  /\ UNCHANGED <<taskState, jobVars, err, dataVars, coreVars, envVars>>

RestartTunnel ==
  /\ At("main", "restart")
  /\ Post("CONNECTING")
  /\ Goto("main", "restartPsiphon")
  /\ UNCHANGED <<taskState, jobVars, err, dataVars, coreVars, envVars>>

\* psiphonTunnel.restartPsiphon(): stops the core, waiting for the callback in
\* flight, and starts it with a config read anew; when it throws, the core is
\* left off.
RestartPsiphon ==
  /\ At("main", "restartPsiphon")
  /\ At("core", "idle")
  /\ \/ /\ core' = "on"
        /\ Goto("main", "idle")
        /\ UNCHANGED err
     \/ /\ core' = "off"
        /\ Goto("main", "cas1")
        /\ err' = [err EXCEPT !["main"] = "TUNNEL_RESTART_FAILED"]
  /\ UNCHANGED <<taskState, jobVars, queue, dataVars, vpn, envVars>>

-----------------------------------------------------------------------------
(* stopTunnel, and the error its caller publishes when it returns.  Posts   *)
(* that a thread makes in a row enter the queue together.                   *)

Posts(t, us) ==
  queue' = queue \o us \o (IF err[t] = NoError THEN <<>> ELSE <<Update(err[t])>>)

Return(t) ==
  /\ Goto(t, "idle")
  /\ err' = [err EXCEPT ![t] = NoError]

\* compareAndSet(from, STOPPING)
StopFrom(t, from, otherwise) ==
  \/ /\ taskState = from
     /\ taskState' = "STOPPING"
     /\ Goto(t, "post")
     /\ UNCHANGED <<err, queue>>
  \/ /\ taskState # from
     /\ otherwise
     /\ UNCHANGED taskState

StopTunnelCas1(t) ==
  /\ At(t, "cas1")
  /\ StopFrom(t, "RUNNING", Goto(t, "cas2") /\ UNCHANGED <<err, queue>>)
  /\ UNCHANGED <<jobVars, dataVars, coreVars, envVars>>

StopTunnelCas2(t) ==
  /\ At(t, "cas2")
  /\ StopFrom(t, "STARTING", Return(t) /\ Posts(t, <<>>))
  /\ UNCHANGED <<jobVars, dataVars, coreVars, envVars>>

\* Mutant: the coroutine is not cancelled.
PostWithoutCancel(t) ==
  /\ At(t, "post")
  /\ Posts(t, <<Update("STOPPING")>>)
  /\ Return(t)
  /\ UNCHANGED <<taskState, jobVars, dataVars, coreVars, envVars>>

StopTunnelPost(t) ==
  /\ At(t, "post")
  /\ Posts(t, <<Update("STOPPING"), Task("cancel", NoError)>>)
  /\ Return(t)
  /\ UNCHANGED <<taskState, jobVars, dataVars, coreVars, envVars>>

StopTunnel(t) == StopTunnelCas1(t) \/ StopTunnelCas2(t) \/ StopTunnelPost(t)

-----------------------------------------------------------------------------
(* The coroutine launched by startTunnel.                                   *)

OwnerSteps == {"new", "begin", "establish", "startCore", "setRunning", "suspended", "teardown",
               "stopCore", "setStopped"}
TailSteps == {"postStopped", "clearJob", "stopForeground", "clearForeground", "stopSelf"}

JobGoto(j, from, to) ==
  /\ job[j] = from
  /\ job' = [job EXCEPT ![j] = to]

\* Dispatchers.IO takes the coroutine up.  One that is cancelled by then is
\* completed without running its body, the finally block included.
Dispatch(j) ==
  /\ \/ j \notin cancelled /\ JobGoto(j, "new", "begin")
     \/ j \in cancelled /\ JobGoto(j, "new", "done")
  /\ UNCHANGED <<taskState, jobRefs, threadVars, queue, dataVars, coreVars, envVars>>

JobBegin(j) ==
  /\ JobGoto(j, "begin", "establish")
  /\ Post("start")
  /\ UNCHANGED <<taskState, jobRefs, threadVars, dataVars, coreVars, envVars>>

\* The resources and vpnEstablish; what they throw ends in the last catch.
JobEstablish(j) ==
  /\ \/ /\ JobGoto(j, "establish", "startCore")
        /\ vpn' = "up"
        /\ UNCHANGED queue
     \/ /\ JobGoto(j, "establish", "teardown")
        /\ Post("UNEXPECTED_ERROR")
        /\ UNCHANGED vpn
  /\ UNCHANGED <<taskState, jobRefs, threadVars, dataVars, core, envVars>>

\* startTunneling stops a core that still runs, then starts one.
JobStartCore(j) ==
  /\ At("core", "idle")
  /\ \/ /\ JobGoto(j, "startCore", "setRunning")
        /\ core' = "on"
        /\ UNCHANGED queue
     \/ /\ JobGoto(j, "startCore", "teardown")
        /\ core' = "off"
        /\ Post("TUNNEL_START_FAILED")
  /\ UNCHANGED <<taskState, jobRefs, threadVars, dataVars, vpn, envVars>>

\* Mutant: the state is not set once the core has started.
RunningNotSet(j) ==
  /\ JobGoto(j, "setRunning", "suspended")
  /\ UNCHANGED <<taskState, jobRefs, threadVars, queue, dataVars, coreVars, envVars>>

JobSetRunning(j) ==
  /\ JobGoto(j, "setRunning", "suspended")
  /\ taskState' = "RUNNING"
  /\ UNCHANGED <<jobRefs, threadVars, queue, dataVars, coreVars, envVars>>

JobResume(j) ==
  /\ j \in cancelled
  /\ JobGoto(j, "suspended", "teardown")
  /\ UNCHANGED <<taskState, jobRefs, threadVars, queue, dataVars, coreVars, envVars>>

\* Mutant: an interface that routes is not closed.
TeardownUnlessRouting(j) ==
  /\ JobGoto(j, "teardown", "stopCore")
  /\ vpn' = IF vpn = "routing" THEN vpn ELSE "down"
  /\ UNCHANGED <<taskState, jobRefs, threadVars, queue, dataVars, core, envVars>>

JobTeardown(j) ==
  /\ JobGoto(j, "teardown", "stopCore")
  /\ vpn' = "down"
  /\ UNCHANGED <<taskState, jobRefs, threadVars, queue, dataVars, core, envVars>>

\* psiphonTunnel.stop() returns when no callback is in flight.
JobStopCore(j) ==
  /\ At("core", "idle")
  /\ JobGoto(j, "stopCore", "setStopped")
  /\ core' = "off"
  /\ UNCHANGED <<taskState, jobRefs, threadVars, queue, dataVars, vpn, envVars>>

JobSetStopped(j) ==
  /\ JobGoto(j, "setStopped", "postStopped")
  /\ taskState' = "STOPPED"
  /\ UNCHANGED <<jobRefs, threadVars, queue, dataVars, coreVars, envVars>>

JobPostStopped(j) ==
  /\ JobGoto(j, "postStopped", "clearJob")
  /\ Post("reset")
  /\ UNCHANGED <<taskState, jobRefs, threadVars, dataVars, coreVars, envVars>>

JobClear(j) ==
  /\ JobGoto(j, "clearJob", "stopForeground")
  /\ tunnelJob' = NoJob
  /\ UNCHANGED <<taskState, assigning, cancelled, threadVars, queue, dataVars, coreVars, envVars>>

\* Mutant: the flag is cleared before the service leaves the foreground.
JobClearsFlagFirst(j) ==
  /\ \/ /\ JobGoto(j, "stopForeground", "clearForeground")
        /\ isInForeground' = FALSE
        /\ UNCHANGED <<foreground, androidVars>>
     \/ /\ JobGoto(j, "clearForeground", "stopSelf")
        /\ foreground' = FALSE
        /\ UNCHANGED <<isInForeground, androidVars>>
     \/ /\ JobGoto(j, "stopSelf", "done")
        /\ StopSelf
        /\ UNCHANGED fgVars
  /\ UNCHANGED <<taskState, jobRefs, threadVars, queue, psiphonState, runningFlag, stored,
                 coreVars, left>>

\* stopForegroundAndService, called by the coroutine: three steps
JobStopForeground(j) ==
  /\ \/ /\ JobGoto(j, "stopForeground", "clearForeground")
        /\ foreground' = FALSE
        /\ UNCHANGED <<isInForeground, androidVars>>
     \/ /\ JobGoto(j, "clearForeground", "stopSelf")
        /\ isInForeground' = FALSE
        /\ UNCHANGED <<foreground, androidVars>>
     \/ /\ JobGoto(j, "stopSelf", "done")
        /\ StopSelf
        /\ UNCHANGED fgVars
  /\ UNCHANGED <<taskState, jobRefs, threadVars, queue, psiphonState, runningFlag, stored,
                 coreVars, left>>

RunJob(j) ==
  \/ Dispatch(j) \/ JobBegin(j) \/ JobEstablish(j) \/ JobStartCore(j) \/ JobSetRunning(j)
  \/ JobResume(j) \/ JobTeardown(j) \/ JobStopCore(j) \/ JobSetStopped(j) \/ JobPostStopped(j)
  \/ JobClear(j) \/ JobStopForeground(j)

-----------------------------------------------------------------------------
(* core: the HostService callbacks, one at a time while the core runs.      *)

Callback(c) ==
  /\ c \in Callbacks
  /\ core # "off"
  /\ At("core", "idle")
  /\ Spend("callbacks")

OnConnecting ==
  /\ Callback("connecting")
  /\ taskState = "RUNNING"
  /\ Goto("core", "connecting")
  /\ UNCHANGED <<taskState, jobVars, err, queue, dataVars, coreVars, androidVars>>

\* Reached after the check of the task state.
OnConnectingPost ==
  /\ At("core", "connecting")
  /\ Post("CONNECTING")
  /\ Goto("core", "idle")
  /\ UNCHANGED <<taskState, jobVars, err, dataVars, coreVars, envVars>>

\* Mutant: the port is published only by a service that runs already.
PortWhenRunning ==
  /\ Callback("listening")
  /\ core' = "listening"
  /\ queue' = IF taskState = "RUNNING" THEN Append(queue, Update("port")) ELSE queue
  /\ UNCHANGED <<taskState, jobVars, threadVars, dataVars, vpn, androidVars>>

\* The core announces its SOCKS port before it connects.
OnListeningSocksProxyPort ==
  /\ Callback("listening")
  /\ core' = "listening"
  /\ Post("port")
  /\ UNCHANGED <<taskState, jobVars, threadVars, dataVars, vpn, androidVars>>

OnConnected ==
  /\ Callback("connected")
  /\ core = "listening"
  /\ Post("CONNECTED")
  /\ Goto("core", "route")
  /\ UNCHANGED <<taskState, jobVars, err, dataVars, coreVars, androidVars>>

\* The rest of onConnected: the port is read from the published state.
OnConnectedRoute ==
  /\ At("core", "route")
  /\ \/ /\ psiphonState.port
        /\ vpn' = IF vpn = "up" THEN "routing" ELSE vpn
        /\ Goto("core", "idle")
        /\ UNCHANGED err
     \/ /\ ~psiphonState.port
        /\ Goto("core", "cas1")
        /\ err' = [err EXCEPT !["core"] = "SOCKS_PORT_NOT_SET"]
        /\ UNCHANGED vpn
  /\ UNCHANGED <<taskState, jobVars, queue, dataVars, core, envVars>>

\* onSocksProxyPortInUse, onHttpProxyPortInUse
OnProxyPortInUse ==
  /\ Callback("portInUse")
  /\ Goto("core", "cas1")
  /\ err' = [err EXCEPT !["core"] = "PROXY_PORT_IN_USE"]
  /\ UNCHANGED <<taskState, jobVars, queue, dataVars, coreVars, androidVars>>

\* The callbacks that only publish a field of the session, which the reset
\* clears; the egress regions, which it keeps, are left out.
OnInfo ==
  /\ Callback("info")
  /\ Post("info")
  /\ UNCHANGED <<taskState, jobVars, threadVars, dataVars, coreVars, androidVars>>

-----------------------------------------------------------------------------
(* binder: onRevoke, which reads the task state twice.                      *)

OnRevoke ==
  /\ vpn # "down"
  /\ At("binder", "idle")
  /\ Spend("revokes")
  /\ StopSelf
  /\ Goto("binder", "revoke1")
  /\ UNCHANGED <<taskState, jobVars, err, queue, dataVars, coreVars>>

OnRevokeCheck ==
  /\ \/ /\ At("binder", "revoke1")
        /\ Goto("binder", IF taskState # "STOPPED" THEN "revoke2" ELSE "idle")
        /\ UNCHANGED queue
     \/ /\ At("binder", "revoke2")
        /\ taskState # "STOPPING"
        /\ Post("VPN_REVOKED")
        /\ Goto("binder", "cas1")
     \/ /\ At("binder", "revoke2")
        /\ taskState = "STOPPING"
        /\ Goto("binder", "idle")
        /\ UNCHANGED queue
  /\ UNCHANGED <<taskState, jobVars, err, dataVars, coreVars, envVars>>

-----------------------------------------------------------------------------
MainTask ==
  \/ UpdateTask \/ CancelTask \/ OnDestroy \/ OnStartCommand
  \/ HandleStopAction \/ HandleStartAction \/ HandleParamsChangedAction \/ HandleUnknownAction

MainForeground == StartForegroundWithNotification \/ StopForegroundAndService

Main ==
  \/ MainTask \/ MainForeground \/ AssignJob
  \/ RestartTunnel \/ RestartPsiphon \/ StopTunnel("main")

CoreCalls ==
  \/ OnConnecting \/ OnListeningSocksProxyPort \/ OnConnected \/ OnProxyPortInUse \/ OnInfo

CoreContinues == OnConnectingPost \/ OnConnectedRoute \/ StopTunnel("core")

BinderContinues == OnRevokeCheck \/ StopTunnel("binder")

\* No call, task or coroutine is under way.
AtRest ==
  /\ MainIdle
  /\ queue = <<>>
  /\ \A t \in Threads : At(t, "idle")
  /\ \A j \in Jobs : job[j] \in {"none", "done"} \/ (job[j] = "suspended" /\ j \notin cancelled)
  /\ instance # "ending"

\* The service may stay at rest; any other state without a step is a deadlock.
Rest == AtRest /\ UNCHANGED vars

Next ==
  \/ SendIntent \/ Bind \/ SendDestroy
  \/ Main
  \/ \E j \in Jobs : RunJob(j)
  \/ CoreCalls \/ CoreContinues
  \/ OnRevoke \/ BinderContinues
  \/ Rest

Spec == Init /\ [][Next]_vars

\* The looper runs its tasks, a started call goes on, the IO dispatcher runs
\* its coroutines, and the activity manager delivers onDestroy.  Nothing is
\* assumed of the environment: intents, callbacks and revocations may stop.
Fairness ==
  /\ WF_vars(Main)
  /\ WF_vars(CoreContinues)
  /\ WF_vars(BinderContinues)
  /\ WF_vars(SendDestroy)
  /\ \A j \in Jobs : WF_vars(RunJob(j))

FairSpec == Spec /\ Fairness

-----------------------------------------------------------------------------
JobStates == OwnerSteps \cup TailSteps \cup {"none", "done"}

PcStates == {"idle", "cas1", "cas2", "post", "restart", "restartPsiphon", "connecting", "route",
             "revoke1", "revoke2", "setForeground", "startForeground", "handle",
             "stopForeground", "clearForeground", "stopSelf"}

\* The type of the state.
TypeOK ==
  /\ taskState \in TaskStates
  /\ tunnelJob \in Jobs \cup {NoJob}
  /\ assigning \in Jobs \cup {NoJob}
  /\ job \in [Jobs -> JobStates]
  /\ cancelled \in SUBSET Jobs
  /\ pc \in [Threads -> PcStates]
  /\ err \in [Threads -> ErrorCodes \cup {NoError}]
  /\ queue \in Seq(Tasks)
  /\ psiphonState \in PsiphonStates
  /\ isInForeground \in BOOLEAN
  /\ foreground \in BOOLEAN
  /\ runningFlag \in BOOLEAN
  /\ stored \in Params \cup {NoParams}
  /\ vpn \in {"down", "up", "routing"}
  /\ core \in {"off", "on", "listening"}
  /\ startRequested \in BOOLEAN
  /\ bound \in BOOLEAN
  /\ instance \in {"alive", "ending", "ended"}
  /\ left \in [{"starts", "commands", "callbacks", "revokes", "binds"} -> Nat]

\* The coroutines between the launch and the end of their cleanup.
Owners == {j \in Jobs : job[j] \in OwnerSteps}

\* At most one coroutine is between its launch by startTunnel and its
\* tunnelTaskState.set(STOPPED), and STOPPED means that there is none: a new
\* session never starts while the cleanup of the last one still runs.
OneOwner ==
  /\ \A i, j \in Owners : i = j
  /\ taskState = "STOPPED" => Owners = {}

\* In state STOPPED the VPN interface is down, whatever was interrupted:
\* the finally block of startTunnel closes it before it sets STOPPED, and
\* onConnected cannot begin to route afterwards.
StoppedMeansVpnDown == taskState = "STOPPED" => vpn = "down"

\* The service has come to rest with no tunnel, and clients are not told that
\* they are connected and see nothing of an ended session's ports, regions
\* and counters.
NothingLeft ==
  AtRest /\ taskState = "STOPPED" /\ core = "off" =>
    psiphonState.event # "CONNECTED" /\ ~psiphonState.port /\ ~psiphonState.info

\* Changed parameters ask for a restart of a core that runs again although the
\* coroutine has stopped it: a first restart brought it back, and the task
\* state still says RUNNING.
LateRestart ==
  At("main", "restart") /\ core # "off" /\ \E j \in Jobs : job[j] = "setStopped"

\* No callback's update (onConnected, onListeningSocksProxyPort, ...) outlives
\* its session: the reset that the finally block posts comes after them all,
\* however callbacks, stops, failures and restarts are interleaved with it.
\* Only a late restart can break this: what the core publishes after the
\* reset stays when that restart fails and leaves the core off.
SessionDataReset == []NothingLeft \/ <>LateRestart

\* The published state has the SOCKS port that the core has announced, or will
\* have it when main has run the updates in its queue.
PortComing ==
  core = "listening" =>
     \/ psiphonState.port /\ \A k \in 1..Len(queue) : queue[k] # Update("reset")
     \/ \E i \in 1..Len(queue) :
          queue[i] = Update("port") /\ \A k \in (i + 1)..Len(queue) : queue[k] # Update("reset")

\* onConnected takes the port from the published state and stops the tunnel if
\* there is none.  In every session, an announced port stays published or on
\* its way there, until the finally block of an earlier coroutine posts its
\* reset although a core is listening again: no other step loses it.
AnnouncedPortKept == [][PortComing /\ ~PortComing' => \E j \in Jobs : JobPostStopped(j)]_vars

\* onStartCommand calls startForeground() only if isInForeground is false.  The
\* flag is true without the service being in the foreground only inside the
\* two calls that change both: it never stays so, which would keep every later
\* intent from promoting the service, however main's and the coroutines'
\* calls and onDestroy are interleaved.
ForegroundFlagHonest ==
  isInForeground /\ ~foreground =>
     \/ pc["main"] \in {"setForeground", "startForeground", "clearForeground"}
     \/ \E j \in Jobs : job[j] = "clearForeground"

\* No reference is left by which a stop could reach the coroutine: it ended
\* before it was dispatched, or tunnelJob no longer refers to it.
Unreachable == tunnelJob \notin Owners

\* A stopTunnel that found the tunnel starting or running takes it to
\* STOPPED, unless the coroutine is out of its reach for ever.
StopCompletes == (taskState = "STOPPING") ~> (taskState = "STOPPED" \/ []Unreachable)

\* STARTING does not last: startTunnel's coroutine runs, fails or is stopped,
\* unless it was cancelled before it was dispatched.
StartCompletes == (taskState = "STARTING") ~> (taskState # "STARTING" \/ [](Owners = {}))

-----------------------------------------------------------------------------
(* What comments of the code promise and the code does not keep.            *)

\* "Cancel the coroutine - this will trigger the finally block": STOPPING is
\* followed by STOPPED.
StopTriggersCleanup == (taskState = "STOPPING") ~> (taskState = "STOPPED")

\* "This stops the internal tunnel threads": once the service has come to
\* rest in STOPPED, tunnel-core does not run.
CoreStopped == AtRest /\ taskState = "STOPPED" => core = "off"

\* "Delete the file to indicate the service has stopped": when the flag has
\* been cleared and the handler is done, a stop is on its way.
FlagMeansStopped ==
  (MainIdle /\ ~runningFlag /\ taskState \in {"STARTING", "RUNNING"}) =>
     \/ \E i \in 1..Len(queue) : queue[i].kind \in {"cancel", "destroy"}
     \/ \E t \in Threads : At(t, "post")
     \/ Owners \subseteq cancelled \cup {j \in Jobs : job[j] \in {"teardown", "stopCore", "setStopped"}}

=============================================================================
