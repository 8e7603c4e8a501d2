-------------------------- MODULE VpnServiceProofs --------------------------
(***************************************************************************)
(* Proofs about VpnService, for any numbers of coroutines, parameters,     *)
(* intents, callbacks, revocations and binds.                              *)
(***************************************************************************)
EXTENDS VpnService, TLAPS

\* The tuples of variables that UNCHANGED names.
USE DEF jobRefs, jobVars, threadVars, fgVars, dataVars, coreVars, androidVars, envVars

-----------------------------------------------------------------------------
(* Type correctness.                                                        *)

\* What the actions append to the looper's queue are tasks.
LEMMA TasksTyped ==
  /\ \A u \in Updates : Update(u) \in Tasks
  /\ Task("cancel", NoError) \in Tasks
  /\ Task("destroy", NoError) \in Tasks
  /\ \A a \in AllActions, p \in Params \cup {NoParams} : Task(a, p) \in Tasks
BY DEF Update, Task, Tasks, AllActions

\* An update task carries an update, an intent parameters or none.
LEMMA TaskArgs ==
  ASSUME NEW t \in Tasks
  PROVE  /\ t.kind = "update" => t.arg \in Updates
         /\ t.kind \in AllActions => t.arg \in Params \cup {NoParams}
BY DEF Tasks, AllActions

\* An update function takes published states to published states.
LEMMA ApplyTyped ==
  ASSUME NEW u \in Updates, NEW s \in PsiphonStates
  PROVE  Apply(u, s) \in PsiphonStates
<1>1. EventAfter(u, s.event) \in {"STOPPED", "CONNECTING", "CONNECTED", "STOPPING"}
  BY DEF EventAfter, PsiphonStates
<1>2. ErrorAfter(u, s.error) \in ErrorCodes \cup {NoError}
  BY DEF ErrorAfter, PsiphonStates
<1>3. QED
  BY <1>1, <1>2 DEF Apply, PsiphonStates

\* Posting tasks, and the pending error after them, keeps the queue typed.
LEMMA PostsTyped ==
  ASSUME TypeOK, NEW t \in Threads, NEW us \in Seq(Tasks), Posts(t, us)
  PROVE  queue' \in Seq(Tasks)
<1> DEFINE last == IF err[t] = NoError THEN <<>> ELSE <<Update(err[t])>>
<1>1. err[t] # NoError => Update(err[t]) \in Tasks
  BY TasksTyped DEF TypeOK, Updates
<1>2. last \in Seq(Tasks)
  BY <1>1
<1>3. queue \in Seq(Tasks)
  BY DEF TypeOK
<1>4. queue' = (queue \o us) \o last
  BY DEF Posts
<1> HIDE DEF last
<1>5. QED
  BY <1>2, <1>3, <1>4

\* One step of stopTunnel.
LEMMA StopTunnelTyped ==
  ASSUME TypeOK, NEW t \in Threads, StopTunnel(t)
  PROVE  TypeOK'
<1>1. CASE StopTunnelCas1(t)
  BY <1>1 DEF TypeOK, StopTunnelCas1, StopFrom, At, Goto,
              TaskStates, PcStates
<1>2. CASE StopTunnelCas2(t)
  <2>1. queue' \in Seq(Tasks)
    <3>1. <<>> \in Seq(Tasks)
      OBVIOUS
    <3>2. CASE Posts(t, <<>>)
      BY <3>1, <3>2, PostsTyped, Zenon
    <3>3. CASE UNCHANGED queue
      BY <3>3 DEF TypeOK
    <3>4. QED
      BY <1>2, <3>2, <3>3 DEF StopTunnelCas2, StopFrom
  <2>2. taskState' \in TaskStates /\ pc' \in [Threads -> PcStates]
    BY <1>2, Zenon DEF TypeOK, StopTunnelCas2, StopFrom, Goto, Return, TaskStates, PcStates
  <2>3. err' \in [Threads -> ErrorCodes \cup {NoError}]
    BY <1>2 DEF TypeOK, StopTunnelCas2, StopFrom, Return
  <2>4. QED
    BY <1>2, <2>1, <2>2, <2>3 DEF TypeOK, StopTunnelCas2
<1>3. CASE StopTunnelPost(t)
  <2>1. queue' \in Seq(Tasks)
    <3>1. <<Update("STOPPING"), Task("cancel", NoError)>> \in Seq(Tasks)
      BY TasksTyped DEF Updates
    <3>2. QED
      BY <1>3, <3>1, PostsTyped, Zenon DEF StopTunnelPost
  <2>2. QED
    BY <1>3, <2>1 DEF TypeOK, StopTunnelPost, Goto, Return, PcStates
<1>4. QED
  BY <1>1, <1>2, <1>3 DEF StopTunnel

\* The task at the head of the queue, and what is left when it is taken.
LEMMA HeadTyped ==
  ASSUME TypeOK, queue # <<>>
  PROVE  Head(queue) \in Tasks /\ Tail(queue) \in Seq(Tasks)
BY DEF TypeOK

\* Posting one update.
LEMMA PostTyped ==
  ASSUME TypeOK, NEW u \in Updates, Post(u)
  PROVE  queue' \in Seq(Tasks)
BY TasksTyped DEF TypeOK, Post

\* One use of the environment's bounds.
LEMMA SpendTyped ==
  ASSUME TypeOK, NEW what \in {"starts", "commands", "callbacks", "revokes", "binds"}, Spend(what)
  PROVE  left' \in [{"starts", "commands", "callbacks", "revokes", "binds"} -> Nat]
BY DEF TypeOK, Spend

\* What Android does.
LEMMA AndroidTyped ==
  ASSUME TypeOK, SendIntent \/ Bind \/ SendDestroy
  PROVE  TypeOK'
<1>1. CASE SendIntent
  <2>1. PICK a \in Actions, p \in Params \cup {NoParams} :
          /\ Spend(IF a = "START" THEN "starts" ELSE "commands")
          /\ queue' = Append(queue, Task(a, p))
    BY <1>1 DEF SendIntent
  <2>2. Task(a, p) \in Tasks
    BY ConstantsAssumption, TasksTyped
  <2>3. left' \in [{"starts", "commands", "callbacks", "revokes", "binds"} -> Nat]
    BY <2>1, SpendTyped
  <2>4. queue' \in Seq(Tasks)
    BY <2>1, <2>2 DEF TypeOK
  <2>5. QED
    BY <1>1, <2>3, <2>4, SMTT(30) DEF TypeOK, SendIntent
<1>2. CASE Bind
  <2>1. left' \in [{"starts", "commands", "callbacks", "revokes", "binds"} -> Nat]
    BY <1>2, SpendTyped DEF Bind
  <2>2. QED
    BY <1>2, <2>1 DEF TypeOK, Bind, EndsIf
<1>3. CASE SendDestroy
  <2>1. queue' \in Seq(Tasks)
    BY <1>3, TasksTyped DEF TypeOK, SendDestroy
  <2>2. QED
    BY <1>3, <2>1 DEF TypeOK, SendDestroy
<1>4. QED
  BY <1>1, <1>2, <1>3

\* The tasks of the main looper.
LEMMA MainTaskTyped ==
  ASSUME TypeOK, MainTask
  PROVE  TypeOK'
<1>1. CASE UpdateTask
  <2>1. Head(queue) \in Tasks /\ queue' \in Seq(Tasks)
    BY <1>1, HeadTyped DEF UpdateTask, Take
  <2>2. psiphonState' \in PsiphonStates
    BY <1>1, <2>1, TaskArgs, ApplyTyped, Zenon DEF TypeOK, UpdateTask, Take
  <2>3. QED
    BY <1>1, <2>1, <2>2 DEF TypeOK, UpdateTask
<1>2. CASE CancelTask
  BY <1>2, HeadTyped DEF TypeOK, CancelTask, Take
<1>3. CASE OnDestroy
  <2>1. queue' \in Seq(Tasks)
    BY <1>3, HeadTyped DEF OnDestroy, Take
  <2>2. cancelled' \in SUBSET Jobs
    BY <1>3 DEF TypeOK, OnDestroy
  <2>3. isInForeground' \in BOOLEAN /\ foreground' \in BOOLEAN
    BY <1>3, Zenon DEF OnDestroy
  <2>4. QED
    BY <1>3, <2>1, <2>2, <2>3 DEF TypeOK, OnDestroy
<1>4. CASE OnStartCommand
  <2>1. queue' \in Seq(Tasks)
    BY <1>4, HeadTyped, Zenon DEF TypeOK, OnStartCommand, Take
  <2>2. isInForeground' \in BOOLEAN
    BY <1>4, Zenon DEF TypeOK, OnStartCommand
  <2>3. pc' \in [Threads -> PcStates]
    BY <1>4 DEF TypeOK, OnStartCommand, Goto, PcStates
  <2>4. QED
    BY <1>4, <2>1, <2>2, <2>3 DEF TypeOK, OnStartCommand
<1>5. CASE HandleStopAction
  <2>1. queue' \in Seq(Tasks)
    BY <1>5, HeadTyped DEF HandleStopAction, Command
  <2>2. runningFlag' \in BOOLEAN
    BY <1>5, Zenon DEF TypeOK, HandleStopAction
  <2>3. pc' \in [Threads -> PcStates]
    BY <1>5 DEF TypeOK, HandleStopAction, Goto, PcStates
  <2>4. QED
    BY <1>5, <2>1, <2>2, <2>3 DEF TypeOK, HandleStopAction
<1>6. CASE HandleStartAction
  <2>1. Head(queue).arg \in Params \cup {NoParams} /\ queue' \in Seq(Tasks)
    BY <1>6, HeadTyped, TaskArgs DEF HandleStartAction, Command, AllActions
  <2>2. runningFlag' \in BOOLEAN
    BY <1>6, Zenon DEF TypeOK, HandleStartAction
  <2>3. /\ taskState' \in TaskStates
        /\ stored' \in Params \cup {NoParams}
        /\ assigning' \in Jobs \cup {NoJob}
        /\ job' \in [Jobs -> JobStates]
    BY <1>6, <2>1, Zenon DEF TypeOK, HandleStartAction, TaskStates, JobStates, OwnerSteps
  <2>4. pc' \in [Threads -> PcStates]
    BY <1>6 DEF TypeOK, HandleStartAction, Goto, PcStates
  <2>5. QED
    BY <1>6, <2>1, <2>2, <2>3, <2>4 DEF TypeOK, HandleStartAction
<1>7. CASE HandleParamsChangedAction
  <2>1. Head(queue).arg \in Params \cup {NoParams} /\ queue' \in Seq(Tasks)
    BY <1>7, HeadTyped, TaskArgs DEF HandleParamsChangedAction, Command, AllActions
  <2>2. pc' \in [Threads -> PcStates]
    BY <1>7 DEF TypeOK, HandleParamsChangedAction, Goto, PcStates
  <2>3. QED
    BY <1>7, <2>1, <2>2 DEF TypeOK, HandleParamsChangedAction
<1>8. CASE HandleUnknownAction
  <2>1. queue' \in Seq(Tasks)
    BY <1>8, HeadTyped DEF HandleUnknownAction, Command
  <2>2. pc' \in [Threads -> PcStates]
    BY <1>8 DEF TypeOK, HandleUnknownAction, Goto, PcStates
  <2>3. QED
    BY <1>8, <2>1, <2>2 DEF TypeOK, HandleUnknownAction
<1>9. QED
  BY <1>1, <1>2, <1>3, <1>4, <1>5, <1>6, <1>7, <1>8 DEF MainTask

\* main's calls into and out of the foreground.
LEMMA MainForegroundTyped ==
  ASSUME TypeOK, MainForeground
  PROVE  TypeOK'
<1>1. /\ isInForeground' \in BOOLEAN /\ foreground' \in BOOLEAN
      /\ startRequested' \in BOOLEAN /\ bound' \in BOOLEAN
  BY Zenon DEF TypeOK, MainForeground, StartForegroundWithNotification, StopForegroundAndService,
               StopSelf
<1>2. CASE StartForegroundWithNotification
  BY <1>1, <1>2 DEF TypeOK, StartForegroundWithNotification, Goto, PcStates
<1>3. CASE StopForegroundAndService
  <2>1. pc' \in [Threads -> PcStates] /\ instance' \in {"alive", "ending", "ended"}
    BY <1>3 DEF TypeOK, StopForegroundAndService, StopSelf, EndsIf, Goto, PcStates
  <2>2. QED
    BY <1>1, <1>3, <2>1 DEF TypeOK, StopForegroundAndService
<1>4. QED
  BY <1>2, <1>3 DEF MainForeground

\* onStartCommand and the calls into and out of the foreground change nothing
\* of a session.
LEMMA IntentSteps ==
  ASSUME OnStartCommand \/ MainForeground
  PROVE  UNCHANGED <<taskState, job, tunnelJob, assigning, cancelled, err, psiphonState, runningFlag,
                     stored, vpn, core>>
BY Zenon DEF MainForeground, OnStartCommand, StartForegroundWithNotification, StopForegroundAndService,
             jobVars, jobRefs, coreVars

\* One step of a coroutine: its posts and its own progress.
LEMMA RunJobTyped ==
  ASSUME TypeOK, NEW j \in Jobs, RunJob(j)
  PROVE  TypeOK'
<1> USE DEF JobGoto, JobStates, OwnerSteps,
            TailSteps
<1>1. CASE Dispatch(j)
  BY <1>1 DEF TypeOK, Dispatch
<1>2. CASE JobBegin(j)
  <2>1. queue' \in Seq(Tasks)
    BY <1>2, PostTyped DEF JobBegin, Updates
  <2>2. QED
    BY <1>2, <2>1 DEF TypeOK, JobBegin
<1>3. CASE JobEstablish(j)
  <2>1. queue' \in Seq(Tasks)
    <3>1. CASE UNCHANGED queue
      BY <3>1 DEF TypeOK
    <3>2. CASE Post("UNEXPECTED_ERROR")
      BY <3>2, PostTyped DEF Updates, ErrorCodes
    <3>3. QED
      BY <1>3, <3>1, <3>2 DEF JobEstablish
  <2>2. QED
    BY <1>3, <2>1 DEF TypeOK, JobEstablish
<1>4. CASE JobStartCore(j)
  <2>1. queue' \in Seq(Tasks)
    <3>1. CASE UNCHANGED queue
      BY <3>1 DEF TypeOK
    <3>2. CASE Post("TUNNEL_START_FAILED")
      BY <3>2, PostTyped DEF Updates, ErrorCodes
    <3>3. QED
      BY <1>4, <3>1, <3>2 DEF JobStartCore
  <2>2. QED
    BY <1>4, <2>1 DEF TypeOK, JobStartCore
<1>5. CASE JobSetRunning(j)
  BY <1>5 DEF TypeOK, JobSetRunning, TaskStates
<1>6. CASE JobResume(j)
  BY <1>6 DEF TypeOK, JobResume
<1>7. CASE JobTeardown(j)
  BY <1>7 DEF TypeOK, JobTeardown
<1>8. CASE JobStopCore(j)
  BY <1>8 DEF TypeOK, JobStopCore
<1>9. CASE JobSetStopped(j)
  BY <1>9 DEF TypeOK, JobSetStopped, TaskStates
<1>10. CASE JobPostStopped(j)
  <2>1. queue' \in Seq(Tasks)
    BY <1>10, PostTyped DEF JobPostStopped, Updates
  <2>2. QED
    BY <1>10, <2>1 DEF TypeOK, JobPostStopped
<1>11. CASE JobClear(j)
  BY <1>11 DEF TypeOK, JobClear
<1>12. CASE JobStopForeground(j)
  <2>1. job' \in [Jobs -> JobStates] /\ instance' \in {"alive", "ending", "ended"}
    BY <1>12 DEF TypeOK, JobStopForeground, StopSelf, EndsIf
  <2>2. /\ isInForeground' \in BOOLEAN /\ foreground' \in BOOLEAN
        /\ startRequested' \in BOOLEAN /\ bound' \in BOOLEAN
    BY <1>12, Zenon DEF TypeOK, JobStopForeground, StopSelf
  <2>3. QED
    BY <1>12, <2>1, <2>2 DEF TypeOK, JobStopForeground
<1>13. QED
  BY <1>1, <1>2, <1>3, <1>4, <1>5, <1>6, <1>7, <1>8, <1>9, <1>10, <1>11, <1>12 DEF RunJob

\* The callbacks of the core.
LEMMA CoreTyped ==
  ASSUME TypeOK, CoreCalls \/ OnConnectingPost \/ OnConnectedRoute
  PROVE  TypeOK'
<1> USE DEF Goto, PcStates, Threads
<1>1. CASE OnConnecting
  BY <1>1, SpendTyped, SMTT(30) DEF TypeOK, OnConnecting, Callback
<1>2. CASE OnListeningSocksProxyPort
  <2>1. queue' \in Seq(Tasks)
    BY <1>2, PostTyped DEF OnListeningSocksProxyPort, Updates
  <2>2. left' \in [{"starts", "commands", "callbacks", "revokes", "binds"} -> Nat]
    BY <1>2, SpendTyped DEF OnListeningSocksProxyPort, Callback
  <2>3. QED
    BY <1>2, <2>1, <2>2 DEF TypeOK, OnListeningSocksProxyPort
<1>3. CASE OnConnected
  <2>1. queue' \in Seq(Tasks)
    BY <1>3, PostTyped DEF OnConnected, Updates
  <2>2. left' \in [{"starts", "commands", "callbacks", "revokes", "binds"} -> Nat]
    BY <1>3, SpendTyped DEF OnConnected, Callback
  <2>3. QED
    BY <1>3, <2>1, <2>2, SMTT(30) DEF TypeOK, OnConnected
<1>4. CASE OnProxyPortInUse
  BY <1>4, SpendTyped, SMTT(30) DEF TypeOK, OnProxyPortInUse, Callback, ErrorCodes
<1>5. CASE OnInfo
  <2>1. queue' \in Seq(Tasks)
    BY <1>5, PostTyped DEF OnInfo, Updates
  <2>2. left' \in [{"starts", "commands", "callbacks", "revokes", "binds"} -> Nat]
    BY <1>5, SpendTyped DEF OnInfo, Callback
  <2>3. QED
    BY <1>5, <2>1, <2>2, SMTT(30) DEF TypeOK, OnInfo
<1>6. CASE OnConnectingPost
  <2>1. queue' \in Seq(Tasks)
    BY <1>6, PostTyped DEF OnConnectingPost, Updates
  <2>2. QED
    BY <1>6, <2>1 DEF TypeOK, OnConnectingPost
<1>7. CASE OnConnectedRoute
  BY <1>7 DEF TypeOK, OnConnectedRoute, ErrorCodes
<1>8. QED
  BY <1>1, <1>2, <1>3, <1>4, <1>5, <1>6, <1>7 DEF CoreCalls

\* onRevoke up to its stopTunnel.
LEMMA RevokeTyped ==
  ASSUME TypeOK, OnRevoke \/ OnRevokeCheck
  PROVE  TypeOK'
<1> USE DEF Goto, PcStates, Threads
<1>1. CASE OnRevoke
  <2>1. left' \in [{"starts", "commands", "callbacks", "revokes", "binds"} -> Nat]
    BY <1>1, SpendTyped DEF OnRevoke
  <2>2. startRequested' \in BOOLEAN /\ bound' \in BOOLEAN
    BY <1>1, Zenon DEF TypeOK, OnRevoke, StopSelf
  <2>3. pc' \in [Threads -> PcStates] /\ instance' \in {"alive", "ending", "ended"}
    BY <1>1 DEF TypeOK, OnRevoke, StopSelf, EndsIf
  <2>4. QED
    BY <1>1, <2>1, <2>2, <2>3 DEF TypeOK, OnRevoke
<1>2. CASE OnRevokeCheck
  <2>1. queue' \in Seq(Tasks)
    <3>1. CASE UNCHANGED queue
      BY <3>1 DEF TypeOK
    <3>2. CASE Post("VPN_REVOKED")
      BY <3>2, PostTyped DEF Updates, ErrorCodes
    <3>3. QED
      BY <1>2, <3>1, <3>2 DEF OnRevokeCheck
  <2>2. QED
    BY <1>2, <2>1 DEF TypeOK, OnRevokeCheck
<1>3. QED
  BY <1>1, <1>2

\* The state that onCreate leaves is typed.
LEMMA TypeInit == Init => TypeOK
<1> SUFFICES ASSUME Init PROVE TypeOK
  OBVIOUS
<1>1. /\ isInForeground \in BOOLEAN /\ foreground \in BOOLEAN /\ runningFlag \in BOOLEAN
      /\ startRequested \in BOOLEAN /\ bound \in BOOLEAN
  BY ConstantsAssumption, Zenon DEF Init
<1>2. psiphonState \in PsiphonStates
  BY DEF Init, PsiphonStates
<1>3. left \in [{"starts", "commands", "callbacks", "revokes", "binds"} -> Nat]
  BY ConstantsAssumption DEF Init
<1>4. job \in [Jobs -> JobStates] /\ pc \in [Threads -> PcStates]
  BY DEF Init, JobStates, PcStates
<1>5. err \in [Threads -> ErrorCodes \cup {NoError}] /\ queue \in Seq(Tasks)
  BY DEF Init
<1>6. QED
  BY <1>1, <1>2, <1>3, <1>4, <1>5 DEF Init, TypeOK, TaskStates

\* Every step keeps the type.
LEMMA TypeStep == TypeOK /\ [Next]_vars => TypeOK'
<1> SUFFICES ASSUME TypeOK, [Next]_vars PROVE TypeOK'
  OBVIOUS
<1>1. CASE AssignJob
  BY <1>1 DEF TypeOK, AssignJob
<1>2. CASE RestartTunnel
  <2>1. queue' \in Seq(Tasks)
    BY <1>2, PostTyped DEF RestartTunnel, Updates
  <2>2. QED
    BY <1>2, <2>1 DEF TypeOK, RestartTunnel, Goto, PcStates, Threads
<1>3. CASE RestartPsiphon
  BY <1>3 DEF TypeOK, RestartPsiphon, Goto, PcStates, Threads, ErrorCodes
<1>4. CASE UNCHANGED vars
  BY <1>4 DEF TypeOK, vars
<1>5. ASSUME NEW t \in Threads, StopTunnel(t) PROVE TypeOK'
  BY <1>5, StopTunnelTyped
<1>6. CASE Rest
  BY <1>4, <1>6 DEF Rest
<1>7. QED
  BY <1>1, <1>2, <1>3, <1>4, <1>5, <1>6, AndroidTyped, MainTaskTyped,
     MainForegroundTyped, RunJobTyped, CoreTyped, RevokeTyped
     DEF Next, Main, CoreContinues, BinderContinues, Threads

\* Type correctness: every reachable state has the declared type, the tasks in
\* the looper's queue included.
THEOREM TypeCorrect == Spec => []TypeOK
BY TypeInit, TypeStep, PTL DEF Spec

-----------------------------------------------------------------------------
(* One owner at a time, and no interface without an owner.                  *)

\* The steps of a coroutine at which it may have the VPN interface open.
VpnSteps == {"startCore", "setRunning", "suspended", "teardown"}

\* An interface that is not down belongs to a coroutine that will close it.
\* It is what makes StoppedMeansVpnDown inductive: the state alone does not
\* say who will run vpnTeardown.
VpnOwned == vpn = "down" \/ \E j \in Jobs : job[j] \in VpnSteps

OwnerInv == TypeOK /\ OneOwner /\ VpnOwned

\* The steps that neither move a coroutine nor take the state to STOPPED nor
\* open the interface keep the invariant.
LEMMA QuietStep ==
  ASSUME OwnerInv, UNCHANGED job,
         taskState' = "STOPPED" => taskState = "STOPPED",
         vpn' # "down" => vpn # "down"
  PROVE  OneOwner' /\ VpnOwned'
BY DEF OwnerInv, OneOwner, VpnOwned, Owners

\* A coroutine that moves from one owning step to another remains the only
\* owner.
LEMMA OwnerMoves ==
  ASSUME OwnerInv, NEW j \in Jobs, NEW from \in OwnerSteps, NEW to \in OwnerSteps,
         JobGoto(j, from, to), taskState' # "STOPPED" \/ UNCHANGED taskState
  PROVE  OneOwner'
BY DEF OwnerInv, OneOwner, Owners, JobGoto, TypeOK

\* The steps of the coroutines.
LEMMA RunJobOwner ==
  ASSUME OwnerInv, NEW j \in Jobs, RunJob(j)
  PROVE  OneOwner' /\ VpnOwned'
<1> USE DEF OwnerSteps, TailSteps, VpnSteps
<1>0. job \in [Jobs -> JobStates]
  BY DEF OwnerInv, TypeOK
<1>1. CASE Dispatch(j)
  BY <1>0, <1>1 DEF OwnerInv, OneOwner, VpnOwned, Owners, Dispatch, JobGoto
<1>2. CASE JobBegin(j)
  BY <1>0, <1>2, OwnerMoves, Zenon DEF OwnerInv, VpnOwned, JobBegin, JobGoto
<1>3. CASE JobEstablish(j)
  BY <1>0, <1>3, OwnerMoves DEF OwnerInv, VpnOwned, JobEstablish, JobGoto
<1>4. CASE JobStartCore(j)
  BY <1>0, <1>4, OwnerMoves DEF OwnerInv, VpnOwned, JobStartCore, JobGoto
<1>5. CASE JobSetRunning(j)
  BY <1>0, <1>5, OwnerMoves, Zenon DEF OwnerInv, VpnOwned, JobSetRunning, JobGoto
<1>6. CASE JobResume(j)
  BY <1>0, <1>6, OwnerMoves, Zenon DEF OwnerInv, VpnOwned, JobResume, JobGoto
<1>7. CASE JobTeardown(j)
  BY <1>7, OwnerMoves DEF VpnOwned, JobTeardown
<1>8. CASE JobStopCore(j)
  BY <1>0, <1>8, OwnerMoves, Zenon DEF OwnerInv, VpnOwned, JobStopCore, JobGoto
<1>9. CASE JobSetStopped(j)
  BY <1>0, <1>9 DEF OwnerInv, OneOwner, VpnOwned, Owners, JobSetStopped, JobGoto
<1>10. CASE JobPostStopped(j)
  BY <1>0, <1>10 DEF OwnerInv, OneOwner, VpnOwned, Owners, JobPostStopped, JobGoto
<1>11. CASE JobClear(j)
  BY <1>0, <1>11 DEF OwnerInv, OneOwner, VpnOwned, Owners, JobClear, JobGoto
<1>12. CASE JobStopForeground(j)
  BY <1>0, <1>12 DEF OwnerInv, OneOwner, VpnOwned, Owners, JobStopForeground, JobGoto
<1>13. QED
  BY <1>1, <1>2, <1>3, <1>4, <1>5, <1>6, <1>7, <1>8, <1>9, <1>10, <1>11, <1>12 DEF RunJob

\* The ownership invariant holds in every reachable state.
THEOREM OwnerInvHolds == Spec => []OwnerInv
<1>1. Init => OwnerInv
  <2>1. Init => OneOwner /\ VpnOwned
    BY DEF Init, OneOwner, VpnOwned, Owners, OwnerSteps
  <2>2. QED
    BY <2>1, TypeInit DEF OwnerInv
<1>2. OwnerInv /\ [Next]_vars => OwnerInv'
  <2> SUFFICES ASSUME OwnerInv, [Next]_vars PROVE OneOwner' /\ VpnOwned'
    BY TypeStep DEF OwnerInv
    <2>1. CASE SendIntent \/ Bind \/ SendDestroy
    BY <2>1, QuietStep DEF SendIntent, Bind, SendDestroy
  <2>2. CASE HandleStartAction
    <3>1. CASE UNCHANGED <<taskState, job>>
      BY <2>2, <3>1, QuietStep DEF HandleStartAction
    <3>2. CASE taskState = "STOPPED" /\ taskState' = "STARTING"
      <4>1. PICK j \in Jobs : job[j] = "none" /\ job' = [job EXCEPT ![j] = "new"]
        BY <2>2, <3>2 DEF HandleStartAction
      <4>2. QED
        BY <2>2, <3>2, <4>1, Zenon DEF OwnerInv, OneOwner, VpnOwned, Owners, VpnSteps, TypeOK,
                                HandleStartAction
    <3>3. QED
      BY <2>2, <3>1, <3>2 DEF HandleStartAction
  <2>3. CASE UpdateTask \/ CancelTask \/ OnDestroy
    BY <2>3, QuietStep, Zenon DEF UpdateTask, CancelTask, OnDestroy
  <2>4. CASE HandleStopAction \/ HandleParamsChangedAction \/ HandleUnknownAction
    BY <2>4, QuietStep DEF HandleStopAction, HandleParamsChangedAction, HandleUnknownAction
  <2>5. CASE AssignJob \/ RestartTunnel \/ RestartPsiphon
    BY <2>5, QuietStep DEF AssignJob, RestartTunnel, RestartPsiphon
  <2>6. ASSUME NEW t \in Threads, StopTunnel(t) PROVE OneOwner' /\ VpnOwned'
    BY <2>6, QuietStep DEF StopTunnel, StopTunnelCas1, StopTunnelCas2, StopTunnelPost, StopFrom
  <2>7. CASE CoreCalls
    BY <2>7, QuietStep, Zenon DEF CoreCalls, OnConnecting, OnListeningSocksProxyPort, OnConnected,
                           OnProxyPortInUse, OnInfo
  <2>8. CASE OnConnectingPost \/ OnConnectedRoute
    BY <2>8, QuietStep DEF OnConnectingPost, OnConnectedRoute
  <2>9. CASE OnRevoke \/ OnRevokeCheck
    BY <2>9, QuietStep DEF OnRevoke, OnRevokeCheck
  <2>10. CASE Rest \/ UNCHANGED vars
    BY <2>10, QuietStep DEF Rest, vars
  <2>11. CASE OnStartCommand \/ MainForeground
    BY <2>11, IntentSteps, QuietStep, Zenon
  <2>12. QED
    BY <2>1, <2>2, <2>3, <2>4, <2>5, <2>6, <2>7, <2>8, <2>9, <2>10, <2>11, RunJobOwner
       DEF Next, Main, MainTask, CoreContinues, BinderContinues, Threads
<1>3. QED
  BY <1>1, <1>2, PTL DEF Spec

\* At most one session is between its start and the end of its cleanup, and
\* none is in state STOPPED, for any number of starts, stops and revocations.
THEOREM OneOwnerHolds == Spec => []OneOwner
BY OwnerInvHolds, PTL DEF OwnerInv

\* STOPPED is never reached, and never left for a new session, with the VPN
\* interface of a session still open.
THEOREM StoppedMeansVpnDownHolds == Spec => []StoppedMeansVpnDown
<1>1. OwnerInv => StoppedMeansVpnDown
  BY DEF OwnerInv, OneOwner, VpnOwned, Owners, OwnerSteps, VpnSteps, StoppedMeansVpnDown
<1>2. QED
  BY <1>1, OwnerInvHolds, PTL

-----------------------------------------------------------------------------
(* The foreground flag.                                                     *)

\* isInForeground is true without the service being in the foreground only
\* inside the calls that change both: the property is inductive once the state
\* is typed.
THEOREM ForegroundFlagHonestHolds == Spec => []ForegroundFlagHonest
<1>1. Init => ForegroundFlagHonest
  BY DEF Init, ForegroundFlagHonest
<1>2. TypeOK /\ ForegroundFlagHonest /\ [Next]_vars => ForegroundFlagHonest'
  <2> SUFFICES ASSUME TypeOK, ForegroundFlagHonest, [Next]_vars PROVE ForegroundFlagHonest'
    OBVIOUS
  <2> DEFINE Inside == pc["main"] \in {"setForeground", "startForeground", "clearForeground"}
  <2> USE DEF Goto, At
  <2>0. pc \in [Threads -> PcStates] /\ {"main", "core", "binder"} = Threads
    BY Zenon DEF TypeOK, Threads
  <2>1. ASSUME UNCHANGED fgVars, UNCHANGED job, Inside => Inside'
        PROVE  ForegroundFlagHonest'
    BY <2>1, Zenon DEF ForegroundFlagHonest, fgVars
  <2>2. CASE SendIntent \/ Bind \/ SendDestroy
    BY <2>1, <2>2, Zenon DEF SendIntent, Bind, SendDestroy, dataVars, jobVars, threadVars
  <2>3. CASE UpdateTask \/ CancelTask
    BY <2>1, <2>3, Zenon DEF UpdateTask, CancelTask, jobVars, dataVars, threadVars
  <2>4. CASE OnDestroy
    BY <2>4, Zenon DEF OnDestroy, ForegroundFlagHonest
  <2>5. CASE HandleStopAction \/ HandleParamsChangedAction \/ HandleUnknownAction
    <3>1. ~Inside
      BY <2>5, Zenon DEF HandleStopAction, HandleParamsChangedAction, HandleUnknownAction, Command
    <3>2. QED
      BY <2>1, <2>5, <3>1, Zenon
         DEF HandleStopAction, HandleParamsChangedAction, HandleUnknownAction, jobVars, dataVars
  <2>6. CASE HandleStartAction
    <3>1. ~Inside /\ UNCHANGED fgVars
      BY <2>6, Zenon DEF HandleStartAction, Command
    <3>2. \A j \in Jobs : job[j] = "clearForeground" => job'[j] = "clearForeground"
      BY <2>6, Zenon DEF HandleStartAction, TypeOK
    <3>3. QED
      BY <3>1, <3>2, Zenon DEF ForegroundFlagHonest, fgVars
  <2>7. CASE AssignJob \/ RestartTunnel \/ RestartPsiphon
    BY <2>1, <2>7, Zenon DEF AssignJob, RestartTunnel, RestartPsiphon, jobVars, dataVars, threadVars
  <2>8. ASSUME NEW t \in Threads, StopTunnel(t) PROVE ForegroundFlagHonest'
    <3>1. (UNCHANGED fgVars) /\ UNCHANGED job
      BY <2>8, Zenon DEF StopTunnel, StopTunnelCas1, StopTunnelCas2, StopTunnelPost, jobVars, dataVars
    <3>2. pc[t] \in {"cas1", "cas2", "post"}
      BY <2>8, Zenon DEF StopTunnel, StopTunnelCas1, StopTunnelCas2, StopTunnelPost
    <3>3. \E s \in PcStates : pc' = [pc EXCEPT ![t] = s]
      BY <2>8, Zenon DEF StopTunnel, StopTunnelCas1, StopTunnelCas2, StopTunnelPost, StopFrom, Return,
                         PcStates
    <3>4. Inside => Inside'
      BY <2>0, <3>2, <3>3, Zenon
    <3>5. QED
      BY <2>1, <3>1, <3>4, Zenon
  <2>9. ASSUME NEW j \in Jobs, RunJob(j) PROVE ForegroundFlagHonest'
    <3>0. UNCHANGED pc
      BY <2>9, ZenonT(30) DEF RunJob, Dispatch, JobBegin, JobEstablish, JobStartCore, JobSetRunning,
                JobResume, JobTeardown, JobStopCore, JobSetStopped, JobPostStopped, JobClear,
                JobStopForeground, threadVars
    <3>1. CASE JobStopForeground(j)
      BY <3>0, <3>1, Zenon DEF JobStopForeground, JobGoto, ForegroundFlagHonest, TypeOK, fgVars
    <3>2. ASSUME NEW from \in JobStates \ {"clearForeground"}, NEW to \in JobStates,
                 JobGoto(j, from, to), UNCHANGED fgVars
          PROVE  ForegroundFlagHonest'
      BY <3>0, <3>2 DEF JobGoto, ForegroundFlagHonest, TypeOK
    <3>3. CASE Dispatch(j) \/ JobBegin(j) \/ JobEstablish(j) \/ JobStartCore(j)
      BY <3>2, <3>3, Zenon DEF Dispatch, JobBegin, JobEstablish, JobStartCore, JobStates, OwnerSteps
    <3>4. CASE JobSetRunning(j) \/ JobResume(j) \/ JobTeardown(j) \/ JobStopCore(j)
      BY <3>2, <3>4, Zenon DEF JobSetRunning, JobResume, JobTeardown, JobStopCore, JobStates, OwnerSteps
    <3>5. CASE JobSetStopped(j) \/ JobPostStopped(j) \/ JobClear(j)
      BY <3>2, <3>5 DEF JobSetStopped, JobPostStopped, JobClear, JobStates, OwnerSteps, TailSteps
    <3>6. QED
      BY <2>9, <3>1, <3>3, <3>4, <3>5 DEF RunJob
  <2>10. CASE CoreCalls \/ OnConnectingPost \/ OnConnectedRoute \/ OnRevoke \/ OnRevokeCheck
    <3>1. (UNCHANGED fgVars) /\ UNCHANGED job
      BY <2>10, Zenon DEF CoreCalls, OnConnecting, OnListeningSocksProxyPort, OnConnected,
                  OnProxyPortInUse, OnInfo, OnConnectingPost, OnConnectedRoute, OnRevoke,
                  OnRevokeCheck, jobVars, dataVars
    <3>2. pc'["main"] = pc["main"]
      BY <2>0, <2>10, Zenon DEF CoreCalls, OnConnecting, OnListeningSocksProxyPort, OnConnected,
                  OnProxyPortInUse, OnInfo, OnConnectingPost, OnConnectedRoute, OnRevoke,
                  OnRevokeCheck, threadVars
    <3>3. QED
      BY <2>1, <3>1, <3>2, Zenon
  <2>11. CASE Rest \/ UNCHANGED vars
    BY <2>1, <2>11, Zenon DEF Rest, vars, jobVars, dataVars, threadVars
  <2>12. CASE OnStartCommand
    <3>1. ~Inside /\ UNCHANGED job /\ UNCHANGED foreground
      BY <2>12, IntentSteps, Zenon DEF OnStartCommand, Take, MainIdle
    <3>2. UNCHANGED isInForeground \/ pc'["main"] = "setForeground"
      BY <2>0, <2>12, Zenon DEF OnStartCommand, TypeOK
    <3>3. QED
      BY <3>1, <3>2, Zenon DEF ForegroundFlagHonest
  <2>13. CASE StartForegroundWithNotification
    BY <2>0, <2>13, Zenon DEF StartForegroundWithNotification, ForegroundFlagHonest
  <2>14. CASE StopForegroundAndService
    BY <2>0, <2>14, IntentSteps, Zenon
       DEF MainForeground, StopForegroundAndService, ForegroundFlagHonest, fgVars
  <2>15. QED
    BY <2>2, <2>3, <2>4, <2>5, <2>6, <2>7, <2>8, <2>9, <2>10, <2>11, <2>12, <2>13, <2>14
       DEF Next, Main, MainTask, MainForeground, CoreContinues, BinderContinues, Threads
<1>3. QED
  BY <1>1, <1>2, TypeCorrect, PTL DEF Spec

-----------------------------------------------------------------------------
(* What a step may do to the coroutines, to the core and to the queue: the  *)
(* facts that the invariants about the published state are built on.        *)

\* The moves of a coroutine, its launch included.
Moves ==
  {<<"none", "new">>, <<"new", "begin">>, <<"new", "done">>, <<"begin", "establish">>,
   <<"establish", "startCore">>, <<"establish", "teardown">>, <<"startCore", "setRunning">>,
   <<"startCore", "teardown">>, <<"setRunning", "suspended">>, <<"suspended", "teardown">>,
   <<"teardown", "stopCore">>, <<"stopCore", "setStopped">>, <<"setStopped", "postStopped">>,
   <<"postStopped", "clearJob">>, <<"clearJob", "stopForeground">>,
   <<"stopForeground", "clearForeground">>, <<"clearForeground", "stopSelf">>,
   <<"stopSelf", "done">>}

\* A coroutine's own step is one of its moves.
LEMMA RunJobMoves ==
  ASSUME NEW j \in Jobs, RunJob(j)
  PROVE  \E m \in Moves : JobGoto(j, m[1], m[2]) /\ m[1] # "none"
<1>1. CASE Dispatch(j) \/ JobBegin(j) \/ JobEstablish(j) \/ JobStartCore(j)
  BY <1>1, Zenon DEF Dispatch, JobBegin, JobEstablish, JobStartCore, Moves
<1>2. CASE JobSetRunning(j) \/ JobResume(j) \/ JobTeardown(j) \/ JobStopCore(j)
  BY <1>2, Zenon DEF JobSetRunning, JobResume, JobTeardown, JobStopCore, Moves
<1>3. CASE JobSetStopped(j) \/ JobPostStopped(j) \/ JobClear(j) \/ JobStopForeground(j)
  BY <1>3, Zenon DEF JobSetStopped, JobPostStopped, JobClear, JobStopForeground, Moves
<1>4. QED
  BY <1>1, <1>2, <1>3 DEF RunJob

\* The step of a coroutine is the one it has come to.
LEMMA RunJobAt ==
  ASSUME NEW j \in Jobs, RunJob(j)
  PROVE  /\ job[j] = "setRunning" => JobSetRunning(j)
         /\ job[j] = "stopCore" => JobStopCore(j)
         /\ job[j] = "setStopped" => JobSetStopped(j)
         /\ job[j] = "postStopped" => JobPostStopped(j)
         /\ job[j] = "clearJob" => JobClear(j)
BY Zenon DEF RunJob, Dispatch, JobBegin, JobEstablish, JobStartCore, JobSetRunning, JobResume,
       JobTeardown, JobStopCore, JobSetStopped, JobPostStopped, JobClear, JobStopForeground, JobGoto

\* Only the coroutines and the launch by handleStartAction move a coroutine.
LEMMA JobSteps ==
  ASSUME [Next]_vars
  PROVE  \/ UNCHANGED job
         \/ \E j \in Jobs, m \in Moves :
              /\ JobGoto(j, m[1], m[2])
              /\ IF m[1] = "none" THEN HandleStartAction ELSE RunJob(j)
<1>1. CASE SendIntent \/ Bind \/ SendDestroy \/ UpdateTask \/ CancelTask \/ OnDestroy
  BY <1>1, Zenon DEF SendIntent, Bind, SendDestroy, UpdateTask, CancelTask, OnDestroy
<1>2. CASE HandleStartAction
  BY <1>2, Zenon DEF HandleStartAction, JobGoto, Moves
<1>3. CASE HandleStopAction \/ HandleParamsChangedAction \/ HandleUnknownAction
  BY <1>3, Zenon DEF HandleStopAction, HandleParamsChangedAction, HandleUnknownAction
<1>4. CASE AssignJob \/ RestartTunnel \/ RestartPsiphon
  BY <1>4, Zenon DEF AssignJob, RestartTunnel, RestartPsiphon
<1>5. ASSUME NEW t \in Threads, StopTunnel(t) PROVE UNCHANGED job
  BY <1>5 DEF StopTunnel, StopTunnelCas1, StopTunnelCas2, StopTunnelPost
<1>6. CASE CoreCalls \/ OnConnectingPost \/ OnConnectedRoute
  BY <1>6, Zenon DEF CoreCalls, OnConnecting, OnListeningSocksProxyPort, OnConnected, OnProxyPortInUse,
              OnInfo, OnConnectingPost, OnConnectedRoute
<1>7. CASE OnRevoke \/ OnRevokeCheck
  BY <1>7 DEF OnRevoke, OnRevokeCheck
<1>8. CASE Rest \/ UNCHANGED vars
  BY <1>8 DEF Rest, vars
<1>9. CASE OnStartCommand \/ MainForeground
  BY <1>9, IntentSteps, Zenon
<1>10. QED
  BY <1>1, <1>2, <1>3, <1>4, <1>5, <1>6, <1>7, <1>8, <1>9, RunJobMoves, Zenon
     DEF Next, Main, MainTask, CoreContinues, BinderContinues, Threads

\* Only the coroutine, restartPsiphon and the announcement of the port change
\* what the core does.
LEMMA CoreSteps ==
  ASSUME [Next]_vars, core' # core
  PROVE  \/ RestartPsiphon \/ OnListeningSocksProxyPort
         \/ \E j \in Jobs : JobStartCore(j) \/ JobStopCore(j)
<1>1. CASE SendIntent \/ Bind \/ SendDestroy \/ UpdateTask \/ CancelTask \/ OnDestroy
  BY <1>1, Zenon DEF SendIntent, Bind, SendDestroy, UpdateTask, CancelTask, OnDestroy
<1>2. CASE HandleStartAction \/ HandleStopAction \/ HandleParamsChangedAction \/ HandleUnknownAction
  BY <1>2, Zenon DEF HandleStartAction, HandleStopAction, HandleParamsChangedAction, HandleUnknownAction
<1>3. CASE AssignJob \/ RestartTunnel
  BY <1>3 DEF AssignJob, RestartTunnel
<1>4. ASSUME NEW t \in Threads, StopTunnel(t) PROVE UNCHANGED core
  BY <1>4 DEF StopTunnel, StopTunnelCas1, StopTunnelCas2, StopTunnelPost
<1>5. ASSUME NEW j \in Jobs, RunJob(j), ~JobStartCore(j), ~JobStopCore(j) PROVE UNCHANGED core
  <2>1. CASE Dispatch(j) \/ JobBegin(j) \/ JobEstablish(j) \/ JobSetRunning(j) \/ JobResume(j)
    BY <2>1, Zenon DEF Dispatch, JobBegin, JobEstablish, JobSetRunning, JobResume
  <2>2. CASE JobTeardown(j) \/ JobSetStopped(j) \/ JobPostStopped(j) \/ JobClear(j)
    BY <2>2, Zenon DEF JobTeardown, JobSetStopped, JobPostStopped, JobClear
  <2>3. CASE JobStopForeground(j)
    BY <2>3 DEF JobStopForeground
  <2>4. QED
    BY <1>5, <2>1, <2>2, <2>3 DEF RunJob
<1>6. CASE OnConnecting \/ OnConnected \/ OnProxyPortInUse \/ OnInfo
  BY <1>6, Zenon DEF OnConnecting, OnConnected, OnProxyPortInUse, OnInfo
<1>7. CASE OnConnectingPost \/ OnConnectedRoute \/ OnRevoke \/ OnRevokeCheck
  BY <1>7, Zenon DEF OnConnectingPost, OnConnectedRoute, OnRevoke, OnRevokeCheck
<1>8. CASE Rest \/ UNCHANGED vars
  BY <1>8 DEF Rest, vars
<1>9. CASE OnStartCommand \/ MainForeground
  BY <1>9, IntentSteps, Zenon
<1>10. QED
  BY <1>1, <1>2, <1>3, <1>4, <1>5, <1>6, <1>7, <1>8, <1>9, SMTT(30)
     DEF Next, Main, MainTask, CoreCalls, CoreContinues, BinderContinues, Threads

\* The updates that publish data of a session, as tasks, and the one that
\* takes them all back.
SessionUpdates == {"port", "info", "CONNECTED"}
SessionTasks == {Update(u) : u \in SessionUpdates}
ResetTask == Update("reset")

\* The tasks that leave the published session data alone.
PlainTasks == {x \in Tasks : x \notin SessionTasks /\ x # ResetTask}

\* The queue r is q with plain tasks behind it.
Continues(q, r) ==
  /\ r \in Seq(Tasks)
  /\ Len(q) <= Len(r)
  /\ \A i \in 1..Len(q) : r[i] = q[i]
  /\ \A i \in (Len(q) + 1)..Len(r) : r[i] \in PlainTasks

\* Intents, life-cycle tasks and the other updates are plain.
LEMMA PlainTasksTyped ==
  /\ \A u \in Updates : u \notin SessionUpdates /\ u # "reset" => Update(u) \in PlainTasks
  /\ Task("cancel", NoError) \in PlainTasks
  /\ Task("destroy", NoError) \in PlainTasks
  /\ \A a \in AllActions, p \in Params \cup {NoParams} : Task(a, p) \in PlainTasks
<1>1. \A u, v : Update(u) = Update(v) => u = v
  BY DEF Update, Task
<1>2. \A k, a, v : k # "update" => Task(k, a) # Update(v)
  BY DEF Update, Task
<1>3. "update" \notin AllActions \cup {"cancel", "destroy"}
  BY DEF AllActions
<1>4. QED
  BY <1>1, <1>2, <1>3, TasksTyped DEF PlainTasks, SessionTasks, ResetTask

\* A queue continues itself.
LEMMA SameQueue ==
  ASSUME NEW q \in Seq(Tasks)
  PROVE  Continues(q, q)
BY DEF Continues

\* Appending a plain task continues the queue.
LEMMA AppendContinues ==
  ASSUME NEW q \in Seq(Tasks), NEW x \in PlainTasks
  PROVE  Continues(q, Append(q, x))
<1>1. x \in Tasks
  BY DEF PlainTasks
<1>2. QED
  BY <1>1 DEF Continues

\* Appending several plain tasks continues the queue.
LEMMA ConcatContinues ==
  ASSUME NEW q \in Seq(Tasks), NEW s \in Seq(PlainTasks)
  PROVE  Continues(q, q \o s)
<1>1. PlainTasks \subseteq Tasks
  BY DEF PlainTasks
<1>2. s \in Seq(Tasks)
  BY <1>1
<1>3. q \o s \in Seq(Tasks) /\ Len(q \o s) = Len(q) + Len(s)
  BY <1>2
<1>4. \A i \in 1..Len(q) : (q \o s)[i] = q[i]
  BY <1>2
<1>5. \A i \in (Len(q) + 1)..(Len(q) + Len(s)) : (q \o s)[i] \in PlainTasks
  BY <1>2
<1>6. QED
  BY <1>2, <1>3, <1>4, <1>5 DEF Continues

\* Posting once more, as stopTunnel's callers do.
LEMMA ContinuesTwice ==
  ASSUME NEW q \in Seq(Tasks), NEW r, NEW s, Continues(q, r), Continues(r, s)
  PROVE  Continues(q, s)
<1>1. r \in Seq(Tasks) /\ s \in Seq(Tasks) /\ Len(q) <= Len(r) /\ Len(r) <= Len(s)
  BY Zenon DEF Continues
<1>2. /\ \A i \in 1..Len(q) : r[i] = q[i]
      /\ \A i \in (Len(q) + 1)..Len(r) : r[i] \in PlainTasks
  BY Zenon DEF Continues
<1>3. /\ \A i \in 1..Len(r) : s[i] = r[i]
      /\ \A i \in (Len(r) + 1)..Len(s) : s[i] \in PlainTasks
  BY Zenon DEF Continues
<1>4. Len(q) \in Nat /\ Len(r) \in Nat /\ Len(s) \in Nat
  BY <1>1
<1>5. \A i \in 1..Len(q) : i \in 1..Len(r)
  BY <1>1, <1>4
<1>6. \A i \in (Len(q) + 1)..Len(s) :
        (i \in (Len(q) + 1)..Len(r) /\ i \in 1..Len(r)) \/ i \in (Len(r) + 1)..Len(s)
  BY <1>4
<1>7. \A i \in 1..Len(q) : s[i] = q[i]
  BY <1>2, <1>3, <1>5, Zenon
<1>8. \A i \in (Len(q) + 1)..Len(s) : s[i] \in PlainTasks
  BY <1>2, <1>3, <1>6, Zenon
<1>9. Len(q) <= Len(s)
  BY <1>1, <1>4
<1> QED
  BY <1>1, <1>7, <1>8, <1>9, Zenon DEF Continues

\* stopTunnel posts STOPPING, the cancellation and an error: plain tasks.
LEMMA StopTunnelContinues ==
  ASSUME TypeOK, NEW t \in Threads, StopTunnel(t)
  PROVE  Continues(queue, queue')
<1>0. queue \in Seq(Tasks) /\ err[t] \in ErrorCodes \cup {NoError}
  BY DEF TypeOK
<1>1. CASE UNCHANGED queue
  BY <1>0, <1>1, SameQueue
<1>2. ASSUME NEW us \in Seq(PlainTasks), Posts(t, us)
      PROVE  Continues(queue, queue')
  <2> DEFINE last == IF err[t] = NoError THEN <<>> ELSE <<Update(err[t])>>
  <2>1. err[t] # NoError => Update(err[t]) \in PlainTasks
    BY <1>0, PlainTasksTyped DEF ErrorCodes, SessionUpdates, Updates
  <2>2. last \in Seq(PlainTasks)
    BY <2>1
  <2>3. queue' = (queue \o us) \o last
    BY <1>2 DEF Posts
  <2> HIDE DEF last
  <2>4. Continues(queue, queue \o us)
    BY <1>0, ConcatContinues
  <2>5. queue \o us \in Seq(Tasks)
    BY <2>4 DEF Continues
  <2>6. Continues(queue \o us, (queue \o us) \o last)
    BY <2>2, <2>5, ConcatContinues, Zenon
  <2>7. QED
    BY <1>0, <2>3, <2>4, <2>6, ContinuesTwice
<1>3. <<>> \in Seq(PlainTasks)
  OBVIOUS
<1>4. <<Update("STOPPING"), Task("cancel", NoError)>> \in Seq(PlainTasks)
  <2>1. Update("STOPPING") \in PlainTasks /\ Task("cancel", NoError) \in PlainTasks
    BY PlainTasksTyped DEF Updates, SessionUpdates
  <2>2. QED
    BY <2>1
<1>5. CASE StopTunnelCas1(t)
  BY <1>1, <1>5 DEF StopTunnelCas1, StopFrom
<1>6. CASE StopTunnelCas2(t)
  BY <1>1, <1>2, <1>3, <1>6, Zenon DEF StopTunnelCas2, StopFrom
<1>7. CASE StopTunnelPost(t)
  BY <1>2, <1>4, <1>7, Zenon DEF StopTunnelPost
<1>8. QED
  BY <1>5, <1>6, <1>7 DEF StopTunnel

\* A step that may add plain tasks and leaves the published state alone.
PlainStep == Continues(queue, queue') /\ UNCHANGED psiphonState

\* A callback publishes session data: the core runs, before and after.
SessionPost ==
  /\ core # "off"
  /\ core' # "off"
  /\ \E u \in SessionUpdates : Post(u)
  /\ UNCHANGED <<psiphonState, job>>

\* main takes a task that is not an update.
TaskTaken ==
  /\ queue # <<>>
  /\ Head(queue).kind # "update"
  /\ Head(queue).kind \in {"cancel", "destroy"} => CancelTask \/ OnDestroy
  /\ queue' = Tail(queue)
  /\ UNCHANGED psiphonState

\* Posting a plain update.
LEMMA PostContinues ==
  ASSUME TypeOK, NEW u \in Updates, u \notin SessionUpdates, u # "reset", Post(u)
  PROVE  Continues(queue, queue')
<1>1. Update(u) \in PlainTasks
  BY PlainTasksTyped
<1>2. queue \in Seq(Tasks) /\ queue' = Append(queue, Update(u))
  BY DEF TypeOK, Post
<1>3. QED
  BY <1>1, <1>2, AppendContinues

\* A coroutine posts plain updates, until its finally block posts the reset.
LEMMA RunJobQueue ==
  ASSUME TypeOK, NEW j \in Jobs, RunJob(j), ~JobPostStopped(j)
  PROVE  PlainStep
<1>0. ASSUME UNCHANGED <<queue, psiphonState>> PROVE PlainStep
  BY <1>0, SameQueue DEF PlainStep, TypeOK
<1>1. CASE Dispatch(j) \/ JobSetRunning(j) \/ JobResume(j) \/ JobTeardown(j)
  BY <1>0, <1>1, Zenon DEF Dispatch, JobSetRunning, JobResume, JobTeardown
<1>2. CASE JobStopCore(j) \/ JobSetStopped(j) \/ JobClear(j) \/ JobStopForeground(j)
  BY <1>0, <1>2, Zenon DEF JobStopCore, JobSetStopped, JobClear, JobStopForeground
<1>3. CASE JobBegin(j)
  BY <1>3, PostContinues DEF PlainStep, JobBegin, Updates, SessionUpdates
<1>4. CASE JobEstablish(j)
  BY <1>0, <1>4, PostContinues, Zenon DEF PlainStep, JobEstablish, Updates, ErrorCodes, SessionUpdates
<1>5. CASE JobStartCore(j)
  BY <1>0, <1>5, PostContinues, Zenon DEF PlainStep, JobStartCore, Updates, ErrorCodes, SessionUpdates
<1>6. QED
  BY <1>1, <1>2, <1>3, <1>4, <1>5 DEF RunJob

\* Every step is plain, publishes session data, takes a task or posts the reset.
LEMMA QueueSteps ==
  ASSUME TypeOK, [Next]_vars
  PROVE  \/ PlainStep \/ SessionPost \/ TaskTaken \/ UpdateTask
         \/ \E j \in Jobs : JobPostStopped(j)
<1>0. ASSUME UNCHANGED <<queue, psiphonState>> PROVE PlainStep
  BY <1>0, SameQueue, Zenon DEF PlainStep, TypeOK
<1>1. CASE SendIntent
  <2>1. PICK a \in Actions, p \in Params \cup {NoParams} : queue' = Append(queue, Task(a, p))
    BY <1>1 DEF SendIntent
  <2>2. Task(a, p) \in PlainTasks
    BY ConstantsAssumption, PlainTasksTyped
  <2>3. QED
    BY <1>1, <2>1, <2>2, AppendContinues, Zenon DEF PlainStep, TypeOK, SendIntent
<1>2. CASE SendDestroy
  BY <1>2, PlainTasksTyped, AppendContinues, Zenon DEF PlainStep, TypeOK, SendDestroy
<1>3. CASE Bind \/ AssignJob \/ RestartPsiphon \/ OnRevoke
  BY <1>0, <1>3, Zenon DEF Bind, AssignJob, RestartPsiphon, OnRevoke
<1>4. CASE CancelTask \/ OnDestroy
  BY <1>4, Zenon DEF CancelTask, OnDestroy, Take, TaskTaken
<1>5. CASE HandleStopAction \/ HandleStartAction \/ HandleParamsChangedAction \/ HandleUnknownAction
  BY <1>5, Zenon DEF HandleStopAction, HandleStartAction, HandleParamsChangedAction, HandleUnknownAction,
              Command, TaskTaken
<1>6. CASE RestartTunnel
  BY <1>6, PostContinues, SMTT(30) DEF PlainStep, RestartTunnel, Updates, SessionUpdates
<1>7. ASSUME NEW t \in Threads, StopTunnel(t) PROVE PlainStep
  BY <1>7, StopTunnelContinues, Zenon
     DEF PlainStep, StopTunnel, StopTunnelCas1, StopTunnelCas2, StopTunnelPost
<1>8. CASE OnConnecting \/ OnProxyPortInUse \/ OnConnectedRoute
  BY <1>0, <1>8, Zenon DEF OnConnecting, OnProxyPortInUse, OnConnectedRoute
<1>9. CASE OnListeningSocksProxyPort \/ OnConnected \/ OnInfo
  BY <1>9, Zenon DEF OnListeningSocksProxyPort, OnConnected, OnInfo, Callback, SessionPost, SessionUpdates
<1>10. CASE OnConnectingPost
  BY <1>10, PostContinues DEF PlainStep, OnConnectingPost, Updates, SessionUpdates
<1>11. CASE OnRevokeCheck
  BY <1>0, <1>11, PostContinues, Zenon DEF PlainStep, OnRevokeCheck, Updates, ErrorCodes, SessionUpdates
<1>12. CASE Rest \/ UNCHANGED vars
  BY <1>0, <1>12 DEF Rest, vars
<1>13. CASE OnStartCommand \/ MainForeground
  <2>1. UNCHANGED psiphonState
    BY <1>13, IntentSteps
  <2>2. CASE UNCHANGED queue
    BY <1>0, <2>1, <2>2, Zenon
  <2>3. CASE OnStartCommand /\ ~UNCHANGED queue
    BY <2>1, <2>3, Zenon DEF OnStartCommand, Take, TaskTaken
  <2>4. QED
    BY <1>13, <2>2, <2>3, Zenon
       DEF MainForeground, StartForegroundWithNotification, StopForegroundAndService
<1>14. QED
  BY <1>1, <1>2, <1>3, <1>4, <1>5, <1>6, <1>7, <1>8, <1>9, <1>10, <1>11, <1>12, <1>13, RunJobQueue, Zenon
     DEF Next, Main, MainTask, CoreCalls, CoreContinues, BinderContinues, Threads

-----------------------------------------------------------------------------
(* The announced SOCKS port.                                                *)

\* The port is in the state s, or in the queue q, with no reset behind it.
PortIn(q, s) ==
  \/ s.port /\ \A k \in 1..Len(q) : q[k] # ResetTask
  \/ \E i \in 1..Len(q) : q[i] = Update("port") /\ \A k \in (i + 1)..Len(q) : q[k] # ResetTask

\* Tasks posted behind it, none of them a reset, leave the port where it is.
LEMMA PortInLonger ==
  ASSUME NEW q \in Seq(Tasks), NEW r \in Seq(Tasks), NEW s, Len(q) <= Len(r),
         \A i \in 1..Len(q) : r[i] = q[i],
         \A i \in (Len(q) + 1)..Len(r) : r[i] # ResetTask,
         PortIn(q, s)
  PROVE  PortIn(r, s)
<1>1. CASE s.port /\ \A k \in 1..Len(q) : q[k] # ResetTask
  <2>1. \A k \in 1..Len(r) : r[k] # ResetTask
    BY <1>1
  <2>2. QED
    BY <1>1, <2>1, Zenon DEF PortIn
<1>2. ASSUME NEW i \in 1..Len(q), q[i] = Update("port"), \A k \in (i + 1)..Len(q) : q[k] # ResetTask
      PROVE  PortIn(r, s)
  <2>1. i \in 1..Len(r) /\ r[i] = Update("port")
    BY <1>2
  <2>2. \A k \in (i + 1)..Len(r) : r[k] # ResetTask
    BY <1>2
  <2>3. QED
    BY <2>1, <2>2, Zenon DEF PortIn
<1>3. QED
  BY <1>1, <1>2, Zenon DEF PortIn

\* Taking a task that is neither the port nor the reset, or applying the port.
LEMMA PortInTail ==
  ASSUME NEW q \in Seq(Tasks), NEW s, NEW t, q # <<>>, PortIn(q, s),
         q[1] = Update("port") => t.port,
         q[1] # ResetTask /\ s.port => t.port
  PROVE  PortIn(Tail(q), t)
<1>1. /\ Len(Tail(q)) = Len(q) - 1 /\ 1 \in 1..Len(q)
      /\ \A k \in 1..Len(Tail(q)) : Tail(q)[k] = q[k + 1]
  OBVIOUS
<1>2. CASE s.port /\ \A k \in 1..Len(q) : q[k] # ResetTask
  <2>1. t.port
    BY <1>1, <1>2, Zenon
  <2>2. \A k \in 1..Len(Tail(q)) : Tail(q)[k] # ResetTask
    BY <1>1, <1>2
  <2>3. QED
    BY <2>1, <2>2, Zenon DEF PortIn
<1>3. ASSUME NEW i \in 1..Len(q), q[i] = Update("port"), \A k \in (i + 1)..Len(q) : q[k] # ResetTask
      PROVE  PortIn(Tail(q), t)
  <2>1. CASE i = 1
    <3>1. \A k \in 1..Len(Tail(q)) : Tail(q)[k] # ResetTask
      BY <1>1, <1>3, <2>1
    <3>2. t.port
      BY <1>3, <2>1, Zenon
    <3>3. QED
      BY <3>1, <3>2, Zenon DEF PortIn
  <2>2. CASE i # 1
    <3>1. i - 1 \in 1..Len(Tail(q)) /\ Tail(q)[i - 1] = Update("port")
      BY <1>1, <1>3, <2>2
    <3>2. \A k \in (i - 1 + 1)..Len(Tail(q)) : Tail(q)[k] # ResetTask
      BY <1>1, <1>3, <2>2
    <3>3. QED
      BY <3>1, <3>2, Zenon DEF PortIn
  <2>3. QED
    BY <2>1, <2>2
<1>4. QED
  BY <1>2, <1>3, Zenon DEF PortIn

\* An announced port is lost by no step but the post of a reset.
LEMMA PortStep ==
  ASSUME TypeOK, [Next]_vars, PortComing, \A j \in Jobs : ~JobPostStopped(j)
  PROVE  PortComing'
<1> SUFFICES ASSUME core' = "listening" PROVE PortIn(queue', psiphonState')
  BY Zenon DEF PortComing, PortIn, ResetTask
<1>0. queue \in Seq(Tasks)
  BY DEF TypeOK
<1>1. CASE core # "listening"
  <2>1. OnListeningSocksProxyPort
    BY <1>1, CoreSteps, Zenon DEF RestartPsiphon, JobStartCore, JobStopCore
  <2>2. queue' = Append(queue, Update("port"))
    BY <2>1 DEF OnListeningSocksProxyPort, Post
  <2>3. queue'[Len(queue) + 1] = Update("port") /\ Len(queue') = Len(queue) + 1 /\ Len(queue) \in Nat
    BY <1>0, <2>2
  <2>4. Len(queue) + 1 \in 1..Len(queue') /\ \A k \in (Len(queue) + 2)..Len(queue') : FALSE
    BY <2>3
  <2>5. Len(queue) + 1 + 1 = Len(queue) + 2
    BY <2>3
  <2>6. QED
    BY <2>3, <2>4, <2>5, Zenon DEF PortIn
<1>2. CASE core = "listening"
  <2>0. PortIn(queue, psiphonState)
    BY <1>2, Zenon DEF PortComing, PortIn, ResetTask
  <2>1. CASE PlainStep
    <3>1. queue' \in Seq(Tasks) /\ Len(queue) <= Len(queue') /\ \A i \in 1..Len(queue) : queue'[i] = queue[i]
      BY <2>1, Zenon DEF PlainStep, Continues
    <3>2. \A i \in (Len(queue) + 1)..Len(queue') : queue'[i] # ResetTask
      BY <2>1, Zenon DEF PlainStep, Continues, PlainTasks
    <3>3. psiphonState' = psiphonState
      BY <2>1 DEF PlainStep
    <3>4. QED
      BY <1>0, <2>0, <3>1, <3>2, <3>3, PortInLonger, Zenon
  <2>2. CASE SessionPost
    <3>1. PICK u \in SessionUpdates : queue' = Append(queue, Update(u))
      BY <2>2 DEF SessionPost, Post
    <3>2. Update(u) # ResetTask /\ Update(u) \in Tasks
      BY TasksTyped DEF Update, Task, ResetTask, SessionUpdates, Updates
    <3>3. queue' \in Seq(Tasks) /\ Len(queue) <= Len(queue') /\ \A i \in 1..Len(queue) : queue'[i] = queue[i]
      BY <1>0, <3>1, <3>2
    <3>4. \A i \in (Len(queue) + 1)..Len(queue') : queue'[i] # ResetTask
      BY <1>0, <3>1, <3>2
    <3>5. psiphonState' = psiphonState
      BY <2>2 DEF SessionPost
    <3>6. QED
      BY <1>0, <2>0, <3>3, <3>4, <3>5, PortInLonger, Zenon
  <2>3. CASE TaskTaken
    <3>1. queue[1] # Update("port")
      BY <1>0, <2>3 DEF TaskTaken, Update, Task
    <3>2. QED
      BY <1>0, <2>0, <2>3, <3>1, PortInTail, Zenon DEF TaskTaken
  <2>4. CASE UpdateTask
    <3>1. queue # <<>> /\ queue' = Tail(queue) /\ Head(queue) = queue[1] /\ queue[1] \in Tasks
      BY <1>0, <2>4 DEF UpdateTask, Take
    <3>2. psiphonState'.port = (queue[1].arg = "port" \/ (queue[1].arg # "reset" /\ psiphonState.port))
      BY <2>4, <3>1, Zenon DEF UpdateTask, Apply
    <3>3. queue[1].kind = "update"
      BY <2>4, <3>1 DEF UpdateTask, Take
    <3>4. queue[1] # ResetTask => queue[1].arg # "reset"
      BY <3>1, <3>3, Zenon DEF Tasks, ResetTask, Update, Task
    <3>5. queue[1] = Update("port") => queue[1].arg = "port"
      BY DEF Update, Task
    <3>6. QED
      BY <1>0, <2>0, <3>1, <3>2, <3>4, <3>5, PortInTail, Zenon
  <2>5. QED
    BY <2>1, <2>2, <2>3, <2>4, QueueSteps, Zenon
<1>3. QED
  BY <1>1, <1>2

\* An announced port stays published, or on its way there, in every session:
\* a step loses it only by posting the reset of a session.
THEOREM AnnouncedPortKeptHolds == Spec => AnnouncedPortKept
<1>1. TypeOK /\ [Next]_vars => [PortComing /\ ~PortComing' => \E j \in Jobs : JobPostStopped(j)]_vars
  BY PortStep, Zenon
<1>2. QED
  BY <1>1, TypeCorrect, PTL DEF Spec, AnnouncedPortKept

-----------------------------------------------------------------------------
(* The data of an ended session.                                            *)

Dirty(s) == s.event = "CONNECTED" \/ s.port \/ s.info

ResetAfter(q, i) == \E k \in (i + 1)..Len(q) : q[k] = ResetTask

\* Session data will be published once the queue q is worked off: they are in
\* the state s or in q, with no reset behind them.
LeftOver(q, s) ==
  \/ Dirty(s) /\ ~ResetAfter(q, 0)
  \/ \E i \in 1..Len(q) : q[i] \in SessionTasks /\ ~ResetAfter(q, i)

\* Plain tasks add no data.
LEMMA ContinuesLeftOver ==
  ASSUME NEW q \in Seq(Tasks), NEW r, Continues(q, r), NEW s, LeftOver(r, s)
  PROVE  LeftOver(q, s)
<1>0. r \in Seq(Tasks) /\ Len(q) \in Nat /\ Len(r) \in Nat /\ Len(q) <= Len(r)
  BY DEF Continues
<1>1. ASSUME NEW i \in 0..Len(q), ResetAfter(q, i) PROVE ResetAfter(r, i)
  BY <1>0, <1>1 DEF Continues, ResetAfter
<1>2. CASE Dirty(s) /\ ~ResetAfter(r, 0)
  BY <1>0, <1>1, <1>2 DEF LeftOver
<1>3. ASSUME NEW i \in 1..Len(r), r[i] \in SessionTasks, ~ResetAfter(r, i) PROVE LeftOver(q, s)
  <2>1. i \in 1..Len(q) /\ q[i] = r[i]
    BY <1>0, <1>3 DEF Continues, PlainTasks
  <2>2. ~ResetAfter(q, i)
    BY <1>0, <1>1, <1>3, <2>1
  <2>3. QED
    BY <1>3, <2>1, <2>2 DEF LeftOver
<1>4. QED
  BY <1>2, <1>3 DEF LeftOver

\* A reset at the end takes everything back.
LEMMA ResetLeavesNothing ==
  ASSUME NEW q \in Seq(Tasks), NEW s
  PROVE  ~LeftOver(Append(q, ResetTask), s)
<1> DEFINE r == Append(q, ResetTask)
<1>1. ResetTask \in Tasks
  BY TasksTyped DEF ResetTask, Updates
<1>2. Len(r) = Len(q) + 1 /\ r[Len(q) + 1] = ResetTask /\ Len(q) \in Nat
  BY <1>1
<1>3. ResetTask \notin SessionTasks
  BY Zenon DEF ResetTask, SessionTasks, SessionUpdates, Update, Task
<1> HIDE DEF r
<1>4. \A i \in 0..Len(q) : ResetAfter(r, i)
  BY <1>2 DEF ResetAfter
<1>5. ~LeftOver(r, s)
  BY <1>2, <1>3, <1>4 DEF LeftOver
<1>6. QED
  BY <1>5 DEF r

\* The tail of a queue, seen from the queue.
LEMMA TailLeftOver ==
  ASSUME NEW q \in Seq(Tasks), q # <<>>, NEW s, NEW t, LeftOver(Tail(q), t),
         Dirty(t) /\ ~ResetAfter(q, 1) => LeftOver(q, s)
  PROVE  LeftOver(q, s)
<1> DEFINE r == Tail(q)
<1>1. /\ r \in Seq(Tasks) /\ Len(q) \in Nat /\ Len(r) \in Nat /\ Len(q) = Len(r) + 1
      /\ \A i \in 1..Len(r) : r[i] = q[i + 1]
  OBVIOUS
<1>2. LeftOver(r, t)
  OBVIOUS
<1> HIDE DEF r
<1>3. ASSUME NEW i \in 0..Len(r), ResetAfter(q, i + 1) PROVE ResetAfter(r, i)
  <2>1. PICK k \in (i + 2)..Len(q) : q[k] = ResetTask
    BY <1>1, <1>3 DEF ResetAfter
  <2>2. k - 1 \in (i + 1)..Len(r) /\ r[k - 1] = q[k]
    BY <1>1, <2>1
  <2>3. QED
    BY <2>1, <2>2 DEF ResetAfter
<1>4. CASE Dirty(t) /\ ~ResetAfter(r, 0)
  BY <1>1, <1>3, <1>4
<1>5. ASSUME NEW i \in 1..Len(r), r[i] \in SessionTasks, ~ResetAfter(r, i) PROVE LeftOver(q, s)
  <2>1. i + 1 \in 1..Len(q) /\ q[i + 1] \in SessionTasks /\ ~ResetAfter(q, i + 1)
    BY <1>1, <1>3, <1>5
  <2>2. QED
    BY <2>1, Zenon DEF LeftOver
<1>6. QED
  BY <1>2, <1>4, <1>5, Zenon DEF LeftOver

\* A reset that is not at the head of the queue is behind it.
LEMMA NoResetAtHead ==
  ASSUME NEW q \in Seq(Tasks), q # <<>>, q[1] # ResetTask, ~ResetAfter(q, 1)
  PROVE  ~ResetAfter(q, 0)
BY DEF ResetAfter

\* Taking a task that is not an update changes nothing.
LEMMA TakenLeftOver ==
  ASSUME NEW q \in Seq(Tasks), q # <<>>, Head(q).kind # "update", NEW s, LeftOver(Tail(q), s)
  PROVE  LeftOver(q, s)
<1>1. q[1] # ResetTask
  BY DEF ResetTask, Update, Task
<1>2. Dirty(s) /\ ~ResetAfter(q, 1) => LeftOver(q, s)
  BY <1>1, NoResetAtHead DEF LeftOver
<1>3. QED
  BY <1>2, TailLeftOver

\* An update function publishes what its task announced and no more.
LEMMA AppliedLeftOver ==
  ASSUME NEW q \in Seq(Tasks), q # <<>>, Head(q).kind = "update", NEW s \in PsiphonStates,
         LeftOver(Tail(q), Apply(Head(q).arg, s))
  PROVE  LeftOver(q, s)
<1> DEFINE u == Head(q).arg
<1>1. Head(q) = q[1] /\ q[1] \in Tasks /\ 1 \in 1..Len(q)
  OBVIOUS
<1>2. q[1] = Update(u)
  BY <1>1, Zenon DEF Tasks, AllActions, Update, Task
<1>3. ASSUME Dirty(Apply(u, s)), ~ResetAfter(q, 1) PROVE LeftOver(q, s)
  <2>1. CASE u \in SessionUpdates
    BY <1>1, <1>2, <1>3, <2>1, Zenon DEF LeftOver, SessionTasks
  <2>2. CASE u = "reset"
    BY <1>3, <2>2, Zenon DEF Dirty, Apply, EventAfter
  <2>3. CASE u \notin SessionUpdates /\ u # "reset"
    <3>1. Dirty(s)
      BY <1>3, <2>3, Zenon DEF Dirty, Apply, EventAfter, SessionUpdates
    <3>2. q[1] # ResetTask
      BY <1>2, <2>3 DEF ResetTask, Update, Task
    <3>3. QED
      BY <1>3, <3>1, <3>2, NoResetAtHead, Zenon DEF LeftOver
  <2>4. QED
    BY <2>1, <2>2, <2>3, Zenon
<1>4. QED
  BY <1>3, TailLeftOver, Zenon

\* The steps of a coroutine that still has its reset to post.
OwingSteps ==
  {"begin", "establish", "startCore", "setRunning", "suspended", "teardown", "stopCore",
   "setStopped", "postStopped"}

Owed == \E j \in Jobs : job[j] \in OwingSteps

\* Session data that nothing in the queue will take back belong to a core that
\* runs or to a coroutine that will post the reset.
DataInv == LeftOver(queue, psiphonState) => core # "off" \/ Owed

\* A coroutine owes its reset until it posts it.
LEMMA OwedStays ==
  ASSUME TypeOK, [Next]_vars, Owed, ~\E j \in Jobs : JobPostStopped(j)
  PROVE  Owed'
<1>1. PICK i \in Jobs : job[i] \in OwingSteps
  BY DEF Owed
<1>2. CASE UNCHANGED job
  BY <1>1, <1>2 DEF Owed
<1>3. ASSUME NEW j \in Jobs, NEW m \in Moves, JobGoto(j, m[1], m[2]),
             IF m[1] = "none" THEN HandleStartAction ELSE RunJob(j)
      PROVE  Owed'
  <2>1. m[1] # "postStopped"
    BY <1>3, RunJobAt DEF JobGoto
  <2>2. m[1] \in OwingSteps => m[2] \in OwingSteps
    BY <1>3, <2>1 DEF Moves, OwingSteps
  <2>3. QED
    BY <1>1, <1>3, <2>2, Zenon DEF Owed, JobGoto, TypeOK
<1>4. QED
  BY <1>2, <1>3, JobSteps

\* Every step keeps the invariant, if a restart fails only while a coroutine
\* still owes its reset or the core is off already.
LEMMA DataStep ==
  ASSUME TypeOK, DataInv, [Next]_vars, RestartPsiphon => core = "off" \/ Owed
  PROVE  DataInv'
<1> SUFFICES ASSUME LeftOver(queue, psiphonState)', core' = "off" PROVE Owed'
  BY DEF DataInv
<1>0. queue \in Seq(Tasks) /\ psiphonState \in PsiphonStates
  BY Zenon DEF TypeOK
<1>1. LeftOver(queue', psiphonState')
  BY DEF LeftOver, ResetAfter, Dirty
<1>2. ~\E j \in Jobs : JobPostStopped(j)
  BY <1>0, <1>1, ResetLeavesNothing, Zenon DEF JobPostStopped, Post, ResetTask
<1>3. LeftOver(queue, psiphonState)
  <2>1. CASE PlainStep
    BY <1>0, <1>1, <2>1, ContinuesLeftOver DEF PlainStep
  <2>2. CASE SessionPost
    BY <2>2 DEF SessionPost
  <2>3. CASE TaskTaken
    BY <1>0, <1>1, <2>3, TakenLeftOver, SMTT(30) DEF TaskTaken
  <2>4. CASE UpdateTask
    BY <1>0, <1>1, <2>4, AppliedLeftOver, Zenon DEF UpdateTask, Take
  <2>5. QED
    BY <1>2, <2>1, <2>2, <2>3, <2>4, QueueSteps
<1>4. CASE Owed
  BY <1>2, <1>4, OwedStays
<1>5. CASE core # "off"
  <2>1. CASE RestartPsiphon
    BY <1>4, <1>5, <2>1
  <2>2. CASE OnListeningSocksProxyPort
    BY <2>2, SMTT(30) DEF OnListeningSocksProxyPort
  <2>3. ASSUME NEW j \in Jobs, JobStartCore(j) \/ JobStopCore(j) PROVE Owed'
    BY <2>3, Zenon DEF JobStartCore, JobStopCore, JobGoto, Owed, OwingSteps, TypeOK
  <2>4. QED
    BY <1>5, <2>1, <2>2, <2>3, CoreSteps
<1>6. QED
  BY <1>3, <1>4, <1>5 DEF DataInv

\* At rest, the invariant says that nothing of a session is left.
LEMMA DataAtRest ==
  ASSUME OneOwner, DataInv
  PROVE  NothingLeft
<1> SUFFICES ASSUME AtRest, taskState = "STOPPED", core = "off", Dirty(psiphonState) PROVE FALSE
  BY DEF NothingLeft, Dirty
<1>1. ~ResetAfter(queue, 0)
  BY DEF AtRest, ResetAfter
<1>2. Owed
  BY <1>1 DEF DataInv, LeftOver
<1>3. QED
  BY <1>2 DEF Owed, OwingSteps, AtRest, OneOwner, Owners, OwnerSteps

\* The steps at which a coroutine has the core running and has yet to stop it.
StoppingSteps == {"suspended", "teardown", "stopCore"}

\* In state RUNNING there is a coroutine to end the session.
RunningServed ==
  taskState = "RUNNING" => \E j \in Jobs : job[j] \in StoppingSteps \cup {"setStopped"}

Restarting == pc["main"] \in {"restart", "restartPsiphon"}

\* While main restarts the core no session is being started, and the core is
\* off unless a coroutine will still stop it.
RestartInv ==
  Restarting =>
    /\ core = "off" \/ \E j \in Jobs : job[j] \in StoppingSteps
    /\ \A j \in Jobs : job[j] \notin {"new", "begin", "establish", "startCore", "setRunning"}

SessionInv == OwnerInv /\ RunningServed /\ RestartInv /\ DataInv

\* Only the coroutine takes the task state to RUNNING.
LEMMA RunningSteps ==
  ASSUME [Next]_vars, taskState' = "RUNNING", taskState # "RUNNING"
  PROVE  \E j \in Jobs : JobSetRunning(j)
<1>1. CASE SendIntent \/ Bind \/ SendDestroy \/ UpdateTask \/ CancelTask \/ OnDestroy
  BY <1>1, Zenon DEF SendIntent, Bind, SendDestroy, UpdateTask, CancelTask, OnDestroy
<1>2. CASE HandleStartAction \/ HandleStopAction \/ HandleParamsChangedAction \/ HandleUnknownAction
  BY <1>2, Zenon DEF HandleStartAction, HandleStopAction, HandleParamsChangedAction, HandleUnknownAction
<1>3. CASE AssignJob \/ RestartTunnel \/ RestartPsiphon
  BY <1>3, Zenon DEF AssignJob, RestartTunnel, RestartPsiphon
<1>4. ASSUME NEW t \in Threads, StopTunnel(t) PROVE FALSE
  BY <1>4, Zenon DEF StopTunnel, StopTunnelCas1, StopTunnelCas2, StopTunnelPost, StopFrom
<1>5. ASSUME NEW j \in Jobs, RunJob(j), ~JobSetRunning(j) PROVE FALSE
  <2>1. CASE Dispatch(j) \/ JobBegin(j) \/ JobEstablish(j) \/ JobStartCore(j) \/ JobResume(j)
    BY <2>1, Zenon DEF Dispatch, JobBegin, JobEstablish, JobStartCore, JobResume
  <2>2. CASE JobTeardown(j) \/ JobStopCore(j) \/ JobSetStopped(j) \/ JobPostStopped(j) \/ JobClear(j)
    BY <2>2, Zenon DEF JobTeardown, JobStopCore, JobSetStopped, JobPostStopped, JobClear
  <2>3. CASE JobStopForeground(j)
    BY <2>3, Zenon DEF JobStopForeground
  <2>4. QED
    BY <1>5, <2>1, <2>2, <2>3, SMTT(30) DEF RunJob
<1>6. CASE CoreCalls \/ OnConnectingPost \/ OnConnectedRoute
  BY <1>6, Zenon DEF CoreCalls, OnConnecting, OnListeningSocksProxyPort, OnConnected, OnProxyPortInUse,
              OnInfo, OnConnectingPost, OnConnectedRoute
<1>7. CASE OnRevoke \/ OnRevokeCheck
  BY <1>7, Zenon DEF OnRevoke, OnRevokeCheck
<1>8. CASE Rest \/ UNCHANGED vars
  BY <1>8, Zenon DEF Rest, vars
<1>9. CASE OnStartCommand \/ MainForeground
  BY <1>9, IntentSteps, Zenon
<1>10. QED
  BY <1>1, <1>2, <1>3, <1>4, <1>5, <1>6, <1>7, <1>8, <1>9
     DEF Next, Main, MainTask, CoreContinues, BinderContinues, Threads

\* RUNNING ends no later than the coroutine's cleanup.
LEMMA RunningStep == TypeOK /\ RunningServed /\ [Next]_vars => RunningServed'
<1> SUFFICES ASSUME TypeOK, RunningServed, [Next]_vars, taskState' = "RUNNING"
             PROVE  \E j \in Jobs : job'[j] \in StoppingSteps \cup {"setStopped"}
  BY DEF RunningServed
<1>1. CASE taskState # "RUNNING"
  <2>1. PICK j \in Jobs : JobSetRunning(j)
    BY <1>1, RunningSteps
  <2>2. QED
    BY <2>1, Zenon DEF JobSetRunning, JobGoto, StoppingSteps, TypeOK
<1>2. CASE taskState = "RUNNING"
  <2>1. PICK i \in Jobs : job[i] \in StoppingSteps \cup {"setStopped"}
    BY <1>2 DEF RunningServed
  <2>2. CASE UNCHANGED job
    BY <2>1, <2>2
  <2>3. ASSUME NEW j \in Jobs, NEW m \in Moves, JobGoto(j, m[1], m[2]),
               IF m[1] = "none" THEN HandleStartAction ELSE RunJob(j)
        PROVE  job'[i] \in StoppingSteps \cup {"setStopped"}
    <3>1. m[1] # "setStopped"
      BY <2>3, RunJobAt, Zenon DEF JobGoto, JobSetStopped
    <3>2. m[1] \in StoppingSteps => m[2] \in StoppingSteps \cup {"setStopped"}
      BY <2>3 DEF Moves, StoppingSteps
    <3>3. QED
      BY <2>1, <2>3, <3>1, <3>2, Zenon DEF JobGoto, TypeOK
  <2>4. QED
    BY <2>1, <2>2, <2>3, JobSteps, Zenon
<1>3. QED
  BY <1>1, <1>2

\* main begins a restart only for changed parameters in state RUNNING, and does
\* nothing else before it has called restartPsiphon.
LEMMA RestartingSteps ==
  ASSUME TypeOK, [Next]_vars, Restarting'
  PROVE  \/ Restarting /\ ~RestartPsiphon /\ ~HandleStartAction
         \/ /\ HandleParamsChangedAction
            /\ taskState = "RUNNING"
            /\ pc'["main"] = "restart"
<1> USE DEF Goto, At
<1>0. pc \in [Threads -> PcStates] /\ {"main", "core", "binder"} = Threads
  BY Zenon DEF TypeOK, Threads
<1>1. ~RestartPsiphon
  BY <1>0, Zenon DEF RestartPsiphon, Restarting
<1>2. ~HandleStartAction
  BY <1>0, Zenon DEF HandleStartAction, Restarting
<1> SUFFICES ASSUME ~Restarting
             PROVE  /\ HandleParamsChangedAction
                    /\ taskState = "RUNNING"
                    /\ pc'["main"] = "restart"
  BY <1>1, <1>2
<1>3. pc'["main"] # pc["main"] /\ pc'["main"] \in {"restart", "restartPsiphon"}
  BY DEF Restarting
<1>4. CASE SendIntent \/ Bind \/ SendDestroy \/ UpdateTask \/ CancelTask \/ OnDestroy
  BY <1>3, <1>4, Zenon DEF SendIntent, Bind, SendDestroy, UpdateTask, CancelTask, OnDestroy
<1>5. CASE HandleStopAction \/ HandleUnknownAction \/ AssignJob
  BY <1>0, <1>3, <1>5, Zenon DEF HandleStopAction, HandleUnknownAction, AssignJob
<1>6. CASE HandleParamsChangedAction
  BY <1>0, <1>3, <1>6, Zenon DEF HandleParamsChangedAction
<1>7. CASE RestartTunnel
  BY <1>7, Zenon DEF RestartTunnel, Restarting
<1>8. ASSUME NEW t \in Threads, StopTunnel(t) PROVE FALSE
  BY <1>0, <1>3, <1>8, Zenon DEF StopTunnel, StopTunnelCas1, StopTunnelCas2, StopTunnelPost, StopFrom, Return
<1>9. ASSUME NEW j \in Jobs, RunJob(j) PROVE FALSE
  <2>1. UNCHANGED pc
    BY <1>9, Zenon DEF RunJob, Dispatch, JobBegin, JobEstablish, JobStartCore, JobSetRunning, JobResume,
                JobTeardown, JobStopCore, JobSetStopped, JobPostStopped, JobClear, JobStopForeground
  <2>2. QED
    BY <1>3, <2>1
<1>10. CASE CoreCalls \/ OnConnectingPost \/ OnConnectedRoute
  BY <1>0, <1>3, <1>10, Zenon DEF CoreCalls, OnConnecting, OnListeningSocksProxyPort, OnConnected,
                           OnProxyPortInUse, OnInfo, OnConnectingPost, OnConnectedRoute
<1>11. CASE OnRevoke \/ OnRevokeCheck
  BY <1>0, <1>3, <1>11, Zenon DEF OnRevoke, OnRevokeCheck
<1>12. CASE Rest \/ UNCHANGED vars
  BY <1>3, <1>12, Zenon DEF Rest, vars
<1>13. CASE OnStartCommand \/ MainForeground
  BY <1>0, <1>3, <1>13, Zenon DEF OnStartCommand, MainForeground, StartForegroundWithNotification,
                           StopForegroundAndService
<1>14. QED
  BY <1>1, <1>2, <1>4, <1>5, <1>6, <1>7, <1>8, <1>9, <1>10, <1>11, <1>12, <1>13, SMTT(30)
     DEF Next, Main, MainTask, CoreContinues, BinderContinues, Threads

\* Every step that is not the beginning of a late restart keeps the invariant.
LEMMA RestartStep ==
  ASSUME OwnerInv, RunningServed, RestartInv, [Next]_vars, ~LateRestart'
  PROVE  RestartInv'
<1> DEFINE Starting == {"new", "begin", "establish", "startCore", "setRunning"}
<1> SUFFICES ASSUME Restarting'
             PROVE  /\ core' = "off" \/ \E j \in Jobs : job'[j] \in StoppingSteps
                    /\ \A j \in Jobs : job'[j] \notin Starting
  BY Zenon DEF RestartInv
<1>0. TypeOK /\ job \in [Jobs -> JobStates]
  BY Zenon DEF OwnerInv, TypeOK
<1>1. CASE HandleParamsChangedAction /\ taskState = "RUNNING" /\ pc'["main"] = "restart"
  <2>1. UNCHANGED <<job, core>>
    BY <1>1, Zenon DEF HandleParamsChangedAction
  <2>2. PICK i \in Jobs : job[i] \in StoppingSteps \cup {"setStopped"}
    BY <1>1, Zenon DEF RunningServed
  <2>3. i \in Owners
    BY <2>2 DEF Owners, OwnerSteps, StoppingSteps
  <2>4. \A j \in Jobs : job[j] \notin Starting
    BY <2>2, <2>3, Zenon DEF OwnerInv, OneOwner, Owners, OwnerSteps, StoppingSteps
  <2>5. core = "off" \/ job[i] \in StoppingSteps
    BY <1>1, <2>1, <2>2, SMTT(30) DEF LateRestart, At
  <2>6. QED
    BY <2>1, <2>4, <2>5
<1>2. CASE Restarting /\ ~RestartPsiphon /\ ~HandleStartAction
  <2>1. \A j \in Jobs : job[j] \notin Starting
    BY <1>2 DEF RestartInv
  <2>2. \A j \in Jobs : job'[j] \notin Starting
    <3>1. ASSUME NEW j \in Jobs, NEW m \in Moves, JobGoto(j, m[1], m[2]),
                 IF m[1] = "none" THEN HandleStartAction ELSE RunJob(j)
          PROVE  \A i \in Jobs : job'[i] \notin Starting
      <4>1. m[1] # "none" /\ m[1] \notin Starting
        BY <1>2, <2>1, <3>1, Zenon DEF JobGoto
      <4>2. m[2] \notin Starting
        BY <3>1, <4>1 DEF Moves
      <4>3. QED
        BY <1>0, <2>1, <3>1, <4>2, Zenon DEF JobGoto
    <3>2. QED
      BY <2>1, <3>1, JobSteps, Zenon
  <2>3. CASE core = "off"
    <3>1. ASSUME NEW j \in Jobs, JobStartCore(j) PROVE FALSE
      BY <2>1, <3>1, Zenon DEF JobStartCore, JobGoto
    <3>2. core' = "off"
      BY <1>2, <2>3, <3>1, CoreSteps, Zenon DEF OnListeningSocksProxyPort, Callback, JobStopCore
    <3>3. QED
      BY <2>2, <3>2
  <2>4. ASSUME NEW i \in Jobs, job[i] \in StoppingSteps
        PROVE  core' = "off" \/ job'[i] \in StoppingSteps
    <3>1. ASSUME NEW j \in Jobs, NEW m \in Moves, JobGoto(j, m[1], m[2]),
                 IF m[1] = "none" THEN HandleStartAction ELSE RunJob(j)
          PROVE  core' = "off" \/ job'[i] \in StoppingSteps
      <4>1. m[1] = "stopCore" => core' = "off"
        BY <3>1, RunJobAt, Zenon DEF JobGoto, JobStopCore
      <4>2. m[1] \in StoppingSteps \ {"stopCore"} => m[2] \in StoppingSteps
        BY <3>1 DEF Moves, StoppingSteps
      <4>3. QED
        BY <1>0, <2>4, <3>1, <4>1, <4>2, Zenon DEF JobGoto
    <3>2. QED
      BY <2>4, <3>1, JobSteps, Zenon
  <2>5. QED
    BY <1>2, <2>2, <2>3, <2>4, Zenon DEF RestartInv
<1>3. QED
  BY <1>0, <1>1, <1>2, RestartingSteps, Zenon

\* The session invariant holds in every behaviour without a late restart.
LEMMA SessionInvHolds == Spec /\ []~LateRestart => []SessionInv
<1>1. Init => SessionInv
  <2>1. Init => OwnerInv
    BY TypeInit, SMTT(30) DEF Init, OwnerInv, OneOwner, VpnOwned, Owners, OwnerSteps
  <2>2. Init => RunningServed /\ RestartInv
    BY Zenon DEF Init, RunningServed, RestartInv, Restarting, Threads
  <2>3. Init => DataInv
    BY DEF Init, DataInv, LeftOver, Dirty
  <2>4. QED
    BY <2>1, <2>2, <2>3, SMTT(30) DEF SessionInv
<1>2. OwnerInv /\ OwnerInv' /\ SessionInv /\ ~LateRestart' /\ [Next]_vars => SessionInv'
  <2> SUFFICES ASSUME OwnerInv, OwnerInv', SessionInv, ~LateRestart', [Next]_vars
               PROVE  RunningServed' /\ RestartInv' /\ DataInv'
    BY DEF SessionInv
  <2>1. TypeOK
    BY DEF OwnerInv
  <2>2. RunningServed'
    BY <2>1, RunningStep, Zenon DEF SessionInv
  <2>3. RestartInv'
    BY RestartStep, Zenon DEF SessionInv
  <2>4. RestartPsiphon => core = "off" \/ Owed
    BY Zenon DEF SessionInv, RestartInv, RestartPsiphon, Restarting, At, StoppingSteps, Owed, OwingSteps
  <2>5. DataInv'
    BY <2>1, <2>4, DataStep DEF SessionInv
  <2>6. QED
    BY <2>2, <2>3, <2>5
<1>3. QED
  BY <1>1, <1>2, OwnerInvHolds, PTL DEF Spec

\* Nothing of an ended session stays published, for any number of sessions,
\* callbacks, stops, failures and restarts, unless a late restart occurs.
THEOREM SessionDataResetHolds == Spec => SessionDataReset
<1>1. SessionInv => NothingLeft
  BY DataAtRest DEF SessionInv, OwnerInv
<1>2. QED
  BY <1>1, SessionInvHolds, PTL DEF SessionDataReset

-----------------------------------------------------------------------------
(* What a restart would have to respect.                                    *)

\* restartPsiphon is called only while a coroutine has yet to stop the core.
TimelyRestarts == [][RestartPsiphon => \E j \in Jobs : job[j] \in StoppingSteps]_vars

\* A core that runs will be stopped by a coroutine.
CoreServed == core # "off" => \E j \in Jobs : job[j] \in StoppingSteps \cup {"setRunning"}

\* Every step but an untimely restart keeps it so.
LEMMA CoreServedStep ==
  ASSUME TypeOK, CoreServed, [Next]_vars, RestartPsiphon => \E j \in Jobs : job[j] \in StoppingSteps
  PROVE  CoreServed'
<1> SUFFICES ASSUME core' # "off"
             PROVE  \E j \in Jobs : job'[j] \in StoppingSteps \cup {"setRunning"}
  BY Zenon DEF CoreServed
<1>1. CASE RestartPsiphon
  BY <1>1, Zenon DEF RestartPsiphon
<1>2. ASSUME NEW j \in Jobs, JobStartCore(j)
      PROVE  \E i \in Jobs : job'[i] \in StoppingSteps \cup {"setRunning"}
  BY <1>2, Zenon DEF JobStartCore, JobGoto, TypeOK
<1>3. CASE core # "off"
  <2>1. PICK i \in Jobs : job[i] \in StoppingSteps \cup {"setRunning"}
    BY <1>3 DEF CoreServed
  <2>2. ASSUME NEW j \in Jobs, NEW m \in Moves, JobGoto(j, m[1], m[2]),
               IF m[1] = "none" THEN HandleStartAction ELSE RunJob(j)
        PROVE  job'[i] \in StoppingSteps \cup {"setRunning"}
    <3>1. m[1] # "stopCore"
      BY <2>2, RunJobAt, Zenon DEF JobGoto, JobStopCore
    <3>2. m[1] \in StoppingSteps \cup {"setRunning"} => m[2] \in StoppingSteps
      BY <2>2, <3>1, SMTT(30) DEF Moves, StoppingSteps
    <3>3. QED
      BY <2>1, <2>2, <3>2, Zenon DEF JobGoto, TypeOK
  <2>3. QED
    BY <2>1, <2>2, JobSteps, Zenon
<1>4. CASE core = "off"
  BY <1>1, <1>2, <1>4, CoreSteps, Zenon DEF OnListeningSocksProxyPort, Callback, JobStopCore
<1>5. QED
  BY <1>3, <1>4, Zenon

\* The restart is the only reason why the core may outlive the finally block,
\* and data their session: if restartTunnel called restartPsiphon only while
\* the session's coroutine has yet to stop the core, then STOPPED would mean
\* that the core does not run, and nothing of a session would be left.
THEOREM TimelyRestartsSuffice == Spec /\ TimelyRestarts => []CoreStopped /\ []NothingLeft
<1>1. Init => CoreServed /\ DataInv
  BY DEF Init, CoreServed, DataInv, LeftOver, Dirty
<1>2. /\ OwnerInv /\ CoreServed /\ DataInv /\ [Next]_vars
      /\ [RestartPsiphon => \E j \in Jobs : job[j] \in StoppingSteps]_vars
      => CoreServed' /\ DataInv'
  <2> SUFFICES ASSUME OwnerInv, CoreServed, DataInv, [Next]_vars,
                      [RestartPsiphon => \E j \in Jobs : job[j] \in StoppingSteps]_vars
               PROVE  CoreServed' /\ DataInv'
    OBVIOUS
  <2>1. TypeOK
    BY SMTT(30) DEF OwnerInv
  <2>2. CASE UNCHANGED vars
    BY <2>2, Zenon DEF vars, CoreServed, DataInv, LeftOver, ResetAfter, Dirty, Owed
  <2>3. CASE RestartPsiphon => \E j \in Jobs : job[j] \in StoppingSteps
    <3>1. RestartPsiphon => core = "off" \/ Owed
      BY <2>3, Zenon DEF StoppingSteps, Owed, OwingSteps
    <3>2. QED
      BY <2>1, <2>3, <3>1, CoreServedStep, DataStep, Zenon
  <2>4. QED
    BY <2>2, <2>3
<1>3. OwnerInv /\ CoreServed => CoreStopped
  BY Zenon DEF OwnerInv, OneOwner, Owners, OwnerSteps, CoreServed, StoppingSteps, CoreStopped
<1>4. OwnerInv /\ DataInv => NothingLeft
  BY DataAtRest DEF OwnerInv
<1>5. QED
  BY <1>1, <1>2, <1>3, <1>4, OwnerInvHolds, PTL DEF Spec, TimelyRestarts

-----------------------------------------------------------------------------
(* The calls into PsiphonVpnManager.                                        *)

Interface == INSTANCE VpnInterface

\* vpnTeardown, as a whole: it ends the routing before it takes down.
TearDown == vpn # "down" /\ vpn' = "down"

\* The service uses PsiphonVpnManager as VpnInterface allows: the interface is
\* established only when that of the session before is down, and onConnected
\* starts to route only on one that is up.
THEOREM InterfaceUsedInOrder ==
  Spec => [][Interface!Establish \/ Interface!StartRouting \/ TearDown]_vpn
<1>1. OwnerInv /\ [Next]_vars =>
        [Interface!Establish \/ Interface!StartRouting \/ TearDown]_vpn
  <2> SUFFICES ASSUME OwnerInv, [Next]_vars, vpn' # vpn
               PROVE  Interface!Establish \/ Interface!StartRouting \/ TearDown
    OBVIOUS
  <2>1. CASE SendIntent \/ Bind \/ SendDestroy \/ UpdateTask \/ CancelTask \/ OnDestroy
    BY <2>1, Zenon DEF SendIntent, Bind, SendDestroy, UpdateTask, CancelTask, OnDestroy
  <2>2. CASE HandleStartAction \/ HandleStopAction \/ HandleParamsChangedAction \/ HandleUnknownAction
    BY <2>2, Zenon DEF HandleStartAction, HandleStopAction, HandleParamsChangedAction, HandleUnknownAction
  <2>3. CASE AssignJob \/ RestartTunnel \/ RestartPsiphon
    BY <2>3, Zenon DEF AssignJob, RestartTunnel, RestartPsiphon
  <2>4. ASSUME NEW t \in Threads, StopTunnel(t) PROVE FALSE
    BY <2>4, Zenon DEF StopTunnel, StopTunnelCas1, StopTunnelCas2, StopTunnelPost
  <2>5. ASSUME NEW j \in Jobs, RunJob(j) PROVE Interface!Establish \/ TearDown
    <3>1. CASE JobEstablish(j)
      <4>1. vpn = "down"
        BY <3>1 DEF OwnerInv, OneOwner, VpnOwned, VpnSteps, Owners, OwnerSteps, JobEstablish, JobGoto
      <4>2. QED
        BY <3>1, <4>1, Zenon DEF JobEstablish, Interface!Establish
    <3>2. CASE JobTeardown(j)
      BY <3>2, Zenon DEF JobTeardown, TearDown
    <3>3. CASE Dispatch(j) \/ JobBegin(j) \/ JobStartCore(j) \/ JobSetRunning(j) \/ JobResume(j)
      BY <3>3, Zenon DEF Dispatch, JobBegin, JobStartCore, JobSetRunning, JobResume
    <3>4. CASE JobStopCore(j) \/ JobSetStopped(j) \/ JobPostStopped(j) \/ JobClear(j)
               \/ JobStopForeground(j)
      BY <3>4, Zenon DEF JobStopCore, JobSetStopped, JobPostStopped, JobClear, JobStopForeground
    <3>5. QED
      BY <2>5, <3>1, <3>2, <3>3, <3>4, Zenon DEF RunJob
  <2>6. CASE CoreCalls \/ OnConnectingPost \/ OnConnectedRoute
    <3>1. CASE OnConnectedRoute
      BY <3>1, Zenon DEF OnConnectedRoute, Interface!StartRouting
    <3>2. CASE CoreCalls \/ OnConnectingPost
      BY <3>2, Zenon DEF CoreCalls, OnConnecting, OnListeningSocksProxyPort, OnConnected, OnProxyPortInUse,
                  OnInfo, OnConnectingPost
    <3>3. QED
      BY <2>6, <3>1, <3>2
  <2>7. CASE OnRevoke \/ OnRevokeCheck
    BY <2>7, Zenon DEF OnRevoke, OnRevokeCheck
  <2>8. CASE Rest \/ UNCHANGED vars
    BY <2>8, Zenon DEF Rest, vars
  <2>9. CASE OnStartCommand \/ MainForeground
    BY <2>9, IntentSteps, Zenon
  <2>10. QED
    BY <2>1, <2>2, <2>3, <2>4, <2>5, <2>6, <2>7, <2>8, <2>9, Zenon
       DEF Next, Main, MainTask, CoreContinues, BinderContinues, Threads
<1>2. QED
  BY <1>1, OwnerInvHolds, PTL DEF Spec

-----------------------------------------------------------------------------
(* The running flag and the stop it promises.                               *)

\* The coroutine sets RUNNING between the two compareAndSet of the stop that
\* cleared the flag, so that neither of them finds the state it expects.
StopOvertaken ==
  /\ \E j \in Jobs : JobSetRunning(j)
  /\ taskState = "STARTING"
  /\ At("main", "cas2")

\* The last coroutine clears tunnelJob when it refers to the next one already.
ReferenceLost == (\E j \in Jobs : JobClear(j)) /\ tunnelJob \in Owners

\* The coroutine of a session that has not ended can be reached by a stop.
Referred == Owners \subseteq {IF assigning = NoJob THEN tunnelJob ELSE assigning}

StopTasks == {"cancel", "destroy"}
EndingSteps == {"teardown", "stopCore", "setStopped"}

\* A stop is queued, about to be queued, or has reached the coroutine.
StopUnderWay ==
  \/ \E i \in 1..Len(queue) : queue[i].kind \in StopTasks
  \/ \E t \in Threads : pc[t] = "post"
  \/ Owners \subseteq cancelled \cup {j \in Jobs : job[j] \in EndingSteps}

\* When the flag is cleared, or the state is STOPPING, a stop is under way or
\* main is inside stopTunnel at a compareAndSet that will find the state.
FlagInv ==
  /\ taskState = "STOPPING" => StopUnderWay
  /\ taskState = "RUNNING" /\ ~runningFlag => StopUnderWay \/ pc["main"] = "cas1"
  /\ taskState = "STARTING" /\ ~runningFlag => StopUnderWay \/ pc["main"] \in {"cas1", "cas2"}

\* Only an accepted start makes a new owner; it sets STARTING and the flag.
LEMMA OwnersShrink ==
  ASSUME TypeOK, [Next]_vars
  PROVE  \/ \A j \in Owners' : j \in Owners /\ (job[j] \in EndingSteps => job'[j] \in EndingSteps)
         \/ HandleStartAction /\ taskState = "STOPPED" /\ taskState' = "STARTING" /\ runningFlag'
<1>1. CASE UNCHANGED job
  BY <1>1, SMTT(30) DEF Owners
<1>2. ASSUME NEW j \in Jobs, NEW m \in Moves, JobGoto(j, m[1], m[2]), m[1] # "none"
      PROVE  \A i \in Owners' : i \in Owners /\ (job[i] \in EndingSteps => job'[i] \in EndingSteps)
  <2>1. /\ m[2] \in OwnerSteps => m[1] \in OwnerSteps
        /\ m[1] \in EndingSteps => m[2] \in EndingSteps \/ m[2] \notin OwnerSteps
    BY <1>2 DEF Moves, OwnerSteps, EndingSteps
  <2>2. QED
    BY <1>2, <2>1, Zenon DEF Owners, JobGoto, TypeOK
<1>3. ASSUME HandleStartAction, ~UNCHANGED job
      PROVE  taskState = "STOPPED" /\ taskState' = "STARTING" /\ runningFlag'
  BY <1>3, Zenon DEF HandleStartAction
<1>4. QED
  BY <1>1, <1>2, <1>3, JobSteps, Zenon

\* What may become of tunnelJob and of the job being assigned.
LEMMA ReferenceSteps ==
  ASSUME [Next]_vars
  PROVE  \/ UNCHANGED <<tunnelJob, assigning>> \/ HandleStartAction \/ AssignJob
         \/ \E j \in Jobs : JobClear(j)
<1>1. CASE SendIntent \/ Bind \/ SendDestroy \/ UpdateTask \/ CancelTask \/ OnDestroy
  BY <1>1, Zenon DEF SendIntent, Bind, SendDestroy, UpdateTask, CancelTask, OnDestroy
<1>2. CASE HandleStopAction \/ HandleParamsChangedAction \/ HandleUnknownAction
  BY <1>2, Zenon DEF HandleStopAction, HandleParamsChangedAction, HandleUnknownAction
<1>3. CASE RestartTunnel \/ RestartPsiphon
  BY <1>3, Zenon DEF RestartTunnel, RestartPsiphon
<1>4. ASSUME NEW t \in Threads, StopTunnel(t) PROVE UNCHANGED <<tunnelJob, assigning>>
  BY <1>4, Zenon DEF StopTunnel, StopTunnelCas1, StopTunnelCas2, StopTunnelPost
<1>5. ASSUME NEW j \in Jobs, RunJob(j), ~JobClear(j) PROVE UNCHANGED <<tunnelJob, assigning>>
  <2>1. CASE Dispatch(j) \/ JobBegin(j) \/ JobEstablish(j) \/ JobStartCore(j) \/ JobSetRunning(j)
    BY <2>1, Zenon DEF Dispatch, JobBegin, JobEstablish, JobStartCore, JobSetRunning
  <2>2. CASE JobResume(j) \/ JobTeardown(j) \/ JobStopCore(j) \/ JobSetStopped(j) \/ JobPostStopped(j)
    BY <2>2, Zenon DEF JobResume, JobTeardown, JobStopCore, JobSetStopped, JobPostStopped
  <2>3. CASE JobStopForeground(j)
    BY <2>3, Zenon DEF JobStopForeground
  <2>4. QED
    BY <1>5, <2>1, <2>2, <2>3, Zenon DEF RunJob
<1>6. CASE CoreCalls \/ OnConnectingPost \/ OnConnectedRoute
  BY <1>6, Zenon DEF CoreCalls, OnConnecting, OnListeningSocksProxyPort, OnConnected, OnProxyPortInUse,
              OnInfo, OnConnectingPost, OnConnectedRoute
<1>7. CASE OnRevoke \/ OnRevokeCheck
  BY <1>7, Zenon DEF OnRevoke, OnRevokeCheck
<1>8. CASE Rest \/ UNCHANGED vars
  BY <1>8, Zenon DEF Rest, vars
<1>9. CASE OnStartCommand \/ MainForeground
  BY <1>9, IntentSteps, Zenon
<1>10. QED
  BY <1>1, <1>2, <1>3, <1>4, <1>5, <1>6, <1>7, <1>8, <1>9, Zenon
     DEF Next, Main, MainTask, CoreContinues, BinderContinues, Threads

\* The reference follows the session, unless it is lost.
LEMMA ReferredStep ==
  ASSUME OwnerInv, Referred, [Next]_vars, ~ReferenceLost
  PROVE  Referred'
<1>0. TypeOK
  BY DEF OwnerInv
<1>1. CASE HandleStartAction /\ ~UNCHANGED job
  <2>1. taskState = "STOPPED"
    BY <1>1, Zenon DEF HandleStartAction
  <2>2. PICK j \in Jobs : job' = [job EXCEPT ![j] = "new"] /\ assigning' = j
    BY <1>1, Zenon DEF HandleStartAction
  <2>3. Owners = {}
    BY <2>1, Zenon DEF OwnerInv, OneOwner
  <2>4. Owners' \subseteq {j}
    BY <1>0, <2>2, <2>3, Zenon DEF Owners, TypeOK
  <2>5. QED
    BY <2>2, <2>4, ConstantsAssumption, Zenon DEF Referred
<1>2. CASE ~(HandleStartAction /\ ~UNCHANGED job)
  <2>1. Owners' \subseteq Owners
    BY <1>0, <1>2, OwnersShrink, Zenon DEF Owners
  <2>2. CASE UNCHANGED <<tunnelJob, assigning>>
    BY <2>1, <2>2, Zenon DEF Referred
  <2>3. CASE HandleStartAction
    <3>1. ASSUME NEW j \in Jobs, job[j] = "none", job' = [job EXCEPT ![j] = "new"] PROVE FALSE
      BY <1>0, <1>2, <2>3, <3>1, Zenon DEF TypeOK
    <3>2. QED
      BY <2>2, <2>3, <3>1, Zenon DEF HandleStartAction
  <2>4. CASE AssignJob
    BY <2>1, <2>4, Zenon DEF AssignJob, Referred
  <2>5. ASSUME NEW j \in Jobs, JobClear(j) PROVE Referred'
    BY <2>1, <2>5, Zenon DEF JobClear, ReferenceLost, Referred
  <2>6. QED
    BY <2>2, <2>3, <2>4, <2>5, ReferenceSteps, Zenon
<1>3. QED
  BY <1>1, <1>2

\* A thread inside stopTunnel leaves its place there only by its own step.
LEMMA StopTunnelAt ==
  ASSUME TypeOK, [Next]_vars, NEW t \in Threads, pc[t] \in {"cas1", "cas2", "post"}, pc'[t] # pc[t]
  PROVE  StopTunnel(t)
<1> USE DEF Goto, At
<1>0. pc \in [Threads -> PcStates] /\ {"main", "core", "binder"} = Threads
  BY Zenon DEF TypeOK, Threads
<1>1. CASE SendIntent \/ Bind \/ SendDestroy
  BY <1>1, Zenon DEF SendIntent, Bind, SendDestroy
<1>2. CASE UpdateTask \/ CancelTask \/ OnDestroy
  BY <1>2, Zenon DEF UpdateTask, CancelTask, OnDestroy
<1>3. CASE HandleStopAction \/ HandleParamsChangedAction
  BY <1>0, <1>3, Zenon DEF HandleStopAction, HandleParamsChangedAction, Command
<1>4. CASE HandleStartAction \/ HandleUnknownAction \/ AssignJob
  BY <1>0, <1>4, Zenon DEF HandleStartAction, HandleUnknownAction, AssignJob, Command
<1>5. CASE RestartTunnel \/ RestartPsiphon
  BY <1>0, <1>5, Zenon DEF RestartTunnel, RestartPsiphon
<1>6. ASSUME NEW s \in Threads, StopTunnel(s), s # t PROVE FALSE
  BY <1>0, <1>6, Zenon DEF StopTunnel, StopTunnelCas1, StopTunnelCas2, StopTunnelPost, StopFrom, Return
<1>7. ASSUME NEW j \in Jobs, RunJob(j) PROVE FALSE
  <2>1. UNCHANGED pc
    BY <1>7, ZenonT(30) DEF RunJob, Dispatch, JobBegin, JobEstablish, JobStartCore, JobSetRunning, JobResume,
                JobTeardown, JobStopCore, JobSetStopped, JobPostStopped, JobClear, JobStopForeground
  <2>2. QED
    BY <2>1
<1>8. CASE CoreCalls
  BY <1>0, <1>8, Zenon DEF CoreCalls, OnConnecting, OnListeningSocksProxyPort, OnConnected,
                    OnProxyPortInUse, OnInfo, Callback
<1>9. CASE OnConnectingPost \/ OnConnectedRoute
  BY <1>0, <1>9, Zenon DEF OnConnectingPost, OnConnectedRoute
<1>10. CASE OnRevoke \/ OnRevokeCheck
  BY <1>0, <1>10, Zenon DEF OnRevoke, OnRevokeCheck
<1>11. CASE Rest \/ UNCHANGED vars
  BY <1>11, Zenon DEF Rest, vars
<1>12. CASE OnStartCommand \/ MainForeground
  BY <1>0, <1>12, Zenon DEF OnStartCommand, Take, MainIdle, MainForeground,
                     StartForegroundWithNotification, StopForegroundAndService
<1>13. QED
  BY <1>1, <1>2, <1>3, <1>4, <1>5, <1>6, <1>7, <1>8, <1>9, <1>10, <1>11, <1>12, Zenon
     DEF Next, Main, MainTask, CoreContinues, BinderContinues, Threads

\* No step takes a cancellation back.
LEMMA CancelledGrows ==
  ASSUME [Next]_vars
  PROVE  cancelled \subseteq cancelled'
<1>1. CASE SendIntent \/ Bind \/ SendDestroy \/ UpdateTask \/ CancelTask \/ OnDestroy
  BY <1>1, Zenon DEF SendIntent, Bind, SendDestroy, UpdateTask, CancelTask, OnDestroy
<1>2. CASE HandleStartAction \/ HandleStopAction \/ HandleParamsChangedAction \/ HandleUnknownAction
  BY <1>2, Zenon DEF HandleStartAction, HandleStopAction, HandleParamsChangedAction, HandleUnknownAction
<1>3. CASE AssignJob \/ RestartTunnel \/ RestartPsiphon
  BY <1>3, Zenon DEF AssignJob, RestartTunnel, RestartPsiphon
<1>4. ASSUME NEW t \in Threads, StopTunnel(t) PROVE UNCHANGED cancelled
  BY <1>4, Zenon DEF StopTunnel, StopTunnelCas1, StopTunnelCas2, StopTunnelPost
<1>5. ASSUME NEW j \in Jobs, RunJob(j) PROVE UNCHANGED cancelled
  BY <1>5, ZenonT(30) DEF RunJob, Dispatch, JobBegin, JobEstablish, JobStartCore, JobSetRunning, JobResume,
              JobTeardown, JobStopCore, JobSetStopped, JobPostStopped, JobClear, JobStopForeground
<1>6. CASE CoreCalls \/ OnConnectingPost \/ OnConnectedRoute
  BY <1>6, Zenon DEF CoreCalls, OnConnecting, OnListeningSocksProxyPort, OnConnected, OnProxyPortInUse,
              OnInfo, OnConnectingPost, OnConnectedRoute
<1>7. CASE OnRevoke \/ OnRevokeCheck
  BY <1>7, Zenon DEF OnRevoke, OnRevokeCheck
<1>8. CASE Rest \/ UNCHANGED vars
  BY <1>8, Zenon DEF Rest, vars
<1>9. CASE OnStartCommand \/ MainForeground
  BY <1>9, IntentSteps, Zenon
<1>10. QED
  BY <1>1, <1>2, <1>3, <1>4, <1>5, <1>6, <1>7, <1>8, <1>9
     DEF Next, Main, MainTask, CoreContinues, BinderContinues, Threads

\* A cancellation or onDestroy stays in the queue until main takes it.
LEMMA StopTasksStay ==
  ASSUME TypeOK, [Next]_vars, ~CancelTask, ~OnDestroy,
         NEW i \in 1..Len(queue), queue[i].kind \in StopTasks
  PROVE  \E k \in 1..Len(queue') : queue'[k].kind \in StopTasks
<1>0. queue \in Seq(Tasks)
  BY Zenon DEF TypeOK
<1>1. CASE PlainStep
  <2>1. i \in 1..Len(queue') /\ queue'[i] = queue[i]
    BY <1>0, <1>1 DEF PlainStep, Continues
  <2>2. QED
    BY <2>1, Zenon
<1>2. ASSUME NEW x, queue' = Append(queue, x) PROVE i \in 1..Len(queue') /\ queue'[i] = queue[i]
  BY <1>0, <1>2, SMTT(30)
<1>3. CASE SessionPost \/ \E j \in Jobs : JobPostStopped(j)
  BY <1>2, <1>3, Zenon DEF SessionPost, JobPostStopped, Post
<1>4. CASE TaskTaken \/ UpdateTask
  <2>1. queue # <<>> /\ Head(queue).kind \notin StopTasks /\ queue' = Tail(queue)
    BY <1>4, Zenon DEF TaskTaken, UpdateTask, Take, StopTasks
  <2>2. i # 1
    BY <1>0, <2>1
  <2>3. i - 1 \in 1..Len(queue') /\ queue'[i - 1] = queue[i]
    BY <1>0, <2>1, <2>2
  <2>4. QED
    BY <2>3, Zenon
<1>5. QED
  BY <1>1, <1>3, <1>4, QueueSteps, Zenon

\* Where one of the tasks posted behind a queue is found, whatever follows.
LEMMA PostedInside ==
  ASSUME NEW S, NEW q \in Seq(S), NEW u \in Seq(S), NEW r \in Seq(S), NEW i \in 1..Len(u)
  PROVE  /\ Len(q) + i \in 1..Len((q \o u) \o r)
         /\ ((q \o u) \o r)[Len(q) + i] = u[i]
<1>1. Len(q) \in Nat /\ Len(r) \in Nat /\ Len(u) \in Nat
  OBVIOUS
<1>2. q \o u \in Seq(S) /\ Len(q \o u) = Len(q) + Len(u)
  OBVIOUS
<1>3. (q \o u)[Len(q) + i] = u[i]
  BY <1>1
<1>4. Len((q \o u) \o r) = Len(q) + Len(u) + Len(r)
  BY <1>2
<1>5. ((q \o u) \o r)[Len(q) + i] = (q \o u)[Len(q) + i]
  BY <1>1, <1>2, SMTT(30)
<1>6. QED
  BY <1>1, <1>3, <1>4, <1>5

\* A stop that is under way reaches the coroutine: every step but the start of
\* a new session leaves it under way.
LEMMA StopGoesOn ==
  ASSUME OwnerInv, Referred, StopUnderWay, [Next]_vars, taskState # "STOPPED"
  PROVE  StopUnderWay'
<1>0. TypeOK /\ queue \in Seq(Tasks)
  BY Zenon DEF OwnerInv, TypeOK
<1>1. \A j \in Owners' : j \in Owners /\ (job[j] \in EndingSteps => job'[j] \in EndingSteps)
  BY <1>0, OwnersShrink, Zenon
<1>2. CASE Owners \subseteq cancelled \cup {j \in Jobs : job[j] \in EndingSteps}
  BY <1>1, <1>2, CancelledGrows, Zenon DEF StopUnderWay, Owners
<1>3. CASE CancelTask
  <2>1. Owners \subseteq {tunnelJob} /\ UNCHANGED job /\ cancelled' = cancelled \cup ({tunnelJob} \cap Jobs)
    BY <1>3, Zenon DEF CancelTask, Take, MainIdle, Referred
  <2>2. QED
    BY <2>1, Zenon DEF StopUnderWay, Owners
<1>4. CASE OnDestroy
  BY <1>4, Zenon DEF OnDestroy, StopUnderWay, Owners, OwnerSteps
<1>5. ASSUME NEW i \in 1..Len(queue), queue[i].kind \in StopTasks, ~CancelTask, ~OnDestroy
      PROVE  StopUnderWay'
  BY <1>0, <1>5, StopTasksStay, Zenon DEF StopUnderWay
<1>6. ASSUME NEW t \in Threads, pc[t] = "post" PROVE StopUnderWay'
  <2>1. CASE pc'[t] = "post"
    BY <2>1, Zenon DEF StopUnderWay
  <2>2. CASE pc'[t] # "post"
    <3>1. StopTunnelPost(t)
      BY <1>0, <1>6, <2>2, StopTunnelAt, Zenon DEF StopTunnel, StopTunnelCas1, StopTunnelCas2, At
    <3> DEFINE last == IF err[t] = NoError THEN <<>> ELSE <<Update(err[t])>>
               us == <<Update("STOPPING"), Task("cancel", NoError)>>
    <3>2. queue' = (queue \o us) \o last
      BY <3>1, Zenon DEF StopTunnelPost, Posts
    <3>3. us \in Seq(Tasks)
      BY TasksTyped DEF Updates
    <3>4. last \in Seq(Tasks)
      <4>1. err[t] # NoError => Update(err[t]) \in Tasks
        BY <1>0, TasksTyped, Zenon DEF TypeOK, Updates
      <4>2. QED
        BY <4>1, SMTT(30)
    <3>5. us[2].kind \in StopTasks /\ Len(us) = 2
      BY Zenon DEF Task, StopTasks
    <3> HIDE DEF last, us
    <3>6. Len(queue) + 2 \in 1..Len(queue') /\ queue'[Len(queue) + 2] = us[2]
      <4>1. 2 \in 1..Len(us)
        BY <3>5
      <4>2. \A i \in 1..Len(us) : /\ Len(queue) + i \in 1..Len((queue \o us) \o last)
                                 /\ ((queue \o us) \o last)[Len(queue) + i] = us[i]
        BY <1>0, <3>3, <3>4, PostedInside, SMTT(30)
      <4>3. QED
        BY <3>2, <4>1, <4>2, Zenon
    <3>7. QED
      BY <3>5, <3>6, Zenon DEF StopUnderWay
  <2>3. QED
    BY <2>1, <2>2
<1>7. QED
  BY <1>2, <1>3, <1>4, <1>5, <1>6, Zenon DEF StopUnderWay

\* The task state and the flag: who may change them, and to what.
LEMMA StateSteps ==
  ASSUME TypeOK, [Next]_vars
  PROVE  /\ taskState' = "STOPPING" /\ taskState # "STOPPING" => \E t \in Threads : pc'[t] = "post"
         /\ taskState' = "STARTING" /\ taskState # "STARTING" => runningFlag'
         /\ runningFlag /\ ~runningFlag' => taskState' = taskState /\ pc'["main"] = "cas1"
<1> USE DEF Goto
<1>0. pc \in [Threads -> PcStates] /\ {"main", "core", "binder"} = Threads
  BY Zenon DEF TypeOK, Threads
<1>1. ASSUME UNCHANGED <<taskState, runningFlag>>
      PROVE  /\ taskState' = "STOPPING" /\ taskState # "STOPPING" => \E t \in Threads : pc'[t] = "post"
             /\ taskState' = "STARTING" /\ taskState # "STARTING" => runningFlag'
             /\ runningFlag /\ ~runningFlag' => taskState' = taskState /\ pc'["main"] = "cas1"
  BY <1>1, Zenon
<1>2. CASE SendIntent \/ Bind \/ SendDestroy \/ UpdateTask \/ CancelTask \/ OnDestroy
  BY <1>1, <1>2, Zenon DEF SendIntent, Bind, SendDestroy, UpdateTask, CancelTask, OnDestroy
<1>3. CASE HandleStopAction
  <2>1. UNCHANGED taskState
    BY <1>3, Zenon DEF HandleStopAction
  <2>2. CASE pc'["main"] = "cas1"
    BY <2>1, <2>2, Zenon
  <2>3. CASE UNCHANGED runningFlag
    BY <1>1, <2>1, <2>3, Zenon
  <2>4. QED
    BY <1>0, <1>3, <2>2, <2>3, Zenon DEF HandleStopAction
<1>4. CASE HandleStartAction
  <2>1. CASE taskState' = "STARTING" /\ runningFlag'
    BY <2>1, Zenon
  <2>2. CASE UNCHANGED <<taskState, runningFlag>>
    BY <1>1, <2>2, Zenon
  <2>3. QED
    BY <1>4, <2>1, <2>2, Zenon DEF HandleStartAction
<1>5. CASE HandleParamsChangedAction \/ HandleUnknownAction
  <2>1. UNCHANGED <<taskState, runningFlag>>
    BY <1>5, Zenon DEF HandleParamsChangedAction, HandleUnknownAction
  <2>2. QED
    BY <1>1, <2>1, Zenon
<1>6. CASE AssignJob \/ RestartTunnel \/ RestartPsiphon
  <2>1. UNCHANGED <<taskState, runningFlag>>
    BY <1>6, Zenon DEF AssignJob, RestartTunnel, RestartPsiphon
  <2>2. QED
    BY <1>1, <2>1, Zenon
<1>7. ASSUME NEW t \in Threads, StopTunnel(t)
      PROVE  /\ taskState' = "STOPPING" /\ taskState # "STOPPING" => \E s \in Threads : pc'[s] = "post"
             /\ taskState' = "STARTING" /\ taskState # "STARTING" => runningFlag'
             /\ runningFlag /\ ~runningFlag' => taskState' = taskState /\ pc'["main"] = "cas1"
  <2>1. UNCHANGED runningFlag
    BY <1>7, Zenon DEF StopTunnel, StopTunnelCas1, StopTunnelCas2, StopTunnelPost
  <2>2. CASE UNCHANGED taskState
    BY <1>1, <2>1, <2>2, Zenon
  <2>3. CASE taskState' = "STOPPING" /\ pc'[t] = "post"
    BY <1>7, <2>1, <2>3, Zenon
  <2>4. (UNCHANGED taskState) \/ (taskState' = "STOPPING" /\ pc'[t] = "post")
    BY <1>0, <1>7, Zenon DEF StopTunnel, StopTunnelCas1, StopTunnelCas2, StopTunnelPost, StopFrom
  <2>5. QED
    BY <2>2, <2>3, <2>4, Zenon
<1>8. ASSUME NEW j \in Jobs, RunJob(j)
      PROVE  /\ taskState' = "STOPPING" /\ taskState # "STOPPING" => \E t \in Threads : pc'[t] = "post"
             /\ taskState' = "STARTING" /\ taskState # "STARTING" => runningFlag'
             /\ runningFlag /\ ~runningFlag' => taskState' = taskState /\ pc'["main"] = "cas1"
  <2>1. CASE JobSetRunning(j)
    BY <2>1, Zenon DEF JobSetRunning
  <2>2. CASE JobSetStopped(j)
    BY <2>2, Zenon DEF JobSetStopped
  <2>3. CASE Dispatch(j) \/ JobBegin(j) \/ JobEstablish(j) \/ JobStartCore(j) \/ JobResume(j)
    <3>1. UNCHANGED <<taskState, runningFlag>>
      BY <2>3, Zenon DEF Dispatch, JobBegin, JobEstablish, JobStartCore, JobResume
    <3>2. QED
      BY <1>1, <3>1, ZenonT(30)
  <2>4. CASE JobTeardown(j) \/ JobStopCore(j) \/ JobPostStopped(j) \/ JobClear(j) \/ JobStopForeground(j)
    <3>1. UNCHANGED <<taskState, runningFlag>>
      BY <2>4, Zenon DEF JobTeardown, JobStopCore, JobPostStopped, JobClear, JobStopForeground
    <3>2. QED
      BY <1>1, <3>1, Zenon
  <2>5. QED
    BY <1>8, <2>1, <2>2, <2>3, <2>4, Zenon DEF RunJob
<1>9. CASE CoreCalls \/ OnConnectingPost \/ OnConnectedRoute
  <2>1. ASSUME OnConnecting \/ OnListeningSocksProxyPort \/ OnConnected
        PROVE  UNCHANGED <<taskState, runningFlag>>
    BY <2>1, Zenon DEF OnConnecting, OnListeningSocksProxyPort, OnConnected
  <2>2. ASSUME OnProxyPortInUse \/ OnInfo
        PROVE  UNCHANGED <<taskState, runningFlag>>
    BY <2>2, Zenon DEF OnProxyPortInUse, OnInfo
  <2>3. ASSUME OnConnectingPost \/ OnConnectedRoute
        PROVE  UNCHANGED <<taskState, runningFlag>>
    BY <2>3, Zenon DEF OnConnectingPost, OnConnectedRoute
  <2>4. QED
    BY <1>1, <1>9, <2>1, <2>2, <2>3, Zenon DEF CoreCalls
<1>10. CASE OnRevoke \/ OnRevokeCheck
  <2>1. UNCHANGED <<taskState, runningFlag>>
    BY <1>10, Zenon DEF OnRevoke, OnRevokeCheck
  <2>2. QED
    BY <1>1, <2>1, Zenon
<1>11. CASE Rest \/ UNCHANGED vars
  BY <1>1, <1>11, Zenon DEF Rest, vars
<1>12. CASE OnStartCommand \/ MainForeground
  BY <1>1, <1>12, IntentSteps, Zenon
<1>13. QED
  BY <1>2, <1>3, <1>4, <1>5, <1>6, <1>7, <1>8, <1>9, <1>10, <1>11, <1>12, Zenon
     DEF Next, Main, MainTask, CoreContinues, BinderContinues, Threads

\* Every step keeps the flag invariant, if the stop is not overtaken.
LEMMA FlagStep ==
  ASSUME OwnerInv, Referred, FlagInv, [Next]_vars, ~StopOvertaken
  PROVE  FlagInv'
<1>0. TypeOK /\ "main" \in Threads
  BY DEF OwnerInv, Threads
<1>1. CASE taskState' = "STOPPING"
  <2>1. CASE taskState = "STOPPING"
    BY <1>1, <2>1, StopGoesOn, Zenon DEF FlagInv
  <2>2. CASE taskState # "STOPPING"
    BY <1>0, <1>1, <2>2, StateSteps, Zenon DEF FlagInv, StopUnderWay
  <2>3. QED
    BY <2>1, <2>2
<1>2. ASSUME taskState' = "RUNNING", ~runningFlag'
      PROVE  StopUnderWay' \/ pc'["main"] = "cas1"
  <2>1. CASE runningFlag
    BY <1>0, <1>2, <2>1, StateSteps, Zenon
  <2>2. CASE ~runningFlag /\ taskState = "RUNNING"
    <3>1. CASE StopUnderWay
      BY <2>2, <3>1, StopGoesOn, SMTT(30)
    <3>2. CASE pc["main"] = "cas1" /\ pc'["main"] # "cas1"
      <4>1. StopTunnelCas1("main")
        BY <1>0, <3>2, StopTunnelAt, Zenon DEF StopTunnel, StopTunnelCas2, StopTunnelPost, At
      <4>2. QED
        BY <1>2, <2>2, <4>1, Zenon DEF StopTunnelCas1, StopFrom
    <3>3. QED
      BY <2>2, <3>1, <3>2, Zenon DEF FlagInv
  <2>3. CASE ~runningFlag /\ taskState # "RUNNING"
    <3>1. PICK j \in Jobs : JobSetRunning(j)
      BY <1>2, <2>3, RunningSteps
    <3>2. job[j] = "setRunning" /\ UNCHANGED pc
      BY <3>1, Zenon DEF JobSetRunning, JobGoto
    <3>3. taskState # "STOPPED"
      BY <3>2 DEF OwnerInv, OneOwner, Owners, OwnerSteps
    <3>4. CASE StopUnderWay
      BY <3>3, <3>4, StopGoesOn
    <3>5. CASE ~StopUnderWay
      <4>1. taskState = "STARTING"
        BY <1>0, <2>3, <3>3, <3>5, Zenon DEF FlagInv, TypeOK, TaskStates
      <4>2. pc["main"] \in {"cas1", "cas2"}
        BY <2>3, <3>5, <4>1, Zenon DEF FlagInv
      <4>3. pc["main"] # "cas2"
        BY <3>1, <4>1 DEF StopOvertaken, At
      <4>4. QED
        BY <3>2, <4>2, <4>3
    <3>6. QED
      BY <3>4, <3>5
  <2>4. QED
    BY <2>1, <2>2, <2>3
<1>3. ASSUME taskState' = "STARTING", ~runningFlag'
      PROVE  StopUnderWay' \/ pc'["main"] \in {"cas1", "cas2"}
  <2>1. CASE runningFlag
    BY <1>0, <1>3, <2>1, StateSteps, Zenon
  <2>2. taskState = "STARTING"
    BY <1>0, <1>3, StateSteps, Zenon
  <2>3. CASE ~runningFlag
    <3>1. CASE StopUnderWay
      BY <2>2, <3>1, StopGoesOn, SMTT(30)
    <3>2. CASE pc["main"] = "cas1" /\ pc'["main"] # "cas1"
      <4>1. StopTunnelCas1("main")
        BY <1>0, <3>2, StopTunnelAt DEF StopTunnel, StopTunnelCas2, StopTunnelPost, At
      <4>2. QED
        BY <1>0, <1>3, <2>2, <4>1, Zenon DEF StopTunnelCas1, StopFrom, Goto, TypeOK
    <3>3. CASE pc["main"] = "cas2" /\ pc'["main"] # "cas2"
      <4>1. StopTunnelCas2("main")
        BY <1>0, <3>3, StopTunnelAt, Zenon DEF StopTunnel, StopTunnelCas1, StopTunnelPost, At
      <4>2. QED
        BY <1>3, <2>2, <4>1, Zenon DEF StopTunnelCas2, StopFrom
    <3>4. QED
      BY <2>2, <2>3, <3>1, <3>2, <3>3, Zenon DEF FlagInv
  <2>4. QED
    BY <2>1, <2>3
<1>4. QED
  BY <1>1, <1>2, <1>3, Zenon DEF FlagInv

\* A service in STOPPING is not forgotten: the cancellation of its coroutine is
\* queued or about to be queued, or the coroutine has it, is in its finally
\* block or has ended (StopTriggersCleanup is about one that ends without its
\* finally block).  The exception is an ended coroutine that clears the
\* reference to the next one (tunnelJob = null after a new start).
THEOREM StoppingServed ==
  Spec /\ [][~ReferenceLost]_vars => [](taskState = "STOPPING" => StopUnderWay)
<1> DEFINE Served == taskState = "STOPPING" => StopUnderWay
<1>1. Init => Referred /\ Served
  BY Zenon DEF Init, Referred, Owners, OwnerSteps
<1>2. OwnerInv /\ Referred /\ Served /\ [Next]_vars /\ [~ReferenceLost]_vars => Referred' /\ Served'
  <2> SUFFICES ASSUME OwnerInv, Referred, Served, [Next]_vars, [~ReferenceLost]_vars
               PROVE  Referred' /\ Served'
    OBVIOUS
  <2>1. CASE UNCHANGED vars
    BY <2>1, Zenon DEF vars, Referred, StopUnderWay, Owners
  <2>2. CASE ~ReferenceLost
    <3>1. ASSUME taskState = "STOPPING" PROVE StopUnderWay'
      BY <3>1, StopGoesOn, SMTT(30)
    <3>2. ASSUME taskState # "STOPPING", taskState' = "STOPPING" PROVE StopUnderWay'
      BY <3>2, StateSteps, Zenon DEF OwnerInv, StopUnderWay
    <3>3. QED
      BY <2>2, <3>1, <3>2, ReferredStep
  <2>3. QED
    BY <2>1, <2>2, Zenon
<1> HIDE DEF Served
<1>3. Served <=> (taskState = "STOPPING" => StopUnderWay)
  BY Zenon DEF Served
<1>4. QED
  BY <1>1, <1>2, <1>3, OwnerInvHolds, PTL DEF Spec

\* A cleared flag means a stop that is on its way in every behaviour in which
\* the coroutine does not set RUNNING between the two compareAndSet of
\* stopTunnel and no ended coroutine clears the reference to the next one:
\* these two windows are all that FlagMeansStopped fails for.
THEOREM FlagMeansStoppedUnlessOvertaken ==
  Spec /\ [][~StopOvertaken /\ ~ReferenceLost]_vars => []FlagMeansStopped
<1>1. Init => Referred /\ FlagInv
  BY Zenon DEF Init, Referred, FlagInv, Owners, OwnerSteps
<1>2. /\ OwnerInv /\ Referred /\ FlagInv /\ [Next]_vars
      /\ [~StopOvertaken /\ ~ReferenceLost]_vars
      => Referred' /\ FlagInv'
  <2> SUFFICES ASSUME OwnerInv, Referred, FlagInv, [Next]_vars,
                      [~StopOvertaken /\ ~ReferenceLost]_vars
               PROVE  Referred' /\ FlagInv'
    OBVIOUS
  <2>1. CASE UNCHANGED vars
    BY <2>1, Zenon DEF vars, Referred, FlagInv, StopUnderWay, Owners
  <2>2. CASE ~StopOvertaken /\ ~ReferenceLost
    BY <2>2, ReferredStep, FlagStep
  <2>3. QED
    BY <2>1, <2>2
<1>3. FlagInv => FlagMeansStopped
  <2> SUFFICES ASSUME FlagInv, MainIdle, ~runningFlag, taskState \in {"STARTING", "RUNNING"}
               PROVE  StopUnderWay
    BY Zenon DEF FlagMeansStopped, StopUnderWay, StopTasks, EndingSteps, At
  <2>1. QED
    BY Zenon DEF FlagInv, MainIdle, At
<1>4. QED
  BY <1>1, <1>2, <1>3, OwnerInvHolds, PTL DEF Spec

=============================================================================
