----------------------------- MODULE ClientFeed -----------------------------
(***************************************************************************)
(* How the apps hear of the service's state: the service's list of clients *)
(* (PsiphonVpnService), a client's connection to it (PsiphonComms) and the *)
(* life cycle that drives that connection (PsiphonVpnHelper).  The service *)
(* lives in a process of its own, which may die and be created again.      *)
(*                                                                         *)
(* A state is known by its number; a new service starts with a new one.    *)
(* Calls between the processes are synchronous: an app's main thread that  *)
(* calls registerClient is busy until the service has answered.            *)
(***************************************************************************)
EXTENDS Integers

CONSTANTS
    Clients,
    MaxState,   \* bound: states of the service
    MaxEnds     \* bound: ends of the service's process

ASSUME BoundsAssumption == MaxState \in Nat /\ MaxEnds \in Nat

VARIABLES
    svc,    \* the service: up, state (currentPsiphonState), clients, and todo,
            \* the clients that notifyAllClients still has to call
    app,    \* the clients, see App
    ends
vars == <<svc, app, ends>>

Events == {"unknown", "stopped", "register", "notify"}
App == [
    life : {"live", "cleaned", "dead"},
    stopped : BOOLEAN, flag : BOOLEAN,          \* isStopped, isServiceBound
    service : BOOLEAN,                          \* psiphonService # null
    bound : BOOLEAN,                            \* Android has the binding
    conn : {"none", "connected", "lost"},       \* and has told it or has yet to tell
    at : {"idle", "put", "get", "reply", "unregister", "unbind"}, \* its main thread
    read : 0..MaxState,                         \* the state registerClient has read
    last : 0..MaxState, by : Events,            \* what the listener got last, and how
    newest : 0..MaxState,                       \* the newest it was ever given
    died : BOOLEAN]                             \* the service died in this binding

NewApp ==
    [life |-> "live", stopped |-> TRUE, flag |-> FALSE, service |-> FALSE,
     bound |-> FALSE, conn |-> "none", at |-> "idle", read |-> 0,
     last |-> 0, by |-> "unknown", newest |-> 0, died |-> FALSE]

Init ==
    /\ svc = [up |-> FALSE, state |-> 0, clients |-> {}, todo |-> {}]
    /\ app = [c \in Clients |-> NewApp]
    /\ ends = 0

Idle(c) == app[c].life # "dead" /\ app[c].at = "idle"
Calling(c) == app[c].at \in {"put", "get", "reply"}    \* registerClient
Newer(i, j) == IF i > j THEN i ELSE j
-----------------------------------------------------------------------------
(* The app: PsiphonVpnHelper and PsiphonComms.                             *)

\* A binding that was refused leaves isServiceBound set.
MutBindService(a, result) ==
    IF a.flag THEN a
    ELSE IF result THEN [a EXCEPT !.flag = TRUE, !.bound = TRUE]
    ELSE [a EXCEPT !.flag = TRUE, !.by = "stopped"]

BindService(a, result) ==
    IF a.flag THEN a
    ELSE IF result THEN [a EXCEPT !.flag = TRUE, !.bound = TRUE]
    ELSE [a EXCEPT !.by = "stopped"]

\* onStart, which calls PsiphonComms.start.
OnStart(c) ==
    /\ Idle(c) /\ app[c].life = "live" /\ app[c].stopped
    /\ \E result \in BOOLEAN :
         app' = [app EXCEPT ![c] = BindService([@ EXCEPT !.stopped = FALSE], result)]
    /\ UNCHANGED <<svc, ends>>

\* PsiphonComms.stop, up to the call of unregisterClient.
StopBegins(a) ==
    [a EXCEPT !.stopped = TRUE, !.by = "unknown", !.at = IF a.service THEN "unregister" ELSE "unbind"]

OnStop(c) ==
    /\ Idle(c) /\ app[c].life = "live" /\ ~app[c].stopped
    /\ app' = [app EXCEPT ![c] = StopBegins(@)]
    /\ UNCHANGED <<svc, ends>>

\* onDestroy, or the app calls cleanup.
Cleanup(c) ==
    /\ Idle(c) /\ app[c].life = "live"
    /\ app' = [app EXCEPT ![c] = [StopBegins(@) EXCEPT !.life = "cleaned"]]
    /\ UNCHANGED <<svc, ends>>

\* unregisterClient, or a RemoteException if the service is gone.
UnregisterClient(c) ==
    /\ app[c].at = "unregister" /\ app[c].life # "dead"
    /\ svc' = [svc EXCEPT !.clients = @ \ {c}]
    /\ app' = [app EXCEPT ![c].at = "unbind"]
    /\ UNCHANGED ends

\* The client is forgotten but not unbound.
MutUnbind(c) ==
    /\ app[c].at = "unbind" /\ app[c].life # "dead"
    /\ app' = [app EXCEPT ![c] = [@ EXCEPT !.at = "idle", !.service = FALSE, !.flag = FALSE]]
    /\ UNCHANGED <<svc, ends>>

\* PsiphonComms.stop, the rest.
Unbind(c) ==
    /\ app[c].at = "unbind" /\ app[c].life # "dead"
    /\ app' = [app EXCEPT ![c] =
         LET a == [@ EXCEPT !.at = "idle", !.service = FALSE]
         IN  IF a.flag
             THEN [a EXCEPT !.flag = FALSE, !.bound = FALSE, !.conn = "none", !.died = FALSE]
             ELSE a]
    /\ UNCHANGED <<svc, ends>>

\* onServiceConnected, which Android calls once for a service that it can reach.
OnServiceConnected(c) ==
    /\ Idle(c) /\ svc.up /\ app[c].bound /\ app[c].conn = "none"
    /\ app' = [app EXCEPT ![c] = [@ EXCEPT !.conn = "connected", !.service = TRUE, !.at = "put"]]
    /\ UNCHANGED <<svc, ends>>

\* The binding is given up when the service dies.
MutOnServiceDisconnected(c) ==
    /\ Idle(c) /\ app[c].conn = "lost"
    /\ app' = [app EXCEPT ![c] = [@ EXCEPT !.conn = "none", !.service = FALSE, !.bound = FALSE,
                                           !.by = "stopped", !.flag = FALSE]]
    /\ UNCHANGED <<svc, ends>>

\* onServiceDisconnected: the service's process has died.
OnServiceDisconnected(c) ==
    /\ Idle(c) /\ app[c].conn = "lost"
    /\ app' = [app EXCEPT ![c] = [@ EXCEPT !.conn = "none", !.service = FALSE,
                                           !.by = "stopped", !.flag = FALSE, !.died = TRUE]]
    /\ UNCHANGED <<svc, ends>>
-----------------------------------------------------------------------------
(* The service: registerClient on a binder thread, and the main thread.    *)

\* registerClient: a client that is listed already is ignored.
RegisterPut(c) ==
    /\ app[c].at = "put" /\ svc.up
    /\ app' = [app EXCEPT ![c].at = IF c \in svc.clients THEN "idle" ELSE "get"]
    /\ svc' = [svc EXCEPT !.clients = @ \union {c}]
    /\ UNCHANGED ends

RegisterGet(c) ==
    /\ app[c].at = "get" /\ svc.up
    /\ app' = [app EXCEPT ![c] = [@ EXCEPT !.at = "reply", !.read = svc.state]]
    /\ UNCHANGED <<svc, ends>>

\* notifyClient, of the state s: a client that is dead leaves the list.
NotifyClient(c, s, how, todo) ==
    LET a == IF how = "register" THEN [app[c] EXCEPT !.at = "idle", !.read = 0] ELSE app[c]
    IN  IF a.life = "dead"
        THEN /\ svc' = [svc EXCEPT !.clients = @ \ {c}, !.todo = todo]
             /\ app' = [app EXCEPT ![c] = a]
        ELSE /\ svc' = [svc EXCEPT !.todo = todo]
             /\ app' = [app EXCEPT ![c] = [a EXCEPT !.last = s, !.by = how, !.newest = Newer(@, s)]]

RegisterReply(c) ==
    /\ app[c].at = "reply" /\ svc.up
    /\ NotifyClient(c, app[c].read, "register", svc.todo)
    /\ UNCHANGED ends

\* A client whose registration is under way is left out.
MutUpdatePsiphonState ==
    /\ svc.up /\ svc.todo = {} /\ svc.state < MaxState
    /\ svc' = [svc EXCEPT !.state = @ + 1, !.todo = {c \in svc.clients : ~Calling(c)}]
    /\ UNCHANGED <<app, ends>>

\* updatePsiphonState, posted to the main thread.
UpdatePsiphonState ==
    /\ svc.up /\ svc.todo = {} /\ svc.state < MaxState
    /\ svc' = [svc EXCEPT !.state = @ + 1, !.todo = svc.clients]
    /\ UNCHANGED <<app, ends>>

\* The clients are given the state from before the update.
MutNotifyNext(c) ==
    /\ svc.up /\ c \in svc.todo
    /\ NotifyClient(c, svc.state - 1, "notify", svc.todo \ {c})
    /\ UNCHANGED ends

\* notifyAllClients: the next of the copied list.
NotifyNext(c) ==
    /\ svc.up /\ c \in svc.todo
    /\ NotifyClient(c, svc.state, "notify", svc.todo \ {c})
    /\ UNCHANGED ends
-----------------------------------------------------------------------------
(* The processes.                                                          *)

ServiceCreated ==
    /\ ~svc.up
    /\ svc' = [svc EXCEPT !.up = TRUE]
    /\ UNCHANGED <<app, ends>>

ServiceEnds ==
    /\ svc.up /\ ends < MaxEnds /\ svc.state < MaxState
    /\ svc' = [up |-> FALSE, state |-> svc.state + 1, clients |-> {}, todo |-> {}]
    /\ app' = [c \in Clients |->
         [app[c] EXCEPT !.at = IF Calling(c) THEN "idle" ELSE @,
                        !.conn = IF @ = "connected" THEN "lost" ELSE @]]
    /\ ends' = ends + 1

AppDies(c) ==
    /\ app[c].life # "dead"
    /\ app' = [app EXCEPT ![c] =
         [NewApp EXCEPT !.life = "dead", !.at = IF Calling(c) THEN app[c].at ELSE "idle"]]
    /\ UNCHANGED <<svc, ends>>

MainThread(c) == OnServiceConnected(c) \/ OnServiceDisconnected(c) \/ UnregisterClient(c) \/ Unbind(c)
Binder(c) == RegisterPut(c) \/ RegisterGet(c) \/ RegisterReply(c)

Next ==
    \/ \E c \in Clients :
         \/ OnStart(c) \/ OnStop(c) \/ Cleanup(c) \/ AppDies(c)
         \/ MainThread(c) \/ Binder(c) \/ NotifyNext(c)
    \/ UpdatePsiphonState \/ ServiceCreated \/ ServiceEnds

Spec == Init /\ [][Next]_vars

\* Every thread takes its steps, and Android creates a service that an app is
\* bound to with BIND_AUTO_CREATE.
FairSpec ==
    /\ Spec /\ WF_vars(ServiceCreated /\ \E c \in Clients : app[c].bound)
    /\ \A c \in Clients : WF_vars(MainThread(c)) /\ WF_vars(Binder(c)) /\ WF_vars(NotifyNext(c))
-----------------------------------------------------------------------------
\* The types of the variables; unregisterClient is called only on a service.
TypeOK ==
    /\ svc \in [up : BOOLEAN, state : 0..MaxState, clients : SUBSET Clients, todo : SUBSET Clients]
    /\ app \in [Clients -> App] /\ ends \in 0..MaxEnds
    /\ \A c \in Clients : app[c].at = "unregister" => app[c].service

Settled(c) == svc.up /\ c \in svc.clients /\ svc.todo = {} /\ Idle(c)

\* No client misses a state: whoever is registered has been given the current
\* one, by the answer to its registration or by a notification, in whatever
\* order registerClient and updatePsiphonState meet.
NoStateMissed == \A c \in Clients : Settled(c) => app[c].newest = svc.state

\* A registered client is left with an older state only if registerClient's
\* answer, read before an update, came in after the notification of that
\* update: the main thread itself never leaves one behind.
StaleOnlyFromRegister ==
    \A c \in Clients : Settled(c) /\ app[c].by = "notify" => app[c].last = svc.state

\* A client that is connected is on the service's list once registerClient has
\* returned, so it hears of every update; only in the binding that the death of
\* the service has left (see StopReleases) can it be connected and not listed:
\* start() binds once more, but Android has told of this connection before.
ListedWhileConnected ==
    \A c \in Clients : Idle(c) /\ app[c].conn = "connected" /\ ~app[c].died => c \in svc.clients

\* isServiceBound is set only while there is a binding, so that unbindService
\* never throws.
FlagMeansBinding == \A c \in Clients : app[c].flag /\ app[c].life # "dead" => app[c].bound

\* After PsiphonComms.stop neither the service nor Android holds the client,
\* unless the service's process has died in this binding: onServiceDisconnected
\* clears isServiceBound though the binding is still there.
StopReleases ==
    \A c \in Clients : Idle(c) /\ app[c].stopped /\ ~app[c].died =>
      ~app[c].bound /\ ~app[c].service /\ c \notin svc.clients

\* A started client that waits for the service, for the first time or after
\* the death of its process, gets to be registered unless it is stopped.
ConnectsAgain ==
    \A c \in Clients :
      (~app[c].stopped /\ app[c].bound /\ app[c].conn # "connected")
        ~> (c \in svc.clients \/ app[c].stopped \/ app[c].life = "dead")
=============================================================================
