--------------------------- MODULE WindowsBridge ----------------------------
(***************************************************************************)
(* From a request of Dart to the core and back, on Windows: the bridge     *)
(* with its queue and its one worker (vpn_service_bridge.cpp), the client  *)
(* of the service with its calls and its reader thread (service_client.cpp)*)
(* the pipe, and the service's thread that answers it (pipe_server.cpp,    *)
(* service_main.cpp).  Behind the service, and in the app's own process    *)
(* when there is no service, stands a controller, of which only the state  *)
(* of its core is kept; CoreController says how it gets there.             *)
(*                                                                         *)
(* The worker blocks in every call, so at most one call is pending.  The   *)
(* settings of the system proxy are the user's, or ChrNet's with or without *)
(* a record of what to restore; ProxySettings has them in full.            *)
(***************************************************************************)
EXTENDS Naturals, Sequences

CONSTANTS
  Requests,      \* the methods Dart calls, with their mode
  MaxRequests,   \* bound on the requests
  MaxFaults      \* bound on what goes wrong: calls given up, cores that die or
                 \* are rebuilt, ends of the service, failures to set the proxy
                 \* or to restore it

Backends == {"service", "local"}
Modes == {"tunnel", "proxy"}
Methods == {"connect", "disconnect", "status"}

ASSUME BridgeAssumption ==
  /\ Requests \subseteq [method : Methods, mode : Modes]
  /\ MaxRequests \in Nat /\ MaxFaults \in Nat

VARIABLES
  app,          \* up, ending (the session of Windows), destroying, closed
  asked,        \* requests sent by Dart; they are numbered from 1
  posts,        \* pending_tasks_ of the platform thread
  answers,      \* how often each request was answered
  queue,        \* worker_queue_
  task, wpc,    \* the task of the worker and its place in it; a connect
                \* has a target, the backend it starts
  active,       \* active_, or "none"
  proxy,        \* the system proxy: user, chrnet, or orphaned: ChrNet's, with
                \* no backup pending and proxy_enabled_ false
  connected,    \* connected_
  reader,       \* the reader thread: none, reading, leaving, done
  call,         \* the call: its id, what it is for, what it returned
  reply,        \* Pending: done and response
  nextId,       \* next_id_
  toService, toApp,  \* the two directions of the pipe
  broken,       \* the service's end of the pipe is gone
  svc,          \* the service accepts connections
  handler,      \* the request its client thread is handling
  core,         \* the core of each backend's controller
  missed,       \* history: why the bridge may not know of a core
  stuck,        \* history: why the proxy is left: no, reconnect, restore
  faults

dartVars == <<app, asked, posts, answers>>
workerVars == <<queue, task, wpc, active, proxy>>
linkVars == <<connected, reader, broken, toService, toApp>>
callVars == <<call, reply, nextId>>
serviceVars == <<svc, handler, core>>
ghosts == <<missed, stuck>>
vars == <<dartVars, workerVars, linkVars, callVars, serviceVars, ghosts, faults>>

-----------------------------------------------------------------------------
(* Records.                                                                *)

NoCall == [id |-> 0, why |-> "none", ok |-> FALSE]
NoHandler == [id |-> 0, why |-> "none", req |-> 0, done |-> FALSE, ok |-> FALSE]
NoReply == [type |-> "none", id |-> 0, req |-> 0, ok |-> FALSE]
Released == [type |-> "released", id |-> 0, req |-> 0, ok |-> FALSE]
Answer(h) == [type |-> "answer", id |-> h.id, req |-> h.req, ok |-> h.ok]
LostEvent == [type |-> "lost", id |-> 0, req |-> 0, ok |-> FALSE]
Task(kind, req, mode) ==
  [kind |-> kind, req |-> req, mode |-> mode, target |-> "none"]
Sync == Task("sync", 0, "proxy")
Forget == Task("forget", 0, "proxy")
Exiting == Task("exit", 0, "proxy")

Running == {"up", "rebuilding"}
Other(b) == IF b = "service" THEN "local" ELSE "service"

-----------------------------------------------------------------------------
(* The platform thread.                                                    *)

\* HandleMethodCall: what can block is queued for the worker.
Ask(r) ==
  /\ app = "up" /\ asked < MaxRequests
  /\ asked' = asked + 1
  /\ queue' = Append(queue, Task(r.method, asked + 1, r.mode))
  /\ UNCHANGED <<app, posts, answers, task, wpc, active, proxy, linkVars,
                 callVars, serviceVars, ghosts, faults>>

\* RunPendingTasks; a loss (request 0) goes to Dart's onCoreStopped.
Deliver ==
  /\ app = "up" /\ posts # <<>>
  /\ posts' = Tail(posts)
  /\ answers' = [i \in DOMAIN answers |->
       IF i = Head(posts) THEN answers[i] + 1 ELSE answers[i]]
  /\ UNCHANGED <<app, asked, workerVars, linkVars, callVars, serviceVars,
                 ghosts, faults>>

\* WM_ENDSESSION: ShutdownConnection runs on the platform thread, and what
\* is posted is not run any more.
EndSession ==
  /\ app = "up"
  /\ app' = "ending" /\ posts' = <<>>
  /\ UNCHANGED <<asked, answers, workerVars, linkVars, callVars, serviceVars,
                 ghosts, faults>>

\* OnDestroy drops what was posted, then destroys the bridge.
Destroy ==
  /\ app = "up"
  /\ app' = "destroying" /\ posts' = <<>>
  /\ UNCHANGED <<asked, answers, workerVars, linkVars, callVars, serviceVars,
                 ghosts, faults>>

\* alive_, which the destructor clears.
Alive == app \in {"up", "ending"}
Post(req) == posts' = IF app = "up" THEN Append(posts, req) ELSE posts

\* RunOnWorker: dropped once the worker has been told to stop.
RunForget == queue' = IF app = "up" THEN Append(queue, Forget) ELSE queue
OnBackendStatus == RunForget /\ Post(0)

-----------------------------------------------------------------------------
(* EnsureConnected, from the worker.                                       *)

\* CloseConnection joins the reader of the connection before.
Joinable == reader \in {"none", "done"}

\* ok: there is a connection, the old one or a new one.
EnsureConnected(ok) ==
  \/ connected /\ ok /\ UNCHANGED linkVars
  \/ /\ ~connected /\ Joinable
     /\ ok = (svc = "up")
     /\ connected' = ok /\ broken' = FALSE
     /\ reader' = IF ok THEN "reading" ELSE "none"
     /\ toService' = <<>> /\ toApp' = <<>>

-----------------------------------------------------------------------------
(* The worker: one task at a time.                                         *)

Now(place) == wpc' = place /\ UNCHANGED call

\* A method of the backend b is called: over the pipe, or directly.
Invoke(b, why) ==
  /\ wpc' = IF b = "service" THEN "dial" ELSE "local"
  /\ call' = [id |-> 0, why |-> why, ok |-> FALSE]

Finish == wpc' = "idle" /\ task' = Sync /\ call' = NoCall
\* The task leaves an answer for Dart: a result or an error.
Done == Finish /\ Post(task.req)

\* Mutation: without active_ there is nothing to stop.
JustRestore == Now("restore")
\* A disconnect without active_ still stops the service's core.
StopUnattached == Now("ensure")

TakeTask ==
  /\ wpc = "idle" /\ queue # <<>>
  /\ task' = Head(queue) /\ queue' = Tail(queue)
  /\ CASE Head(queue).kind = "sync" -> Now("ensure")
       [] Head(queue).kind = "connect" -> Now("select")
       [] Head(queue).kind = "forget" -> Now("forget")
       [] Head(queue).kind = "disconnect" ->
            IF active # "none" THEN Invoke(active, "stop") ELSE StopUnattached
       [] Head(queue).kind = "status" ->
            IF active # "none" THEN Invoke(active, "query") ELSE Now("ensure")
  /\ UNCHANGED <<dartVars, active, proxy, linkVars, reply, nextId, serviceVars,
                 ghosts, faults>>

\* SyncOnStartup, BackendForQueries and disconnect.
Ensure ==
  /\ wpc = "ensure"
  /\ \E ok \in BOOLEAN :
       /\ EnsureConnected(ok)
       /\ CASE task.kind = "sync" ->
                 /\ IF ok THEN Invoke("service", "query") ELSE Now("restore")
                 /\ UNCHANGED <<posts, task>>
            [] task.kind = "status" ->
                 /\ Invoke(IF ok THEN "service" ELSE "local", "query")
                 /\ UNCHANGED <<posts, task>>
            [] task.kind = "disconnect" ->
                 /\ IF ok THEN Invoke("service", "stop") ELSE Now("restore")
                 /\ UNCHANGED <<posts, task>>
  /\ UNCHANGED <<app, asked, answers, queue, active, proxy, reply, nextId,
                 serviceVars, ghosts, faults>>

\* The previous backend is stopped first when it is not the one to start.
Choose(b) ==
  /\ task' = [task EXCEPT !.target = b]
  /\ IF active \notin {"none", b}
     THEN Invoke(active, "replace") ELSE Invoke(b, "start")

\* SelectBackendForStart: the service, started if need be, or this process.
Select ==
  /\ wpc \in {"select", "again"}
  /\ \E ok \in BOOLEAN :
       /\ EnsureConnected(ok)
       /\ \/ ok /\ Choose("service")
          \/ ~ok /\ wpc = "select" /\ Now("install") /\ UNCHANGED task
          \/ ~ok /\ wpc = "again" /\ Choose("local")
  /\ UNCHANGED <<dartVars, queue, active, proxy, reply, nextId, serviceVars,
                 ghosts, faults>>

\* StartInstalledService: there may be none, or it may not come up in time.
StartInstalledService ==
  /\ wpc = "install"
  /\ \/ svc' = "up" /\ Now("again") /\ UNCHANGED task
     \/ Choose("local") /\ UNCHANGED svc
  /\ UNCHANGED <<dartVars, queue, active, proxy, linkVars, reply, nextId,
                 handler, core, ghosts, faults>>

-----------------------------------------------------------------------------
(* ServiceClient::Call.                                                    *)

Returned(ok) ==
  wpc' = "returned" /\ call' = [call EXCEPT !.ok = ok] /\ reply' = NoReply

\* Call's own EnsureConnected; then the call is entered in pending_.
Dial ==
  /\ wpc = "dial"
  /\ \E ok \in BOOLEAN :
       /\ EnsureConnected(ok)
       /\ \/ /\ ok
             /\ nextId' = nextId + 1 /\ call' = [call EXCEPT !.id = nextId]
             /\ reply' = NoReply
             /\ wpc' = "send"
          \/ ~ok /\ Returned(FALSE) /\ UNCHANGED nextId
  /\ UNCHANGED <<dartVars, queue, task, active, proxy, serviceVars, ghosts,
                 faults>>

\* WriteMessage fails at once on a pipe without its other end.
Send ==
  /\ wpc = "send"
  /\ IF broken
     THEN Returned(FALSE) /\ UNCHANGED toService
     ELSE /\ toService' = Append(toService,
               [id |-> call.id, why |-> call.why, req |-> task.req])
          /\ wpc' = "wait" /\ UNCHANGED <<call, reply>>
  /\ UNCHANGED <<dartVars, queue, task, active, proxy, connected, reader,
                 broken, toApp, nextId, serviceVars, ghosts, faults>>

\* The answer is there, or the connection was lost while waiting for it.
Receive ==
  /\ wpc = "wait" /\ reply # NoReply
  /\ Returned(reply.type = "answer" /\ reply.ok)
  /\ UNCHANGED <<dartVars, queue, task, active, proxy, linkVars, nextId,
                 serviceVars, ghosts, faults>>

\* The time limit of the method is over; a later answer finds no pending_.
Timeout ==
  /\ wpc = "wait" /\ reply = NoReply /\ faults < MaxFaults
  /\ faults' = faults + 1
  /\ Returned(FALSE)
  /\ missed' = missed \cup {"late"}
  /\ UNCHANGED <<dartVars, queue, task, active, proxy, linkVars, nextId,
                 serviceVars, stuck>>

-----------------------------------------------------------------------------
(* The same methods of a controller in the app's process.                  *)

\* Both cores want the same local ports.
PortsFree(b) == core[Other(b)] = "down"

Local ==
  /\ wpc = "local"
  /\ \/ /\ call.why = "query"
        /\ Returned(core["local"] = "up")
        /\ UNCHANGED core
     \/ /\ call.why \notin {"query", "start"} /\ core["local"] # "rebuilding"
        /\ core' = [core EXCEPT !["local"] = "down"]
        /\ Returned(TRUE)
     \/ /\ call.why = "start" /\ core["local"] \notin {"rebuilding", "starting"}
        /\ core' = [core EXCEPT !["local"] = "starting"]
        /\ UNCHANGED <<wpc, call, reply>>
     \/ /\ call.why = "start" /\ core["local"] = "starting"
        /\ \E ok \in {FALSE} \cup {PortsFree("local")} :
             /\ core' = [core EXCEPT !["local"] = IF ok THEN "up" ELSE "down"]
             /\ Returned(ok)
  /\ UNCHANGED <<dartVars, queue, task, active, proxy, linkVars, nextId, svc,
                 handler, ghosts, faults>>

-----------------------------------------------------------------------------
(* What a task does with the outcome of its call.                          *)

AfterCall(why) == wpc = "returned" /\ call.why = why

\* The query went over the pipe, or to a controller in this process.
QueriedBackend == IF call.id # 0 THEN "service" ELSE "local"

\* The backends are destroyed: a core of this process ends, the pipe closes.
LeaveProcess ==
  /\ core' = [core EXCEPT !["local"] = "down"]
  /\ connected' = FALSE /\ reader' = "done"

\* The bridge knows of a core: what it may have missed is over.
Attach(b) == active' = b /\ missed' = {}

\* SyncOnStartup: take over a connection that outlived the app before.
SyncReturned ==
  /\ AfterCall("query") /\ task.kind = "sync"
  /\ IF call.ok
     THEN Attach("service") /\ Finish
     ELSE Now("restore") /\ UNCHANGED <<active, missed, task>>
  /\ UNCHANGED <<dartVars, queue, proxy, linkVars, reply, nextId, serviceVars,
                 stuck, faults>>

\* getStatus, getCoreState: a core nobody is attached to is taken over.
StatusReturned ==
  /\ AfterCall("query") /\ task.kind = "status"
  /\ IF call.ok /\ active = "none"
     THEN Attach(QueriedBackend)
     ELSE UNCHANGED <<active, missed>>
  /\ Done
  /\ UNCHANGED <<app, asked, answers, queue, proxy, linkVars, reply, nextId,
                 serviceVars, stuck, faults>>

\* disconnect, and an exit with a backend in use.
StopReturned ==
  /\ AfterCall("stop")
  /\ active' = "none"
  /\ Now("restore")
  /\ UNCHANGED <<dartVars, queue, task, proxy, linkVars, reply, nextId,
                 serviceVars, ghosts, faults>>

ReplaceReturned ==
  /\ AfterCall("replace")
  /\ Invoke(task.target, "start")
  /\ UNCHANGED <<dartVars, queue, task, active, proxy, linkVars, reply, nextId,
                 serviceVars, ghosts, faults>>

\* connect, reconnect: after backend->Start.
StartReturned ==
  /\ AfterCall("start")
  /\ IF call.ok
     THEN Attach(task.target) /\ Now("proxy")
     ELSE active' = "none" /\ Now("restore") /\ UNCHANGED missed
  /\ UNCHANGED <<dartVars, queue, task, proxy, linkVars, reply, nextId,
                 serviceVars, stuck, faults>>

\* EnableForChrNet.  A connection that consists of the proxy alone is undone
\* when it cannot be set; a proxy set before stays, and one without a backup may
\* have got one by then.
SetProxy ==
  /\ wpc = "proxy"
  /\ \/ proxy' = "chrnet" /\ stuck' = "no" /\ Done /\ UNCHANGED faults
     \/ /\ faults < MaxFaults /\ faults' = faults + 1
        /\ IF task.mode = "tunnel"
           THEN Done
           ELSE Invoke(task.target, "undo") /\ UNCHANGED <<task, posts>>
        /\ proxy' \in {proxy} \cup (IF proxy = "orphaned" THEN {"chrnet"} ELSE {})
        /\ UNCHANGED stuck
  /\ UNCHANGED <<app, asked, answers, queue, active, linkVars, reply, nextId,
                 serviceVars, missed>>

\* Mutation: the error path leaves without an answer.
NoAnswer == Finish /\ UNCHANGED posts
ProxyFailed == Done

UndoReturned ==
  /\ AfterCall("undo")
  /\ active' = "none"
  /\ stuck' = IF proxy = "chrnet" THEN "reconnect" ELSE stuck
  /\ ProxyFailed
  /\ UNCHANGED <<app, asked, answers, queue, proxy, linkVars, reply, nextId,
                 serviceVars, missed, faults>>

\* RestoreAfterChrNet.  When Apply fails, settings and backup stay; when Read
\* fails, the settings stay and the backup goes all the same, so that later
\* calls find nothing to restore.
Restored ==
  \/ proxy # "orphaned" /\ proxy' = "user" /\ stuck' = "no" /\ UNCHANGED faults
  \/ /\ proxy = "chrnet" /\ faults < MaxFaults /\ faults' = faults + 1
     /\ proxy' \in {"chrnet", "orphaned"} /\ stuck' = "restore"
  \/ proxy = "orphaned" /\ UNCHANGED <<proxy, stuck, faults>>

\* RestoreProxyIfNeeded, the last thing a failed connect, a disconnect, the
\* loss of a connection and an exit do; RestoreStaleSystemProxy.
RestoreProxy ==
  /\ wpc = "restore"
  /\ Restored
  /\ IF task.kind \in {"connect", "disconnect"}
     THEN Done
     ELSE Finish /\ UNCHANGED posts
  /\ app' = IF task.kind = "exit" THEN "closed" ELSE app
  /\ IF task.kind = "exit" THEN LeaveProcess ELSE UNCHANGED <<core, connected, reader>>
  /\ UNCHANGED <<asked, answers, queue, active, broken, toService, toApp, reply,
                 nextId, svc, handler, missed>>

RestoreAtOnce == Now("restore") /\ UNCHANGED task

\* The task queued by OnBackendStatus: whatever was connected meanwhile is
\* forgotten.
ForgetBackend ==
  /\ wpc = "forget"
  /\ IF Alive
     THEN /\ active' = "none"
          /\ missed' = IF \E b \in Backends : core[b] # "down"
                       THEN missed \cup {"stale"} ELSE missed
          /\ RestoreAtOnce
     ELSE Finish /\ UNCHANGED <<active, missed>>
  /\ UNCHANGED <<dartVars, queue, proxy, linkVars, reply, nextId, serviceVars,
                 stuck, faults>>

\* Mutation: with the service, the connection outlives the app.
StopOwnCore == IF active = "local" THEN Invoke(active, "stop") ELSE Now("restore")
StopActive == IF active # "none" THEN Invoke(active, "stop") ELSE Now("restore")

\* ShutdownConnection, once the worker has emptied its queue and ended.
Shutdown ==
  /\ app \in {"ending", "destroying"} /\ wpc = "idle" /\ queue = <<>>
  /\ task' = Exiting
  /\ StopActive
  /\ UNCHANGED <<dartVars, queue, active, proxy, linkVars, reply, nextId,
                 serviceVars, ghosts, faults>>

-----------------------------------------------------------------------------
(* The reader thread of the client.                                        *)

Pending(m) == wpc = "wait" /\ m.id = call.id

ReadAnswer ==
  /\ reader = "reading" /\ toApp # <<>> /\ Head(toApp).type = "answer"
  /\ toApp' = Tail(toApp)
  /\ reply' = IF Pending(Head(toApp)) THEN Head(toApp) ELSE reply
  /\ UNCHANGED <<dartVars, workerVars, connected, reader, broken, toService,
                 call, nextId, serviceVars, ghosts, faults>>

\* A status event that says "stopped" with an error.
ReadLost ==
  /\ reader = "reading" /\ toApp # <<>> /\ Head(toApp).type = "lost"
  /\ toApp' = Tail(toApp)
  /\ OnBackendStatus
  /\ UNCHANGED <<app, asked, answers, task, wpc, active, proxy, connected,
                 reader, broken, toService, callVars, serviceVars, ghosts,
                 faults>>

\* Mutation: a call waits for its time limit, whatever happens to the pipe.
KeepPending == UNCHANGED reply
ReleasePending ==
  reply' = IF wpc \in {"send", "wait"} /\ reply = NoReply THEN Released ELSE reply

\* The pipe is gone, with what was not read yet: pending calls are released.
ReadFails ==
  /\ reader = "reading" /\ broken
  /\ reader' = "leaving" /\ connected' = FALSE /\ toApp' = <<>>
  /\ ReleasePending
  /\ UNCHANGED <<dartVars, workerVars, broken, toService, call, nextId,
                 serviceVars, ghosts, faults>>

\* Mutation: the loss is reported unless a call fails because of it.
ReportIfIdle == IF wpc = "idle" THEN OnBackendStatus ELSE UNCHANGED <<queue, posts>>
\* SERVICE_DISCONNECTED.
ReportLoss == OnBackendStatus

ReaderEnds ==
  /\ reader = "leaving"
  /\ reader' = "done"
  /\ ReportLoss
  /\ UNCHANGED <<app, asked, answers, task, wpc, active, proxy, connected,
                 broken, toService, toApp, callVars, serviceVars, ghosts,
                 faults>>

-----------------------------------------------------------------------------
(* The service: one client thread, and its controller.                     *)

\* HandleRequest.  The controller takes a command when it is not rebuilding.
Serve ==
  /\ svc = "up" /\ handler = NoHandler /\ toService # <<>>
  /\ LET r == Head(toService)
         h == [id |-> r.id, why |-> r.why, req |-> r.req, done |-> TRUE, ok |-> TRUE]
     IN \/ /\ r.why = "query"
           /\ handler' = [h EXCEPT !.ok = core["service"] = "up"]
           /\ missed' = IF core["service"] = "rebuilding"
                        THEN missed \cup {"rebuild"} ELSE missed
           /\ UNCHANGED core
        \/ /\ r.why = "start" /\ core["service"] # "rebuilding"
           /\ handler' = [h EXCEPT !.done = FALSE]
           /\ core' = [core EXCEPT !["service"] = "starting"]
           /\ UNCHANGED missed
        \/ /\ r.why \notin {"query", "start"} /\ core["service"] # "rebuilding"
           /\ handler' = h
           /\ core' = [core EXCEPT !["service"] = "down"]
           /\ UNCHANGED missed
  /\ toService' = Tail(toService)
  /\ UNCHANGED <<dartVars, workerVars, connected, reader, broken, toApp,
                 callVars, svc, stuck, faults>>

StartEnds ==
  /\ handler # NoHandler /\ ~handler.done
  /\ \E ok \in {FALSE} \cup {PortsFree("service")} :
       /\ handler' = [handler EXCEPT !.done = TRUE, !.ok = ok]
       /\ core' = [core EXCEPT !["service"] = IF ok THEN "up" ELSE "down"]
  /\ UNCHANGED <<dartVars, workerVars, linkVars, callVars, svc, ghosts, faults>>

Respond ==
  /\ handler # NoHandler /\ handler.done
  /\ handler' = NoHandler
  /\ toApp' = IF connected THEN Append(toApp, Answer(handler)) ELSE toApp
  /\ UNCHANGED <<dartVars, workerVars, connected, reader, broken, toService,
                 callVars, svc, core, ghosts, faults>>

\* HandleCoreExit and a lost network; Broadcast to whoever is connected.
CoreStops(b) ==
  /\ core' = [core EXCEPT ![b] = "down"]
  /\ IF b = "service"
     THEN /\ toApp' = IF connected /\ ~broken THEN Append(toApp, LostEvent) ELSE toApp
          /\ UNCHANGED <<queue, posts>>
     ELSE OnBackendStatus /\ UNCHANGED toApp

CoreLost(b) ==
  /\ faults < MaxFaults /\ faults' = faults + 1
  /\ core[b] = "up"
  /\ CoreStops(b)
  /\ UNCHANGED <<app, asked, answers, task, wpc, active, proxy, connected,
                 reader, broken, toService, callVars, svc, handler, ghosts>>

\* HandleNetworkChange: the tunnel is built again.
Rebuild(b) ==
  /\ faults < MaxFaults /\ faults' = faults + 1
  /\ core[b] = "up"
  /\ core' = [core EXCEPT ![b] = "rebuilding"]
  /\ UNCHANGED <<dartVars, workerVars, linkVars, callVars, svc, handler,
                 ghosts>>

Rebuilt(b) ==
  /\ core[b] = "rebuilding"
  /\ \/ /\ core' = [core EXCEPT ![b] = "up"]
        /\ UNCHANGED <<toApp, queue, posts>>
     \/ CoreStops(b)
  /\ UNCHANGED <<app, asked, answers, task, wpc, active, proxy, connected,
                 reader, broken, toService, callVars, svc, handler, ghosts,
                 faults>>

\* The service crashes or is stopped; its core goes with it.
ServiceGoes ==
  /\ svc = "up" /\ faults < MaxFaults
  /\ faults' = faults + 1
  /\ svc' = "down" /\ handler' = NoHandler
  /\ core' = [core EXCEPT !["service"] = "down"]
  /\ broken' = (connected \/ broken) /\ toService' = <<>>
  /\ UNCHANGED <<dartVars, workerVars, connected, reader, toApp, callVars,
                 ghosts>>

\* The service manager restarts it.
ServiceReturns ==
  /\ svc = "down"
  /\ svc' = "up"
  /\ UNCHANGED <<dartVars, workerVars, linkVars, callVars, handler, core,
                 ghosts, faults>>

-----------------------------------------------------------------------------
(* The specification.                                                      *)

\* The app starts; of the app before, a core of the service and settings of
\* the system proxy may be left, the latter by a fault: its death or a restore
\* that failed.
Init ==
  /\ app = "up" /\ asked = 0 /\ posts = <<>>
  /\ answers = [i \in 1..MaxRequests |-> 0]
  /\ queue = <<Sync>> /\ task = Sync /\ wpc = "idle"
  /\ active = "none" /\ proxy \in {"user", "chrnet", "orphaned"}
  /\ connected = FALSE /\ reader = "none" /\ broken = FALSE
  /\ toService = <<>> /\ toApp = <<>>
  /\ call = NoCall /\ reply = NoReply /\ nextId = 1
  /\ svc \in {"up", "down"} /\ handler = NoHandler
  /\ core \in [Backends -> {"down", "up"}]
  /\ core["local"] = "down" /\ (svc = "down" => core["service"] = "down")
  /\ missed = {} /\ stuck = IF proxy = "orphaned" THEN "restore" ELSE "no"
  /\ faults = IF proxy = "user" THEN 0 ELSE 1

Task0 == TakeTask \/ Ensure \/ Select \/ StartInstalledService
CallStep == Dial \/ Send \/ Receive \/ Local
AfterStep == \/ SyncReturned \/ StatusReturned \/ StopReturned \/ ReplaceReturned
             \/ StartReturned \/ SetProxy \/ UndoReturned \/ RestoreProxy
             \/ ForgetBackend \/ Shutdown
Worker == Task0 \/ CallStep \/ AfterStep
Reader == ReadAnswer \/ ReadLost \/ ReadFails \/ ReaderEnds
Handler == Serve \/ StartEnds \/ Respond
Dart == (\E r \in Requests : Ask(r)) \/ EndSession \/ Destroy
Faults == \/ Timeout \/ ServiceGoes \/ ServiceReturns
          \/ \E b \in Backends : CoreLost(b) \/ Rebuild(b)

Next == \/ Worker \/ Reader \/ Handler \/ Deliver \/ Dart \/ Faults
        \/ \E b \in Backends : Rebuilt(b)

\* The threads run, the loop of messages turns, and a start or a rebuild in
\* the controller ends (each of its waits has a limit).
Fairness ==
  /\ WF_vars(Worker) /\ WF_vars(Reader) /\ WF_vars(Handler) /\ WF_vars(Deliver)
  /\ \A b \in Backends : WF_vars(Rebuilt(b))

Spec == Init /\ [][Next]_vars /\ Fairness

-----------------------------------------------------------------------------
(* Properties.                                                             *)

Why == {"none", "query", "stop", "replace", "start", "undo"}
Reqs == 0..MaxRequests
Tasks == [kind : Methods \cup {"sync", "forget", "exit"}, req : Reqs, mode : Modes,
          target : Backends \cup {"none"}]
Replies == [type : {"none", "released", "answer", "lost"}, id : Nat, req : Reqs,
            ok : BOOLEAN]
CoreStates == {"down", "starting", "up", "rebuilding"}

\* The type of the state: the worker is at one of its places, and messages
\* of the pipe are requests one way, answers and events the other.
TypeOK ==
  /\ app \in {"up", "ending", "destroying", "closed"} /\ asked \in Reqs
  /\ posts \in Seq(Reqs)
  /\ answers \in [1..MaxRequests -> {0, 1}]
  /\ queue \in Seq(Tasks) /\ task \in Tasks
  /\ wpc \in {"idle", "ensure", "select", "again", "install", "dial", "send", "wait",
              "returned", "local", "proxy", "restore", "forget"}
  /\ active \in Backends \cup {"none"}
  /\ proxy \in {"user", "chrnet", "orphaned"} /\ stuck \in {"no", "reconnect", "restore"}
  /\ {connected, broken} \subseteq BOOLEAN
  /\ reader \in {"none", "reading", "leaving", "done"}
  /\ call \in [id : Nat, why : Why, ok : BOOLEAN] /\ reply \in Replies /\ nextId \in Nat
  /\ toService \in Seq([id : Nat, why : Why, req : Reqs]) /\ toApp \in Seq(Replies)
  /\ svc \in {"up", "down"} /\ core \in [Backends -> CoreStates]
  /\ handler \in [id : Nat, why : Why, req : Reqs, done : BOOLEAN, ok : BOOLEAN]
  /\ missed \subseteq {"late", "rebuild", "stale"}
  /\ faults \in Nat

\* The requests on their way, the next one to be answered first.  What the
\* bridge does on its own has number 0.
Line == posts \o <<task.req>> \o [i \in DOMAIN queue |-> queue[i].req]
Increasing(s) == \A i, j \in DOMAIN s : i < j /\ s[i] # 0 /\ s[j] # 0 => s[i] < s[j]

\* Dart's futures complete in the order of the calls, and each exactly once:
\* what is answered, posted, worked on and queued are the requests from 1 on,
\* whatever fails on the way and however tasks of the bridge's own get between.
InOrder ==
  /\ TypeOK
  /\ app = "up" =>
      \E n \in 0..asked :
        /\ \A i \in DOMAIN answers : answers[i] = (IF i <= n THEN 1 ELSE 0)
        /\ {Line[i] : i \in DOMAIN Line} \ {0} = (n + 1)..asked
        /\ Increasing(Line)

\* Nothing is under way between Dart, the worker, the pipe and the service.
Rest ==
  /\ app = "up" /\ wpc = "idle" /\ queue = <<>>
  /\ toService = <<>> /\ toApp = <<>> /\ handler = NoHandler
  /\ reader # "leaving" /\ ~(reader = "reading" /\ broken)

\* What the bridge rests on is true, however losses, late answers and calls that
\* were given up meet.  Its connection has a core: one that dies, or a service
\* that goes, is noticed.  No core runs that it does not know of, unless a call
\* was given up, a query came during a rebuild, or a loss was handled after the
\* next connect.  And without a connection the proxy settings are the user's,
\* unless they could not be restored or a reconnect failed to set them.
RestIsTrue ==
  Rest => /\ active # "none" => core[active] \in Running
          /\ \A b \in Backends : core[b] = "up" => active = b \/ missed # {}
          /\ proxy # "user" => active # "none" \/ stuck # "no"

\* A disconnect that is answered has stopped the core, also the one of the
\* service that the bridge is not attached to; unless the stop itself failed,
\* or a core of this process was forgotten.
DisconnectStops ==
  [][task.kind = "disconnect" /\ wpc = "restore" /\ wpc' = "idle"
     => \A b \in Backends : \/ core[b] = "down"
                            \/ call.why = "stop" /\ ~call.ok
                            \/ b = "local" /\ "stale" \in missed]_vars

\* The app that has gone leaves the user's proxy settings, also those that a
\* failed reconnect had left, unless they could not be restored, and no core of
\* which it knew.
ExitStops ==
  app = "closed" =>
    /\ proxy = "user" \/ stuck = "restore"
    /\ \A b \in Backends : core[b] = "down" \/ missed # {}

\* A loss takes the connection and the proxy away because "nothing listens on
\* the local proxy any more": the backend that is forgotten has no running core.
LossIsCurrent ==
  wpc = "forget" /\ Alive /\ active # "none" => core[active] # "up"

\* Every call of Dart is answered, unless the app ends.
RequestsAnswered ==
  []<>(app # "up" \/ \A i \in 1..asked : answers[i] # 0)

\* The end of the session or the closed window ends the app: joining the
\* worker and stopping the connection cannot hang.
ExitEnds == app \in {"ending", "destroying"} ~> app = "closed"

(* The inductive invariant behind the theorem of WindowsBridgeProofs.       *)

\* The tasks of the bridge's own ask nothing; a task is where its kind takes it,
\* and calls what its kind calls.
Own == {"sync", "forget", "exit"}
Proper(t) == t.kind \in Own <=> t.req = 0
TasksInv ==
  /\ \A i \in DOMAIN queue : Proper(queue[i]) /\ queue[i].kind # "exit"
  /\ Proper(task) /\ (wpc = "idle" => task.kind \in Own)
PlaceInv ==
  /\ wpc = "ensure" => task.kind \in {"sync", "status", "disconnect"}
  /\ wpc \in {"select", "again", "install", "proxy"} => task.kind = "connect"
  /\ wpc = "forget" => task.kind = "forget"
  /\ wpc = "restore" => task.kind # "status"
  /\ wpc \in {"dial", "send", "wait", "returned", "local"} =>
       \/ call.why = "query" /\ task.kind \in {"sync", "status"}
       \/ call.why = "stop" /\ task.kind \in {"disconnect", "exit"}
       \/ call.why \in {"replace", "start", "undo"} /\ task.kind = "connect"

IInv == InOrder /\ TasksInv /\ PlaceInv
=============================================================================
