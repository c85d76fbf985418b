----------------------- MODULE WindowsBridgeCoreProofs -----------------------
(***************************************************************************)
(* What the bridge rests on is true, a disconnect that is answered has     *)
(* stopped the core, and an app that is gone leaves none it knew of: for   *)
(* any number of requests and faults.                                      *)
(***************************************************************************)
EXTENDS WindowsBridgeProofs

-----------------------------------------------------------------------------
(* The invariant.                                                          *)

\* A method of a backend is called; it starts b, or changes what runs.
Calling == wpc \in {"dial", "send", "wait", "local", "returned"}
Starting(b) == Calling /\ call.why = "start" /\ task.target = b
Changing == Calling /\ call.why # "query"
Stops == {"stop", "replace", "undo"}

\* No start is on its way in the service, nothing at all is, and nothing runs.
NoStarts ==
  (\A i \in DOMAIN toService : toService[i].why # "start") /\ handler.why # "start"
DeadService == core["service"] = "down" /\ NoStarts
Empty == toService = <<>> /\ handler = NoHandler
Down == core["service"] = "down" /\ Empty

\* The bridge has not asked yet what runs, and has no connection; or it asks.
SyncOpen == \/ wpc = "idle" /\ queue # <<>> /\ Head(queue).kind = "sync"
            \/ wpc = "ensure" /\ task.kind = "sync"
Virgin == reader = "none" /\ active = "none" /\ SyncOpen
SyncPending == Virgin \/ (Calling /\ task.kind = "sync")

\* The connection, its reader and the two ends of the pipe fit together.
Linked ==
  /\ connected <=> reader = "reading"
  /\ svc = "down" \/ broken => Down
  /\ connected /\ ~broken => svc = "up"
  /\ ~connected /\ app # "closed" =>
       Empty /\ toApp = <<>> /\ (core["service"] = "down" \/ Virgin)

\* A call that is sent or waits has its connection, or is told that it broke.
Sending ==
  /\ wpc = "send" => (connected \/ broken) /\ (reply # NoReply => broken)
  /\ wpc = "wait" /\ reply # NoReply /\ reply.type # "answer" => broken

\* Calls have numbers of their own, and the last one is answered last.
Mine(m) == m.type = "answer" /\ m.id = call.id
Answered == \E i \in DOMAIN toApp : Mine(toApp[i])
Ids ==
  /\ nextId >= 1
  /\ \A i \in DOMAIN toService : toService[i].id < nextId
  /\ \A i \in DOMAIN toApp : toApp[i].id < nextId
  /\ handler.id < nextId
  /\ wpc \in {"send", "wait"} => 0 < call.id /\ call.id < nextId
  /\ wpc \in {"dial", "local"} => call.id = 0
Fresh == wpc = "send" =>
  /\ \A i \in DOMAIN toService : toService[i].id # call.id
  /\ ~Answered /\ handler.id # call.id
Last == wpc = "wait" =>
  /\ \A i \in DOMAIN toService : toService[i].id = call.id =>
       i = Len(toService) /\ toService[i].why = call.why
  /\ handler.id = call.id => toService = <<>> /\ handler.why = call.why
  /\ reply.type = "answer" \/ Answered => Empty
Ended == wpc = "returned" /\ call.ok /\ call.id # 0 => Empty

\* Who starts a core is at work on it, and one core runs at a time.
Working ==
  /\ handler # NoHandler /\ ~handler.done => handler.why = "start"
  /\ core["service"] = "starting" <=> handler # NoHandler /\ ~handler.done
  /\ core["local"] = "starting" => wpc = "local" /\ call.why = "start"
  /\ core["local"] \in Running => core["service"] \notin Running

\* The backend whose method is called, and where a call is.
Called ==
  IF call.why = "query"
  THEN IF call.id = 0 /\ wpc \in {"local", "returned"} THEN "local" ELSE "service"
  ELSE IF call.why \in {"start", "undo"} THEN task.target
  ELSE IF active = "local" THEN "local" ELSE "service"
Placed ==
  /\ Calling /\ call.why \in {"start", "replace", "undo"} => task.target \in Backends
  /\ Calling /\ call.why = "replace" => active = Other(task.target)
  /\ wpc = "proxy" \/ (Calling /\ call.why = "undo") =>
       active = task.target /\ active # "none"
  /\ wpc = "local" => Called = "local"
  /\ wpc \in {"dial", "send", "wait"} => Called = "service"
  /\ wpc = "ensure" /\ task.kind # "sync" => active = "none"
  /\ task.kind = "sync" => wpc # "local" /\ (wpc = "returned" /\ call.ok => call.id # 0)
  /\ wpc = "returned" /\ call.why # "query" /\ call.ok /\ Called = "service" =>
       call.id # 0

\* The starts in the service are those of the call that waits, unless a call was
\* given up; beside a connection it only has questions; and it has neither a
\* start nor a core while the core of this process is used or started.
OwnStarts == missed = {} =>
  /\ \A i \in DOMAIN toService : toService[i].why = "start" =>
       wpc = "wait" /\ toService[i].id = call.id
  /\ handler.why = "start" => wpc = "wait" /\ handler.id = call.id
Questions ==
  /\ \A i \in DOMAIN toService : toService[i].why = "query"
  /\ handler # NoHandler => handler.why = "query"
OnlyQuestions == active = "service" /\ ~Changing => Questions
NoService ==
  /\ active = "local" => DeadService \/ Starting("service")
  /\ wpc = "install" => DeadService
  /\ Calling /\ call.why \in {"start", "replace"} /\ task.target = "local" => DeadService
  /\ Calling /\ call.why = "query" /\ Called = "local" => DeadService

\* The outcome of the call, wherever it has got to.
AnsweredWith(ok) == \E i \in DOMAIN toApp : Mine(toApp[i]) /\ toApp[i].ok = ok
Told(ok) ==
  \/ wpc = "returned" /\ call.ok = ok
  \/ /\ wpc = "wait"
     /\ \/ reply # NoReply /\ (reply.type = "answer" /\ reply.ok) = ok
        \/ AnsweredWith(ok)
        \/ handler.id = call.id /\ handler.done /\ handler.ok = ok

\* The bridge will hear that it has lost the core of b; or the core runs.
ForgetQueued == \E i \in DOMAIN queue : queue[i].kind = "forget"
LossTold == \E i \in DOMAIN toApp : toApp[i].type = "lost"
Losing(b) ==
  \/ wpc = "forget" \/ ForgetQueued
  \/ b = "service" /\ (reader = "leaving" \/ (reader = "reading" /\ broken) \/ LossTold)
Runs(b) == app = "up" => core[b] \in Running \/ Losing(b)

\* An outcome says what is the case.
Failure == Called = "service" /\ Told(FALSE) /\ missed = {} => core["service"] = "down"
Success == Called = "service" /\ Told(TRUE) =>
  IF call.why \in Stops THEN DeadService
  ELSE Runs("service") /\ core["local"] = "down"
LocalOutcome == Called = "local" /\ wpc = "returned" =>
  IF call.why \in Stops \/ (call.why = "start" /\ ~call.ok) THEN core["local"] = "down"
  ELSE call.ok => Runs("local")

\* The backend in use has a core, or will be forgotten; and the core that runs is
\* of the backend in use, or it was missed.
Truth == active # "none" => Runs(active) \/ Changing
KnownService == missed = {} /\ core["service"] # "down" =>
  active = "service" \/ SyncPending \/ Starting("service")
KnownLocal == "stale" \notin missed =>
  /\ core["local"] # "down" => active = "local" \/ Starting("local")
  /\ Starting("service") => core["local"] = "down"

\* What a disconnect, a proxy setting and the end of the app rest on.
Stopped == wpc = "restore" /\ task.kind = "disconnect" =>
  active = "none" /\ (DeadService \/ (call.why = "stop" /\ ~call.ok))
ProxyKnown ==
  /\ proxy # "user" => \/ active # "none" \/ stuck # "no" \/ wpc = "restore" \/ SyncOpen
                       \/ Calling /\ task.kind = "sync"
  /\ proxy = "orphaned" => stuck = "restore"
Leaving ==
  /\ task.kind = "exit" /\ wpc # "idle" =>
       /\ app \in {"ending", "destroying"} /\ queue = <<>>
       /\ wpc = "restore" => active = "none"
  /\ app = "closed" => /\ wpc = "idle" /\ queue = <<>> /\ active = "none"
                       /\ proxy = "user" \/ stuck = "restore"

\* The inductive invariant: the wire, the calls, and what the bridge knows.
Wire == Linked /\ Sending /\ Ids /\ Fresh /\ Last /\ Ended /\ Working
Known == /\ Placed /\ OwnStarts /\ OnlyQuestions /\ NoService
         /\ Failure /\ Success /\ LocalOutcome
         /\ Truth /\ KnownService /\ KnownLocal
CoreInv == IInv /\ Wire /\ Known /\ Stopped /\ ProxyKnown /\ Leaving

-----------------------------------------------------------------------------
(* What a step is.                                                         *)

\* The values in the state.
LEMMA Values ==
  ASSUME Typed
  PROVE  /\ call.id \in Nat /\ call.why \in Why /\ call.ok \in BOOLEAN
         /\ core["service"] \in CoreStates /\ core["local"] \in CoreStates
         /\ task.target \in Backends \cup {"none"} /\ task.kind \in Methods \cup Own
         /\ handler.id \in Nat /\ handler.why \in Why /\ nextId \in Nat
         /\ active \in Backends \cup {"none"}
         /\ svc \in {"up", "down"} /\ missed \subseteq {"late", "rebuild", "stale"}
         /\ reader \in {"none", "reading", "leaving", "done"}
         /\ reply \in Replies /\ wpc \in Places
BY Kinds DEF Typed, CallType, Calls, ServiceType, Backends, WorkerType, Tasks, Handlers,
   CountType, LinkType

\* So are those of the call and the task after a change of one part.
LEMMA Changes ==
  ASSUME Typed
  PROVE  /\ \A ok \in BOOLEAN : /\ [call EXCEPT !.ok = ok].id = call.id
                                /\ [call EXCEPT !.ok = ok].why = call.why
                                /\ [call EXCEPT !.ok = ok].ok = ok
         /\ [call EXCEPT !.id = nextId].id = nextId
         /\ [call EXCEPT !.id = nextId].why = call.why
         /\ [call EXCEPT !.id = nextId].ok = call.ok
         /\ \A b \in Backends : /\ [task EXCEPT !.target = b].kind = task.kind
                                /\ [task EXCEPT !.target = b].target = b
         /\ \A x \in CoreStates :
              /\ [core EXCEPT !["service"] = x]["service"] = x
              /\ [core EXCEPT !["service"] = x]["local"] = core["local"]
              /\ [core EXCEPT !["local"] = x]["local"] = x
              /\ [core EXCEPT !["local"] = x]["service"] = core["service"]
BY DEF Typed, CallType, Calls, WorkerType, Tasks, ServiceType, Backends

\* A queue that grows keeps its head and its losses.
LEMMA QueueGrows ==
  ASSUME Typed, NEW t \in Tasks, queue' = Append(queue, t)
  PROVE  /\ queue' # <<>>
         /\ queue # <<>> => Head(queue') = Head(queue)
         /\ ForgetQueued => ForgetQueued'
         /\ t.kind = "forget" => ForgetQueued'
<1>0. queue \in Seq(Tasks)
  BY DEF Typed, WorkerType
<1>1. /\ queue' \in Seq(Tasks) /\ Len(queue') = Len(queue) + 1
      /\ \A i \in 1..Len(queue) : queue'[i] = queue[i]
      /\ queue'[Len(queue) + 1] = t
  BY <1>0, AppendProperties
<1>2. Len(queue) \in Nat /\ DOMAIN queue = 1..Len(queue)
  BY <1>0, LenProperties
<1>3. DOMAIN queue' = 1..(Len(queue) + 1)
  BY <1>1, LenProperties
<1>4. queue' # <<>>
  BY <1>1, <1>2, EmptySeq
<1>5. queue # <<>> => Head(queue') = Head(queue)
  <2> SUFFICES ASSUME queue # <<>> PROVE Head(queue') = Head(queue)
    OBVIOUS
  <2>1. Len(queue) > 0
    BY <1>0, <1>2, EmptySeq
  <2>2. Head(queue) = queue[1] /\ Head(queue') = queue'[1]
    BY <1>0, <1>1, <1>4, HeadTailProperties
  <2> QED
    BY <1>1, <1>2, <2>1, <2>2
<1>6. ForgetQueued => ForgetQueued'
  BY <1>1, <1>2, <1>3 DEF ForgetQueued
<1>7. t.kind = "forget" => ForgetQueued'
  <2>1. Len(queue) + 1 \in DOMAIN queue'
    BY <1>2, <1>3
  <2> QED
    BY <1>1, <2>1 DEF ForgetQueued
<1> QED
  BY <1>4, <1>5, <1>6, <1>7

\* A loss that is reported will be heard while the app is up.
LEMMA Reported ==
  ASSUME Typed, OnBackendStatus
  PROVE  /\ app = "up" => ForgetQueued'
         /\ ForgetQueued => ForgetQueued'
         /\ \/ queue' = queue
            \/ app = "up" /\ \E t \in Tasks : queue' = Append(queue, t)
<1>1. Forget \in Tasks /\ Forget.kind = "forget"
  BY Records, Kinds
<1>2. CASE app = "up"
  <2>1. queue' = Append(queue, Forget)
    BY <1>2 DEF OnBackendStatus, RunForget
  <2> QED
    BY <1>1, <1>2, <2>1, QueueGrows
<1>3. CASE app # "up"
  BY <1>3 DEF OnBackendStatus, RunForget, ForgetQueued
<1> QED
  BY <1>2, <1>3

\* The steps of the others: the reader, the service, Dart, the cores; and those
\* of the worker.
Inside == Worker \/ Timeout
Outside ==
  \/ Reader \/ Handler \/ Deliver \/ Dart \/ ServiceGoes \/ ServiceReturns
  \/ \E b \in Backends : CoreLost(b) \/ Rebuild(b) \/ Rebuilt(b)

\* They are all there is.
LEMMA InOrOut == Next => Inside \/ Outside
BY DEF Next, Inside, Outside, Faults

\* The others leave the worker's state alone, but its queue.
LEMMA OutsideIs ==
  ASSUME Typed, Outside
  PROVE  /\ UNCHANGED <<task, wpc, active, proxy, call, nextId, stuck>>
         /\ missed' \in {missed, missed \cup {"rebuild"}}
         /\ app' = app \/ (app = "up" /\ app' \in {"ending", "destroying"})
         /\ \/ queue' = queue
            \/ app = "up" /\ \E t \in Tasks : queue' = Append(queue, t)
<1> USE DEF dartVars, workerVars, linkVars, callVars, serviceVars, ghosts
<1>1. CASE ReadAnswer \/ ReadFails
  BY <1>1 DEF ReadAnswer, ReadFails
<1>2. CASE ReadLost \/ ReaderEnds
  BY <1>2, Reported DEF ReadLost, ReaderEnds, ReportLoss
<1>3. CASE Serve
  BY <1>3 DEF Serve
<1>4. CASE StartEnds \/ Respond
  BY <1>4 DEF StartEnds, Respond
<1>5. CASE Deliver \/ EndSession \/ Destroy
  BY <1>5 DEF Deliver, EndSession, Destroy
<1>6. ASSUME NEW r \in Requests, Ask(r)
      PROVE  /\ app = "up" /\ \E t \in Tasks : queue' = Append(queue, t)
             /\ UNCHANGED <<app, task, wpc, active, proxy, call, nextId, stuck, missed>>
  BY <1>6, AskIs DEF Ask
<1>7. CASE ServiceGoes \/ ServiceReturns
  BY <1>7 DEF ServiceGoes, ServiceReturns
<1>8. ASSUME NEW b \in Backends, CoreLost(b) \/ Rebuild(b) \/ Rebuilt(b)
      PROVE  /\ UNCHANGED <<app, task, wpc, active, proxy, call, nextId, stuck, missed>>
             /\ queue' = queue \/ OnBackendStatus
  BY <1>8 DEF CoreLost, Rebuild, Rebuilt, CoreStops
<1>9. ASSUME NEW b \in Backends, CoreLost(b) \/ Rebuild(b) \/ Rebuilt(b)
      PROVE  \/ queue' = queue
             \/ app = "up" /\ \E t \in Tasks : queue' = Append(queue, t)
  BY <1>8, <1>9, Reported
<1> QED
  BY <1>1, <1>2, <1>3, <1>4, <1>5, <1>6, <1>7, <1>8, <1>9
     DEF Outside, Reader, Handler, Dart

\* What they leave is where it was, and whose it was.
LEMMA OutsideStays ==
  ASSUME Typed, Outside
  PROVE  /\ (Calling' <=> Calling) /\ (Changing' <=> Changing) /\ Called' = Called
         /\ \A b : Starting(b)' <=> Starting(b)
         /\ (missed' = {} => missed = {}) /\ ("stale" \in missed' <=> "stale" \in missed)
         /\ (SyncOpen => SyncOpen') /\ (ForgetQueued => ForgetQueued')
         /\ app' = "up" => app = "up"
         /\ app = "closed" => app' = "closed" /\ queue' = queue
         /\ app' = "closed" => app = "closed"
<1>1. /\ UNCHANGED <<task, wpc, active, proxy, call, nextId, stuck>>
      /\ missed' \in {missed, missed \cup {"rebuild"}}
      /\ app' = app \/ (app = "up" /\ app' \in {"ending", "destroying"})
      /\ \/ queue' = queue
         \/ app = "up" /\ \E t \in Tasks : queue' = Append(queue, t)
  BY OutsideIs
<1>2. queue' = queue \/ /\ queue' # <<>>
                        /\ queue # <<>> => Head(queue') = Head(queue)
                        /\ ForgetQueued => ForgetQueued'
  BY <1>1, QueueGrows
<1>3. /\ (Calling' <=> Calling) /\ (Changing' <=> Changing) /\ Called' = Called
      /\ \A b : Starting(b)' <=> Starting(b)
  BY <1>1 DEF Calling, Changing, Called, Starting
<1>4. (SyncOpen => SyncOpen') /\ (ForgetQueued => ForgetQueued')
  BY <1>1, <1>2 DEF SyncOpen, ForgetQueued
<1> QED
  BY <1>1, <1>3, <1>4

\* A method is invoked.
InvokedAs(b, why) ==
  /\ wpc' = IF b = "service" THEN "dial" ELSE "local"
  /\ call' = [id |-> 0, why |-> why, ok |-> FALSE]
  /\ call'.id = 0 /\ call'.why = why /\ call'.ok = FALSE

\* That is what Invoke says.
LEMMA InvokeIs ==
  ASSUME NEW b, NEW why, Invoke(b, why)
  PROVE  InvokedAs(b, why)
BY DEF Invoke, InvokedAs

\* What none of the worker's steps changes but the call to a backend.
Aside == UNCHANGED <<svc, toApp, toService, handler, core, connected, reader, broken>>

\* The worker takes a task.
LEMMA TakeTaskIs ==
  ASSUME Typed, TasksInv, TakeTask
  PROVE  /\ wpc = "idle" /\ queue # <<>> /\ queue' = Tail(queue)
         /\ task' = Head(queue) /\ Head(queue).kind # "exit"
         /\ Aside /\ UNCHANGED <<app, active, proxy, missed, stuck, nextId, reply>>
         /\ ForgetQueued => ForgetQueued' \/ wpc' = "forget"
         /\ \/ task'.kind = "sync" /\ wpc' = "ensure"
            \/ task'.kind = "connect" /\ wpc' = "select"
            \/ task'.kind = "forget" /\ wpc' = "forget"
            \/ task'.kind \in {"status", "disconnect"} /\ active = "none"
               /\ wpc' = "ensure"
            \/ task'.kind = "status" /\ active # "none" /\ InvokedAs(active, "query")
            \/ task'.kind = "disconnect" /\ active # "none" /\ InvokedAs(active, "stop")
<1>1. /\ wpc = "idle" /\ queue # <<>> /\ queue' = Tail(queue) /\ task' = Head(queue)
      /\ Aside /\ UNCHANGED <<app, active, proxy, missed, stuck, nextId, reply>>
  BY DEF TakeTask, Aside, dartVars, linkVars, serviceVars, ghosts
<1>2. queue \in Seq(Tasks)
  BY DEF Typed, WorkerType
<1>3. /\ Len(queue) \in Nat /\ Len(queue) > 0 /\ DOMAIN queue = 1..Len(queue)
      /\ Head(queue) = queue[1] /\ Tail(queue) \in Seq(Tasks)
      /\ Len(Tail(queue)) = Len(queue) - 1
      /\ \A i \in 1..(Len(queue) - 1) : Tail(queue)[i] = queue[i + 1]
  BY <1>1, <1>2, EmptySeq, LenProperties, HeadTailProperties
<1>4. Head(queue) \in Tasks /\ Head(queue).kind # "exit"
  BY <1>1, <1>3, Queues DEF TasksInv
<1>5. Head(queue).kind \in {"sync", "connect", "forget", "disconnect", "status"}
  BY <1>4 DEF Tasks, Methods
<1>6. \/ task'.kind = "sync" /\ wpc' = "ensure"
      \/ task'.kind = "connect" /\ wpc' = "select"
      \/ task'.kind = "forget" /\ wpc' = "forget"
      \/ task'.kind \in {"status", "disconnect"} /\ active = "none" /\ wpc' = "ensure"
      \/ task'.kind = "status" /\ active # "none" /\ InvokedAs(active, "query")
      \/ task'.kind = "disconnect" /\ active # "none" /\ InvokedAs(active, "stop")
  <2>1. CASE Head(queue).kind = "sync"
    BY <1>1, <2>1 DEF TakeTask, Now
  <2>2. CASE Head(queue).kind = "connect"
    BY <1>1, <2>2 DEF TakeTask, Now
  <2>3. CASE Head(queue).kind = "forget"
    BY <1>1, <2>3 DEF TakeTask, Now
  <2>4. CASE Head(queue).kind = "disconnect"
    BY <1>1, <2>4, InvokeIs DEF TakeTask, StopUnattached, Now
  <2>5. CASE Head(queue).kind = "status"
    BY <1>1, <2>5, InvokeIs DEF TakeTask, Now
  <2> QED
    BY <1>5, <2>1, <2>2, <2>3, <2>4, <2>5
<1>7. ForgetQueued => ForgetQueued' \/ wpc' = "forget"
  <2> SUFFICES ASSUME NEW i \in DOMAIN queue, queue[i].kind = "forget"
               PROVE  ForgetQueued' \/ wpc' = "forget"
    BY DEF ForgetQueued
  <2>1. CASE i = 1
    BY <1>1, <1>3, <1>6, <2>1
  <2>2. CASE i # 1
    <3>1. i - 1 \in 1..(Len(queue) - 1) /\ (i - 1) + 1 = i
      BY <1>3, <2>2
    <3>2. queue'[i - 1] = queue[i] /\ i - 1 \in DOMAIN queue'
      BY <1>1, <1>3, <3>1, LenProperties
    <3> QED
      BY <3>2 DEF ForgetQueued
  <2> QED
    BY <2>1, <2>2
<1> QED
  BY <1>1, <1>4, <1>6, <1>7

\* There is a connection, or one is made, or there is no service.
ConnectedAs(ok) ==
  \/ connected /\ ok /\ UNCHANGED linkVars
  \/ /\ ~connected /\ Joinable /\ ok /\ svc = "up"
     /\ connected' = TRUE /\ broken' = FALSE /\ reader' = "reading"
     /\ toService' = <<>> /\ toApp' = <<>>
  \/ /\ ~connected /\ Joinable /\ ~ok /\ svc = "down"
     /\ connected' = FALSE /\ broken' = FALSE /\ reader' = "none"
     /\ toService' = <<>> /\ toApp' = <<>>

\* That is what EnsureConnected says.
LEMMA EnsureIs ==
  ASSUME Typed, NEW ok \in BOOLEAN, EnsureConnected(ok)
  PROVE  ConnectedAs(ok)
<1>1. svc \in {"up", "down"}
  BY Values
<1> QED
  BY <1>1 DEF EnsureConnected, ConnectedAs

\* What the steps that make a connection leave alone.
Beside == UNCHANGED <<app, queue, active, proxy, missed, stuck, core, handler>>

\* A backend is looked for.
LEMMA EnsureTaskIs ==
  ASSUME Typed, PlaceInv, Ensure
  PROVE  /\ wpc = "ensure" /\ task' = task /\ Beside /\ UNCHANGED <<svc, nextId, reply>>
         /\ \E ok \in BOOLEAN :
              /\ ConnectedAs(ok)
              /\ \/ task.kind = "sync" /\ ok /\ InvokedAs("service", "query")
                 \/ task.kind = "sync" /\ ~ok /\ wpc' = "restore" /\ call' = call
                 \/ task.kind = "status" /\ ok /\ InvokedAs("service", "query")
                 \/ task.kind = "status" /\ ~ok /\ InvokedAs("local", "query")
                 \/ task.kind = "disconnect" /\ ok /\ InvokedAs("service", "stop")
                 \/ task.kind = "disconnect" /\ ~ok /\ wpc' = "restore" /\ call' = call
<1>1. PICK ok \in BOOLEAN :
        /\ EnsureConnected(ok)
        /\ CASE task.kind = "sync" ->
                  /\ IF ok THEN Invoke("service", "query") ELSE Now("restore")
                  /\ UNCHANGED <<posts, task>>
             [] task.kind = "status" ->
                  /\ Invoke(IF ok THEN "service" ELSE "local", "query")
                  /\ UNCHANGED <<posts, task>>
             [] task.kind = "disconnect" ->
                  /\ IF ok THEN Invoke("service", "stop") ELSE Now("restore")
                  /\ UNCHANGED <<posts, task>>
  BY DEF Ensure
<1>2. wpc = "ensure" /\ Beside /\ UNCHANGED <<svc, nextId, reply>>
  BY DEF Ensure, Beside, serviceVars, ghosts
<1>3. ConnectedAs(ok)
  BY <1>1, EnsureIs
<1>4. task.kind \in {"sync", "status", "disconnect"}
  BY <1>2 DEF PlaceInv
<1>5. CASE task.kind = "sync"
  BY <1>1, <1>2, <1>3, <1>5, InvokeIs DEF Now
<1>6. CASE task.kind = "status"
  BY <1>1, <1>2, <1>3, <1>6, InvokeIs DEF Now
<1>7. CASE task.kind = "disconnect"
  BY <1>1, <1>2, <1>3, <1>7, InvokeIs DEF Now
<1> QED
  BY <1>4, <1>5, <1>6, <1>7

\* A backend is chosen.
ChosenAs(b) ==
  /\ task'.kind = task.kind /\ task'.target = b
  /\ \/ active = Other(b) /\ InvokedAs(active, "replace")
     \/ active \in {"none", b} /\ InvokedAs(b, "start")

\* That is what Choose says.
LEMMA ChooseIs ==
  ASSUME Typed, NEW b \in Backends, Choose(b)
  PROVE  ChosenAs(b)
<1>1. task'.kind = task.kind /\ task'.target = b
  BY Changes DEF Choose
<1>2. active \in {"none", b, Other(b)} /\ Other(b) # "none" /\ Other(b) # b
  BY Values DEF Backends, Other
<1>3. CASE active \in {"none", b}
  BY <1>1, <1>3, InvokeIs DEF Choose, ChosenAs
<1>4. CASE active = Other(b)
  BY <1>1, <1>2, <1>4, InvokeIs DEF Choose, ChosenAs
<1> QED
  BY <1>2, <1>3, <1>4

\* The service is chosen, or to be installed, or there is only this process.
LEMMA SelectMeans ==
  ASSUME Typed, Select
  PROVE  /\ wpc \in {"select", "again"} /\ Beside /\ UNCHANGED <<svc, nextId, reply>>
         /\ \E ok \in BOOLEAN :
              /\ ConnectedAs(ok)
              /\ \/ ok /\ ChosenAs("service")
                 \/ ~ok /\ wpc' = "install" /\ task' = task /\ call' = call
                 \/ ~ok /\ ChosenAs("local")
<1>0. "service" \in Backends /\ "local" \in Backends
  BY DEF Backends
<1>1. PICK ok \in BOOLEAN :
        /\ EnsureConnected(ok)
        /\ \/ ok /\ Choose("service")
           \/ ~ok /\ wpc = "select" /\ Now("install") /\ UNCHANGED task
           \/ ~ok /\ wpc = "again" /\ Choose("local")
  BY DEF Select
<1>2. wpc \in {"select", "again"} /\ Beside /\ UNCHANGED <<svc, nextId, reply>>
  BY DEF Select, Beside, dartVars, serviceVars, ghosts
<1>3. ConnectedAs(ok)
  BY <1>1, EnsureIs
<1>4. \/ ok /\ ChosenAs("service")
      \/ ~ok /\ wpc' = "install" /\ task' = task /\ call' = call
      \/ ~ok /\ ChosenAs("local")
  BY <1>0, <1>1, ChooseIs DEF Now
<1> QED
  BY <1>2, <1>3, <1>4

\* The service is there then, or this process is chosen.
LEMMA InstallMeans ==
  ASSUME Typed, StartInstalledService
  PROVE  /\ wpc = "install" /\ Beside /\ UNCHANGED <<nextId, reply>>
         /\ UNCHANGED <<connected, reader, broken, toService, toApp>>
         /\ \/ svc' = "up" /\ wpc' = "again" /\ task' = task /\ call' = call
            \/ svc' = svc /\ ChosenAs("local")
<1>1. "local" \in Backends
  BY DEF Backends
<1>2. \/ svc' = "up" /\ Now("again") /\ UNCHANGED task
      \/ Choose("local") /\ UNCHANGED svc
  BY DEF StartInstalledService
<1>3. \/ svc' = "up" /\ wpc' = "again" /\ task' = task /\ call' = call
      \/ svc' = svc /\ ChosenAs("local")
  BY <1>1, <1>2, ChooseIs DEF Now
<1> QED
  BY <1>3 DEF StartInstalledService, Beside, dartVars, linkVars, ghosts

\* A call returns.
ReturnedAs(ok) ==
  /\ wpc' = "returned" /\ reply' = NoReply
  /\ call'.id = call.id /\ call'.why = call.why /\ call'.ok = ok

\* That is what Returned says.
LEMMA ReturnedMeans ==
  ASSUME Typed, NEW ok \in BOOLEAN, Returned(ok)
  PROVE  ReturnedAs(ok)
BY Changes DEF Returned, ReturnedAs

\* A call gets its number, or there is no service.
LEMMA DialMeans ==
  ASSUME Typed, Dial
  PROVE  /\ wpc = "dial" /\ task' = task /\ Beside /\ UNCHANGED svc
         /\ \E ok \in BOOLEAN :
              /\ ConnectedAs(ok)
              /\ \/ /\ ok /\ wpc' = "send" /\ reply' = NoReply
                    /\ nextId' = nextId + 1 /\ call'.id = nextId
                    /\ call'.why = call.why /\ call'.ok = call.ok
                 \/ ~ok /\ ReturnedAs(FALSE) /\ nextId' = nextId
<1>1. PICK ok \in BOOLEAN :
        /\ EnsureConnected(ok)
        /\ \/ /\ ok
              /\ nextId' = nextId + 1 /\ call' = [call EXCEPT !.id = nextId]
              /\ reply' = NoReply
              /\ wpc' = "send"
           \/ ~ok /\ Returned(FALSE) /\ UNCHANGED nextId
  BY DEF Dial
<1>2. wpc = "dial" /\ task' = task /\ Beside /\ UNCHANGED svc
  BY DEF Dial, Beside, dartVars, serviceVars, ghosts
<1>3. ConnectedAs(ok)
  BY <1>1, EnsureIs
<1>4. \/ /\ ok /\ wpc' = "send" /\ reply' = NoReply
         /\ nextId' = nextId + 1 /\ call'.id = nextId
         /\ call'.why = call.why /\ call'.ok = call.ok
      \/ ~ok /\ ReturnedAs(FALSE) /\ nextId' = nextId
  BY <1>1, Changes, ReturnedMeans
<1> QED
  BY <1>2, <1>3, <1>4

\* A call is sent, or its pipe is broken.
Sent == [id |-> call.id, why |-> call.why, req |-> task.req]

\* ... as Send does.
LEMMA SendMeans ==
  ASSUME Typed, Send
  PROVE  /\ wpc = "send" /\ task' = task /\ Beside
         /\ UNCHANGED <<svc, connected, reader, broken, toApp, nextId>>
         /\ Sent.id = call.id /\ Sent.why = call.why
         /\ \/ broken /\ ReturnedAs(FALSE) /\ toService' = toService
            \/ /\ ~broken /\ wpc' = "wait" /\ call' = call /\ reply' = reply
               /\ toService' = Append(toService, Sent)
<1>1. Sent.id = call.id /\ Sent.why = call.why
  BY DEF Sent
<1>2. CASE broken
  BY <1>1, <1>2, ReturnedMeans DEF Send, Beside, dartVars, serviceVars, ghosts
<1>3. CASE ~broken
  BY <1>1, <1>3 DEF Send, Sent, Beside, dartVars, serviceVars, ghosts
<1> QED
  BY <1>2, <1>3

\* A call returns with its answer, or without one.
LEMMA ReceiveMeans ==
  ASSUME Typed, Receive
  PROVE  /\ wpc = "wait" /\ reply # NoReply /\ task' = task /\ Beside
         /\ UNCHANGED <<svc, nextId, linkVars>>
         /\ ReturnedAs(reply.type = "answer" /\ reply.ok)
<1>1. (reply.type = "answer" /\ reply.ok) \in BOOLEAN
  BY DEF Typed, CallType, Replies
<1> QED
  BY <1>1, ReturnedMeans DEF Receive, Beside, dartVars, serviceVars, ghosts

\* A call is given up.
LEMMA TimeoutMeans ==
  ASSUME Typed, Timeout
  PROVE  /\ wpc = "wait" /\ reply = NoReply /\ task' = task
         /\ UNCHANGED <<app, queue, active, proxy, stuck, core, handler, svc, nextId,
                        linkVars>>
         /\ missed' = missed \cup {"late"} /\ ReturnedAs(FALSE)
BY ReturnedMeans DEF Timeout, dartVars, serviceVars

\* A method of this process is called.
LEMMA LocalMeans ==
  ASSUME Typed, Local
  PROVE  /\ wpc = "local" /\ task' = task
         /\ UNCHANGED <<app, queue, active, proxy, missed, stuck, svc, handler, nextId,
                        linkVars>>
         /\ core'["service"] = core["service"]
         /\ \/ call.why = "query" /\ ReturnedAs(core["local"] = "up") /\ core' = core
            \/ /\ call.why \notin {"query", "start"} /\ ReturnedAs(TRUE)
               /\ core'["local"] = "down"
            \/ /\ call.why = "start" /\ UNCHANGED <<wpc, call, reply>>
               /\ core'["local"] = "starting"
            \/ /\ call.why = "start" /\ core["service"] = "down" /\ ReturnedAs(TRUE)
               /\ core'["local"] = "up"
            \/ /\ call.why = "start" /\ ReturnedAs(FALSE) /\ core'["local"] = "down"
<1>1. /\ wpc = "local" /\ task' = task
      /\ UNCHANGED <<app, queue, active, proxy, missed, stuck, svc, handler, nextId,
                     linkVars>>
  BY DEF Local, dartVars, ghosts
<1>2. {"down", "starting", "up"} \subseteq CoreStates
  BY DEF CoreStates
<1>3. CASE call.why = "query" /\ Returned(core["local"] = "up") /\ core' = core
  BY <1>1, <1>3, ReturnedMeans
<1>4. CASE /\ call.why \notin {"query", "start"} /\ Returned(TRUE)
           /\ core' = [core EXCEPT !["local"] = "down"]
  BY <1>1, <1>2, <1>4, ReturnedMeans, Changes
<1>5. CASE /\ call.why = "start" /\ UNCHANGED <<wpc, call, reply>>
           /\ core' = [core EXCEPT !["local"] = "starting"]
  BY <1>1, <1>2, <1>5, Changes
<1>6. ASSUME NEW ok \in {FALSE} \cup {PortsFree("local")}, call.why = "start",
             core' = [core EXCEPT !["local"] = IF ok THEN "up" ELSE "down"],
             Returned(ok)
      PROVE  /\ core'["service"] = core["service"]
             /\ \/ /\ core["service"] = "down" /\ ReturnedAs(TRUE)
                   /\ core'["local"] = "up"
                \/ ReturnedAs(FALSE) /\ core'["local"] = "down"
  <2>1. ok \in BOOLEAN /\ (ok => core["service"] = "down")
    BY DEF PortsFree, Other
  <2>2. ReturnedAs(ok)
    BY <1>6, <2>1, ReturnedMeans
  <2>3. CASE ok
    BY <1>2, <1>6, <2>1, <2>2, <2>3, Changes
  <2>4. CASE ~ok
    <3>1. ok = FALSE
      BY <2>1, <2>4
    <3>2. core' = [core EXCEPT !["local"] = "down"]
      BY <1>6, <2>4
    <3>3. ReturnedAs(FALSE)
      BY <2>2, <3>1, Zenon
    <3> QED
      BY <1>2, <3>2, <3>3, Changes
  <2> QED
    BY <2>3, <2>4
<1> QED
  BY <1>1, <1>3, <1>4, <1>5, <1>6 DEF Local

\* What the steps after a call leave alone.
Apart1 == Aside /\ UNCHANGED <<app, queue, reply, nextId>>

\* The bridge learns whether the service had a core.
LEMMA SyncMeans ==
  ASSUME Typed, SyncReturned
  PROVE  /\ wpc = "returned" /\ call.why = "query" /\ task.kind = "sync"
         /\ Apart1 /\ UNCHANGED <<proxy, stuck>>
         /\ \/ /\ call.ok /\ active' = "service" /\ missed' = {} /\ wpc' = "idle"
               /\ task' = Sync /\ call' = NoCall
            \/ /\ ~call.ok /\ wpc' = "restore" /\ call' = call
               /\ UNCHANGED <<active, missed, task>>
<1>1. /\ wpc = "returned" /\ call.why = "query" /\ task.kind = "sync"
      /\ Apart1 /\ UNCHANGED <<proxy, stuck>>
  BY DEF SyncReturned, AfterCall, Apart1, Aside, dartVars, linkVars, serviceVars
<1>2. CASE call.ok
  BY <1>1, <1>2 DEF SyncReturned, Attach, Finish
<1>3. CASE ~call.ok
  BY <1>1, <1>3 DEF SyncReturned, Now
<1> QED
  BY <1>1, <1>2, <1>3

\* A task of Dart is answered.
DoneAs == wpc' = "idle" /\ task' = Sync /\ call' = NoCall

\* A question of Dart finds a core.
LEMMA StatusMeans ==
  ASSUME Typed, StatusReturned
  PROVE  /\ wpc = "returned" /\ call.why = "query" /\ task.kind = "status"
         /\ Apart1 /\ UNCHANGED <<proxy, stuck>> /\ DoneAs
         /\ \/ /\ call.ok /\ active = "none" /\ missed' = {}
               /\ active' = IF call.id # 0 THEN "service" ELSE "local"
            \/ ~(call.ok /\ active = "none") /\ UNCHANGED <<active, missed>>
<1>1. /\ wpc = "returned" /\ call.why = "query" /\ task.kind = "status"
      /\ Apart1 /\ UNCHANGED <<proxy, stuck>> /\ DoneAs
  BY DEF StatusReturned, AfterCall, Apart1, Aside, linkVars, serviceVars, Done, Finish,
     DoneAs
<1>2. CASE call.ok /\ active = "none"
  BY <1>1, <1>2 DEF StatusReturned, Attach, QueriedBackend
<1>3. CASE ~(call.ok /\ active = "none")
  BY <1>1, <1>3 DEF StatusReturned
<1> QED
  BY <1>1, <1>2, <1>3

\* What was to be stopped is forgotten.
LEMMA StopMeans ==
  ASSUME StopReturned
  PROVE  /\ wpc = "returned" /\ call.why = "stop" /\ wpc' = "restore" /\ active' = "none"
         /\ Apart1 /\ UNCHANGED <<proxy, stuck, task, call, missed>>
BY DEF StopReturned, AfterCall, Now, Apart1, Aside, dartVars, linkVars, serviceVars,
   ghosts

\* After the one backend the other.
LEMMA ReplaceMeans ==
  ASSUME ReplaceReturned
  PROVE  /\ wpc = "returned" /\ call.why = "replace" /\ InvokedAs(task.target, "start")
         /\ Apart1 /\ UNCHANGED <<proxy, stuck, task, active, missed>>
BY InvokeIs DEF ReplaceReturned, AfterCall, Apart1, Aside, dartVars, linkVars,
   serviceVars, ghosts

\* What was started is in use, or nothing is.
LEMMA StartMeans ==
  ASSUME Typed, StartReturned
  PROVE  /\ wpc = "returned" /\ call.why = "start" /\ call' = call
         /\ Apart1 /\ UNCHANGED <<proxy, stuck, task>>
         /\ \/ call.ok /\ active' = task.target /\ missed' = {} /\ wpc' = "proxy"
            \/ ~call.ok /\ active' = "none" /\ missed' = missed /\ wpc' = "restore"
<1>1. /\ wpc = "returned" /\ call.why = "start"
      /\ Apart1 /\ UNCHANGED <<proxy, stuck, task>>
  BY DEF StartReturned, AfterCall, Apart1, Aside, dartVars, linkVars, serviceVars
<1>2. CASE call.ok
  BY <1>1, <1>2 DEF StartReturned, Attach, Now
<1>3. CASE ~call.ok
  BY <1>1, <1>3 DEF StartReturned, Now
<1> QED
  BY <1>1, <1>2, <1>3

\* The proxy is set, or cannot be.
LEMMA SetProxyMeans ==
  ASSUME SetProxy
  PROVE  /\ wpc = "proxy" /\ Apart1 /\ UNCHANGED <<active, missed>>
         /\ DoneAs \/ (task' = task /\ InvokedAs(task.target, "undo"))
         /\ proxy' = "orphaned" => proxy = "orphaned" /\ stuck' = stuck
<1>1. wpc = "proxy" /\ Apart1 /\ UNCHANGED <<active, missed>>
  BY DEF SetProxy, Apart1, Aside, linkVars, serviceVars
<1>2. \/ Done
      \/ UNCHANGED task /\ Invoke(task.target, "undo")
  BY DEF SetProxy
<1>3. proxy' = "orphaned" => proxy = "orphaned" /\ stuck' = stuck
  BY DEF SetProxy
<1> QED
  BY <1>1, <1>2, <1>3, InvokeIs DEF Done, Finish, DoneAs

\* A start without its proxy is undone.
LEMMA UndoMeans ==
  ASSUME UndoReturned
  PROVE  /\ wpc = "returned" /\ call.why = "undo" /\ active' = "none"
         /\ stuck' = (IF proxy = "chrnet" THEN "reconnect" ELSE stuck)
         /\ Apart1 /\ UNCHANGED <<proxy, missed>> /\ DoneAs
BY DEF UndoReturned, AfterCall, Apart1, Aside, linkVars, serviceVars, ProxyFailed, Done,
   Finish, DoneAs

\* The proxy is restored, or it is known why not.
RestoredAs ==
  \/ proxy' = "user"
  \/ proxy' \in {"chrnet", "orphaned"} /\ stuck' = "restore"
  \/ proxy = "orphaned" /\ UNCHANGED <<proxy, stuck>>

\* At the end of the app its own core goes with it.
LEMMA RestoreMeans ==
  ASSUME Typed, RestoreProxy
  PROVE  /\ wpc = "restore" /\ RestoredAs /\ DoneAs
         /\ UNCHANGED <<queue, active, broken, toService, toApp, reply, nextId, svc,
                        handler, missed>>
         /\ core'["service"] = core["service"]
         /\ \/ /\ task.kind = "exit" /\ app' = "closed"
               /\ connected' = FALSE /\ reader' = "done" /\ core'["local"] = "down"
            \/ task.kind # "exit" /\ UNCHANGED <<app, core, connected, reader>>
<1>1. /\ wpc = "restore" /\ RestoredAs /\ DoneAs
      /\ UNCHANGED <<queue, active, broken, toService, toApp, reply, nextId, svc,
                     handler, missed>>
  BY DEF RestoreProxy, Restored, RestoredAs, Done, Finish, DoneAs
<1>2. "down" \in CoreStates
  BY DEF CoreStates
<1>3. CASE task.kind = "exit"
  BY <1>1, <1>2, <1>3, Changes DEF RestoreProxy, Restored, LeaveProcess
<1>4. CASE task.kind # "exit"
  BY <1>1, <1>4 DEF RestoreProxy, Restored
<1> QED
  BY <1>3, <1>4, <1>1

\* What was lost is forgotten.
LEMMA ForgetMeans ==
  ASSUME ForgetBackend
  PROVE  /\ wpc = "forget" /\ Apart1 /\ UNCHANGED <<proxy, stuck>>
         /\ \/ /\ active' = "none" /\ wpc' = "restore" /\ call' = call /\ task' = task
               /\ missed' = IF \E b \in Backends : core[b] # "down"
                            THEN missed \cup {"stale"} ELSE missed
            \/ app \notin {"up", "ending"} /\ DoneAs /\ UNCHANGED <<active, missed>>
<1>1. wpc = "forget" /\ Apart1 /\ UNCHANGED <<proxy, stuck>>
  BY DEF ForgetBackend, Apart1, Aside, dartVars, linkVars, serviceVars
<1>2. CASE Alive
  BY <1>1, <1>2 DEF ForgetBackend, RestoreAtOnce, Now
<1>3. CASE ~Alive
  BY <1>1, <1>3 DEF ForgetBackend, Finish, DoneAs, Alive
<1> QED
  BY <1>2, <1>3

\* The app ends.
LEMMA ShutdownMeans ==
  ASSUME Shutdown
  PROVE  /\ app \in {"ending", "destroying"} /\ wpc = "idle" /\ queue = <<>>
         /\ Apart1 /\ UNCHANGED <<active, proxy, missed, stuck>>
         /\ task' = Exiting
         /\ \/ active = "none" /\ wpc' = "restore" /\ call' = call
            \/ active # "none" /\ InvokedAs(active, "stop")
<1>1. /\ app \in {"ending", "destroying"} /\ wpc = "idle" /\ queue = <<>>
      /\ Apart1 /\ UNCHANGED <<active, proxy, missed, stuck>> /\ task' = Exiting
  BY DEF Shutdown, Apart1, Aside, dartVars, linkVars, serviceVars, ghosts
<1> QED
  BY <1>1, InvokeIs DEF Shutdown, StopActive, Now

-----------------------------------------------------------------------------
(* Where the worker is.                                                    *)

\* A call is where its backend is, after every step.
LEMMA PlacedStep ==
  ASSUME Typed, TasksInv, PlaceInv, Ids, Placed, Next
  PROVE  Placed'
<1>0. /\ active \in {"none", "service", "local"} /\ call.why \in Why
      /\ task.target \in {"none", "service", "local"} /\ call.id \in Nat
      /\ Sync.kind = "sync" /\ Exiting.kind = "exit" /\ Forget.kind = "forget"
  BY Values, Kinds DEF Backends
<1>1. CASE Outside
  <2>1. /\ UNCHANGED <<task, wpc, active, call>> /\ Called' = Called
        /\ Calling' = Calling
    BY <1>1, OutsideIs, OutsideStays DEF Calling
  <2> QED
    BY <2>1 DEF Placed
<1> USE <1>0 DEF Placed, Calling, Called, InvokedAs, Backends, Other
<1>2. CASE TakeTask
  BY <1>2, TakeTaskIs DEF Aside
<1>3. CASE Ensure
  <2>1. UNCHANGED <<active, task>> /\ (task.kind # "sync" => active = "none")
    BY <1>3, EnsureTaskIs DEF Beside
  <2>2. \/ InvokedAs("service", "query") \/ wpc' = "restore"
        \/ task.kind = "status" /\ InvokedAs("local", "query")
        \/ task.kind = "disconnect" /\ InvokedAs("service", "stop")
    BY <1>3, EnsureTaskIs
  <2> QED
    BY <2>1, <2>2
<1>4. ASSUME NEW b \in Backends, ChosenAs(b), UNCHANGED active, task.kind = "connect"
      PROVE  Placed'
  <2>1. CASE b = "service"
    BY <1>4, <2>1 DEF ChosenAs
  <2>2. CASE b = "local"
    BY <1>4, <2>2 DEF ChosenAs
  <2> QED
    BY <1>4, <2>1, <2>2
<1>5. CASE Select
  <2>1. active' = active /\ task.kind = "connect"
    BY <1>5, SelectMeans DEF Beside, PlaceInv
  <2>2. (wpc' = "install" /\ task' = task) \/ ChosenAs("service") \/ ChosenAs("local")
    BY <1>5, SelectMeans
  <2> QED
    BY <1>4, <2>1, <2>2
<1>6. CASE StartInstalledService
  <2>1. active' = active /\ task.kind = "connect"
    BY <1>6, InstallMeans DEF Beside, PlaceInv
  <2>2. (wpc' = "again" /\ task' = task) \/ ChosenAs("local")
    BY <1>6, InstallMeans
  <2> QED
    BY <1>4, <2>1, <2>2
<1>7. CASE Dial
  <2>1. UNCHANGED <<active, task>> /\ wpc = "dial" /\ call'.why = call.why
    BY <1>7, DialMeans DEF Beside, ReturnedAs
  <2>2. wpc' = "send" \/ (wpc' = "returned" /\ call'.ok = FALSE)
    BY <1>7, DialMeans DEF ReturnedAs
  <2> QED
    BY <2>1, <2>2
<1>8. CASE Send
  <2>1. /\ UNCHANGED <<active, task>> /\ wpc = "send"
        /\ call'.why = call.why /\ call'.id = call.id
        /\ wpc' = "wait" \/ (wpc' = "returned" /\ call'.ok = FALSE)
    BY <1>8, SendMeans DEF Beside, ReturnedAs
  <2> QED
    BY <2>1
<1>9. CASE Receive \/ Timeout
  <2>1. /\ UNCHANGED <<active, task>> /\ wpc = "wait" /\ wpc' = "returned"
        /\ call'.why = call.why /\ call'.id = call.id
    BY <1>9, ReceiveMeans, TimeoutMeans DEF Beside, ReturnedAs
  <2>2. call.id > 0
    BY <2>1 DEF Ids
  <2> QED
    BY <2>1, <2>2
<1>10. CASE Local
  <2>1. /\ UNCHANGED <<active, task>> /\ wpc = "local"
        /\ call'.why = call.why /\ call'.id = call.id
        /\ (wpc' = "local" /\ call' = call) \/ wpc' = "returned"
    BY <1>10, LocalMeans DEF ReturnedAs
  <2> QED
    BY <2>1 DEF Ids
<1>11. CASE SyncReturned
  <2>1. (wpc' = "idle" /\ task' = Sync) \/ (wpc' = "restore" /\ task' = task)
    BY <1>11, SyncMeans
  <2> QED
    BY <2>1
<1>12. CASE StatusReturned \/ UndoReturned \/ RestoreProxy
  <2>1. wpc' = "idle" /\ task' = Sync
    BY <1>12, StatusMeans, UndoMeans, RestoreMeans DEF DoneAs
  <2> QED
    BY <2>1
<1>13. CASE StopReturned
  BY <1>13, StopMeans
<1>14. CASE ReplaceReturned
  <2>1. /\ UNCHANGED <<active, task>> /\ InvokedAs(task.target, "start")
        /\ wpc = "returned" /\ call.why = "replace"
    BY <1>14, ReplaceMeans
  <2>2. task.kind # "sync"
    BY <2>1 DEF PlaceInv
  <2> QED
    BY <2>1, <2>2
<1>15. CASE StartReturned
  <2>1. /\ wpc = "returned" /\ call.why = "start" /\ UNCHANGED task
        /\ (wpc' = "proxy" /\ active' = task.target) \/ wpc' = "restore"
    BY <1>15, StartMeans
  <2> QED
    BY <2>1
<1>16. CASE SetProxy
  <2>1. /\ wpc = "proxy" /\ active' = active
        /\ \/ wpc' = "idle" /\ task' = Sync
           \/ InvokedAs(task.target, "undo") /\ task' = task
    BY <1>16, SetProxyMeans DEF DoneAs
  <2>2. task.kind # "sync"
    BY <2>1 DEF PlaceInv
  <2> QED
    BY <2>1, <2>2
<1>17. CASE ForgetBackend
  <2>1. (wpc' = "idle" /\ task' = Sync) \/ (wpc' = "restore" /\ task' = task)
    BY <1>17, ForgetMeans DEF DoneAs
  <2> QED
    BY <2>1
<1>18. CASE Shutdown
  <2>1. /\ task' = Exiting /\ active' = active
        /\ wpc' = "restore" \/ (active # "none" /\ InvokedAs(active, "stop"))
    BY <1>18, ShutdownMeans
  <2> QED
    BY <2>1
<1> QED
  BY <1>1, <1>2, <1>3, <1>5, <1>6, <1>7, <1>8, <1>9, <1>10, <1>11, <1>12, <1>13,
     <1>14, <1>15, <1>16, <1>17, <1>18, InOrOut
     DEF Inside, Worker, Task0, CallStep, AfterStep

\* What leaves the app is gone from it, after every step.
LEMMA LeavingStep ==
  ASSUME Typed, TasksInv, PlaceInv, ProxyKnown, Leaving, Next
  PROVE  Leaving'
<1>0. Sync.kind = "sync" /\ Exiting.kind = "exit"
  BY Kinds
<1> USE <1>0 DEF Leaving
<1>1. CASE Outside
  <2>1. /\ UNCHANGED <<task, wpc, active, proxy, stuck>>
        /\ app' = app \/ (app = "up" /\ app' \in {"ending", "destroying"})
        /\ queue' = queue \/ app = "up"
    BY <1>1, OutsideIs
  <2> QED
    BY <2>1
<1>2. CASE TakeTask
  <2>1. task'.kind # "exit" /\ app' = app /\ queue # <<>>
    BY <1>2, TakeTaskIs
  <2> QED
    BY <2>1
<1>3. CASE \/ Ensure \/ Select \/ StartInstalledService \/ Dial \/ Send \/ Receive
           \/ Timeout \/ Local
  <2>1. /\ UNCHANGED <<app, queue, active, proxy, stuck>> /\ task'.kind = task.kind
        /\ wpc # "idle"
        /\ wpc' # "restore" \/ task.kind # "exit"
    BY <1>3, EnsureTaskIs, SelectMeans, InstallMeans, DialMeans, SendMeans, ReceiveMeans,
       TimeoutMeans, LocalMeans
       DEF Beside, ChosenAs, InvokedAs, ReturnedAs
  <2> QED
    BY <2>1
<1>4. CASE \/ SyncReturned \/ StatusReturned \/ SetProxy \/ UndoReturned
  <2>1. /\ queue' = queue /\ app' = app /\ task.kind # "exit" /\ wpc # "idle"
        /\ (wpc' = "idle" /\ task' = Sync) \/ task' = task
    BY <1>4, SyncMeans, StatusMeans, SetProxyMeans, UndoMeans
       DEF Apart1, DoneAs, PlaceInv
  <2> QED
    BY <2>1
<1>8. CASE RestoreProxy
  <2>1. /\ wpc = "restore" /\ wpc' = "idle" /\ task' = Sync /\ queue' = queue
        /\ active' = active
        /\ (task.kind = "exit" /\ app' = "closed") \/ (task.kind # "exit" /\ app' = app)
    BY <1>8, RestoreMeans DEF DoneAs
  <2>2. proxy' = "user" \/ stuck' = "restore"
    BY <1>8, RestoreMeans DEF RestoredAs, ProxyKnown
  <2> QED
    BY <2>1, <2>2
<1>5. CASE StopReturned \/ ReplaceReturned \/ StartReturned
  <2>1. /\ UNCHANGED <<app, queue, proxy, task>> /\ wpc = "returned"
        /\ wpc' # "restore" \/ active' = "none"
    BY <1>5, StopMeans, ReplaceMeans, StartMeans DEF Apart1, InvokedAs
  <2> QED
    BY <2>1
<1>6. CASE ForgetBackend
  <2>1. /\ UNCHANGED <<app, queue>> /\ wpc = "forget" /\ task.kind = "forget"
        /\ task' \in {task, Sync}
    BY <1>6, ForgetMeans DEF Apart1, DoneAs, PlaceInv
  <2> QED
    BY <2>1
<1>7. CASE Shutdown
  BY <1>7, ShutdownMeans DEF Apart1, InvokedAs
<1> QED
  BY <1>1, <1>2, <1>3, <1>4, <1>5, <1>6, <1>7, <1>8, InOrOut
     DEF Inside, Worker, Task0, CallStep, AfterStep

\* A proxy setting without a connection has its reason, after every step.
LEMMA ProxyKnownStep ==
  ASSUME Typed, TasksInv, PlaceInv, Placed, ProxyKnown, Next
  PROVE  ProxyKnown'
<1>0. /\ active \in {"none", "service", "local"} /\ task.kind \in Methods \cup Own
  BY Values DEF Backends, Typed, BitsType
<1> USE <1>0 DEF ProxyKnown, Calling, SyncOpen
<1>1. CASE Outside
  <2>1. UNCHANGED <<task, wpc, active, proxy, stuck>>
    BY <1>1, OutsideIs
  <2>2. SyncOpen => SyncOpen'
    BY <1>1, OutsideStays
  <2> QED
    BY <2>1, <2>2
<1>2. CASE TakeTask
  <2>1. /\ wpc = "idle" /\ queue # <<>> /\ task' = Head(queue)
        /\ UNCHANGED <<active, proxy, stuck>>
        /\ task'.kind = "sync" => wpc' = "ensure"
    BY <1>2, TakeTaskIs DEF InvokedAs
  <2> QED
    BY <2>1
<1>3. CASE Ensure
  <2>1. /\ wpc = "ensure" /\ UNCHANGED <<active, proxy, stuck, task>>
        /\ wpc' \in {"dial", "local", "restore"}
    BY <1>3, EnsureTaskIs DEF Beside, InvokedAs
  <2> QED
    BY <2>1
<1>4. CASE Select \/ StartInstalledService
  <2>1. /\ wpc \in {"select", "again", "install"} /\ UNCHANGED <<active, proxy, stuck>>
    BY <1>4, SelectMeans, InstallMeans DEF Beside
  <2>2. task.kind = "connect"
    BY <2>1 DEF PlaceInv
  <2> QED
    BY <2>1, <2>2
<1>5. CASE Dial \/ Send \/ Receive \/ Timeout \/ Local
  <2>1. /\ wpc \in {"dial", "send", "wait", "local"}
        /\ UNCHANGED <<active, proxy, stuck, task>>
        /\ wpc' \in {"send", "wait", "local", "returned"}
    BY <1>5, DialMeans, SendMeans, ReceiveMeans, TimeoutMeans, LocalMeans
       DEF Beside, ReturnedAs
  <2> QED
    BY <2>1
<1>6. CASE SyncReturned \/ StopReturned
  <2>1. /\ active' = "service" \/ wpc' = "restore"
        /\ UNCHANGED <<proxy, stuck>>
    BY <1>6, SyncMeans, StopMeans
  <2> QED
    BY <2>1
<1>13. CASE RestoreProxy
  BY <1>13, RestoreMeans DEF RestoredAs
<1>7. CASE StatusReturned \/ ReplaceReturned
  <2>1. /\ wpc = "returned" /\ call.why \in {"query", "replace"}
        /\ proxy' = proxy /\ stuck' = stuck
        /\ call.why = "query" => task.kind = "status"
        /\ active' = active \/ active' \in {"service", "local"}
    BY <1>7, StatusMeans, ReplaceMeans
  <2>2. task.kind # "sync"
    BY <2>1 DEF PlaceInv
  <2> QED
    BY <2>1, <2>2
<1>8. CASE StartReturned
  <2>1. /\ wpc = "returned" /\ call.why = "start"
        /\ active' = task.target \/ wpc' = "restore"
        /\ UNCHANGED <<proxy, stuck>>
    BY <1>8, StartMeans
  <2>2. task.target # "none"
    BY <2>1 DEF Placed, Backends
  <2> QED
    BY <2>1, <2>2
<1>9. CASE SetProxy
  <2>1. /\ wpc = "proxy" /\ active' = active
        /\ proxy' = "orphaned" => proxy = "orphaned" /\ stuck' = stuck
    BY <1>9, SetProxyMeans
  <2> QED
    BY <2>1 DEF Placed
<1>10. CASE UndoReturned
  <2>1. /\ stuck' = (IF proxy = "chrnet" THEN "reconnect" ELSE stuck)
        /\ proxy' = proxy
    BY <1>10, UndoMeans
  <2>2. proxy \in {"user", "chrnet", "orphaned"}
    BY DEF Typed, BitsType
  <2> QED
    BY <2>1, <2>2
<1>11. CASE ForgetBackend
  <2>1. /\ wpc = "forget" /\ UNCHANGED <<proxy, stuck>>
        /\ active' = active \/ wpc' = "restore"
    BY <1>11, ForgetMeans
  <2>2. task.kind = "forget"
    BY <2>1 DEF PlaceInv
  <2> QED
    BY <2>1, <2>2
<1>12. CASE Shutdown
  <2>1. /\ active' = active /\ (active = "none" => wpc' = "restore")
        /\ UNCHANGED <<proxy, stuck>>
    BY <1>12, ShutdownMeans
  <2> QED
    BY <2>1
<1> QED
  BY <1>1, <1>2, <1>3, <1>4, <1>5, <1>6, <1>7, <1>8, <1>9, <1>10, <1>11, <1>12, <1>13,
     InOrOut
     DEF Inside, Worker, Task0, CallStep, AfterStep

-----------------------------------------------------------------------------
(* The wire.                                                               *)

\* What is not connected yet stays so until the worker connects.
LEMMA VirginStays ==
  ASSUME Typed, TasksInv, PlaceInv, Virgin, Next
  PROVE  Virgin' \/ Ensure
<1>1. reader = "none" /\ active = "none" /\ SyncOpen
  BY DEF Virgin
<1>2. CASE Outside
  <2>1. active' = active /\ SyncOpen'
    BY <1>1, <1>2, OutsideIs, OutsideStays
  <2>2. reader' = reader
    BY <1>1, <1>2 DEF Outside, Reader, Handler, Dart, ReadAnswer, ReadLost, ReadFails,
       ReaderEnds, Serve, StartEnds, Respond, Deliver, Ask, EndSession, Destroy,
       ServiceGoes, ServiceReturns, CoreLost, Rebuild, Rebuilt, linkVars
  <2> QED
    BY <1>1, <2>1, <2>2 DEF Virgin
<1>3. CASE TakeTask
  <2>1. /\ wpc = "idle" /\ queue # <<>> /\ task' = Head(queue)
        /\ UNCHANGED <<active, reader>> /\ (task'.kind = "sync" => wpc' = "ensure")
    BY <1>3, TakeTaskIs DEF InvokedAs, Aside
  <2> QED
    BY <1>1, <2>1 DEF Virgin, SyncOpen
<1>4. CASE Inside /\ ~TakeTask /\ ~Ensure
  <2>1. wpc = "idle" => queue = <<>>
    BY <1>4, SelectMeans, InstallMeans, DialMeans, SendMeans, ReceiveMeans, TimeoutMeans,
       LocalMeans, SyncMeans, StatusMeans, StopMeans, ReplaceMeans, StartMeans,
       SetProxyMeans, UndoMeans, RestoreMeans, ForgetMeans, ShutdownMeans
       DEF Inside, Worker, Task0, CallStep, AfterStep
  <2>2. wpc # "ensure"
    BY <1>4, SelectMeans, InstallMeans, DialMeans, SendMeans, ReceiveMeans, TimeoutMeans,
       LocalMeans, SyncMeans, StatusMeans, StopMeans, ReplaceMeans, StartMeans,
       SetProxyMeans, UndoMeans, RestoreMeans, ForgetMeans, ShutdownMeans
       DEF Inside, Worker, Task0, CallStep, AfterStep
  <2> QED
    BY <1>1, <2>1, <2>2 DEF SyncOpen
<1> QED
  BY <1>2, <1>3, <1>4, InOrOut

\* A step that leaves the connection and the service's core alone.
LEMMA LinkedKept ==
  ASSUME Typed, TasksInv, PlaceInv, Linked, Next, ~Ensure,
         UNCHANGED <<connected, reader, broken, toService, toApp, handler>>,
         core'["service"] = core["service"], svc' \in {svc, "up"},
         app = "closed" => app' = "closed"
  PROVE  Linked'
<1>1. Virgin => Virgin'
  BY VirginStays
<1>2. Down' <=> Down
  BY DEF Down, Empty
<1>3. Empty' <=> Empty
  BY DEF Empty
<1> QED
  BY <1>1, <1>2, <1>3 DEF Linked

\* A connection is kept, made or not.
LEMMA LinkedConnects ==
  ASSUME Typed, Linked, Beside, UNCHANGED svc, NEW ok, ConnectedAs(ok)
  PROVE  Linked'
<1>0. UNCHANGED <<app, handler, core, svc>> /\ connected \in BOOLEAN
  BY DEF Beside, Typed, BitsType
<1>1. CASE connected /\ UNCHANGED linkVars
  BY <1>0, <1>1 DEF linkVars, Linked, Down, Empty
<1>2. CASE /\ svc = "up" /\ connected' = TRUE /\ broken' = FALSE /\ reader' = "reading"
  BY <1>0, <1>2 DEF Linked
<1>3. CASE /\ svc = "down" /\ connected' = FALSE /\ broken' = FALSE /\ reader' = "none"
           /\ toService' = <<>> /\ toApp' = <<>>
  BY <1>0, <1>3 DEF Linked, Down, Empty
<1> QED
  BY <1>1, <1>2, <1>3 DEF ConnectedAs

\* The two ends fit together after every step.
LEMMA LinkedStep ==
  ASSUME Typed, TasksInv, PlaceInv, Linked, Sending, Working, Next
  PROVE  Linked'
<1>0. /\ connected \in BOOLEAN /\ broken \in BOOLEAN /\ svc \in {"up", "down"}
      /\ core["service"] \in CoreStates /\ core["local"] \in CoreStates
  BY Values DEF Typed, BitsType
<1>1. CASE Ensure
  <2>1. Beside /\ UNCHANGED svc /\ \E ok \in BOOLEAN : ConnectedAs(ok)
    BY <1>1, EnsureTaskIs
  <2> QED
    BY <2>1, LinkedConnects
<1>2. CASE Select
  <2>1. Beside /\ UNCHANGED svc /\ \E ok \in BOOLEAN : ConnectedAs(ok)
    BY <1>2, SelectMeans
  <2> QED
    BY <2>1, LinkedConnects
<1>3. CASE Dial
  <2>1. Beside /\ UNCHANGED svc /\ \E ok \in BOOLEAN : ConnectedAs(ok)
    BY <1>3, DialMeans
  <2> QED
    BY <2>1, LinkedConnects
<1>4. CASE \/ TakeTask \/ StartInstalledService \/ Receive \/ Timeout \/ Local
           \/ SyncReturned \/ StatusReturned \/ StopReturned \/ ReplaceReturned
  <2>1. /\ UNCHANGED <<connected, reader, broken, toService, toApp, handler>>
        /\ core'["service"] = core["service"] /\ svc' \in {svc, "up"} /\ app' = app
    BY <1>4, TakeTaskIs, InstallMeans, ReceiveMeans, TimeoutMeans, LocalMeans, SyncMeans,
       StatusMeans, StopMeans, ReplaceMeans DEF Aside, Apart1, Beside, linkVars
  <2>2. ~Ensure
    BY <1>4, TakeTaskIs, InstallMeans, ReceiveMeans, TimeoutMeans, LocalMeans, SyncMeans,
       StatusMeans, StopMeans, ReplaceMeans, EnsureTaskIs
  <2> QED
    BY <2>1, <2>2, LinkedKept
<1>5. CASE StartReturned \/ SetProxy \/ UndoReturned \/ ForgetBackend \/ Shutdown
  <2>1. /\ UNCHANGED <<connected, reader, broken, toService, toApp, handler>>
        /\ core'["service"] = core["service"] /\ svc' \in {svc, "up"} /\ app' = app
    BY <1>5, StartMeans, SetProxyMeans, UndoMeans, ForgetMeans, ShutdownMeans
       DEF Aside, Apart1
  <2>2. ~Ensure
    BY <1>5, StartMeans, SetProxyMeans, UndoMeans, ForgetMeans, ShutdownMeans, EnsureTaskIs
  <2> QED
    BY <2>1, <2>2, LinkedKept
<1>6. CASE RestoreProxy
  <2>1. CASE task.kind = "exit"
    <3>1. /\ app' = "closed" /\ connected' = FALSE /\ reader' = "done"
          /\ UNCHANGED <<broken, svc, toService, handler>>
          /\ core'["service"] = core["service"]
      BY <1>6, <2>1, RestoreMeans
    <3> QED
      BY <3>1 DEF Linked, Down, Empty
  <2>2. CASE task.kind # "exit"
    <3>1. /\ UNCHANGED <<app, svc, connected, reader, broken, toService, toApp, handler>>
          /\ core'["service"] = core["service"] /\ wpc = "restore"
      BY <1>6, <2>2, RestoreMeans
    <3>2. ~Ensure
      BY <3>1, EnsureTaskIs
    <3> QED
      BY <3>1, <3>2, LinkedKept
  <2> QED
    BY <2>1, <2>2
<1>7. CASE Send
  <2>1. /\ wpc = "send" /\ Beside /\ UNCHANGED <<svc, connected, reader, broken, toApp>>
        /\ toService' = toService \/ ~broken
    BY <1>7, SendMeans
  <2>2. CASE toService' = toService
    <3>1. ~Ensure
      BY <2>1, EnsureTaskIs
    <3> QED
      BY <2>1, <2>2, <3>1, LinkedKept DEF Beside
  <2>3. CASE ~broken
    BY <1>0, <2>1, <2>3 DEF Linked, Sending
  <2> QED
    BY <2>1, <2>2, <2>3
<1>8. CASE ReadAnswer \/ ReadLost
  <2>1. /\ reader = "reading" /\ UNCHANGED <<connected, reader, broken, toService>>
        /\ UNCHANGED <<app, svc, handler, core>>
    BY <1>8 DEF ReadAnswer, ReadLost, serviceVars, dartVars
  <2> QED
    BY <2>1 DEF Linked, Down, Empty
<1>9. CASE ReadFails
  <2>1. /\ broken /\ connected' = FALSE /\ reader' = "leaving" /\ toApp' = <<>>
        /\ UNCHANGED <<app, svc, broken, toService, handler, core>>
    BY <1>9 DEF ReadFails, dartVars, serviceVars
  <2> QED
    BY <2>1 DEF Linked, Down, Empty
<1>10. CASE ReaderEnds
  <2>1. /\ reader = "leaving" /\ reader' = "done"
        /\ UNCHANGED <<app, svc, connected, broken, toService, toApp, handler, core>>
    BY <1>10 DEF ReaderEnds, serviceVars
  <2> QED
    BY <2>1 DEF Linked, Down, Empty, Virgin
<1>11. CASE Serve \/ StartEnds \/ Respond
  <2>1. /\ ~Empty
        /\ UNCHANGED <<app, svc, connected, reader, broken>>
    BY <1>11 DEF Serve, StartEnds, Respond, dartVars, linkVars, Empty
  <2> QED
    BY <1>0, <2>1 DEF Linked, Down
<1>12. ASSUME NEW b \in Backends, CoreLost(b) \/ Rebuild(b) \/ Rebuilt(b)
       PROVE  Linked'
  <2>1. /\ UNCHANGED <<app, svc, connected, reader, broken, toService, handler>>
        /\ core[b] \in Running
        /\ ~connected => toApp' = toApp
        /\ \E x \in CoreStates : core' = [core EXCEPT ![b] = x]
        /\ b = "local" => toApp' = toApp
        /\ wpc' = wpc /\ task' = task
    BY <1>12 DEF CoreLost, Rebuild, Rebuilt, CoreStops, dartVars, workerVars, linkVars,
       Running, CoreStates
  <2>2. ~Ensure
    BY <2>1, EnsureTaskIs DEF InvokedAs
  <2>3. CASE b = "local"
    <3>1. core'["service"] = core["service"]
      BY <2>1, <2>3, Changes
    <3> QED
      BY <2>1, <2>2, <2>3, <3>1, LinkedKept
  <2>4. CASE b = "service"
    <3>1. ~Down /\ core["service"] # "down"
      BY <2>1, <2>4 DEF Down, Running
    <3>2. Virgin => Virgin'
      BY <2>2, VirginStays
    <3> QED
      BY <1>0, <2>1, <3>1, <3>2 DEF Linked, Empty
  <2> QED
    BY <2>3, <2>4 DEF Backends
<1>13. CASE ServiceGoes
  <2>1. /\ svc' = "down" /\ handler' = NoHandler /\ core'["service"] = "down"
        /\ broken' = (connected \/ broken) /\ toService' = <<>>
        /\ UNCHANGED <<app, connected, reader, toApp>>
    BY <1>13, Changes DEF ServiceGoes, dartVars, CoreStates
  <2> QED
    BY <1>0, <2>1 DEF Linked, Down, Empty
<1>14. CASE ServiceReturns \/ Deliver \/ EndSession \/ Destroy
  <2>1. /\ UNCHANGED <<connected, reader, broken, toService, toApp, handler, core>>
        /\ svc' \in {svc, "up"} /\ (app = "closed" => app' = "closed")
        /\ wpc' = wpc
    BY <1>14 DEF ServiceReturns, Deliver, EndSession, Destroy, linkVars, serviceVars,
       dartVars, workerVars
  <2>2. ~Ensure
    BY <2>1, EnsureTaskIs DEF InvokedAs
  <2> QED
    BY <2>1, <2>2, LinkedKept
<1>15. ASSUME NEW r \in Requests, Ask(r)
       PROVE  Linked'
  <2>1. /\ UNCHANGED <<connected, reader, broken, toService, toApp, handler, core, svc>>
        /\ app' = app /\ wpc' = wpc
    BY <1>15 DEF Ask, linkVars, serviceVars
  <2>2. ~Ensure
    BY <2>1, EnsureTaskIs DEF InvokedAs
  <2> QED
    BY <2>1, <2>2, LinkedKept
<1> QED
  BY <1>1, <1>2, <1>3, <1>4, <1>5, <1>6, <1>7, <1>8, <1>9, <1>10, <1>11, <1>12, <1>13,
     <1>14, <1>15, InOrOut
     DEF Inside, Worker, Task0, CallStep, AfterStep, Outside, Reader, Handler, Dart

-----------------------------------------------------------------------------
(* What is on the wire.                                                    *)

\* The elements of a sequence; it grows at the end and shrinks at the front.
Items(s) == {s[i] : i \in DOMAIN s}

\* That is how they change.
LEMMA ItemsAre ==
  ASSUME NEW S, NEW s \in Seq(S)
  PROVE  /\ Items(s) \subseteq S /\ (s = <<>> <=> Items(s) = {})
         /\ \A x \in S : Items(Append(s, x)) = Items(s) \cup {x}
         /\ s # <<>> => Items(s) = {Head(s)} \cup Items(Tail(s)) /\ Head(s) \in S
<1>0. Len(s) \in Nat /\ DOMAIN s = 1..Len(s) /\ \A i \in DOMAIN s : s[i] \in S
  BY LenProperties, ElementOfSeq
<1>1. Items(s) \subseteq S
  BY <1>0 DEF Items
<1>2. s = <<>> <=> Items(s) = {}
  <2>1. s = <<>> <=> Len(s) = 0
    BY EmptySeq
  <2>2. Len(s) > 0 => s[1] \in Items(s)
    BY <1>0 DEF Items
  <2>3. Len(s) = 0 => DOMAIN s = {}
    BY <1>0
  <2>4. Len(s) = 0 => Items(s) = {}
    BY <2>3 DEF Items
  <2> QED
    BY <1>0, <2>1, <2>2, <2>4
<1>3. ASSUME NEW x \in S PROVE Items(Append(s, x)) = Items(s) \cup {x}
  <2>1. /\ Append(s, x) \in Seq(S) /\ Len(Append(s, x)) = Len(s) + 1
        /\ \A i \in 1..Len(s) : Append(s, x)[i] = s[i]
        /\ Append(s, x)[Len(s) + 1] = x
    BY AppendProperties
  <2>2. DOMAIN Append(s, x) = 1..(Len(s) + 1)
    BY <2>1, LenProperties
  <2>3. 1..(Len(s) + 1) = 1..Len(s) \cup {Len(s) + 1}
    BY <1>0
  <2> QED
    BY <1>0, <2>1, <2>2, <2>3 DEF Items
<1>4. ASSUME s # <<>> PROVE Items(s) = {Head(s)} \cup Items(Tail(s)) /\ Head(s) \in S
  <2>1. Len(s) > 0
    BY <1>0, <1>4, EmptySeq
  <2>2. /\ Head(s) = s[1] /\ Tail(s) \in Seq(S) /\ Len(Tail(s)) = Len(s) - 1
        /\ \A i \in 1..(Len(s) - 1) : Tail(s)[i] = s[i + 1]
    BY <1>0, <1>4, HeadTailProperties
  <2>3. DOMAIN Tail(s) = 1..(Len(s) - 1)
    BY <2>2, LenProperties
  <2>4. \A i \in 1..Len(s) : i = 1 \/ (i - 1 \in 1..(Len(s) - 1) /\ (i - 1) + 1 = i)
    BY <1>0
  <2>5. \A i \in 1..(Len(s) - 1) : i + 1 \in 1..Len(s)
    BY <1>0
  <2>6. Items(s) \subseteq {Head(s)} \cup Items(Tail(s))
    <3> SUFFICES ASSUME NEW i \in 1..Len(s)
                 PROVE  s[i] \in {Head(s)} \cup Items(Tail(s))
      BY <1>0 DEF Items
    <3>1. CASE i = 1
      BY <2>2, <3>1
    <3>2. CASE i # 1
      <4>1. i - 1 \in 1..(Len(s) - 1) /\ (i - 1) + 1 = i
        BY <2>4, <3>2
      <4>2. Tail(s)[i - 1] = s[i]
        BY <2>2, <4>1
      <4> QED
        BY <2>3, <4>1, <4>2 DEF Items
    <3> QED
      BY <3>1, <3>2
  <2>7. {Head(s)} \cup Items(Tail(s)) \subseteq Items(s)
    <3>1. Head(s) \in Items(s)
      BY <1>0, <2>1, <2>2 DEF Items
    <3>2. \A i \in 1..(Len(s) - 1) : Tail(s)[i] \in Items(s)
      BY <1>0, <2>2, <2>5 DEF Items
    <3> QED
      BY <2>3, <3>1, <3>2 DEF Items
  <2>8. Head(s) \in S
    BY <1>0, <2>1, <2>2
  <2> QED
    BY <2>6, <2>7, <2>8
<1> QED
  BY <1>1, <1>2, <1>3, <1>4

\* What the invariant says of the two directions of the pipe is of their elements.
LEMMA OnTheWire ==
  /\ NoStarts <=> (\A w \in Items(toService) : w.why # "start") /\ handler.why # "start"
  /\ Answered <=> \E m \in Items(toApp) : Mine(m)
  /\ LossTold <=> \E m \in Items(toApp) : m.type = "lost"
  /\ \A ok : AnsweredWith(ok) <=> \E m \in Items(toApp) : Mine(m) /\ m.ok = ok
  /\ Ids <=>
       /\ nextId >= 1
       /\ \A w \in Items(toService) : w.id < nextId
       /\ \A m \in Items(toApp) : m.id < nextId
       /\ handler.id < nextId
       /\ wpc \in {"send", "wait"} => 0 < call.id /\ call.id < nextId
       /\ wpc \in {"dial", "local"} => call.id = 0
  /\ Fresh <=> wpc = "send" =>
       /\ \A w \in Items(toService) : w.id # call.id
       /\ ~Answered /\ handler.id # call.id
  /\ OwnStarts <=> missed = {} =>
       /\ \A w \in Items(toService) : w.why = "start" => wpc = "wait" /\ w.id = call.id
       /\ handler.why = "start" => wpc = "wait" /\ handler.id = call.id
  /\ Questions <=>
       /\ \A w \in Items(toService) : w.why = "query"
       /\ handler # NoHandler => handler.why = "query"
<1>1. NoStarts <=> (\A w \in Items(toService) : w.why # "start") /\ handler.why # "start"
  BY DEF NoStarts, Items
<1>2. Answered <=> \E m \in Items(toApp) : Mine(m)
  BY DEF Answered, Items
<1>3. LossTold <=> \E m \in Items(toApp) : m.type = "lost"
  BY DEF LossTold, Items
<1>4. \A ok : AnsweredWith(ok) <=> \E m \in Items(toApp) : Mine(m) /\ m.ok = ok
  BY DEF AnsweredWith, Items
<1>5. (\A w \in Items(toService) : w.id < nextId) <=>
      \A i \in DOMAIN toService : toService[i].id < nextId
  BY DEF Items
<1>6. (\A m \in Items(toApp) : m.id < nextId) <=>
      \A i \in DOMAIN toApp : toApp[i].id < nextId
  BY DEF Items
<1>7. (\A w \in Items(toService) : w.id # call.id) <=>
      \A i \in DOMAIN toService : toService[i].id # call.id
  BY DEF Items
<1>8. (\A w \in Items(toService) : w.why = "start" => wpc = "wait" /\ w.id = call.id) <=>
      \A i \in DOMAIN toService : toService[i].why = "start" =>
         wpc = "wait" /\ toService[i].id = call.id
  BY DEF Items
<1>9. Questions <=>
       /\ \A w \in Items(toService) : w.why = "query"
       /\ handler # NoHandler => handler.why = "query"
  BY DEF Questions, Items
<1> QED
  BY <1>1, <1>2, <1>3, <1>4, <1>5, <1>6, <1>7, <1>8, <1>9 DEF Ids, Fresh, OwnStarts

\* So it does after a step.
LEMMA OnTheWireNext ==
  /\ NoStarts' <=> (\A w \in Items(toService') : w.why # "start")
                    /\ handler'.why # "start"
  /\ Answered' <=> \E m \in Items(toApp') : Mine(m)'
  /\ LossTold' <=> \E m \in Items(toApp') : m.type = "lost"
  /\ \A ok : AnsweredWith(ok)' <=> \E m \in Items(toApp') : Mine(m)' /\ m.ok = ok
  /\ Ids' <=>
       /\ nextId' >= 1
       /\ \A w \in Items(toService') : w.id < nextId'
       /\ \A m \in Items(toApp') : m.id < nextId'
       /\ handler'.id < nextId'
       /\ wpc' \in {"send", "wait"} => 0 < call'.id /\ call'.id < nextId'
       /\ wpc' \in {"dial", "local"} => call'.id = 0
  /\ Fresh' <=> wpc' = "send" =>
       /\ \A w \in Items(toService') : w.id # call'.id
       /\ ~Answered' /\ handler'.id # call'.id
  /\ OwnStarts' <=> missed' = {} =>
       /\ \A w \in Items(toService') :
            w.why = "start" => wpc' = "wait" /\ w.id = call'.id
       /\ handler'.why = "start" => wpc' = "wait" /\ handler'.id = call'.id
  /\ Questions' <=>
       /\ \A w \in Items(toService') : w.why = "query"
       /\ handler' # NoHandler => handler'.why = "query"
<1>1. NoStarts' <=> (\A w \in Items(toService') : w.why # "start")
                    /\ handler'.why # "start"
  BY DEF NoStarts, Items
<1>2. Answered' <=> \E m \in Items(toApp') : Mine(m)'
  BY DEF Answered, Items, Mine
<1>3. LossTold' <=> \E m \in Items(toApp') : m.type = "lost"
  BY DEF LossTold, Items
<1>4. \A ok : AnsweredWith(ok)' <=> \E m \in Items(toApp') : Mine(m)' /\ m.ok = ok
  BY DEF AnsweredWith, Items, Mine
<1>5. (\A w \in Items(toService') : w.id < nextId') <=>
      \A i \in DOMAIN toService' : toService'[i].id < nextId'
  BY DEF Items
<1>6. (\A m \in Items(toApp') : m.id < nextId') <=>
      \A i \in DOMAIN toApp' : toApp'[i].id < nextId'
  BY DEF Items
<1>7. (\A w \in Items(toService') : w.id # call'.id) <=>
      \A i \in DOMAIN toService' : toService'[i].id # call'.id
  BY DEF Items
<1>8. (\A w \in Items(toService') :
         w.why = "start" => wpc' = "wait" /\ w.id = call'.id) <=>
      \A i \in DOMAIN toService' : toService'[i].why = "start" =>
         wpc' = "wait" /\ toService'[i].id = call'.id
  BY DEF Items
<1>9. Questions' <=>
       /\ \A w \in Items(toService') : w.why = "query"
       /\ handler' # NoHandler => handler'.why = "query"
  BY DEF Questions, Items
<1> QED
  BY <1>1, <1>2, <1>3, <1>4, <1>5, <1>6, <1>7, <1>8, <1>9 DEF Ids, Fresh, OwnStarts

\* The service's end of the pipe stays as it is.
FarEnd == UNCHANGED <<toService, handler, core, svc, broken>>

\* The others' steps, as far as the wire and the cores go: the reader's,
ReadsAs ==
  /\ reader = "reading" /\ toApp # <<>>
  /\ Head(toApp) \in Replies /\ Head(toApp).type = "answer"
  /\ Items(toApp) = {Head(toApp)} \cup Items(toApp')
  /\ reply' = IF wpc = "wait" /\ Head(toApp).id = call.id THEN Head(toApp) ELSE reply
  /\ FarEnd /\ UNCHANGED <<app, queue, connected, reader, missed>>
HearsAs ==
  /\ reader = "reading" /\ toApp # <<>>
  /\ Head(toApp) \in Replies /\ Head(toApp).type = "lost"
  /\ Items(toApp) = {Head(toApp)} \cup Items(toApp')
  /\ app = "up" => ForgetQueued'
  /\ FarEnd /\ UNCHANGED <<app, reply, connected, reader, missed>>
FailsAs ==
  /\ reader = "reading" /\ broken /\ reader' = "leaving" /\ connected' = FALSE
  /\ toApp' = <<>>
  /\ reply' = IF wpc \in {"send", "wait"} /\ reply = NoReply THEN Released ELSE reply
  /\ FarEnd /\ UNCHANGED <<app, queue, missed>>
LeavesAs ==
  /\ reader = "leaving" /\ reader' = "done" /\ (app = "up" => ForgetQueued')
  /\ FarEnd /\ UNCHANGED <<app, reply, toApp, connected, missed>>

\* ... the service's threads',
ServesAs ==
  /\ svc = "up" /\ handler = NoHandler /\ toService # <<>>
  /\ Head(toService) \in Wires /\ toService' = Tail(toService)
  /\ Items(toService) = {Head(toService)} \cup Items(toService')
  /\ handler'.id = Head(toService).id /\ handler'.why = Head(toService).why
  /\ handler' # NoHandler
  /\ \/ /\ handler'.why = "query" /\ handler'.done
        /\ handler'.ok = (core["service"] = "up") /\ core' = core
        /\ missed' = {} => core["service"] # "rebuilding"
     \/ /\ handler'.why = "start" /\ ~handler'.done /\ core["service"] # "rebuilding"
        /\ core'["service"] = "starting"
     \/ /\ handler'.why \notin {"query", "start"} /\ handler'.done /\ handler'.ok
        /\ core'["service"] = "down"
  /\ core'["local"] = core["local"]
  /\ UNCHANGED <<app, queue, reply, toApp, connected, reader, broken, svc>>
StartEndsAs ==
  /\ handler # NoHandler /\ ~handler.done /\ handler' # NoHandler
  /\ handler'.id = handler.id /\ handler'.why = handler.why /\ handler'.done
  /\ \/ handler'.ok = TRUE /\ core["local"] = "down" /\ core'["service"] = "up"
     \/ handler'.ok = FALSE /\ core'["service"] = "down"
  /\ core'["local"] = core["local"]
  /\ UNCHANGED <<app, queue, reply, toService, toApp, connected, reader, broken, svc,
                 missed>>
RespondsAs ==
  /\ handler # NoHandler /\ handler.done /\ handler' = NoHandler
  /\ Answer(handler) \in Replies
  /\ \/ connected /\ Items(toApp') = Items(toApp) \cup {Answer(handler)}
     \/ ~connected /\ toApp' = toApp
  /\ UNCHANGED <<app, queue, reply, toService, connected, reader, broken, svc, core,
                 missed>>

\* ... a core's, the service's own, and any other.
CoreAs(b) ==
  /\ core[b] \in Running /\ core'[b] \in {"down", "up", "rebuilding"}
  /\ core'[Other(b)] = core[Other(b)]
  /\ \/ toApp' = toApp
     \/ /\ b = "service" /\ connected /\ ~broken
        /\ Items(toApp') = Items(toApp) \cup {LostEvent}
  /\ core'[b] = "down" =>
       /\ b = "service" /\ connected /\ ~broken =>
            Items(toApp') = Items(toApp) \cup {LostEvent}
       /\ b = "local" /\ app = "up" => ForgetQueued'
  /\ UNCHANGED <<app, reply, toService, connected, reader, broken, svc, handler, missed>>
GoesAs ==
  /\ svc = "up" /\ svc' = "down" /\ handler' = NoHandler
  /\ core'["service"] = "down" /\ core'["local"] = core["local"]
  /\ broken' = (connected \/ broken) /\ toService' = <<>>
  /\ UNCHANGED <<app, queue, reply, toApp, connected, reader, missed>>
ElsewhereAs ==
  /\ UNCHANGED <<toService, toApp, handler, core, reply, connected, reader, broken, missed>>
  /\ svc' \in {svc, "up"}

\* That is all of them.
LEMMA OutsideMeans ==
  ASSUME Typed, Outside
  PROVE  \/ ReadsAs \/ HearsAs \/ FailsAs \/ LeavesAs \/ ServesAs \/ StartEndsAs
         \/ RespondsAs \/ (\E b \in Backends : CoreAs(b)) \/ GoesAs \/ ElsewhereAs
<1> USE DEF dartVars, workerVars, linkVars, callVars, serviceVars, ghosts
<1>0. toService \in Seq(Wires) /\ toApp \in Seq(Replies) /\ handler \in Handlers
  BY DEF Typed, LinkType, ServiceType
<1>1. ASSUME ReadAnswer PROVE ReadsAs
  BY <1>0, <1>1, ItemsAre DEF ReadAnswer, Pending, ReadsAs, FarEnd
<1>2. ASSUME ReadLost PROVE HearsAs
  BY <1>0, <1>2, ItemsAre, Reported DEF ReadLost, HearsAs, FarEnd
<1>3. ASSUME ReadFails PROVE FailsAs
  BY <1>3 DEF ReadFails, ReleasePending, FailsAs, FarEnd
<1>4. ASSUME ReaderEnds PROVE LeavesAs
  BY <1>4, Reported DEF ReaderEnds, ReportLoss, LeavesAs, FarEnd
<1>5. ASSUME Serve PROVE ServesAs
  <2> DEFINE r == Head(toService)
             h == [id |-> r.id, why |-> r.why, req |-> r.req, done |-> TRUE, ok |-> TRUE]
  <2>1. /\ svc = "up" /\ handler = NoHandler /\ toService # <<>>
        /\ toService' = Tail(toService)
        /\ UNCHANGED <<app, queue, reply, toApp, connected, reader, broken, svc>>
    BY <1>5 DEF Serve
  <2>2. r \in Wires /\ Items(toService) = {r} \cup Items(toService')
    BY <1>0, <2>1, ItemsAre
  <2>3. {"starting", "down"} \subseteq CoreStates
    BY DEF CoreStates
  <2>4. \/ /\ r.why = "query" /\ handler' = [h EXCEPT !.ok = core["service"] = "up"]
           /\ missed' = IF core["service"] = "rebuilding"
                        THEN missed \cup {"rebuild"} ELSE missed
           /\ core' = core
        \/ /\ r.why = "start" /\ core["service"] # "rebuilding"
           /\ handler' = [h EXCEPT !.done = FALSE]
           /\ core' = [core EXCEPT !["service"] = "starting"]
        \/ /\ r.why \notin {"query", "start"}
           /\ handler' = h
           /\ core' = [core EXCEPT !["service"] = "down"]
    BY <1>5 DEF Serve
  <2>5. CASE /\ r.why = "query" /\ handler' = [h EXCEPT !.ok = core["service"] = "up"]
             /\ missed' = IF core["service"] = "rebuilding"
                          THEN missed \cup {"rebuild"} ELSE missed
             /\ core' = core
    <3>1. /\ handler'.id = r.id /\ handler'.why = r.why /\ handler'.done = TRUE
          /\ handler'.ok = (core["service"] = "up") /\ handler' # NoHandler
      BY <2>5 DEF NoHandler
    <3> QED
      BY <2>1, <2>2, <2>5, <3>1 DEF ServesAs
  <2>6. CASE /\ r.why = "start" /\ core["service"] # "rebuilding"
             /\ handler' = [h EXCEPT !.done = FALSE]
             /\ core' = [core EXCEPT !["service"] = "starting"]
    <3>1. /\ handler'.id = r.id /\ handler'.why = r.why /\ handler'.done = FALSE
          /\ handler' # NoHandler
      BY <2>6 DEF NoHandler
    <3>2. core'["service"] = "starting" /\ core'["local"] = core["local"]
      BY <2>3, <2>6, Changes
    <3> QED
      BY <2>1, <2>2, <2>6, <3>1, <3>2 DEF ServesAs
  <2>7. CASE /\ r.why \notin {"query", "start"} /\ handler' = h
             /\ core' = [core EXCEPT !["service"] = "down"]
    <3>1. /\ handler'.id = r.id /\ handler'.why = r.why /\ handler'.done = TRUE
          /\ handler'.ok = TRUE /\ handler' # NoHandler
      BY <2>7 DEF NoHandler
    <3>2. core'["service"] = "down" /\ core'["local"] = core["local"]
      BY <2>3, <2>7, Changes
    <3> QED
      BY <2>1, <2>2, <2>7, <3>1, <3>2 DEF ServesAs
  <2> QED
    BY <2>4, <2>5, <2>6, <2>7
<1>6. ASSUME StartEnds PROVE StartEndsAs
  <2>1. PICK ok \in {FALSE} \cup {PortsFree("service")} :
          /\ handler' = [handler EXCEPT !.done = TRUE, !.ok = ok]
          /\ core' = [core EXCEPT !["service"] = IF ok THEN "up" ELSE "down"]
    BY <1>6 DEF StartEnds
  <2>2. /\ handler # NoHandler /\ ~handler.done
        /\ UNCHANGED <<app, queue, reply, toService, toApp, connected, reader, broken,
                       svc, missed>>
    BY <1>6 DEF StartEnds
  <2>3. ok \in BOOLEAN /\ (ok => core["local"] = "down")
    BY DEF PortsFree, Other
  <2>4. /\ handler'.id = handler.id /\ handler'.why = handler.why
        /\ handler'.done = TRUE /\ handler'.ok = ok
    BY <1>0, <2>1 DEF Handlers
  <2>5. handler' # NoHandler
    BY <2>4 DEF NoHandler
  <2>6. {"up", "down"} \subseteq CoreStates
    BY DEF CoreStates
  <2>7. CASE ok = TRUE
    <3>1. core' = [core EXCEPT !["service"] = "up"]
      BY <2>1, <2>7
    <3>2. core'["service"] = "up" /\ core'["local"] = core["local"]
      BY <2>6, <3>1, Changes
    <3> QED
      BY <2>2, <2>3, <2>4, <2>5, <2>7, <3>2 DEF StartEndsAs
  <2>8. CASE ok = FALSE
    <3>1. core' = [core EXCEPT !["service"] = "down"]
      BY <2>1, <2>8
    <3>2. core'["service"] = "down" /\ core'["local"] = core["local"]
      BY <2>6, <3>1, Changes
    <3> QED
      BY <2>2, <2>4, <2>5, <2>8, <3>2 DEF StartEndsAs
  <2> QED
    BY <2>3, <2>7, <2>8
<1>7. ASSUME Respond PROVE RespondsAs
  <2>1. Answer(handler) \in Replies
    BY Records
  <2>2. connected => Items(toApp') = Items(toApp) \cup {Answer(handler)}
    BY <1>0, <1>7, <2>1, ItemsAre DEF Respond
  <2> QED
    BY <1>7, <2>1, <2>2 DEF Respond, RespondsAs
<1>8. ASSUME NEW b \in Backends, CoreLost(b) \/ Rebuild(b) \/ Rebuilt(b)
      PROVE  CoreAs(b)
  <2>1. /\ core[b] \in Running
        /\ UNCHANGED <<app, reply, toService, connected, reader, broken, svc, handler,
                       missed>>
    BY <1>8 DEF CoreLost, Rebuild, Rebuilt, CoreStops, Running
  <2>2. PICK x \in {"down", "up", "rebuilding"} :
          /\ core' = [core EXCEPT ![b] = x]
          /\ x = "down" => CoreStops(b)
          /\ x # "down" => UNCHANGED <<toApp, queue>>
    BY <1>8 DEF CoreLost, Rebuild, Rebuilt, CoreStops
  <2>3. core'[b] = x /\ core'[Other(b)] = core[Other(b)]
    BY <2>2, Changes DEF Backends, Other, CoreStates
  <2>4. LostEvent \in Replies
    BY Records
  <2>5. CASE x # "down"
    BY <2>1, <2>2, <2>3, <2>5 DEF CoreAs
  <2>6. CASE x = "down" /\ b = "service"
    <3>1. CASE connected /\ ~broken
      <4>1. Items(toApp') = Items(toApp) \cup {LostEvent}
        BY <1>0, <2>2, <2>4, <2>6, <3>1, ItemsAre DEF CoreStops
      <4> QED
        BY <2>1, <2>3, <2>6, <3>1, <4>1 DEF CoreAs
    <3>2. CASE ~(connected /\ ~broken)
      <4>1. toApp' = toApp
        BY <2>2, <2>6, <3>2 DEF CoreStops
      <4> QED
        BY <2>1, <2>3, <2>6, <3>2, <4>1 DEF CoreAs
    <3> QED
      BY <3>1, <3>2
  <2>7. CASE x = "down" /\ b = "local"
    <3>1. OnBackendStatus /\ toApp' = toApp
      BY <2>2, <2>7 DEF CoreStops
    <3> QED
      BY <2>1, <2>3, <2>7, <3>1, Reported DEF CoreAs
  <2> QED
    BY <2>5, <2>6, <2>7 DEF Backends
<1>9. ASSUME ServiceGoes PROVE GoesAs
  BY <1>9, Changes DEF ServiceGoes, GoesAs, CoreStates
<1>10. ASSUME \/ ServiceReturns \/ Deliver \/ EndSession \/ Destroy
              \/ \E r \in Requests : Ask(r)
       PROVE  ElsewhereAs
  BY <1>10 DEF ServiceReturns, Deliver, EndSession, Destroy, Ask, ElsewhereAs
<1> QED
  BY <1>1, <1>2, <1>3, <1>4, <1>5, <1>6, <1>7, <1>8, <1>9, <1>10
     DEF Outside, Reader, Handler, Dart

-----------------------------------------------------------------------------
(* The calls on the wire.                                                  *)

\* The worker's steps, as far as the calls go: a call gets its number, it is sent, or
\* there is none on the wire.
DialsAs ==
  /\ wpc = "dial" /\ wpc' = "send" /\ reply' = NoReply /\ connected'
  /\ nextId' = nextId + 1 /\ call'.id = nextId /\ call'.why = call.why
  /\ toService' \in {toService, <<>>} /\ toApp' \in {toApp, <<>>} /\ handler' = handler
SendsAs ==
  /\ wpc = "send" /\ ~broken /\ wpc' = "wait"
  /\ Sent \in Wires /\ Sent.id = call.id /\ Sent.why = call.why
  /\ toService' = Append(toService, Sent)
  /\ Items(toService') = Items(toService) \cup {Sent}
  /\ UNCHANGED <<call, reply, handler, toApp, nextId, broken, missed>>
RestsAs ==
  /\ wpc' \notin {"send", "wait"} /\ nextId' = nextId /\ handler' = handler
  /\ toService' \in {toService, <<>>} /\ toApp' \in {toApp, <<>>}
  /\ wpc' \in {"dial", "local"} => call'.id = 0
  /\ wpc' = "returned" /\ call'.ok /\ call'.id # 0 => Empty'

\* That is all of them.
LEMMA InsideMeans ==
  ASSUME Typed, TasksInv, PlaceInv, Ids, Last, Inside
  PROVE  DialsAs \/ SendsAs \/ RestsAs
<1>1. ASSUME TakeTask PROVE RestsAs
  BY <1>1, TakeTaskIs DEF RestsAs, Aside, InvokedAs
<1>2. ASSUME NEW ok, ConnectedAs(ok)
      PROVE  toService' \in {toService, <<>>} /\ toApp' \in {toApp, <<>>} /\ (ok => connected')
  BY <1>2 DEF ConnectedAs, linkVars, Typed, BitsType
<1>3. ASSUME Ensure PROVE RestsAs
  BY <1>2, <1>3, EnsureTaskIs DEF RestsAs, Beside, InvokedAs
<1>4. ASSUME Select PROVE RestsAs
  BY <1>2, <1>4, SelectMeans DEF RestsAs, Beside, InvokedAs, ChosenAs
<1>5. ASSUME StartInstalledService PROVE RestsAs
  BY <1>5, InstallMeans DEF RestsAs, Beside, InvokedAs, ChosenAs
<1>6. ASSUME Dial PROVE DialsAs \/ RestsAs
  BY <1>2, <1>6, DialMeans DEF RestsAs, DialsAs, Beside, ReturnedAs
<1>7. ASSUME Send PROVE SendsAs \/ RestsAs
  <2>1. Sent \in Wires /\ toService \in Seq(Wires)
    BY Records DEF Sent, Typed, LinkType
  <2>2. CASE broken
    BY <1>7, <2>2, SendMeans DEF RestsAs, Beside, ReturnedAs
  <2>3. CASE ~broken
    BY <1>7, <2>1, <2>3, SendMeans, ItemsAre DEF SendsAs, Beside
  <2> QED
    BY <2>2, <2>3
<1>8. ASSUME Receive PROVE RestsAs
  <2>1. /\ wpc = "wait" /\ ReturnedAs(reply.type = "answer" /\ reply.ok)
        /\ UNCHANGED <<toService, toApp, handler, nextId>>
    BY <1>8, ReceiveMeans DEF Beside, linkVars
  <2>2. call'.ok => Empty
    BY <2>1 DEF Last, ReturnedAs
  <2> QED
    BY <2>1, <2>2 DEF RestsAs, ReturnedAs, Empty
<1>9. ASSUME Timeout PROVE RestsAs
  BY <1>9, TimeoutMeans DEF RestsAs, ReturnedAs, linkVars
<1>10. ASSUME Local PROVE RestsAs
  <2>1. wpc = "local" /\ UNCHANGED <<toService, toApp, handler, nextId>>
    BY <1>10, LocalMeans DEF linkVars
  <2>2. (wpc' = "local" /\ call' = call) \/ (wpc' = "returned" /\ call'.id = call.id)
    BY <1>10, LocalMeans DEF ReturnedAs
  <2> QED
    BY <2>1, <2>2 DEF RestsAs, Ids
<1>11. ASSUME SyncReturned \/ StatusReturned \/ StopReturned \/ ReplaceReturned
       PROVE  RestsAs
  BY <1>11, SyncMeans, StatusMeans, StopMeans, ReplaceMeans
     DEF RestsAs, Aside, Apart1, DoneAs, InvokedAs
<1>12. ASSUME StartReturned \/ SetProxy \/ UndoReturned \/ RestoreProxy
       PROVE  RestsAs
  BY <1>12, StartMeans, SetProxyMeans, UndoMeans, RestoreMeans
     DEF RestsAs, Aside, Apart1, DoneAs, InvokedAs
<1>13. ASSUME ForgetBackend \/ Shutdown PROVE RestsAs
  BY <1>13, ForgetMeans, ShutdownMeans DEF RestsAs, Aside, Apart1, DoneAs, InvokedAs
<1> QED
  BY <1>1, <1>3, <1>4, <1>5, <1>6, <1>7, <1>8, <1>9, <1>10, <1>11, <1>12, <1>13
     DEF Inside, Worker, Task0, CallStep, AfterStep

\* A call keeps its connection, or hears that it broke.
LEMMA SendingStep ==
  ASSUME Typed, TasksInv, PlaceInv, Ids, Last, Sending, Next
  PROVE  Sending'
<1>0. connected \in BOOLEAN /\ broken \in BOOLEAN
  BY DEF Typed, BitsType
<1>1. CASE Inside
  <2>1. CASE DialsAs \/ RestsAs
    BY <2>1 DEF DialsAs, RestsAs, Sending
  <2>2. CASE SendsAs
    <3>1. reply' = NoReply
      BY <2>2 DEF SendsAs, Sending
    <3> QED
      BY <2>2, <3>1 DEF SendsAs, Sending
  <2> QED
    BY <1>1, <2>1, <2>2, InsideMeans
<1>2. CASE Outside
  <2>1. wpc' = wpc
    BY <1>2, OutsideIs
  <2>2. CASE ReadsAs \/ HearsAs \/ LeavesAs \/ ElsewhereAs
    BY <2>1, <2>2 DEF ReadsAs, HearsAs, LeavesAs, ElsewhereAs, FarEnd, Sending
  <2>3. CASE FailsAs
    BY <2>1, <2>3 DEF FailsAs, FarEnd, Sending
  <2>4. CASE ServesAs \/ StartEndsAs \/ RespondsAs \/ \E b \in Backends : CoreAs(b)
    BY <2>1, <2>4 DEF ServesAs, StartEndsAs, RespondsAs, CoreAs, Sending
  <2>5. CASE GoesAs
    BY <1>0, <2>1, <2>5 DEF GoesAs, Sending
  <2> QED
    BY <1>2, <2>2, <2>3, <2>4, <2>5, OutsideMeans
<1> QED
  BY <1>1, <1>2, InOrOut

\* The others move what is on the wire, and put no number there that was not there.
LEMMA NothingNew ==
  ASSUME Typed, Outside, NEW n \in Nat, n > 0
  PROVE  LET At(s, k) == \E x \in Items(s) : x.type = "answer" /\ x.id = k
             In(s, k) == \E x \in Items(s) : x.id = k
         IN  /\ In(toService', n) => In(toService, n)
             /\ handler'.id = n => handler.id = n \/ In(toService, n)
             /\ In(toApp', n) => In(toApp, n) \/ handler.id = n
             /\ At(toApp', n) => At(toApp, n) \/ handler.id = n
<1> DEFINE At(s, k) == \E x \in Items(s) : x.type = "answer" /\ x.id = k
           In(s, k) == \E x \in Items(s) : x.id = k
<1>0. /\ NoHandler.id = 0 /\ LostEvent.id = 0 /\ LostEvent.type = "lost"
      /\ Answer(handler).id = handler.id /\ Items(<<>>) = {}
  BY DEF NoHandler, LostEvent, Answer, Items
<1> SUFFICES /\ In(toService', n) => In(toService, n)
             /\ handler'.id = n => handler.id = n \/ In(toService, n)
             /\ In(toApp', n) => In(toApp, n) \/ handler.id = n
             /\ At(toApp', n) => At(toApp, n) \/ handler.id = n
  OBVIOUS
<1>1. CASE ReadsAs \/ HearsAs \/ LeavesAs \/ ElsewhereAs
  BY <1>1 DEF ReadsAs, HearsAs, LeavesAs, ElsewhereAs, FarEnd
<1>2. CASE FailsAs
  BY <1>0, <1>2 DEF FailsAs, FarEnd
<1>3. CASE ServesAs
  BY <1>3 DEF ServesAs
<1>4. CASE StartEndsAs
  BY <1>4 DEF StartEndsAs
<1>5. CASE RespondsAs
  BY <1>0, <1>5 DEF RespondsAs
<1>6. CASE \E b \in Backends : CoreAs(b)
  BY <1>0, <1>6 DEF CoreAs
<1>7. CASE GoesAs
  BY <1>0, <1>7 DEF GoesAs
<1> QED
  BY <1>1, <1>2, <1>3, <1>4, <1>5, <1>6, <1>7, OutsideMeans

\* The numbers of what is on the wire are natural numbers.
LEMMA Numbers ==
  ASSUME Typed
  PROVE  /\ \A w \in Items(toService) : w.id \in Nat
         /\ \A m \in Items(toApp) : m.id \in Nat
         /\ handler.id \in Nat /\ nextId \in Nat /\ call.id \in Nat
<1>1. Items(toService) \subseteq Wires /\ Items(toApp) \subseteq Replies
  BY ItemsAre DEF Typed, LinkType
<1> QED
  BY <1>1, Values DEF Wires, Replies

\* Calls have numbers of their own after every step.
LEMMA IdsStep ==
  ASSUME Typed, Typed', TasksInv, PlaceInv, Ids, Last, Next
  PROVE  Ids'
<1>0. /\ nextId >= 1 /\ handler.id < nextId
      /\ \A w \in Items(toService) : w.id < nextId
      /\ \A m \in Items(toApp) : m.id < nextId
      /\ wpc \in {"send", "wait"} => 0 < call.id /\ call.id < nextId
      /\ wpc \in {"dial", "local"} => call.id = 0
  BY OnTheWire
<1>1. /\ \A w \in Items(toService) : w.id \in Nat
      /\ \A m \in Items(toApp) : m.id \in Nat
      /\ handler.id \in Nat /\ nextId \in Nat /\ call.id \in Nat /\ Items(<<>>) = {}
  BY Numbers DEF Items
<1>2. /\ \A w \in Items(toService') : w.id \in Nat
      /\ \A m \in Items(toApp') : m.id \in Nat
      /\ handler'.id \in Nat
  <2>1. Items(toService') \subseteq Wires /\ Items(toApp') \subseteq Replies
    BY ItemsAre DEF Typed, LinkType
  <2>2. handler'.id \in Nat
    BY DEF Typed, ServiceType, Handlers
  <2> QED
    BY <2>1, <2>2 DEF Wires, Replies
<1>3. CASE DialsAs
  <2>1. /\ Items(toService') \subseteq Items(toService)
        /\ Items(toApp') \subseteq Items(toApp)
        /\ handler' = handler /\ nextId' = nextId + 1 /\ call'.id = nextId /\ wpc' = "send"
    BY <1>1, <1>3 DEF DialsAs
  <2>2. /\ \A w \in Items(toService') : w.id < nextId'
        /\ \A m \in Items(toApp') : m.id < nextId'
        /\ handler'.id < nextId' /\ nextId' >= 1
    BY <1>0, <1>1, <2>1
  <2> QED
    BY <1>0, <1>1, <2>1, <2>2, OnTheWireNext
<1>4. CASE SendsAs
  <2>1. /\ Items(toService') = Items(toService) \cup {Sent} /\ Sent.id = call.id
        /\ UNCHANGED <<call, nextId, toApp, handler>> /\ wpc = "send" /\ wpc' = "wait"
    BY <1>4 DEF SendsAs
  <2> QED
    BY <1>0, <2>1, OnTheWireNext
<1>5. CASE RestsAs
  <2>1. /\ Items(toService') \subseteq Items(toService)
        /\ Items(toApp') \subseteq Items(toApp) /\ UNCHANGED <<handler, nextId>>
        /\ wpc' \notin {"send", "wait"} /\ (wpc' \in {"dial", "local"} => call'.id = 0)
    BY <1>1, <1>5 DEF RestsAs
  <2> QED
    BY <1>0, <2>1, OnTheWireNext
<1>6. CASE Outside
  <2>1. UNCHANGED <<call, nextId, wpc>>
    BY <1>6, OutsideIs
  <2>2. ASSUME NEW w \in Items(toService') PROVE w.id < nextId
    <3>1. w.id > 0 => \E x \in Items(toService) : x.id = w.id
      BY <1>2, <1>6, <2>2, NothingNew
    <3> QED
      BY <1>0, <1>1, <1>2, <2>2, <3>1
  <2>3. ASSUME NEW m \in Items(toApp') PROVE m.id < nextId
    <3>1. m.id > 0 => handler.id = m.id \/ \E x \in Items(toApp) : x.id = m.id
      BY <1>2, <1>6, <2>3, NothingNew
    <3> QED
      BY <1>0, <1>1, <1>2, <2>3, <3>1
  <2>4. handler'.id < nextId
    <3>1. ASSUME NEW k \in Nat, k > 0, handler'.id = k PROVE k < nextId
      <4>1. handler.id = k \/ \E x \in Items(toService) : x.id = k
        BY <1>6, <3>1, NothingNew
      <4> QED
        BY <1>0, <4>1
    <3>2. handler'.id = 0 \/ handler'.id > 0
      BY <1>2
    <3> QED
      BY <1>0, <1>1, <1>2, <3>1, <3>2
  <2> QED
    BY <1>0, <2>1, <2>2, <2>3, <2>4, OnTheWireNext
<1> QED
  BY <1>3, <1>4, <1>5, <1>6, InOrOut, InsideMeans

\* A call that is not sent yet is not on the wire, after every step.
LEMMA FreshStep ==
  ASSUME Typed, TasksInv, PlaceInv, Ids, Last, Fresh, Next
  PROVE  Fresh'
<1>0. /\ handler.id < nextId
      /\ \A w \in Items(toService) : w.id < nextId
      /\ \A m \in Items(toApp) : m.id < nextId
      /\ wpc = "send" => 0 < call.id
  BY OnTheWire
<1>1. /\ \A w \in Items(toService) : w.id \in Nat
      /\ \A m \in Items(toApp) : m.id \in Nat
      /\ handler.id \in Nat /\ nextId \in Nat /\ call.id \in Nat /\ Items(<<>>) = {}
  BY Numbers DEF Items
<1>2. CASE DialsAs
  <2>1. /\ Items(toService') \subseteq Items(toService)
        /\ Items(toApp') \subseteq Items(toApp)
        /\ handler' = handler /\ call'.id = nextId
    BY <1>1, <1>2 DEF DialsAs
  <2>2. \A m \in Items(toApp') : m.id # call'.id
    BY <1>0, <1>1, <2>1
  <2>3. ~Answered'
    BY <2>2, OnTheWireNext DEF Mine
  <2>4. handler'.id # call'.id /\ \A w \in Items(toService') : w.id # call'.id
    BY <1>0, <1>1, <2>1
  <2>5. \A i \in DOMAIN toService' : toService'[i].id # call'.id
    BY <2>4 DEF Items
  <2> QED
    BY <2>3, <2>4, <2>5 DEF Fresh
<1>3. CASE SendsAs \/ RestsAs
  BY <1>3 DEF SendsAs, RestsAs, Fresh
<1>4. ASSUME Outside, wpc = "send" PROVE Fresh'
  <2>1. UNCHANGED <<call, wpc>> /\ call.id > 0
    BY <1>0, <1>4, OutsideIs
  <2>2. /\ \A w \in Items(toService) : w.id # call.id
        /\ \A m \in Items(toApp) : ~Mine(m)
        /\ handler.id # call.id
    BY <1>4, OnTheWire
  <2>3. ~\E w \in Items(toService') : w.id = call.id
    BY <1>1, <1>4, <2>1, <2>2, NothingNew
  <2>4. handler'.id # call.id
    BY <1>1, <1>4, <2>1, <2>2, NothingNew
  <2>5. ~\E m \in Items(toApp') : m.type = "answer" /\ m.id = call.id
    BY <1>1, <1>4, <2>1, <2>2, NothingNew DEF Mine
  <2>6. ~Answered'
    BY <2>1, <2>5, OnTheWireNext DEF Mine
  <2>7. \A i \in DOMAIN toService' : toService'[i].id # call'.id
    BY <2>1, <2>3 DEF Items
  <2> QED
    BY <2>1, <2>4, <2>6, <2>7 DEF Fresh
<1>5. CASE Outside /\ wpc # "send"
  BY <1>5, OutsideIs DEF Fresh
<1> QED
  BY <1>2, <1>3, <1>4, <1>5, InOrOut, InsideMeans

\* A call that has succeeded has left nothing on its way, after every step.
LEMMA EndedStep ==
  ASSUME Typed, TasksInv, PlaceInv, Ids, Last, Ended, Next
  PROVE  Ended'
<1>1. CASE DialsAs \/ SendsAs \/ RestsAs
  BY <1>1 DEF DialsAs, SendsAs, RestsAs, Ended
<1>2. CASE Outside
  <2>1. UNCHANGED <<call, wpc>>
    BY <1>2, OutsideIs
  <2>2. Empty => Empty'
    BY <1>2, OutsideMeans DEF ReadsAs, HearsAs, FailsAs, LeavesAs, FarEnd, ServesAs,
       StartEndsAs, RespondsAs, CoreAs, GoesAs, ElsewhereAs, Empty
  <2> QED
    BY <2>1, <2>2 DEF Ended
<1> QED
  BY <1>1, <1>2, InOrOut, InsideMeans

\* The call that waits is the last one, after every step.
LEMMA LastStep ==
  ASSUME Typed, TasksInv, PlaceInv, Sending, Ids, Fresh, Last, Next
  PROVE  Last'
<1> DEFINE Final(s, h, c) ==
      /\ \A i \in DOMAIN s : s[i].id = c.id => i = Len(s) /\ s[i].why = c.why
      /\ h.id = c.id => s = <<>> /\ h.why = c.why
<1>0. /\ toService \in Seq(Wires) /\ Len(toService) \in Nat
      /\ DOMAIN toService = 1..Len(toService)
      /\ NoHandler.id = 0 /\ NoReply.type = "none" /\ Released.type = "released"
      /\ Items(<<>>) = {} /\ LostEvent.type = "lost"
      /\ Answer(handler).id = handler.id
  BY LenProperties
     DEF Typed, LinkType, NoHandler, NoReply, Released, Items, LostEvent, Answer
<1>01. Len(toService) \in Nat
  BY <1>0
<1>1. CASE DialsAs \/ RestsAs
  BY <1>1 DEF DialsAs, RestsAs, Last
<1>2. CASE SendsAs
  <2>1. /\ wpc = "send" /\ Sent \in Wires /\ Sent.id = call.id /\ Sent.why = call.why
        /\ toService' = Append(toService, Sent) /\ ~broken
        /\ UNCHANGED <<call, reply, handler, toApp>>
    BY <1>2 DEF SendsAs
  <2>2. /\ Len(toService') = Len(toService) + 1
        /\ \A i \in 1..Len(toService) : toService'[i] = toService[i]
        /\ toService'[Len(toService) + 1] = Sent /\ toService' \in Seq(Wires)
    BY <1>0, <2>1, AppendProperties
  <2>3. DOMAIN toService' = 1..(Len(toService) + 1)
    BY <2>2, LenProperties
  <2>4. \A i \in DOMAIN toService' : toService'[i].id = call'.id =>
          i = Len(toService') /\ toService'[i].why = call'.why
    <3> SUFFICES ASSUME NEW i \in 1..(Len(toService) + 1), toService'[i].id = call.id
                 PROVE  i = Len(toService') /\ toService'[i].why = call.why
      BY <2>1, <2>3
    <3>1. i \notin 1..Len(toService)
      BY <1>0, <2>1, <2>2 DEF Fresh
    <3>2. i = Len(toService) + 1
      BY <1>0, <3>1
    <3> QED
      BY <2>1, <2>2, <3>2
  <2>5. handler'.id # call'.id /\ ~Answered'
    BY <2>1 DEF Fresh, Answered, Mine
  <2>6. reply'.type # "answer"
    BY <1>0, <2>1 DEF Sending
  <2> QED
    BY <2>4, <2>5, <2>6 DEF Last
<1>3. CASE Outside /\ wpc # "wait"
  BY <1>3, OutsideIs DEF Last
<1>4. ASSUME Outside, wpc = "wait" PROVE Last'
  <2>1. UNCHANGED <<call, wpc>> /\ call.id \in Nat /\ call.id > 0
    BY <1>4, OutsideIs, Values DEF Ids
  <2>2. (\A m : Mine(m)' <=> Mine(m)) /\ Final(toService, handler, call)
        /\ (reply.type = "answer" \/ Answered => Empty)
    BY <1>4, <2>1 DEF Last, Mine
  <2>3. SUFFICES /\ Final(toService', handler', call)
                 /\ reply'.type = "answer" \/ Answered' => Empty'
    BY <2>1 DEF Last
  <2>4. (Answered <=> \E m \in Items(toApp) : Mine(m))
        /\ (Answered' <=> \E m \in Items(toApp') : Mine(m))
    BY <2>2, OnTheWire, OnTheWireNext
  <2>5. CASE ReadsAs
    <3>1. /\ toService' = toService /\ handler' = handler
          /\ Items(toApp) = {Head(toApp)} \cup Items(toApp')
          /\ Head(toApp).type = "answer"
          /\ reply' = IF Head(toApp).id = call.id THEN Head(toApp) ELSE reply
      BY <1>4, <2>5 DEF ReadsAs, FarEnd
    <3>2. Head(toApp).id = call.id => Answered
      BY <2>4, <3>1 DEF Mine
    <3>3. Answered' => Answered
      BY <2>4, <3>1
    <3> QED
      BY <2>2, <3>1, <3>2, <3>3 DEF Empty
  <2>6. CASE HearsAs \/ LeavesAs \/ ElsewhereAs
    <3>1. /\ UNCHANGED <<toService, handler, reply>>
          /\ Items(toApp') \subseteq Items(toApp)
      BY <2>6 DEF HearsAs, LeavesAs, ElsewhereAs, FarEnd
    <3> QED
      BY <2>2, <2>4, <3>1 DEF Empty
  <2>7. CASE FailsAs
    <3>1. UNCHANGED <<toService, handler>> /\ reply' \in {reply, Released} /\ ~Answered'
      BY <1>0, <2>4, <2>7 DEF FailsAs, FarEnd
    <3> QED
      BY <1>0, <2>2, <3>1 DEF Empty
  <2>8. CASE ServesAs
    <3>1. /\ toService # <<>> /\ toService' = Tail(toService)
          /\ handler'.id = Head(toService).id /\ handler'.why = Head(toService).why
          /\ UNCHANGED <<reply, toApp>>
      BY <2>8 DEF ServesAs
    <3>2. Len(toService) > 0
      BY <1>0, <3>1, EmptySeq
    <3>3. /\ Head(toService) = toService[1] /\ toService' \in Seq(Wires)
          /\ Len(toService') = Len(toService) - 1
          /\ \A i \in 1..(Len(toService) - 1) : toService'[i] = toService[i + 1]
      BY <1>0, <3>1, HeadTailProperties
    <3>4. DOMAIN toService' = 1..(Len(toService) - 1)
      BY <3>3, LenProperties
    <3>5. \A i \in DOMAIN toService' : toService'[i].id = call.id =>
            i = Len(toService') /\ toService'[i].why = call.why
      <4> SUFFICES ASSUME NEW i \in 1..(Len(toService) - 1), toService'[i].id = call.id
                   PROVE  i = Len(toService') /\ toService'[i].why = call.why
        BY <3>4
      <4>1. i + 1 \in DOMAIN toService /\ toService'[i] = toService[i + 1]
        BY <1>0, <3>3
      <4>2. i + 1 = Len(toService) /\ toService[i + 1].why = call.why
        BY <2>2, <4>1
      <4>3. i + 1 = Len(toService) /\ i \in Nat
        BY <1>01, <4>2
      <4>4. i = Len(toService) - 1
        BY <1>01, <4>3
      <4> QED
        BY <3>3, <4>1, <4>2, <4>4, Zenon
    <3>6. ASSUME handler'.id = call.id
          PROVE  toService' = <<>> /\ handler'.why = call.why
      <4>1. 1 \in DOMAIN toService
        BY <1>0, <3>2
      <4>2. 1 = Len(toService) /\ toService[1].why = call.why
        BY <2>2, <3>1, <3>3, <3>6, <4>1
      <4>3. Len(toService) - 1 = 0
        BY <1>01, <4>2
      <4>4. Len(toService') = 0
        BY <3>3, <4>3, Zenon
      <4> QED
        BY <3>1, <3>3, <4>2, <4>4, EmptySeq
    <3>7. ~(reply'.type = "answer" \/ Answered')
      BY <2>2, <2>4, <3>1 DEF Empty
    <3> QED
      BY <3>5, <3>6, <3>7
  <2>9. CASE StartEndsAs
    <3>1. /\ UNCHANGED <<toService, reply, toApp>> /\ handler # NoHandler
          /\ handler'.id = handler.id /\ handler'.why = handler.why
      BY <2>9 DEF StartEndsAs
    <3>2. ~(reply'.type = "answer" \/ Answered')
      BY <2>2, <2>4, <3>1 DEF Empty
    <3> QED
      BY <2>2, <3>1, <3>2
  <2>10. CASE RespondsAs
    <3>1. /\ handler # NoHandler /\ handler' = NoHandler /\ UNCHANGED <<toService, reply>>
          /\ Items(toApp') \subseteq Items(toApp) \cup {Answer(handler)}
      BY <2>10 DEF RespondsAs
    <3>2. ~(reply.type = "answer" \/ Answered)
      BY <2>2, <3>1 DEF Empty
    <3>3. Answered' => handler.id = call.id
      BY <1>0, <2>4, <3>1, <3>2 DEF Mine
    <3>4. Answered' => Empty'
      BY <2>2, <3>1, <3>3 DEF Empty
    <3>5. handler'.id # call.id
      BY <1>0, <2>1, <3>1
    <3> QED
      BY <2>2, <3>1, <3>2, <3>4, <3>5
  <2>11. CASE \E b \in Backends : CoreAs(b)
    <3>1. /\ UNCHANGED <<toService, handler, reply>>
          /\ Items(toApp') \subseteq Items(toApp) \cup {LostEvent}
      BY <2>11 DEF CoreAs
    <3>2. Answered' => Answered
      BY <1>0, <2>4, <3>1 DEF Mine
    <3> QED
      BY <2>2, <3>1, <3>2 DEF Empty
  <2>12. CASE GoesAs
    <3>1. toService' = <<>> /\ handler' = NoHandler
      BY <2>12 DEF GoesAs
    <3>2. handler'.id # call.id
      BY <1>0, <2>1, <3>1
    <3>3. DOMAIN toService' = {}
      BY <3>1
    <3> QED
      BY <3>1, <3>2, <3>3 DEF Empty
  <2> QED
    BY <1>4, <2>5, <2>6, <2>7, <2>8, <2>9, <2>10, <2>11, <2>12, OutsideMeans
<1> QED
  BY <1>1, <1>2, <1>3, <1>4, InOrOut, InsideMeans

\* Who starts a core is at work on it, after every step.
LEMMA WorkingStep ==
  ASSUME Typed, TasksInv, PlaceInv, Working, Next
  PROVE  Working'
<1>0. core["service"] \in CoreStates /\ core["local"] \in CoreStates
  BY Values
<1> USE <1>0 DEF CoreStates, Running
<1>1. ASSUME wpc # "local", UNCHANGED <<handler, core>>
      PROVE  Working'
  BY <1>1 DEF Working
<1>2. CASE TakeTask \/ Ensure \/ Select \/ StartInstalledService
  BY <1>1, <1>2, TakeTaskIs, EnsureTaskIs, SelectMeans, InstallMeans DEF Aside, Beside
<1>3. CASE Dial \/ Send \/ Receive \/ Timeout
  BY <1>1, <1>3, DialMeans, SendMeans, ReceiveMeans, TimeoutMeans DEF Beside
<1>4. CASE Local
  BY <1>4, LocalMeans DEF Working, ReturnedAs
<1>5. CASE SyncReturned \/ StatusReturned \/ StopReturned \/ ReplaceReturned
  BY <1>1, <1>5, SyncMeans, StatusMeans, StopMeans, ReplaceMeans DEF Aside, Apart1
<1>6. CASE StartReturned \/ SetProxy \/ UndoReturned \/ ForgetBackend \/ Shutdown
  BY <1>1, <1>6, StartMeans, SetProxyMeans, UndoMeans, ForgetMeans, ShutdownMeans
     DEF Aside, Apart1
<1>7. CASE RestoreProxy
  BY <1>7, RestoreMeans DEF Working
<1>8. CASE Outside
  <2>1. UNCHANGED <<call, wpc>>
    BY <1>8, OutsideIs
  <2>2. CASE ReadsAs \/ HearsAs \/ FailsAs \/ LeavesAs \/ ElsewhereAs
    BY <2>1, <2>2 DEF ReadsAs, HearsAs, FailsAs, LeavesAs, ElsewhereAs, FarEnd, Working
  <2>3. CASE ServesAs
    BY <2>1, <2>3 DEF ServesAs, Working
  <2>4. CASE StartEndsAs
    BY <2>1, <2>4 DEF StartEndsAs, Working
  <2>5. CASE RespondsAs
    BY <2>1, <2>5 DEF RespondsAs, Working
  <2>6. CASE CoreAs("service") \/ CoreAs("local")
    BY <2>1, <2>6 DEF CoreAs, Other, Working
  <2>7. CASE GoesAs
    BY <2>1, <2>7 DEF GoesAs, Working
  <2> QED
    BY <1>8, <2>2, <2>3, <2>4, <2>5, <2>6, <2>7, OutsideMeans DEF Backends
<1> QED
  BY <1>2, <1>3, <1>4, <1>5, <1>6, <1>7, <1>8, InOrOut
     DEF Inside, Worker, Task0, CallStep, AfterStep

-----------------------------------------------------------------------------
(* What runs, and what is on its way to run.                               *)

\* A service with nothing on its way has no start on its way, and no command.
LEMMA Nothing ==
  /\ Empty => NoStarts /\ Questions
  /\ Down => DeadService
<1>1. NoHandler.why = "none" /\ DOMAIN <<>> = {}
  BY DEF NoHandler
<1> QED
  BY <1>1 DEF Empty, Down, DeadService, NoStarts, Questions

\* A worker that finds no service has none to be afraid of.
LEMMA NotConnected ==
  ASSUME Typed, Linked, Beside, ConnectedAs(FALSE)
  PROVE  DeadService /\ DeadService'
<1>1. Down /\ Down'
  <2>1. svc = "down" /\ toService' = <<>> /\ UNCHANGED <<handler, core>>
    BY DEF ConnectedAs, Beside
  <2> QED
    BY <2>1 DEF Linked, Down, Empty
<1>2. DeadService
  BY <1>1, Nothing
<1>3. DeadService'
  BY <1>1, Nothing DEF Down, DeadService, Empty, NoStarts, NoHandler
<1> QED
  BY <1>2, <1>3

\* The worker leaves the core of the service alone, and the one of its own process
\* except in its methods and at the end of the app.
LEMMA InsideCores ==
  ASSUME Typed, TasksInv, PlaceInv, Inside
  PROVE  /\ core'["service"] = core["service"]
         /\ ~Local /\ ~RestoreProxy => core' = core
<1>1. ASSUME TakeTask \/ Ensure \/ Select \/ StartInstalledService PROVE core' = core
  BY <1>1, TakeTaskIs, EnsureTaskIs, SelectMeans, InstallMeans DEF Aside, Beside
<1>2. ASSUME Dial \/ Send \/ Receive \/ Timeout PROVE core' = core
  BY <1>2, DialMeans, SendMeans, ReceiveMeans, TimeoutMeans DEF Beside
<1>3. ASSUME SyncReturned \/ StatusReturned \/ StopReturned \/ ReplaceReturned
      PROVE  core' = core
  BY <1>3, SyncMeans, StatusMeans, StopMeans, ReplaceMeans DEF Aside, Apart1
<1>4. ASSUME StartReturned \/ SetProxy \/ UndoReturned \/ ForgetBackend \/ Shutdown
      PROVE  core' = core
  BY <1>4, StartMeans, SetProxyMeans, UndoMeans, ForgetMeans, ShutdownMeans
     DEF Aside, Apart1
<1>5. ASSUME Local \/ RestoreProxy PROVE core'["service"] = core["service"]
  BY <1>5, LocalMeans, RestoreMeans
<1> QED
  BY <1>1, <1>2, <1>3, <1>4, <1>5 DEF Inside, Worker, Task0, CallStep, AfterStep

\* A dead service comes back to life with a start that the worker sends.
LEMMA DeadStays ==
  ASSUME Typed, TasksInv, PlaceInv, Ids, Last, Working, DeadService, Next
  PROVE  DeadService' \/ (SendsAs /\ call.why = "start")
<1>0. /\ core["service"] = "down" /\ handler.why # "start"
      /\ \A w \in Items(toService) : w.why # "start"
      /\ Items(<<>>) = {} /\ NoHandler.why = "none"
  BY OnTheWire DEF DeadService, Items, NoHandler
<1>1. SUFFICES ASSUME ~(SendsAs /\ call.why = "start")
               PROVE  /\ core'["service"] = "down" /\ handler'.why # "start"
                      /\ \A w \in Items(toService') : w.why # "start"
  BY OnTheWireNext DEF DeadService
<1>2. CASE Inside
  <2>1. core'["service"] = "down"
    BY <1>0, <1>2, InsideCores
  <2>2. CASE DialsAs \/ RestsAs
    <3>1. handler' = handler /\ Items(toService') \subseteq Items(toService)
      BY <1>0, <2>2 DEF DialsAs, RestsAs
    <3> QED
      BY <1>0, <2>1, <3>1
  <2>3. CASE SendsAs
    <3>1. /\ handler' = handler /\ Items(toService') = Items(toService) \cup {Sent}
          /\ Sent.why # "start"
      BY <1>1, <2>3 DEF SendsAs
    <3> QED
      BY <1>0, <2>1, <3>1
  <2> QED
    BY <1>2, <2>2, <2>3, InsideMeans
<1>3. CASE Outside
  <2>1. CASE ReadsAs \/ HearsAs \/ FailsAs \/ LeavesAs \/ ElsewhereAs
    BY <1>0, <2>1 DEF ReadsAs, HearsAs, FailsAs, LeavesAs, ElsewhereAs, FarEnd
  <2>2. CASE ServesAs
    BY <1>0, <2>2 DEF ServesAs
  <2>3. CASE StartEndsAs
    BY <1>0, <2>3 DEF StartEndsAs, Working
  <2>4. CASE RespondsAs
    BY <1>0, <2>4 DEF RespondsAs
  <2>5. CASE CoreAs("service") \/ CoreAs("local")
    BY <1>0, <2>5 DEF CoreAs, Other, Running
  <2>6. CASE GoesAs
    BY <1>0, <2>6 DEF GoesAs
  <2> QED
    BY <1>3, <2>1, <2>2, <2>3, <2>4, <2>5, <2>6, OutsideMeans DEF Backends
<1> QED
  BY <1>2, <1>3, InOrOut

\* Where the worker is, it takes the one step that is there.
LEMMA WhichStep ==
  ASSUME Typed, TasksInv, PlaceInv, Inside
  PROVE  /\ wpc = "wait" => Receive \/ Timeout
         /\ wpc = "idle" => TakeTask \/ Shutdown
         /\ wpc = "dial" => Dial
         /\ wpc = "send" => Send
         /\ wpc = "local" => Local
         /\ wpc = "returned" => \/ SyncReturned \/ StatusReturned \/ StopReturned
                                \/ ReplaceReturned \/ StartReturned \/ UndoReturned
         /\ wpc = "restore" => RestoreProxy
         /\ wpc' = "wait" => Send
         /\ wpc' = "returned" => Dial \/ Send \/ Receive \/ Timeout \/ Local
<1>1. ASSUME TakeTask \/ Ensure \/ Select \/ StartInstalledService
      PROVE  /\ wpc \in {"idle", "ensure", "select", "again", "install"}
             /\ (wpc = "idle" => TakeTask) /\ wpc' \notin {"wait", "returned"}
  BY <1>1, TakeTaskIs, EnsureTaskIs, SelectMeans, InstallMeans DEF InvokedAs, ChosenAs
<1>2. ASSUME Dial \/ Send \/ Receive \/ Timeout \/ Local
      PROVE  /\ wpc \in {"dial", "send", "wait", "local"}
             /\ (wpc = "dial" => Dial) /\ (wpc = "send" => Send)
             /\ (wpc = "wait" => Receive \/ Timeout) /\ (wpc = "local" => Local)
             /\ (wpc' = "wait" => Send)
  BY <1>2, DialMeans, SendMeans, ReceiveMeans, TimeoutMeans, LocalMeans DEF ReturnedAs
<1>3. ASSUME \/ SyncReturned \/ StatusReturned \/ StopReturned \/ ReplaceReturned
             \/ StartReturned \/ UndoReturned
      PROVE  wpc = "returned" /\ wpc' \notin {"wait", "returned"}
  BY <1>3, SyncMeans, StatusMeans, StopMeans, ReplaceMeans, StartMeans, UndoMeans
     DEF InvokedAs, DoneAs
<1>4. ASSUME SetProxy \/ RestoreProxy \/ ForgetBackend \/ Shutdown
      PROVE  /\ wpc \in {"proxy", "restore", "forget", "idle"}
             /\ (wpc = "restore" => RestoreProxy) /\ (wpc = "idle" => Shutdown)
             /\ wpc' \notin {"wait", "returned"}
  BY <1>4, SetProxyMeans, RestoreMeans, ForgetMeans, ShutdownMeans DEF InvokedAs, DoneAs
<1> QED
  BY <1>1, <1>2, <1>3, <1>4 DEF Inside, Worker, Task0, CallStep, AfterStep

\* What the bridge knows is kept, or it knows of the backend that was called, or of
\* none; and a loss is the end of whatever it knew.
KeepsAs == active' = active /\ missed \subseteq missed'
AttachesAs ==
  /\ wpc = "returned" /\ call.ok /\ call.why \in {"query", "start"} /\ Called \in Backends
  /\ active' = Called /\ missed' = {} /\ wpc' \in {"idle", "proxy"} /\ Apart1
DropsAs ==
  /\ wpc = "returned"
  /\ call.why \in {"stop", "undo"} \/ (call.why = "start" /\ ~call.ok)
  /\ active' = "none" /\ missed' = missed /\ wpc' \in {"idle", "restore"} /\ Apart1
ForgetsAs ==
  /\ wpc = "forget" /\ wpc' = "restore" /\ active' = "none" /\ task' = task /\ Apart1
  /\ missed' = IF \E b \in Backends : core[b] # "down" THEN missed \cup {"stale"} ELSE missed

\* That is what the worker's steps do with it.
LEMMA KnowledgeIs ==
  ASSUME Typed, TasksInv, PlaceInv, Placed, Inside
  PROVE  KeepsAs \/ AttachesAs \/ DropsAs \/ ForgetsAs
<1>1. ASSUME TakeTask \/ Ensure \/ Select \/ StartInstalledService PROVE KeepsAs
  BY <1>1, TakeTaskIs, EnsureTaskIs, SelectMeans, InstallMeans DEF Aside, Beside, KeepsAs
<1>2. ASSUME Dial \/ Send \/ Receive \/ Timeout \/ Local PROVE KeepsAs
  BY <1>2, DialMeans, SendMeans, ReceiveMeans, TimeoutMeans, LocalMeans DEF Beside, KeepsAs
<1>3. ASSUME SyncReturned PROVE KeepsAs \/ AttachesAs
  <2>1. CASE call.ok
    <3>1. wpc = "returned" /\ call.why = "query" /\ task.kind = "sync"
      BY <1>3, SyncMeans
    <3>2. Called = "service"
      BY <2>1, <3>1 DEF Placed, Called
    <3> QED
      BY <1>3, <2>1, <3>2, SyncMeans DEF AttachesAs, Backends
  <2>2. CASE ~call.ok
    BY <1>3, <2>2, SyncMeans DEF KeepsAs
  <2> QED
    BY <2>1, <2>2
<1>4. ASSUME StatusReturned PROVE KeepsAs \/ AttachesAs
  <2>1. CASE call.ok /\ active = "none"
    <3>1. /\ wpc = "returned" /\ call.why = "query" /\ missed' = {} /\ wpc' = "idle"
          /\ active' = IF call.id # 0 THEN "service" ELSE "local"
      BY <1>4, <2>1, StatusMeans DEF DoneAs
    <3>2. active' = Called /\ Called \in Backends
      BY <3>1 DEF Called, Backends
    <3> QED
      BY <1>4, <2>1, <3>1, <3>2, StatusMeans DEF AttachesAs
  <2>2. CASE ~(call.ok /\ active = "none")
    BY <1>4, <2>2, StatusMeans DEF KeepsAs
  <2> QED
    BY <2>1, <2>2
<1>5. ASSUME StartReturned PROVE AttachesAs \/ DropsAs
  <2>1. wpc = "returned" /\ call.why = "start"
    BY <1>5, StartMeans
  <2>2. Called = task.target /\ task.target \in Backends
    BY <2>1 DEF Called, Placed, Calling
  <2> QED
    BY <1>5, <2>2, StartMeans DEF AttachesAs, DropsAs
<1>6. ASSUME StopReturned \/ UndoReturned PROVE DropsAs
  BY <1>6, StopMeans, UndoMeans DEF DropsAs, DoneAs
<1>7. ASSUME ReplaceReturned \/ SetProxy \/ RestoreProxy \/ Shutdown PROVE KeepsAs
  BY <1>7, ReplaceMeans, SetProxyMeans, RestoreMeans, ShutdownMeans DEF KeepsAs
<1>8. ASSUME ForgetBackend PROVE KeepsAs \/ ForgetsAs
  BY <1>8, ForgetMeans DEF KeepsAs, ForgetsAs
<1> QED
  BY <1>1, <1>2, <1>3, <1>4, <1>5, <1>6, <1>7, <1>8
     DEF Inside, Worker, Task0, CallStep, AfterStep

\* A backend the bridge attaches to has no start on its way in the service.
LEMMA AttachedFree ==
  ASSUME Placed, Ended, NoService, AttachesAs
  PROVE  /\ NoStarts /\ NoStarts'
         /\ Called = "service" => Empty /\ Empty'
         /\ Called = "local" => DeadService /\ DeadService'
<1>1. Called = "service" => Empty
  BY DEF AttachesAs, Placed, Called, Ended
<1>2. Called = "local" => DeadService
  BY DEF AttachesAs, NoService, Called, Calling
<1>3. Called \in {"service", "local"}
  BY DEF AttachesAs, Backends
<1>4. NoStarts
  BY <1>1, <1>2, <1>3, Nothing DEF DeadService
<1>5. UNCHANGED <<toService, handler, core>>
  BY DEF AttachesAs, Apart1, Aside
<1> QED
  BY <1>1, <1>2, <1>4, <1>5 DEF NoStarts, DeadService, Empty

\* A call that is answered, or whose pipe broke, has left nothing on its way.
LEMMA ReturnsFree ==
  ASSUME Typed, Linked, Sending, Last, Receive
  PROVE  Empty
<1>1. wpc = "wait" /\ reply # NoReply
  BY ReceiveMeans
<1> QED
  BY <1>1 DEF Last, Sending, Linked, Down

\* The starts in the service are the waiting call's, after every step.
LEMMA OwnStartsStep ==
  ASSUME Typed, TasksInv, PlaceInv, Wire, Placed, NoService, OwnStarts, Next
  PROVE  OwnStarts'
<1> USE DEF Wire
<1>0. Items(<<>>) = {} /\ NoHandler.why = "none"
  BY DEF Items, NoHandler
<1>1. missed = {} =>
       /\ \A w \in Items(toService) : w.why = "start" => wpc = "wait" /\ w.id = call.id
       /\ handler.why = "start" => wpc = "wait" /\ handler.id = call.id
  BY OnTheWire
<1>2. SUFFICES ASSUME missed' = {}
               PROVE  /\ \A w \in Items(toService') :
                            w.why = "start" => wpc' = "wait" /\ w.id = call'.id
                      /\ handler'.why = "start" => wpc' = "wait" /\ handler'.id = call'.id
  BY DEF OwnStarts, Items
<1>3. CASE Inside
  <2>1. CASE AttachesAs
    BY <2>1, AttachedFree, OnTheWireNext
  <2>2. CASE ~AttachesAs
    <3>1. missed = {}
      BY <1>2, <1>3, <2>2, KnowledgeIs DEF KeepsAs, DropsAs, ForgetsAs
    <3>2. CASE SendsAs
      <4>1. /\ Items(toService') = Items(toService) \cup {Sent} /\ handler' = handler
            /\ Sent.id = call.id /\ call' = call /\ wpc = "send" /\ wpc' = "wait"
        BY <3>2 DEF SendsAs
      <4> QED
        BY <1>1, <3>1, <4>1
    <3>3. ASSUME DialsAs \/ RestsAs
          PROVE  handler' = handler /\ Items(toService') \subseteq Items(toService)
      BY <1>0, <3>3 DEF DialsAs, RestsAs
    <3>4. CASE (DialsAs \/ RestsAs) /\ wpc # "wait"
      BY <1>1, <3>1, <3>3, <3>4
    <3>5. CASE (DialsAs \/ RestsAs) /\ wpc = "wait"
      <4>1. Receive
        BY <1>2, <1>3, <3>5, WhichStep, TimeoutMeans
      <4>2. Empty
        BY <4>1, ReturnsFree
      <4> QED
        BY <1>0, <3>3, <3>5, <4>2 DEF Empty
    <3> QED
      BY <1>3, <3>2, <3>4, <3>5, InsideMeans
  <2> QED
    BY <2>1, <2>2
<1>4. CASE Outside
  <2>1. missed = {} /\ UNCHANGED <<wpc, call>>
    BY <1>2, <1>4, OutsideIs, OutsideStays
  <2>2. CASE ReadsAs \/ HearsAs \/ FailsAs \/ LeavesAs \/ ElsewhereAs
    BY <1>1, <2>1, <2>2 DEF ReadsAs, HearsAs, FailsAs, LeavesAs, ElsewhereAs, FarEnd
  <2>3. CASE ServesAs
    <3>1. /\ Items(toService) = {Head(toService)} \cup Items(toService')
          /\ handler'.id = Head(toService).id /\ handler'.why = Head(toService).why
      BY <2>3 DEF ServesAs
    <3> QED
      BY <1>1, <2>1, <3>1
  <2>4. CASE StartEndsAs
    BY <1>1, <2>1, <2>4 DEF StartEndsAs
  <2>5. CASE RespondsAs
    BY <1>0, <1>1, <2>1, <2>5 DEF RespondsAs
  <2>6. CASE \E b \in Backends : CoreAs(b)
    BY <1>1, <2>1, <2>6 DEF CoreAs
  <2>7. CASE GoesAs
    BY <1>0, <1>1, <2>1, <2>7 DEF GoesAs
  <2> QED
    BY <1>4, <2>2, <2>3, <2>4, <2>5, <2>6, <2>7, OutsideMeans
<1> QED
  BY <1>3, <1>4, InOrOut

\* A call that changes what runs does so until the bridge knows of it.
LEMMA ChangingStays ==
  ASSUME Typed, TasksInv, PlaceInv, Placed, Inside, Changing
  PROVE  Changing' \/ AttachesAs \/ active' = "none"
<1> USE DEF Changing, Calling
<1>1. CASE Dial \/ Send \/ Receive \/ Timeout \/ Local
  BY <1>1, DialMeans, SendMeans, ReceiveMeans, TimeoutMeans, LocalMeans DEF ReturnedAs
<1>2. CASE StopReturned \/ ReplaceReturned \/ UndoReturned
  BY <1>2, StopMeans, ReplaceMeans, UndoMeans DEF InvokedAs
<1>3. CASE StartReturned
  <2>1. wpc = "returned" /\ call.why = "start"
    BY <1>3, StartMeans
  <2>2. Called = task.target /\ task.target \in Backends
    BY <2>1 DEF Called, Placed
  <2> QED
    BY <1>3, <2>2, StartMeans DEF AttachesAs
<1>4. CASE SyncReturned \/ StatusReturned
  BY <1>4, SyncMeans, StatusMeans
<1> QED
  BY <1>1, <1>2, <1>3, <1>4, WhichStep

\* Beside a connection the service has only questions, after every step.
LEMMA OnlyQuestionsStep ==
  ASSUME Typed, TasksInv, PlaceInv, Wire, Placed, NoService, OnlyQuestions, Next
  PROVE  OnlyQuestions'
<1> USE DEF Wire
<1>0. Items(<<>>) = {} /\ NoHandler.why = "none"
  BY DEF Items, NoHandler
<1>1. Questions <=>
       /\ \A w \in Items(toService) : w.why = "query"
       /\ handler # NoHandler => handler.why = "query"
  BY DEF Questions, Items
<1>2. Questions' <=>
       /\ \A w \in Items(toService') : w.why = "query"
       /\ handler' # NoHandler => handler'.why = "query"
  BY DEF Questions, Items
<1>3. SUFFICES ASSUME active' = "service", ~Changing' PROVE Questions'
  BY DEF OnlyQuestions
<1>4. CASE Inside
  <2>1. CASE AttachesAs
    <3>1. Empty'
      BY <1>3, <2>1, AttachedFree DEF AttachesAs
    <3> QED
      BY <1>0, <1>2, <3>1 DEF Empty
  <2>2. CASE ~AttachesAs
    <3>1. active = "service" /\ ~Changing
      BY <1>3, <1>4, <2>2, KnowledgeIs, ChangingStays DEF KeepsAs, DropsAs, ForgetsAs
    <3>2. Questions
      BY <3>1 DEF OnlyQuestions
    <3>3. CASE DialsAs \/ RestsAs
      BY <1>0, <1>1, <1>2, <3>2, <3>3 DEF DialsAs, RestsAs
    <3>4. CASE SendsAs
      <4>1. call.why = "query"
        BY <3>1, <3>4 DEF SendsAs, Changing, Calling
      <4>2. /\ Items(toService') = Items(toService) \cup {Sent} /\ handler' = handler
            /\ Sent.why = call.why
        BY <3>4 DEF SendsAs
      <4> QED
        BY <1>1, <1>2, <3>2, <4>1, <4>2
    <3> QED
      BY <1>4, <3>3, <3>4, InsideMeans
  <2> QED
    BY <2>1, <2>2
<1>5. CASE Outside
  <2>1. active = "service" /\ ~Changing
    BY <1>3, <1>5, OutsideIs, OutsideStays
  <2>2. Questions
    BY <2>1 DEF OnlyQuestions
  <2>3. CASE ReadsAs \/ HearsAs \/ FailsAs \/ LeavesAs \/ ElsewhereAs
    BY <1>1, <1>2, <2>2, <2>3 DEF ReadsAs, HearsAs, FailsAs, LeavesAs, ElsewhereAs, FarEnd
  <2>4. CASE ServesAs
    <3>1. /\ Items(toService) = {Head(toService)} \cup Items(toService')
          /\ handler'.why = Head(toService).why
      BY <2>4 DEF ServesAs
    <3> QED
      BY <1>1, <1>2, <2>2, <3>1
  <2>5. CASE StartEndsAs
    BY <1>1, <1>2, <2>2, <2>5 DEF StartEndsAs
  <2>6. CASE RespondsAs
    BY <1>1, <1>2, <2>2, <2>6 DEF RespondsAs
  <2>7. CASE \E b \in Backends : CoreAs(b)
    BY <1>1, <1>2, <2>2, <2>7 DEF CoreAs
  <2>8. CASE GoesAs
    BY <1>0, <1>2, <2>8 DEF GoesAs
  <2> QED
    BY <1>5, <2>3, <2>4, <2>5, <2>6, <2>7, <2>8, OutsideMeans
<1> QED
  BY <1>4, <1>5, InOrOut

\* Where the core of this process is used, asked or started, the service has none and
\* no start, after every step.
LEMMA NoServiceStep ==
  ASSUME Typed, TasksInv, PlaceInv, Wire, Placed, NoService, Next
  PROVE  NoService'
<1> USE DEF Wire
<1>0. /\ active \in {"none", "service", "local"}
      /\ task.target \in {"none", "service", "local"} /\ Sync.target = "none"
  BY Values DEF Backends, Sync, Task
<1>1. ASSUME DeadService PROVE DeadService' \/ (SendsAs /\ call.why = "start")
  BY <1>1, DeadStays
<1>2. ASSUME DeadService, wpc # "send" PROVE DeadService'
  BY <1>1, <1>2 DEF SendsAs
<1>3. CASE Outside
  <2>1. /\ UNCHANGED <<task, wpc, active, call>> /\ Calling' = Calling
        /\ Called' = Called /\ Starting("service")' = Starting("service")
    BY <1>3, OutsideIs, OutsideStays DEF Calling, Starting
  <2>2. ~SendsAs
    BY <2>1 DEF SendsAs
  <2> QED
    BY <1>1, <2>1, <2>2 DEF NoService
<1> USE DEF NoService, Starting, Calling, Called
<1>4. CASE TakeTask
  <2>1. /\ wpc = "idle" /\ UNCHANGED active
        /\ \/ wpc' \in {"ensure", "select", "forget"}
           \/ active # "none" /\ InvokedAs(active, "query")
           \/ InvokedAs(active, "stop")
    BY <1>4, TakeTaskIs
  <2>2. active = "local" => DeadService'
    BY <1>2, <2>1
  <2>3. CASE wpc' \in {"ensure", "select", "forget"}
    BY <2>1, <2>2, <2>3
  <2>4. CASE active # "none" /\ InvokedAs(active, "query")
    <3>1. /\ wpc' = IF active = "service" THEN "dial" ELSE "local"
          /\ call'.why = "query" /\ active' = active
      BY <2>1, <2>4 DEF InvokedAs
    <3> QED
      BY <1>0, <2>2, <2>4, <3>1
  <2>5. CASE InvokedAs(active, "stop")
    <3>1. call'.why = "stop" /\ active' = active /\ wpc' \in {"dial", "local"}
      BY <2>1, <2>5 DEF InvokedAs
    <3> QED
      BY <2>2, <3>1
  <2> QED
    BY <2>1, <2>3, <2>4, <2>5
<1>5. CASE Ensure
  <2>1. wpc = "ensure" /\ Beside /\ active' = active /\ task' = task
    BY <1>5, EnsureTaskIs DEF Beside
  <2>2. active = "local" => DeadService'
    BY <1>2, <2>1
  <2>3. \/ InvokedAs("service", "query") \/ InvokedAs("service", "stop") \/ wpc' = "restore"
        \/ InvokedAs("local", "query") /\ ConnectedAs(FALSE)
    <3>1. PICK ok \in BOOLEAN :
            /\ ConnectedAs(ok)
            /\ \/ InvokedAs("service", "query") \/ InvokedAs("service", "stop")
               \/ wpc' = "restore" \/ (~ok /\ InvokedAs("local", "query"))
      BY <1>5, EnsureTaskIs
    <3>2. ASSUME ~ok PROVE ok = FALSE
      BY <3>2
    <3> QED
      BY <3>1, <3>2, Zenon
  <2>4. CASE InvokedAs("local", "query") /\ ConnectedAs(FALSE)
    <3>1. DeadService'
      BY <2>1, <2>4, NotConnected
    <3> QED
      BY <2>4, <3>1 DEF InvokedAs
  <2>5. CASE \/ InvokedAs("service", "query") \/ InvokedAs("service", "stop")
             \/ wpc' = "restore"
    BY <2>1, <2>2, <2>5 DEF InvokedAs
  <2> QED
    BY <2>3, <2>4, <2>5
<1>6. CASE Select
  <2>1. wpc \in {"select", "again"} /\ Beside /\ active' = active
    BY <1>6, SelectMeans DEF Beside
  <2>2. active = "local" => DeadService'
    BY <1>2, <2>1
  <2>3. \/ ChosenAs("service")
        \/ ConnectedAs(FALSE) /\ (ChosenAs("local") \/ wpc' = "install")
    <3>1. PICK ok \in BOOLEAN :
            /\ ConnectedAs(ok)
            /\ \/ ChosenAs("service") \/ (~ok /\ wpc' = "install")
               \/ (~ok /\ ChosenAs("local"))
      BY <1>6, SelectMeans
    <3>2. ASSUME ~ok PROVE ok = FALSE
      BY <3>2
    <3> QED
      BY <3>1, <3>2, Zenon
  <2>4. CASE ConnectedAs(FALSE)
    <3>1. DeadService'
      BY <2>1, <2>4, NotConnected
    <3> QED
      BY <3>1
  <2>5. CASE ChosenAs("service")
    BY <2>1, <2>2, <2>5 DEF ChosenAs, InvokedAs
  <2> QED
    BY <2>3, <2>4, <2>5
<1>7. CASE StartInstalledService
  <2>1. wpc = "install"
    BY <1>7, InstallMeans
  <2> QED
    BY <1>2, <2>1
<1>8. CASE Dial
  <2>1. wpc = "dial" /\ Beside /\ active' = active /\ task' = task /\ call'.why = call.why
    BY <1>8, DialMeans DEF Beside, ReturnedAs
  <2>2. wpc' = "send" \/ ConnectedAs(FALSE)
    <3>1. PICK ok \in BOOLEAN : ConnectedAs(ok) /\ (wpc' = "send" \/ ~ok)
      BY <1>8, DialMeans
    <3>2. ASSUME ~ok PROVE ok = FALSE
      BY <3>2
    <3> QED
      BY <3>1, <3>2, Zenon
  <2>3. CASE ConnectedAs(FALSE)
    <3>1. DeadService'
      BY <2>1, <2>3, NotConnected
    <3> QED
      BY <3>1
  <2>4. CASE wpc' = "send"
    BY <1>2, <2>1, <2>4
  <2> QED
    BY <2>2, <2>3, <2>4
<1>9. CASE Send
  <2>1. /\ wpc = "send" /\ active' = active /\ task' = task /\ call'.why = call.why
        /\ call'.id = call.id /\ wpc' \in {"wait", "returned"}
    BY <1>9, SendMeans DEF Beside, ReturnedAs
  <2>2. call.id # 0 /\ Called = "service"
    BY <2>1, Values DEF Ids, Placed
  <2>3. CASE SendsAs /\ call.why = "start"
    <3>1. task.target = "service"
      BY <2>1, <2>2, <2>3
    <3> QED
      BY <2>1, <2>3, <3>1
  <2>4. CASE ~(SendsAs /\ call.why = "start")
    BY <1>1, <2>1, <2>2, <2>4
  <2> QED
    BY <2>3, <2>4
<1>10. CASE Receive \/ Timeout
  <2>1. /\ wpc = "wait" /\ active' = active /\ task' = task /\ call'.why = call.why
        /\ call'.id = call.id /\ wpc' = "returned"
    BY <1>10, ReceiveMeans, TimeoutMeans DEF Beside, ReturnedAs
  <2>2. call.id # 0
    BY <2>1, Values DEF Ids
  <2> QED
    BY <1>2, <2>1, <2>2
<1>11. CASE Local
  <2>1. /\ wpc = "local" /\ active' = active /\ task' = task /\ call'.why = call.why
        /\ call'.id = call.id /\ wpc' \in {"local", "returned"} /\ call.id = 0
    BY <1>11, LocalMeans DEF ReturnedAs, Ids
  <2> QED
    BY <1>2, <2>1
<1>12. CASE AttachesAs
  <2>1. wpc' \in {"idle", "proxy"} /\ (active' = "local" => DeadService')
    BY <1>12, AttachedFree DEF AttachesAs
  <2> QED
    BY <2>1
<1>13. CASE (SyncReturned \/ StatusReturned \/ StopReturned \/ UndoReturned) /\ ~AttachesAs
  <2>1. /\ wpc = "returned" /\ call.why \in {"query", "stop", "undo"}
        /\ wpc' \in {"idle", "restore"}
    BY <1>13, SyncMeans, StatusMeans, StopMeans, UndoMeans DEF DoneAs
  <2>2. active' \in {active, "none"}
    <3>1. Inside
      BY <1>13 DEF Inside, Worker, AfterStep
    <3> QED
      BY <1>13, <3>1, KnowledgeIs DEF KeepsAs, DropsAs, ForgetsAs
  <2> QED
    BY <1>2, <2>1, <2>2
<1>14. CASE StartReturned /\ ~AttachesAs
  <2>1. ~call.ok \/ (call.ok /\ active' = task.target /\ missed' = {} /\ wpc' = "proxy")
    BY <1>14, StartMeans
  <2>2. wpc = "returned" /\ call.why = "start" /\ Apart1
    BY <1>14, StartMeans
  <2>3. ~call.ok
    BY <1>14, <2>1, <2>2 DEF AttachesAs, Placed
  <2>4. active' = "none" /\ wpc' = "restore"
    BY <1>14, <2>3, StartMeans
  <2> QED
    BY <2>4
<1>15. CASE ReplaceReturned
  <2>1. /\ wpc = "returned" /\ call.why = "replace" /\ UNCHANGED <<active, task>>
        /\ InvokedAs(task.target, "start")
    BY <1>15, ReplaceMeans
  <2> QED
    BY <1>2, <2>1 DEF InvokedAs
<1>16. CASE SetProxy \/ RestoreProxy
  <2>1. /\ wpc \in {"proxy", "restore"} /\ UNCHANGED active
        /\ wpc' = "idle" \/ InvokedAs(task.target, "undo")
    BY <1>16, SetProxyMeans, RestoreMeans DEF DoneAs
  <2> QED
    BY <1>2, <2>1 DEF InvokedAs
<1>17. CASE ForgetBackend \/ Shutdown
  <2>1. /\ wpc \in {"forget", "idle"} /\ active' \in {active, "none"}
        /\ wpc' \in {"idle", "restore"} \/ InvokedAs(active, "stop")
    BY <1>17, ForgetMeans, ShutdownMeans DEF DoneAs
  <2> QED
    BY <1>2, <2>1 DEF InvokedAs
<1> QED
  BY <1>3, <1>4, <1>5, <1>6, <1>7, <1>8, <1>9, <1>10, <1>11, <1>12, <1>13, <1>14, <1>15,
     <1>16, <1>17, InOrOut
     DEF Inside, Worker, Task0, CallStep, AfterStep

-----------------------------------------------------------------------------
(* What an outcome says.                                                   *)

\* An outcome that is known while the call waits leaves no request behind.
LEMMA ToldFree ==
  ASSUME Typed, Linked, Sending, Last, NEW ok, Told(ok), wpc = "wait"
  PROVE  toService = <<>> /\ (handler # NoHandler => handler.done)
<1>1. CASE reply # NoReply \/ AnsweredWith(ok)
  <2>1. AnsweredWith(ok) => Answered
    BY DEF AnsweredWith, Answered
  <2>2. Empty
    BY <1>1, <2>1 DEF Last, Sending, Linked, Down
  <2> QED
    BY <2>2 DEF Empty
<1>2. CASE handler.id = call.id /\ handler.done
  BY <1>2 DEF Last
<1> QED
  BY <1>1, <1>2 DEF Told

\* The others bring the outcome of the waiting call from the service's thread, or the
\* news that the pipe broke, or nothing.
LEMMA ToldOutside ==
  ASSUME Typed, Ids, NEW ok \in BOOLEAN, Outside, Told(ok)'
  PROVE  /\ Calling
         /\ \/ Told(ok)
            \/ ~ok /\ FailsAs
            \/ /\ ServesAs /\ wpc = "wait" /\ handler'.id = call.id
               /\ handler'.done /\ handler'.ok = ok
            \/ /\ StartEndsAs /\ wpc = "wait" /\ handler'.id = call.id
               /\ handler'.done /\ handler'.ok = ok
<1>0. /\ NoHandler.id = 0 /\ Released.type = "released" /\ LostEvent.type = "lost"
      /\ Answer(handler).id = handler.id /\ Answer(handler).ok = handler.ok
      /\ Answer(handler).type = "answer" /\ NoReply.type = "none" /\ Items(<<>>) = {}
  BY DEF NoHandler, Released, LostEvent, Answer, NoReply, Items
<1>1. UNCHANGED <<call, wpc>> /\ (wpc = "wait" => call.id > 0) /\ call.id \in Nat
  BY OutsideIs, Values DEF Ids
<1>2. (\A m : Mine(m)' <=> Mine(m))
      /\ (AnsweredWith(ok) <=> \E m \in Items(toApp) : Mine(m) /\ m.ok = ok)
      /\ (AnsweredWith(ok)' <=> \E m \in Items(toApp') : Mine(m) /\ m.ok = ok)
  BY <1>1 DEF Mine, AnsweredWith, Items
<1>3. CASE wpc = "returned"
  BY <1>1, <1>3 DEF Told, Calling
<1>4. CASE wpc = "wait"
  <2>0. /\ Calling
        /\ Told(ok) <=> \/ reply # NoReply /\ (reply.type = "answer" /\ reply.ok) = ok
                        \/ AnsweredWith(ok)
                        \/ handler.id = call.id /\ handler.done /\ handler.ok = ok
        /\ \/ reply' # NoReply /\ (reply'.type = "answer" /\ reply'.ok) = ok
           \/ AnsweredWith(ok)'
           \/ handler'.id = call.id /\ handler'.done /\ handler'.ok = ok
    BY <1>1, <1>4 DEF Told, Calling
  <2>1. CASE ReadsAs
    <3>1. /\ handler' = handler /\ Items(toApp) = {Head(toApp)} \cup Items(toApp')
          /\ Head(toApp).type = "answer" /\ Head(toApp) \in Replies
          /\ reply' = IF Head(toApp).id = call.id THEN Head(toApp) ELSE reply
      BY <1>4, <2>1 DEF ReadsAs, FarEnd
    <3>2. AnsweredWith(ok)' => AnsweredWith(ok)
      BY <1>2, <3>1
    <3>3. ASSUME Head(toApp).id = call.id,
                 (reply'.type = "answer" /\ reply'.ok) = ok
          PROVE  AnsweredWith(ok)
      <4>1. Head(toApp).ok \in BOOLEAN /\ reply' = Head(toApp)
        BY <3>1, <3>3 DEF Replies
      <4>2. Head(toApp).ok = ok
        BY <3>1, <3>3, <4>1
      <4> QED
        BY <1>2, <3>1, <3>3, <4>2 DEF Mine
    <3> QED
      BY <2>0, <3>1, <3>2, <3>3
  <2>2. CASE HearsAs \/ LeavesAs \/ ElsewhereAs
    <3>1. UNCHANGED <<handler, reply>> /\ Items(toApp') \subseteq Items(toApp)
      BY <2>2 DEF HearsAs, LeavesAs, ElsewhereAs, FarEnd
    <3> QED
      BY <1>2, <2>0, <3>1
  <2>3. CASE FailsAs
    <3>1. handler' = handler /\ reply' \in {reply, Released} /\ ~AnsweredWith(ok)'
      BY <1>0, <1>2, <2>3 DEF FailsAs, FarEnd
    <3>2. reply' = Released => (reply'.type = "answer" /\ reply'.ok) = FALSE
      BY <1>0
    <3> QED
      BY <2>0, <2>3, <3>1, <3>2
  <2>4. CASE ServesAs
    <3>1. UNCHANGED <<reply, toApp>>
      BY <2>4 DEF ServesAs
    <3> QED
      BY <1>2, <1>4, <2>0, <2>4, <3>1
  <2>5. CASE StartEndsAs
    <3>1. UNCHANGED <<reply, toApp>>
      BY <2>5 DEF StartEndsAs
    <3> QED
      BY <1>2, <1>4, <2>0, <2>5, <3>1
  <2>6. CASE RespondsAs
    <3>1. /\ handler.done /\ handler' = NoHandler /\ reply' = reply
          /\ Items(toApp') \subseteq Items(toApp) \cup {Answer(handler)}
      BY <2>6 DEF RespondsAs
    <3>2. AnsweredWith(ok)' => AnsweredWith(ok) \/ (handler.id = call.id /\ handler.ok = ok)
      BY <1>0, <1>2, <3>1 DEF Mine
    <3>3. handler'.id # call.id
      BY <1>0, <1>1, <1>4, <3>1
    <3> QED
      BY <2>0, <3>1, <3>2, <3>3
  <2>7. CASE \E b \in Backends : CoreAs(b)
    <3>1. UNCHANGED <<handler, reply>> /\ Items(toApp') \subseteq Items(toApp) \cup {LostEvent}
      BY <2>7 DEF CoreAs
    <3>2. AnsweredWith(ok)' => AnsweredWith(ok)
      BY <1>0, <1>2, <3>1 DEF Mine
    <3> QED
      BY <2>0, <3>1, <3>2
  <2>8. CASE GoesAs
    <3>1. handler' = NoHandler /\ UNCHANGED <<reply, toApp>>
      BY <2>8 DEF GoesAs
    <3>2. handler'.id # call.id
      BY <1>0, <1>1, <1>4, <3>1
    <3> QED
      BY <1>2, <2>0, <3>1, <3>2
  <2> QED
    BY <2>1, <2>2, <2>3, <2>4, <2>5, <2>6, <2>7, <2>8, OutsideMeans
<1> QED
  BY <1>1, <1>3, <1>4 DEF Told

\* The worker's own steps return an outcome it was told, or one of this process, or
\* that of a call that was given up or found no service.
LEMMA ToldInside ==
  ASSUME Typed, TasksInv, PlaceInv, Wire, Placed, NEW ok \in BOOLEAN, Inside, Told(ok)'
  PROVE  /\ Called' = Called \/ (Dial /\ ~ok /\ call'.why = "query" /\ Called' = "local")
         /\ call'.why = call.why /\ task' = task /\ wpc' = "returned"
         /\ \/ Receive /\ Told(ok) /\ core' = core
            \/ Timeout /\ ~ok
            \/ (Dial \/ Send) /\ ~ok /\ core'["service"] = "down"
            \/ Local /\ ReturnedAs(ok)
<1> USE DEF Wire
<1>0. wpc' \in {"wait", "returned"}
  BY DEF Told
<1>1. (wpc' = "wait" => Send) /\ (wpc' = "returned" => Dial \/ Send \/ Receive \/ Timeout \/ Local)
  BY WhichStep
<1>2. ASSUME ReturnedAs(FALSE) PROVE ok = FALSE
  BY <1>2 DEF ReturnedAs, Told
<1>3. CASE Dial
  <2>1. /\ wpc = "dial" /\ task' = task /\ Beside /\ call'.why = call.why
        /\ wpc' = "send" \/ (ReturnedAs(FALSE) /\ ConnectedAs(FALSE))
    <3>1. PICK b \in BOOLEAN : /\ ConnectedAs(b) /\ call'.why = call.why
                               /\ wpc' = "send" \/ (~b /\ ReturnedAs(FALSE))
      BY <1>3, DialMeans DEF ReturnedAs
    <3>2. ASSUME ~b PROVE b = FALSE
      BY <3>2
    <3>3. wpc' = "send" \/ (ReturnedAs(FALSE) /\ ConnectedAs(FALSE))
      BY <3>1, <3>2, Zenon
    <3> QED
      BY <1>3, <3>1, <3>3, DialMeans
  <2>2. ReturnedAs(FALSE) /\ ConnectedAs(FALSE)
    BY <1>0, <2>1
  <2>3. ok = FALSE /\ core'["service"] = "down"
    BY <1>2, <2>1, <2>2, NotConnected DEF DeadService
  <2>4. call.id = 0 /\ call'.id = 0 /\ wpc' = "returned"
    BY <2>1, <2>2 DEF Ids, ReturnedAs
  <2>5. Called' = Called \/ (call'.why = "query" /\ Called' = "local")
    BY <2>1, <2>4 DEF Called, Beside
  <2> QED
    BY <1>3, <2>1, <2>3, <2>4, <2>5
<1>4. CASE Send
  <2>1. /\ wpc = "send" /\ task' = task /\ Beside /\ call'.why = call.why
        /\ call'.id = call.id /\ UNCHANGED <<toApp, broken>>
        /\ (broken /\ ReturnedAs(FALSE)) \/ (SendsAs /\ ~broken)
    <3>1. ~broken => ~(wpc' = "returned")
      BY <1>4, SendMeans
    <3>2. SendsAs \/ DialsAs \/ RestsAs
      BY InsideMeans
    <3> QED
      BY <1>0, <1>4, <3>1, <3>2, SendMeans DEF ReturnedAs, DialsAs, RestsAs
  <2>2. CASE SendsAs /\ ~broken
    <3>1. /\ reply' = reply /\ reply = NoReply /\ handler' = handler /\ call' = call
          /\ wpc' = "wait" /\ toApp' = toApp
      BY <2>1, <2>2 DEF SendsAs, Sending
    <3>2. ~AnsweredWith(ok)'
      BY <2>1, <3>1 DEF Fresh, Answered, AnsweredWith, Mine
    <3>3. handler'.id # call'.id
      BY <2>1, <3>1 DEF Fresh
    <3> QED
      BY <3>1, <3>2, <3>3 DEF Told
  <2>3. CASE broken /\ ReturnedAs(FALSE)
    <3>1. ok = FALSE
      BY <1>2, <2>3
    <3>2. core'["service"] = "down"
      BY <2>1, <2>3 DEF Linked, Down, Beside
    <3>3. Called' = Called /\ wpc' = "returned"
      BY <2>1, <2>3 DEF Called, Beside, ReturnedAs, Ids
    <3> QED
      BY <1>4, <2>1, <3>1, <3>2, <3>3
  <2> QED
    BY <2>1, <2>2, <2>3
<1>5. CASE Receive
  <2>1. /\ wpc = "wait" /\ reply # NoReply /\ task' = task /\ Beside
        /\ ReturnedAs(reply.type = "answer" /\ reply.ok)
    BY <1>5, ReceiveMeans
  <2>2. call'.ok = ok /\ wpc' = "returned" /\ call'.why = call.why /\ call'.id = call.id
    BY <2>1 DEF ReturnedAs, Told
  <2>3. (reply.type = "answer" /\ reply.ok) = ok
    BY <2>1, <2>2 DEF ReturnedAs
  <2>4. Told(ok)
    BY <2>1, <2>3 DEF Told
  <2>5. Called' = Called /\ core' = core
    BY <2>1, <2>2 DEF Called, Beside, Ids
  <2> QED
    BY <1>5, <2>1, <2>2, <2>4, <2>5
<1>6. CASE Timeout
  <2>1. wpc = "wait" /\ task' = task /\ active' = active /\ ReturnedAs(FALSE)
    BY <1>6, TimeoutMeans
  <2>2. ok = FALSE
    BY <1>2, <2>1
  <2>3. Called' = Called
    BY <2>1 DEF Called, ReturnedAs, Ids
  <2> QED
    BY <1>6, <2>1, <2>2, <2>3 DEF ReturnedAs
<1>7. CASE Local
  <2>1. /\ wpc = "local" /\ task' = task /\ active' = active /\ call.id = 0
        /\ \E b \in BOOLEAN : ReturnedAs(b) \/ UNCHANGED wpc
    BY <1>7, LocalMeans DEF Ids
  <2>2. PICK b \in BOOLEAN : ReturnedAs(b)
    BY <1>0, <2>1
  <2>3. b = ok
    BY <2>2 DEF ReturnedAs, Told
  <2>4. ReturnedAs(ok)
    BY <2>2, <2>3
  <2>5. Called' = Called
    BY <2>1, <2>4 DEF Called, ReturnedAs
  <2> QED
    BY <1>7, <2>1, <2>4, <2>5 DEF ReturnedAs
<1> QED
  BY <1>0, <1>1, <1>3, <1>4, <1>5, <1>6, <1>7

\* A core that the bridge has been told of, or will hear has been lost, stays so.
LEMMA LosingStays ==
  ASSUME Typed, Outside, NEW b \in Backends, Losing(b), app' = "up"
  PROVE  Losing(b)'
<1>1. /\ app = "up" /\ (wpc = "forget" <=> wpc' = "forget")
      /\ (ForgetQueued => ForgetQueued')
  BY OutsideIs, OutsideStays
<1>2. /\ LossTold <=> \E m \in Items(toApp) : m.type = "lost"
      /\ LossTold' <=> \E m \in Items(toApp') : m.type = "lost"
  BY DEF LossTold, Items
<1>3. CASE wpc = "forget" \/ ForgetQueued \/ ForgetQueued'
  BY <1>1, <1>3 DEF Losing
<1>4. CASE b = "service" /\ reader = "leaving" /\ ~ForgetQueued'
  <2>1. reader' = reader
    BY <1>1, <1>4, OutsideMeans
       DEF ReadsAs, HearsAs, FailsAs, LeavesAs, ElsewhereAs, FarEnd, ServesAs, StartEndsAs,
           RespondsAs, CoreAs, GoesAs
  <2> QED
    BY <1>4, <2>1 DEF Losing
<1>5. CASE b = "service" /\ reader = "reading" /\ broken /\ ~ForgetQueued'
  <2>1. reader' = "leaving" \/ (reader' = reader /\ broken')
    BY <1>1, <1>5, OutsideMeans
       DEF ReadsAs, HearsAs, FailsAs, LeavesAs, ElsewhereAs, FarEnd, ServesAs, StartEndsAs,
           RespondsAs, CoreAs, GoesAs
  <2> QED
    BY <1>5, <2>1 DEF Losing
<1>6. CASE b = "service" /\ LossTold /\ ~ForgetQueued'
  <2>1. CASE ReadsAs
    BY <1>2, <1>6, <2>1 DEF ReadsAs, Losing
  <2>2. CASE HearsAs
    BY <1>1, <1>6, <2>2 DEF HearsAs
  <2>3. CASE FailsAs
    BY <1>6, <2>3 DEF FailsAs, Losing
  <2>4. CASE LeavesAs \/ ServesAs \/ StartEndsAs \/ GoesAs \/ ElsewhereAs
    <3>1. toApp' = toApp
      BY <2>4 DEF LeavesAs, ServesAs, StartEndsAs, GoesAs, ElsewhereAs
    <3> QED
      BY <1>2, <1>6, <3>1 DEF Losing
  <2>5. CASE RespondsAs \/ \E c \in Backends : CoreAs(c)
    <3>1. Items(toApp) \subseteq Items(toApp')
      BY <2>5 DEF RespondsAs, CoreAs
    <3> QED
      BY <1>2, <1>6, <3>1 DEF Losing
  <2> QED
    BY <2>1, <2>2, <2>3, <2>4, <2>5, OutsideMeans
<1> QED
  BY <1>3, <1>4, <1>5, <1>6 DEF Losing

\* A core that runs goes on running, or its loss will be heard: the one of this
\* process, ...
LEMMA LocalRuns ==
  ASSUME Typed, Outside, Runs("local")
  PROVE  Runs("local")'
<1>0. "local" \in Backends /\ Other("service") = "local"
  BY DEF Backends, Other
<1>1. SUFFICES ASSUME app' = "up" PROVE (core["local"] \in Running)' \/ Losing("local")'
  BY DEF Runs
<1>2. app = "up"
  BY <1>1, OutsideStays
<1>3. CASE Losing("local")
  BY <1>0, <1>1, <1>3, LosingStays
<1>4. CASE core["local"] \in Running
  <2>1. CASE CoreAs("local")
    BY <1>2, <2>1 DEF CoreAs, Losing, Running
  <2>2. CASE ~CoreAs("local")
    <3>1. core'["local"] = core["local"]
      BY <1>0, <2>2, OutsideMeans
         DEF ReadsAs, HearsAs, FailsAs, LeavesAs, ElsewhereAs, FarEnd, ServesAs,
             StartEndsAs, RespondsAs, CoreAs, GoesAs, Backends
    <3> QED
      BY <1>4, <3>1
  <2> QED
    BY <2>1, <2>2
<1> QED
  BY <1>2, <1>3, <1>4 DEF Runs

\* ... and the one of the service, when it has only questions to answer and is not
\* at work on a start.
LEMMA ServiceRuns ==
  ASSUME Typed, Linked, Working, ~Virgin, Outside, Runs("service"),
         \A w \in Items(toService) : w.why = "query",
         handler # NoHandler => handler.why = "query" \/ handler.done
  PROVE  Runs("service")'
<1>0. "service" \in Backends /\ "local" \in Backends /\ Other("local") = "service"
      /\ connected \in BOOLEAN /\ broken \in BOOLEAN /\ LostEvent.type = "lost"
  BY DEF Backends, Other, Typed, BitsType, LostEvent
<1>1. SUFFICES ASSUME app' = "up"
               PROVE  (core["service"] \in Running)' \/ Losing("service")'
  BY DEF Runs
<1>2. app = "up"
  BY <1>1, OutsideStays
<1>3. LossTold' <=> \E m \in Items(toApp') : m.type = "lost"
  BY DEF LossTold, Items
<1>4. CASE Losing("service")
  BY <1>0, <1>1, <1>4, LosingStays
<1>5. CASE core["service"] \in Running /\ ~Losing("service")
  <2>1. connected /\ ~broken /\ reader = "reading"
    BY <1>0, <1>2, <1>5 DEF Linked, Losing, Running, Down
  <2>2. CASE ReadsAs \/ HearsAs \/ FailsAs \/ LeavesAs \/ RespondsAs \/ ElsewhereAs
    <3>1. core' = core
      BY <2>2 DEF ReadsAs, HearsAs, FailsAs, LeavesAs, RespondsAs, ElsewhereAs, FarEnd
    <3> QED
      BY <1>5, <3>1
  <2>3. CASE ServesAs
    <3>1. handler'.why = "query"
      <4>1. Head(toService) \in Items(toService) /\ handler'.why = Head(toService).why
        BY <2>3 DEF ServesAs
      <4> QED
        BY <4>1
    <3>2. core' = core
      BY <2>3, <3>1 DEF ServesAs
    <3> QED
      BY <1>5, <3>2
  <2>4. CASE StartEndsAs
    BY <2>4 DEF StartEndsAs, Working
  <2>5. CASE CoreAs("service")
    BY <1>3, <1>0, <2>1, <2>5 DEF CoreAs, Losing, Running
  <2>6. CASE CoreAs("local")
    BY <1>0, <1>5, <2>6 DEF CoreAs
  <2>7. CASE GoesAs
    BY <2>1, <2>7 DEF GoesAs, Losing
  <2> QED
    BY <2>2, <2>3, <2>4, <2>5, <2>6, <2>7, OutsideMeans DEF Backends
<1> QED
  BY <1>2, <1>4, <1>5 DEF Runs

\* A core of this process that is down stays down in the steps of the others.
LEMMA LocalDown ==
  ASSUME Typed, Outside
  PROVE  core["local"] = "down" => core'["local"] = "down"
<1>0. Other("service") = "local"
  BY DEF Other
<1> QED
  BY <1>0, OutsideMeans
     DEF ReadsAs, HearsAs, FailsAs, LeavesAs, ElsewhereAs, FarEnd, ServesAs, StartEndsAs,
         RespondsAs, CoreAs, GoesAs, Backends, Running

\* A core of the service stays down in the steps of the others when no start is on
\* its way.
LEMMA ServiceDown ==
  ASSUME Typed, Working, Outside, core["service"] = "down",
         \A w \in Items(toService) : w.why # "start",
         handler # NoHandler => handler.why # "start" \/ handler.done
  PROVE  core'["service"] = "down"
<1>0. Other("local") = "service"
  BY DEF Other
<1>1. CASE ReadsAs \/ HearsAs \/ FailsAs \/ LeavesAs \/ RespondsAs \/ ElsewhereAs
  BY <1>1 DEF ReadsAs, HearsAs, FailsAs, LeavesAs, RespondsAs, ElsewhereAs, FarEnd
<1>2. CASE ServesAs
  <2>1. Head(toService) \in Items(toService) /\ handler'.why = Head(toService).why
    BY <1>2 DEF ServesAs
  <2> QED
    BY <1>2, <2>1 DEF ServesAs
<1>3. CASE StartEndsAs
  BY <1>3 DEF StartEndsAs, Working
<1>4. CASE CoreAs("service") \/ CoreAs("local")
  BY <1>0, <1>4 DEF CoreAs, Running
<1>5. CASE GoesAs
  BY <1>5 DEF GoesAs
<1> QED
  BY <1>1, <1>2, <1>3, <1>4, <1>5, OutsideMeans DEF Backends

\* A call that failed has left the service without a core, after every step.
LEMMA FailureStep ==
  ASSUME Typed, TasksInv, PlaceInv, Wire, Placed, OwnStarts, Failure, Next
  PROVE  Failure'
<1> USE DEF Wire
<1>0. FALSE \in BOOLEAN /\ core["service"] \in CoreStates
  BY Values
<1>1. SUFFICES ASSUME Called' = "service", Told(FALSE)', missed' = {}
               PROVE  core'["service"] = "down"
  BY DEF Failure
<1>2. CASE Inside
  <2>1. /\ Called' = Called
        /\ \/ Receive /\ Told(FALSE) /\ core' = core
           \/ Timeout
           \/ core'["service"] = "down"
           \/ Local
    BY <1>0, <1>1, <1>2, ToldInside
  <2>2. CASE Receive /\ Told(FALSE) /\ core' = core
    <3>1. missed = {}
      BY <1>1, <2>2, ReceiveMeans DEF Beside
    <3> QED
      BY <1>1, <2>1, <2>2, <3>1 DEF Failure
  <2>3. CASE Timeout
    BY <1>1, <2>3, TimeoutMeans
  <2>4. CASE Local
    BY <1>1, <2>1, <2>4, LocalMeans DEF Placed
  <2> QED
    BY <2>1, <2>2, <2>3, <2>4
<1>3. CASE Outside
  <2>0. Called = "service" /\ missed = {} /\ UNCHANGED <<wpc, call, task>>
    BY <1>1, <1>3, OutsideIs, OutsideStays
  <2>1. \/ Told(FALSE)
        \/ FailsAs
        \/ ServesAs /\ handler'.done /\ handler'.ok = FALSE
        \/ StartEndsAs /\ handler'.ok = FALSE
    BY <1>0, <1>1, <1>3, ToldOutside
  <2>2. CASE FailsAs
    BY <2>2 DEF FailsAs, FarEnd, Linked, Down
  <2>3. CASE ServesAs /\ handler'.done /\ handler'.ok = FALSE
    <3>1. handler = NoHandler
      BY <2>3 DEF ServesAs
    <3>2. core["service"] # "starting"
      BY <3>1 DEF Working
    <3> QED
      BY <1>0, <1>1, <2>3, <3>2 DEF ServesAs, CoreStates
  <2>4. CASE StartEndsAs /\ handler'.ok = FALSE
    BY <2>4 DEF StartEndsAs
  <2>5. CASE Told(FALSE)
    <3>1. core["service"] = "down"
      BY <2>0, <2>5 DEF Failure
    <3>2. wpc \in {"wait", "returned"}
      BY <2>5 DEF Told
    <3>3. CASE wpc = "wait"
      <4>1. toService = <<>> /\ (handler # NoHandler => handler.done)
        BY <2>5, <3>3, ToldFree
      <4>2. \A w \in Items(toService) : w.why # "start"
        BY <4>1 DEF Items
      <4> QED
        BY <1>3, <3>1, <4>1, <4>2, ServiceDown
    <3>4. CASE wpc = "returned"
      <4>1. /\ \A w \in Items(toService) : w.why # "start"
            /\ handler.why # "start"
        BY <2>0, <3>4 DEF OwnStarts, Items
      <4> QED
        BY <1>3, <3>1, <4>1, ServiceDown
    <3> QED
      BY <3>2, <3>3, <3>4
  <2> QED
    BY <2>1, <2>2, <2>3, <2>4, <2>5
<1> QED
  BY <1>2, <1>3, InOrOut

\* A call that succeeded has stopped what it stops, and what it found or started runs
\* alone, after every step.
LEMMA SuccessStep ==
  ASSUME Typed, TasksInv, PlaceInv, Wire, Wire', Placed, Success, Next
  PROVE  Success'
<1> USE DEF Wire
<1>0. /\ TRUE \in BOOLEAN /\ Items(<<>>) = {}
      /\ core["service"] \in CoreStates /\ core["local"] \in CoreStates
  BY Values DEF Items
<1>1. SUFFICES ASSUME Called' = "service", Told(TRUE)'
               PROVE  IF call'.why \in Stops THEN DeadService'
                      ELSE Runs("service")' /\ (core["local"] = "down")'
  BY DEF Success
<1>2. CASE Inside
  <2>1. Called' = Called /\ call'.why = call.why /\ wpc' = "returned"
        /\ (Receive \/ Local)
    BY <1>0, <1>1, <1>2, ToldInside
  <2>2. ~Local
    BY <1>1, <2>1, LocalMeans DEF Placed
  <2>3. Told(TRUE) /\ core' = core
    BY <1>0, <1>1, <1>2, <2>1, <2>2, ToldInside, ReceiveMeans, TimeoutMeans, DialMeans,
       SendMeans, LocalMeans
  <2>4. /\ UNCHANGED <<app, queue, toService, handler, toApp, reader, broken>>
        /\ wpc = "wait"
    BY <2>1, <2>2, ReceiveMeans DEF Beside, linkVars
  <2>5. DeadService => DeadService'
    BY <2>3, <2>4 DEF DeadService, NoStarts
  <2>6. Runs("service") => Runs("service")'
    BY <2>1, <2>3, <2>4 DEF Runs, Losing, ForgetQueued, LossTold
  <2> QED
    BY <1>1, <2>1, <2>3, <2>5, <2>6 DEF Success
<1>3. CASE Outside
  <2>0. Called = "service" /\ UNCHANGED <<wpc, call, task>> /\ ~SendsAs
    BY <1>1, <1>3, OutsideIs, OutsideStays DEF SendsAs
  <2>1. /\ Calling
        /\ \/ Told(TRUE)
           \/ /\ ServesAs /\ wpc = "wait" /\ handler'.id = call.id
              /\ handler'.done /\ handler'.ok = TRUE
           \/ /\ StartEndsAs /\ wpc = "wait" /\ handler'.id = call.id
              /\ handler'.done /\ handler'.ok = TRUE
    BY <1>0, <1>1, <1>3, ToldOutside
  <2>2. ~Virgin
    BY <2>1 DEF Virgin, SyncOpen, Calling
  <2>3. CASE Told(TRUE)
    <3>1. CASE call.why \in Stops
      <4>1. DeadService
        BY <2>0, <2>3, <3>1 DEF Success
      <4> QED
        BY <2>0, <3>1, <4>1, DeadStays
    <3>2. CASE call.why \notin Stops
      <4>1. Runs("service") /\ core["local"] = "down"
        BY <2>0, <2>3, <3>2 DEF Success
      <4>2. toService = <<>> /\ (handler # NoHandler => handler.done)
        <5>1. CASE wpc = "wait"
          BY <1>0, <2>3, <5>1, ToldFree
        <5>2. CASE wpc = "returned"
          <6>1. call.ok /\ call.id # 0
            BY <2>0, <2>3, <5>2 DEF Told, Placed, Called
          <6> QED
            BY <5>2, <6>1 DEF Ended, Empty
        <5> QED
          BY <2>3, <5>1, <5>2 DEF Told
      <4>3. \A w \in Items(toService) : w.why = "query"
        BY <1>0, <4>2
      <4>4. Runs("service")'
        BY <1>3, <2>2, <4>1, <4>2, <4>3, ServiceRuns
      <4>5. (core["local"] = "down")'
        BY <1>3, <4>1, LocalDown
      <4> QED
        BY <2>0, <3>2, <4>4, <4>5
    <3> QED
      BY <3>1, <3>2
  <2>4. CASE /\ ServesAs /\ wpc = "wait" /\ handler'.id = call.id
             /\ handler'.done /\ handler'.ok = TRUE
    <3>1. toService' = <<>> /\ handler'.why = call.why
      BY <2>0, <2>4 DEF Last
    <3>2. core'["local"] = core["local"] /\ core["local"] # "starting"
      BY <2>4 DEF ServesAs, Working
    <3>3. CASE call.why = "query"
      <4>1. core'["service"] = "up" /\ core'["service"] = core["service"]
        BY <2>4, <3>1, <3>3 DEF ServesAs
      <4>2. core["local"] = "down"
        BY <1>0, <3>2, <4>1 DEF Working, Running, CoreStates
      <4> QED
        BY <2>0, <3>2, <3>3, <4>1, <4>2 DEF Runs, Running, Stops
    <3>4. CASE call.why # "query"
      <4>1. call.why # "start" /\ core'["service"] = "down"
        BY <2>4, <3>1, <3>4 DEF ServesAs
      <4>2. call.why \in Stops
        BY <2>0, <2>4, <3>4, <4>1 DEF PlaceInv, Stops
      <4>3. NoStarts'
        BY <3>1, <4>1 DEF NoStarts
      <4> QED
        BY <2>0, <4>1, <4>2, <4>3 DEF DeadService
    <3> QED
      BY <3>3, <3>4
  <2>5. CASE /\ StartEndsAs /\ wpc = "wait" /\ handler'.id = call.id
             /\ handler'.done /\ handler'.ok = TRUE
    <3>1. handler'.why = call.why
      BY <2>0, <2>5 DEF Last
    <3>2. handler.why = "start" /\ handler'.why = handler.why
      BY <2>5 DEF StartEndsAs, Working
    <3>3. core'["service"] = "up" /\ core'["local"] = "down"
      BY <2>5 DEF StartEndsAs
    <3> QED
      BY <2>0, <3>1, <3>2, <3>3 DEF Runs, Running, Stops
  <2> QED
    BY <2>1, <2>3, <2>4, <2>5
<1> QED
  BY <1>2, <1>3, InOrOut

\* A call of this process has stopped its core, or it runs, after every step.
LEMMA LocalOutcomeStep ==
  ASSUME Typed, TasksInv, PlaceInv, Wire, Placed, LocalOutcome, Next
  PROVE  LocalOutcome'
<1> USE DEF Wire
<1>1. SUFFICES ASSUME Called' = "local", wpc' = "returned"
               PROVE  IF call'.why \in Stops \/ (call'.why = "start" /\ ~call'.ok)
                      THEN core'["local"] = "down" ELSE call'.ok => Runs("local")'
  BY DEF LocalOutcome
<1>2. CASE Inside
  <2>1. call'.ok \in BOOLEAN /\ (Dial \/ Send \/ Receive \/ Timeout \/ Local)
    <3>1. Dial \/ Send \/ Receive \/ Timeout \/ Local
      BY <1>1, <1>2, WhichStep
    <3>2. \E ok \in BOOLEAN : call'.ok = ok
      BY <1>1, <3>1, DialMeans, SendMeans, ReceiveMeans, TimeoutMeans, LocalMeans
         DEF ReturnedAs, Typed, CallType, Replies
    <3> QED
      BY <3>1, <3>2
  <2>2. \E ok \in BOOLEAN : call'.ok = ok /\ Told(ok)'
    BY <1>1, <2>1 DEF Told
  <2>3. \/ Called' = Called
        \/ ~call'.ok /\ call'.why = "query"
    BY <1>2, <2>2, ToldInside
  <2>4. CASE ~call'.ok /\ call'.why = "query"
    BY <2>4 DEF Stops
  <2>5. CASE Called' = Called
    <3>1. wpc = "local"
      BY <1>1, <2>1, <2>5, DialMeans, SendMeans, ReceiveMeans, TimeoutMeans, LocalMeans
         DEF Placed
    <3>2. Local
      BY <1>2, <3>1, WhichStep
    <3>3. \/ /\ call.why = "query" /\ core' = core
             /\ call'.ok => core["local"] = "up"
          \/ call.why \notin {"query", "start"} /\ core'["local"] = "down"
          \/ call.why = "start" /\ core'["local"] = "up" /\ call'.ok
          \/ call.why = "start" /\ core'["local"] = "down" /\ ~call'.ok
      BY <1>1, <3>1, <3>2, LocalMeans DEF ReturnedAs
    <3>4. call'.why = call.why /\ app' = app
      BY <1>1, <3>1, <3>2, LocalMeans DEF ReturnedAs
    <3>5. call.why \notin {"query", "start"} => call.why \in Stops
      BY <3>1 DEF PlaceInv, Stops
    <3> QED
      BY <3>3, <3>4, <3>5 DEF Runs, Running, Stops
  <2> QED
    BY <2>3, <2>4, <2>5
<1>3. CASE Outside
  <2>1. Called = "local" /\ UNCHANGED <<wpc, call>>
    BY <1>1, <1>3, OutsideIs, OutsideStays
  <2>2. Runs("local") => Runs("local")'
    BY <1>3, LocalRuns
  <2>3. core["local"] = "down" => core'["local"] = "down"
    BY <1>3, LocalDown
  <2> QED
    BY <1>1, <2>1, <2>2, <2>3 DEF LocalOutcome
<1> QED
  BY <1>2, <1>3, InOrOut

-----------------------------------------------------------------------------
(* What the bridge knows.                                                  *)

\* While no command is under way the worker leaves the core in use alone, or the bridge
\* that loses it will hear of it.
LEMMA InsideRuns ==
  ASSUME Typed, TasksInv, PlaceInv, Linked, Inside, ~Changing, active' # "none",
         NEW b \in Backends, Runs(b)
  PROVE  Runs(b)'
<1> USE DEF Runs, Losing, ForgetQueued, LossTold
<1>1. CASE TakeTask
  <2>1. /\ UNCHANGED <<app, core, reader, broken, toApp>> /\ wpc = "idle"
        /\ ForgetQueued => ForgetQueued' \/ wpc' = "forget"
    BY <1>1, TakeTaskIs DEF Aside
  <2> QED
    BY <2>1
<1>2. ASSUME Beside, NEW ok, ConnectedAs(ok), wpc # "forget" PROVE Runs(b)'
  <2>1. UNCHANGED <<app, queue, core>>
    BY <1>2 DEF Beside
  <2>2. CASE UNCHANGED <<reader, broken, toApp>>
    BY <1>2, <2>1, <2>2
  <2>3. CASE ~connected /\ Joinable
    <3>1. app = "up" => toApp = <<>> /\ reader \in {"none", "done"}
      BY <2>3 DEF Linked, Joinable
    <3>2. app = "up" => ~LossTold
      BY <3>1
    <3> QED
      BY <1>2, <2>1, <3>1, <3>2
  <2> QED
    BY <1>2, <2>2, <2>3 DEF ConnectedAs, linkVars
<1>3. CASE Ensure \/ Select \/ Dial
  <2>1. Beside /\ wpc # "forget" /\ \E ok \in BOOLEAN : ConnectedAs(ok)
    BY <1>3, EnsureTaskIs, SelectMeans, DialMeans
  <2> QED
    BY <1>2, <2>1
<1>4. ASSUME UNCHANGED <<app, queue, core, reader, broken, toApp>>, wpc # "forget"
      PROVE  Runs(b)'
  BY <1>4
<1>5. CASE StartInstalledService \/ Send \/ Receive \/ Timeout
  BY <1>4, <1>5, InstallMeans, SendMeans, ReceiveMeans, TimeoutMeans DEF Beside, linkVars
<1>6. CASE Local
  <2>1. call.why = "query" \/ Changing
    BY <1>6, LocalMeans DEF Changing, Calling
  <2>2. core' = core
    BY <1>6, <2>1, LocalMeans
  <2> QED
    BY <1>4, <1>6, <2>2, LocalMeans DEF linkVars
<1>7. CASE SyncReturned \/ StatusReturned \/ StopReturned \/ ReplaceReturned
  BY <1>4, <1>7, SyncMeans, StatusMeans, StopMeans, ReplaceMeans DEF Apart1, Aside
<1>8. CASE StartReturned \/ SetProxy \/ UndoReturned \/ Shutdown
  BY <1>4, <1>8, StartMeans, SetProxyMeans, UndoMeans, ShutdownMeans DEF Apart1, Aside
<1>9. CASE ForgetBackend
  BY <1>9, ForgetMeans DEF Apart1
<1>10. CASE RestoreProxy
  BY <1>4, <1>10, RestoreMeans
<1> QED
  BY <1>1, <1>3, <1>5, <1>6, <1>7, <1>8, <1>9, <1>10
     DEF Inside, Worker, Task0, CallStep, AfterStep

\* What a backend that is attached to was found to do.
LEMMA AttachedRuns ==
  ASSUME Typed, Success, LocalOutcome, AttachesAs
  PROVE  /\ Runs(Called)
         /\ Called = "service" => core["local"] = "down"
<1>1. call.ok = TRUE /\ wpc = "returned" /\ call.why \notin Stops
  BY Values DEF AttachesAs, Stops
<1>2. CASE Called = "service"
  BY <1>1, <1>2 DEF Success, Told
<1>3. CASE Called = "local"
  BY <1>1, <1>3 DEF LocalOutcome
<1> QED
  BY <1>2, <1>3 DEF AttachesAs, Backends

\* The backend in use has a core or will be forgotten, after every step.
LEMMA TruthStep ==
  ASSUME Typed, TasksInv, PlaceInv, Wire, Placed, OnlyQuestions, Success, LocalOutcome,
         Truth, Next
  PROVE  Truth'
<1> USE DEF Wire
<1>0. active \in {"none", "service", "local"}
  BY Values DEF Backends
<1>1. SUFFICES ASSUME active' # "none" PROVE Runs(active)' \/ Changing'
  BY DEF Truth
<1>2. CASE Inside
  <2>1. CASE AttachesAs
    <3>1. Runs(Called)
      BY <2>1, AttachedRuns
    <3>2. /\ UNCHANGED <<app, queue, core, reader, broken, toApp>> /\ wpc = "returned"
          /\ active' = Called
      BY <2>1 DEF AttachesAs, Apart1, Aside
    <3>3. Runs(active)'
      BY <3>1, <3>2 DEF Runs, Losing, ForgetQueued, LossTold
    <3> QED
      BY <3>3
  <2>2. CASE ~AttachesAs
    <3>1. active' = active
      BY <1>1, <1>2, <2>2, KnowledgeIs DEF KeepsAs, DropsAs, ForgetsAs
    <3>2. CASE Changing
      BY <1>1, <1>2, <2>2, <3>2, ChangingStays
    <3>3. CASE ~Changing
      <4>1. Runs(active) /\ active \in Backends
        BY <1>0, <1>1, <3>1, <3>3 DEF Truth, Backends
      <4>2. \A b \in Backends : Runs(b) => Runs(b)'
        BY <1>1, <1>2, <3>3, InsideRuns
      <4>3. Runs(active)'
        BY <3>1, <4>1, <4>2 DEF Runs, Losing
      <4> QED
        BY <4>3
    <3> QED
      BY <3>2, <3>3
  <2> QED
    BY <2>1, <2>2
<1>3. CASE Outside
  <2>1. active' = active /\ (Changing' <=> Changing)
    BY <1>3, OutsideIs, OutsideStays
  <2>2. CASE Changing
    BY <2>1, <2>2
  <2>3. CASE ~Changing /\ active = "service"
    <3>1. Questions /\ Runs("service") /\ ~Virgin
      BY <2>3 DEF OnlyQuestions, Truth, Virgin
    <3>2. /\ \A w \in Items(toService) : w.why = "query"
          /\ handler # NoHandler => handler.why = "query"
      BY <3>1 DEF Questions, Items
    <3>3. Runs("service")'
      BY <1>3, <3>1, <3>2, ServiceRuns
    <3> QED
      BY <2>1, <2>3, <3>3 DEF Runs, Losing
  <2>4. CASE ~Changing /\ active = "local"
    <3>1. Runs("local")'
      BY <1>3, <2>4, LocalRuns DEF Truth
    <3> QED
      BY <2>1, <2>4, <3>1 DEF Runs, Losing
  <2> QED
    BY <1>0, <1>1, <2>1, <2>2, <2>3, <2>4
<1> QED
  BY <1>2, <1>3, InOrOut

\* A disconnect that is about to be answered has stopped the service's core or failed
\* to, after every step.
LEMMA StoppedStep ==
  ASSUME Typed, TasksInv, PlaceInv, Wire, Placed, NoService, Success, Stopped, Next
  PROVE  Stopped'
<1> USE DEF Wire
<1>0. /\ active \in {"none", "service", "local"} /\ call.ok \in BOOLEAN
      /\ Sync.kind = "sync" /\ Exiting.kind = "exit"
  BY Values, Kinds DEF Backends
<1>1. SUFFICES ASSUME wpc' = "restore", task'.kind = "disconnect"
               PROVE  /\ active' = "none"
                      /\ DeadService' \/ (call'.why = "stop" /\ ~call'.ok)
  BY DEF Stopped
<1>2. ASSUME DeadService, wpc # "send" PROVE DeadService'
  BY <1>2, DeadStays DEF SendsAs
<1>3. CASE Outside
  <2>1. UNCHANGED <<wpc, task, active, call>>
    BY <1>3, OutsideIs
  <2> QED
    BY <1>1, <1>2, <2>1 DEF Stopped
<1>4. CASE TakeTask \/ Select \/ StartInstalledService
  BY <1>1, <1>4, TakeTaskIs, SelectMeans, InstallMeans DEF InvokedAs, ChosenAs
<1>5. CASE Dial \/ Send \/ Receive \/ Timeout \/ Local
  BY <1>1, <1>5, DialMeans, SendMeans, ReceiveMeans, TimeoutMeans, LocalMeans DEF ReturnedAs
<1>6. CASE Ensure
  <2>1. wpc = "ensure" /\ task' = task /\ Beside
    BY <1>6, EnsureTaskIs
  <2>2. ConnectedAs(FALSE)
    <3>1. PICK ok \in BOOLEAN : ConnectedAs(ok) /\ ~ok
      BY <1>1, <1>6, EnsureTaskIs DEF InvokedAs
    <3>2. ok = FALSE
      BY <3>1
    <3> QED
      BY <3>1, <3>2, Zenon
  <2>3. DeadService'
    BY <2>1, <2>2, NotConnected
  <2>4. active' = "none"
    BY <1>1, <2>1 DEF Placed, Beside
  <2> QED
    BY <2>3, <2>4
<1>7. CASE StopReturned
  <2>1. wpc = "returned" /\ call.why = "stop" /\ active' = "none" /\ call' = call
    BY <1>7, StopMeans
  <2>2. CASE ~call.ok
    BY <2>1, <2>2
  <2>3. CASE call.ok
    <3>1. CASE active = "local"
      <4>1. DeadService
        BY <2>1, <3>1 DEF NoService, Starting
      <4> QED
        BY <1>2, <2>1, <4>1
    <3>2. CASE active # "local"
      <4>1. Called = "service" /\ Told(TRUE)
        BY <1>0, <2>1, <2>3, <3>2 DEF Called, Told
      <4>2. DeadService
        BY <2>1, <4>1 DEF Success, Stops
      <4> QED
        BY <1>2, <2>1, <4>2
    <3> QED
      BY <3>1, <3>2
  <2> QED
    BY <2>2, <2>3
<1>8. CASE SyncReturned \/ StatusReturned \/ UndoReturned \/ RestoreProxy
  BY <1>0, <1>1, <1>8, SyncMeans, StatusMeans, UndoMeans, RestoreMeans DEF DoneAs
<1>9. CASE ReplaceReturned \/ StartReturned
  BY <1>1, <1>9, ReplaceMeans, StartMeans DEF PlaceInv, InvokedAs
<1>10. CASE SetProxy \/ ForgetBackend \/ Shutdown
  BY <1>0, <1>1, <1>10, SetProxyMeans, ForgetMeans, ShutdownMeans
     DEF PlaceInv, InvokedAs, DoneAs
<1> QED
  BY <1>3, <1>4, <1>5, <1>6, <1>7, <1>8, <1>9, <1>10, InOrOut
     DEF Inside, Worker, Task0, CallStep, AfterStep

\* A start goes on until the bridge knows of its outcome, ...
LEMMA StartingStays ==
  ASSUME Typed, TasksInv, PlaceInv, Placed, Inside, NEW b \in Backends, Starting(b)
  PROVE  Starting(b)' \/ AttachesAs \/ DropsAs
<1> USE DEF Starting, Calling
<1>1. CASE Dial \/ Send \/ Receive \/ Timeout \/ Local
  BY <1>1, DialMeans, SendMeans, ReceiveMeans, TimeoutMeans, LocalMeans DEF ReturnedAs
<1>2. CASE StartReturned
  <2>1. wpc = "returned" /\ call.why = "start" /\ Called = task.target
    BY <1>2, StartMeans DEF Called
  <2> QED
    BY <1>2, <2>1, StartMeans DEF AttachesAs, DropsAs
<1>3. CASE SyncReturned \/ StatusReturned \/ StopReturned \/ ReplaceReturned \/ UndoReturned
  BY <1>3, SyncMeans, StatusMeans, StopMeans, ReplaceMeans, UndoMeans
<1> QED
  BY <1>1, <1>2, <1>3, WhichStep

\* ... and begins when the other backend has been stopped or is not in use.
LEMMA StartingFresh ==
  ASSUME Typed, TasksInv, PlaceInv, Placed, Inside, NEW b \in Backends, Starting(b)'
  PROVE  \/ Starting(b)
         \/ ReplaceReturned /\ task.target = b
         \/ ~Calling /\ active \in {"none", b} /\ core' = core
<1> USE DEF Starting, Calling
<1>1. CASE TakeTask
  BY <1>1, TakeTaskIs DEF InvokedAs
<1>2. CASE Ensure
  BY <1>2, EnsureTaskIs DEF InvokedAs
<1>3. CASE Select
  <2>1. wpc \in {"select", "again"} /\ core' = core
    BY <1>3, SelectMeans DEF Beside
  <2>2. ChosenAs("service") \/ ChosenAs("local") \/ wpc' = "install"
    BY <1>3, SelectMeans
  <2> QED
    BY <2>1, <2>2 DEF ChosenAs, InvokedAs
<1>4. CASE StartInstalledService
  <2>1. wpc = "install" /\ core' = core
    BY <1>4, InstallMeans DEF Beside
  <2>2. ChosenAs("local") \/ wpc' = "again"
    BY <1>4, InstallMeans
  <2> QED
    BY <2>1, <2>2 DEF ChosenAs, InvokedAs
<1>5. CASE Dial \/ Send \/ Receive \/ Timeout \/ Local
  BY <1>5, DialMeans, SendMeans, ReceiveMeans, TimeoutMeans, LocalMeans DEF ReturnedAs
<1>6. CASE SyncReturned \/ StatusReturned \/ StopReturned \/ StartReturned
  BY <1>6, SyncMeans, StatusMeans, StopMeans, StartMeans DEF DoneAs
<1>7. CASE ReplaceReturned
  BY <1>7, ReplaceMeans
<1>8. CASE SetProxy \/ UndoReturned \/ RestoreProxy \/ ForgetBackend \/ Shutdown
  BY <1>8, SetProxyMeans, UndoMeans, RestoreMeans, ForgetMeans, ShutdownMeans
     DEF DoneAs, InvokedAs
<1> QED
  BY <1>1, <1>2, <1>3, <1>4, <1>5, <1>6, <1>7, <1>8
     DEF Inside, Worker, Task0, CallStep, AfterStep

\* What the bridge gives up has no core: in the service, ...
LEMMA DroppedService ==
  ASSUME Typed, Placed, NoService, Failure, Success, DropsAs, missed = {}
  PROVE  core["service"] = "down"
<1>0. /\ active \in {"none", "service", "local"} /\ call.ok \in BOOLEAN
      /\ task.target \in {"none", "service", "local"}
  BY Values DEF Backends
<1>1. /\ wpc = "returned" /\ Calling
      /\ call.why \in {"stop", "undo"} \/ (call.why = "start" /\ ~call.ok)
  BY DEF DropsAs, Calling
<1>2. Called \in {"service", "local"}
  BY <1>0, <1>1 DEF Called, Placed, Backends
<1>3. CASE Called = "service"
  <2>1. CASE call.ok
    <3>1. Told(TRUE) /\ call.why \in Stops
      BY <1>0, <1>1, <2>1 DEF Told, Stops
    <3> QED
      BY <1>3, <3>1 DEF Success, DeadService
  <2>2. CASE ~call.ok
    <3>1. Told(FALSE)
      BY <1>0, <1>1, <2>2 DEF Told
    <3> QED
      BY <1>3, <3>1 DEF Failure
  <2> QED
    BY <2>1, <2>2
<1>4. CASE Called = "local"
  BY <1>1, <1>4 DEF Called, NoService, Starting, DeadService, Placed
<1> QED
  BY <1>2, <1>3, <1>4

\* ... and in the process.
LEMMA DroppedLocal ==
  ASSUME Typed, Placed, LocalOutcome, KnownLocal, DropsAs, "stale" \notin missed
  PROVE  core["local"] = "down"
<1>0. /\ active \in {"none", "service", "local"} /\ call.ok \in BOOLEAN
      /\ task.target \in {"none", "service", "local"}
  BY Values DEF Backends
<1>1. /\ wpc = "returned" /\ Calling
      /\ call.why \in {"stop", "undo"} \/ (call.why = "start" /\ ~call.ok)
  BY DEF DropsAs, Calling
<1>2. Called \in {"service", "local"}
  BY <1>0, <1>1 DEF Called, Placed, Backends
<1>3. CASE Called = "local"
  BY <1>1, <1>3 DEF LocalOutcome, Stops
<1>4. CASE Called = "service"
  <2>1. core["local"] # "down" => active = "local" \/ Starting("local")
    BY DEF KnownLocal
  <2>2. Starting("service") => core["local"] = "down"
    BY DEF KnownLocal
  <2>3. CASE call.why = "start"
    BY <1>1, <1>4, <2>2, <2>3 DEF Called, Starting
  <2>4. CASE call.why \in {"stop", "undo"}
    BY <1>1, <1>4, <2>1, <2>4 DEF Called, Starting, Placed
  <2> QED
    BY <1>1, <2>3, <2>4
<1> QED
  BY <1>2, <1>3, <1>4

\* The bridge knows of the core of the service or has missed it, after every step.
LEMMA KnownServiceStep ==
  ASSUME Typed, TasksInv, PlaceInv, Wire, Placed, OwnStarts, NoService, Failure, Success,
         KnownService, Next
  PROVE  KnownService'
<1> USE DEF Wire
<1>0. "service" \in Backends /\ active \in {"none", "service", "local"}
      /\ call.ok \in BOOLEAN
  BY Values DEF Backends
<1>1. SUFFICES ASSUME missed' = {}, core'["service"] # "down"
               PROVE  active' = "service" \/ SyncPending' \/ Starting("service")'
  BY DEF KnownService
<1>2. CASE Inside
  <2>1. core["service"] # "down"
    BY <1>1, <1>2, InsideCores
  <2>2. CASE AttachesAs
    BY <2>1, <2>2, AttachedFree DEF AttachesAs, Backends, DeadService
  <2>3. CASE DropsAs
    <3>1. missed = {}
      BY <1>1, <2>3 DEF DropsAs
    <3> QED
      BY <2>1, <2>3, <3>1, DroppedService
  <2>4. CASE ForgetsAs
    <3>1. missed' = missed \cup {"stale"}
      BY <1>0, <2>1, <2>4 DEF ForgetsAs
    <3> QED
      BY <1>1, <3>1
  <2>5. CASE KeepsAs /\ ~AttachesAs /\ ~DropsAs
    <3>1. missed = {} /\ active' = active
      BY <1>1, <2>5 DEF KeepsAs
    <3>2. active = "service" \/ SyncPending \/ Starting("service")
      BY <2>1, <3>1 DEF KnownService
    <3>3. CASE active = "service"
      BY <3>1, <3>3
    <3>4. CASE Starting("service")
      BY <1>0, <1>2, <2>5, <3>4, StartingStays
    <3>5. CASE Virgin
      <4>1. CASE Ensure
        <5>1. wpc = "ensure" /\ task.kind = "sync" /\ task' = task /\ Beside
          BY <3>5, <4>1, EnsureTaskIs DEF Virgin, SyncOpen
        <5>2. InvokedAs("service", "query") \/ ConnectedAs(FALSE)
          <6>1. PICK ok \in BOOLEAN :
                  ConnectedAs(ok) /\ (InvokedAs("service", "query") \/ ~ok)
            BY <4>1, <5>1, EnsureTaskIs
          <6>2. ASSUME ~ok PROVE ok = FALSE
            BY <6>2
          <6> QED
            BY <6>1, <6>2, Zenon
        <5>3. ~ConnectedAs(FALSE)
          BY <2>1, <5>1, NotConnected DEF DeadService
        <5> QED
          BY <5>1, <5>2, <5>3 DEF InvokedAs, SyncPending, Calling
      <4>2. CASE ~Ensure
        BY <3>5, <4>2, VirginStays DEF SyncPending
      <4> QED
        BY <4>1, <4>2
    <3>6. CASE Calling /\ task.kind = "sync"
      <4>1. call.why = "query" /\ wpc # "local"
        BY <3>6 DEF PlaceInv, Calling, Placed
      <4>2. CASE wpc = "returned"
        <5>1. SyncReturned
          BY <1>2, <3>6, <4>1, <4>2, WhichStep, StatusMeans, StopMeans, ReplaceMeans,
             StartMeans, UndoMeans
        <5>2. ~call.ok
          <6>1. ASSUME call.ok PROVE AttachesAs
            <7>1. Called = "service"
              BY <3>6, <4>1, <4>2, <6>1 DEF Placed, Called
            <7> QED
              BY <1>0, <4>1, <4>2, <5>1, <6>1, <7>1, SyncMeans DEF AttachesAs
          <6> QED
            BY <2>5, <6>1
        <5>3. Called = "service" \/ Called = "local"
          BY <4>1 DEF Called
        <5>4. CASE Called = "service"
          <6>1. Told(FALSE)
            BY <1>0, <4>2, <5>2 DEF Told
          <6> QED
            BY <2>1, <3>1, <5>4, <6>1 DEF Failure
        <5>5. CASE Called = "local"
          BY <2>1, <3>6, <4>1, <5>5 DEF NoService, DeadService
        <5> QED
          BY <5>3, <5>4, <5>5
      <4>3. CASE wpc # "returned"
        <5>1. Dial \/ Send \/ Receive \/ Timeout
          BY <1>2, <3>6, <4>1, <4>3, WhichStep DEF Calling
        <5>2. task' = task /\ wpc' \in {"send", "wait", "returned"}
          BY <5>1, DialMeans, SendMeans, ReceiveMeans, TimeoutMeans DEF ReturnedAs
        <5> QED
          BY <3>6, <5>2 DEF SyncPending, Calling
      <4> QED
        BY <4>2, <4>3
    <3> QED
      BY <3>2, <3>3, <3>4, <3>5, <3>6 DEF SyncPending
  <2> QED
    BY <1>2, <2>2, <2>3, <2>4, <2>5, KnowledgeIs
<1>3. CASE Outside
  <2>1. /\ missed = {} /\ UNCHANGED <<active, wpc, task, call>>
        /\ (Calling' <=> Calling)
        /\ (Starting("service")' <=> Starting("service"))
    BY <1>1, <1>3, OutsideIs, OutsideStays
  <2>2. CASE core["service"] # "down"
    <3>1. Virgin => Virgin'
      <4>1. ~Ensure
        BY <2>1, EnsureTaskIs DEF InvokedAs
      <4> QED
        BY <4>1, VirginStays
    <3> QED
      BY <2>1, <2>2, <3>1 DEF KnownService, SyncPending
  <2>3. CASE core["service"] = "down"
    <3>1. handler # NoHandler => handler.why # "start" \/ handler.done
      BY <2>3 DEF Working
    <3>2. PICK w \in Items(toService) : w.why = "start"
      BY <1>1, <1>3, <2>3, <3>1, ServiceDown
    <3>3. wpc = "wait" /\ call.why = "start"
      BY <2>1, <3>2 DEF OwnStarts, Last, Items
    <3>4. task.target = "service"
      BY <3>3 DEF Placed, Called
    <3> QED
      BY <2>1, <3>3, <3>4 DEF Starting, Calling
  <2> QED
    BY <2>2, <2>3
<1> QED
  BY <1>2, <1>3, InOrOut

\* The bridge knows of the core of the process or has forgotten it, after every step.
LEMMA KnownLocalStep ==
  ASSUME Typed, TasksInv, PlaceInv, Wire, Placed, NoService, Success, LocalOutcome,
         KnownLocal, Next
  PROVE  KnownLocal'
<1> USE DEF Wire
<1>0. /\ "service" \in Backends /\ "local" \in Backends
      /\ active \in {"none", "service", "local"}
  BY Values DEF Backends
<1>1. SUFFICES ASSUME "stale" \notin missed'
               PROVE  /\ core'["local"] # "down" => active' = "local" \/ Starting("local")'
                      /\ Starting("service")' => core'["local"] = "down"
  BY DEF KnownLocal
<1>2. CASE Outside
  <2>1. /\ active' = active /\ "stale" \notin missed
        /\ \A b : Starting(b)' <=> Starting(b)
        /\ core["local"] = "down" => core'["local"] = "down"
    BY <1>1, <1>2, OutsideIs, OutsideStays, LocalDown
  <2> QED
    BY <2>1 DEF KnownLocal
<1>3. CASE Inside /\ AttachesAs
  <2>1. /\ wpc' \in {"idle", "proxy"} /\ core' = core /\ active' = Called
        /\ Called \in {"service", "local"}
    BY <1>3 DEF AttachesAs, Apart1, Aside, Backends
  <2>2. Called = "service" => core["local"] = "down"
    BY <1>3, AttachedRuns
  <2> QED
    BY <2>1, <2>2 DEF Starting, Calling
<1>4. CASE Inside /\ DropsAs
  <2>1. wpc' \in {"idle", "restore"} /\ core' = core /\ missed' = missed
    BY <1>4 DEF DropsAs, Apart1, Aside
  <2>2. core["local"] = "down"
    BY <1>1, <1>4, <2>1, DroppedLocal
  <2> QED
    BY <2>1, <2>2
<1>5. CASE Inside /\ ForgetsAs
  <2>1. wpc' = "restore" /\ core' = core
    BY <1>5 DEF ForgetsAs, Apart1, Aside
  <2>2. core["local"] = "down"
    BY <1>0, <1>1, <1>5 DEF ForgetsAs
  <2> QED
    BY <2>1, <2>2
<1>6. CASE Inside /\ KeepsAs /\ ~AttachesAs /\ ~DropsAs
  <2>1. /\ active' = active /\ "stale" \notin missed
        /\ core["local"] # "down" => active = "local" \/ Starting("local")
        /\ Starting("service") => core["local"] = "down"
    BY <1>1, <1>6 DEF KeepsAs, KnownLocal
  <2>2. Starting("local") => Starting("local")'
    BY <1>0, <1>6, StartingStays
  <2>3. core'["local"] # "down" => active' = "local" \/ Starting("local")'
    <3>1. CASE Local
      <4>1. wpc = "local" /\ task' = task /\ (call.why = "query" => core' = core)
        BY <3>1, LocalMeans
      <4>2. /\ call'.why = call.why /\ wpc' \in {"local", "returned"}
            /\ call.why \notin {"query", "start"} => core'["local"] = "down"
        BY <3>1, LocalMeans DEF ReturnedAs
      <4>3. call.why = "start" => task.target = "local"
        BY <4>1 DEF Placed, Called
      <4>4. call.why = "start" => Starting("local")'
        BY <4>1, <4>2, <4>3 DEF Starting, Calling
      <4> QED
        BY <2>1, <2>2, <4>1, <4>2, <4>4
    <3>2. CASE ~Local
      <4>1. core' = core \/ core'["local"] = "down"
        BY <1>6, <3>2, InsideCores, RestoreMeans
      <4> QED
        BY <2>1, <2>2, <4>1
    <3> QED
      BY <3>1, <3>2
  <2>4. ASSUME Starting("service")' PROVE core'["local"] = "down"
    <3>1. CASE Starting("service")
      <4>1. ~Local
        <5>1. wpc = "local" => ~Starting("service")
          BY DEF Placed, Called, Starting
        <5> QED
          BY <3>1, <5>1, LocalMeans
      <4>2. core' = core \/ core'["local"] = "down"
        BY <1>6, <4>1, InsideCores, RestoreMeans
      <4> QED
        BY <2>1, <3>1, <4>2
    <3>2. CASE ReplaceReturned /\ task.target = "service"
      <4>1. wpc = "returned" /\ call.why = "replace" /\ core' = core
        BY <3>2, ReplaceMeans DEF Apart1, Aside
      <4>2. active = "local"
        BY <3>2, <4>1 DEF Placed, Calling, Other
      <4>3. Called = "local"
        BY <4>1, <4>2 DEF Called
      <4> QED
        BY <4>1, <4>3 DEF LocalOutcome, Stops
    <3>3. CASE ~Calling /\ active \in {"none", "service"} /\ core' = core
      BY <2>1, <3>3 DEF Starting
    <3> QED
      BY <1>0, <1>6, <2>4, <3>1, <3>2, <3>3, StartingFresh
  <2> QED
    BY <2>3, <2>4
<1> QED
  BY <1>2, <1>3, <1>4, <1>5, <1>6, KnowledgeIs, InOrOut

-----------------------------------------------------------------------------
(* The invariant holds.                                                    *)

\* It holds at the start.
LEMMA CoreStart == Init => CoreInv
<1> SUFFICES ASSUME Init PROVE CoreInv
  OBVIOUS
<1>0. /\ queue = <<Sync>> /\ task = Sync /\ wpc = "idle" /\ app = "up"
      /\ active = "none" /\ ~connected /\ reader = "none" /\ ~broken
      /\ toService = <<>> /\ toApp = <<>> /\ call = NoCall /\ reply = NoReply
      /\ nextId = 1 /\ svc \in {"up", "down"} /\ handler = NoHandler
      /\ core["local"] = "down" /\ core["service"] \in {"down", "up"}
      /\ svc = "down" => core["service"] = "down"
      /\ proxy = "orphaned" => stuck = "restore"
  BY DEF Init, Backends
<1>1. IInv
  BY InitInv
<1>2. /\ NoCall.id = 0 /\ NoCall.why = "none" /\ ~NoCall.ok /\ NoHandler.id = 0
      /\ NoHandler.why = "none" /\ ~NoHandler.done /\ NoReply.type = "none"
      /\ Sync.kind = "sync" /\ Head(queue) = Sync /\ queue # <<>>
      /\ DOMAIN toService = {} /\ DOMAIN toApp = {}
  BY <1>0 DEF NoCall, NoHandler, NoReply, Sync, Task
<1>3. ~Calling /\ SyncOpen /\ Virgin /\ Empty
  BY <1>0, <1>2 DEF Calling, SyncOpen, Virgin, Empty
<1>4. Linked /\ Sending /\ Ids /\ Fresh /\ Last /\ Ended
  BY <1>0, <1>2, <1>3 DEF Linked, Down, Sending, Ids, Fresh, Last, Ended
<1>5. Working
  BY <1>0 DEF Working, Running
<1>6. Placed /\ OwnStarts /\ OnlyQuestions /\ NoService
  BY <1>0, <1>2, <1>3 DEF Placed, OwnStarts, OnlyQuestions, NoService, Calling
<1>7. Failure /\ Success /\ LocalOutcome
  BY <1>0 DEF Failure, Success, LocalOutcome, Told
<1>8. Truth /\ KnownService /\ KnownLocal
  BY <1>0, <1>3 DEF Truth, KnownService, KnownLocal, SyncPending, Starting
<1>9. Stopped /\ ProxyKnown /\ Leaving
  BY <1>0, <1>2, <1>3 DEF Stopped, ProxyKnown, Leaving
<1> QED
  BY <1>1, <1>4, <1>5, <1>6, <1>7, <1>8, <1>9 DEF CoreInv, Wire, Known

\* It holds after every step, ...
LEMMA CoreSteps == CoreInv /\ Next => CoreInv'
<1> SUFFICES ASSUME CoreInv, Next PROVE CoreInv'
  OBVIOUS
<1>1. IInv /\ IInv' /\ Typed /\ Typed' /\ TasksInv /\ PlaceInv
  <2>1. IInv /\ Typed /\ TasksInv /\ PlaceInv
    BY InvParts DEF CoreInv
  <2>2. Typed'
    BY <2>1, DartTypeStep, WorkerTypeStep, BitsTypeStep, LinkTypeStep, CallTypeStep,
       ServiceTypeStep, CountTypeStep DEF Typed
  <2> QED
    BY <2>1, <2>2, StepKeeps
<1>2. /\ Wire /\ Known /\ Stopped /\ ProxyKnown /\ Leaving
      /\ Linked /\ Sending /\ Ids /\ Fresh /\ Last /\ Ended /\ Working
      /\ Placed /\ OwnStarts /\ OnlyQuestions /\ NoService /\ Failure /\ Success
      /\ LocalOutcome /\ Truth /\ KnownService /\ KnownLocal
  BY DEF CoreInv, Wire, Known
<1>3. Wire'
  BY <1>1, <1>2, LinkedStep, SendingStep, IdsStep, FreshStep, LastStep, EndedStep,
     WorkingStep DEF Wire
<1>4. Placed' /\ OwnStarts' /\ OnlyQuestions' /\ NoService'
  BY <1>1, <1>2, PlacedStep, OwnStartsStep, OnlyQuestionsStep, NoServiceStep
<1>5. Failure' /\ Success' /\ LocalOutcome'
  BY <1>1, <1>2, <1>3, FailureStep, SuccessStep, LocalOutcomeStep
<1>6. Truth' /\ KnownService' /\ KnownLocal'
  BY <1>1, <1>2, TruthStep, KnownServiceStep, KnownLocalStep
<1>7. Stopped' /\ ProxyKnown' /\ Leaving'
  BY <1>1, <1>2, StoppedStep, ProxyKnownStep, LeavingStep
<1> QED
  BY <1>1, <1>3, <1>4, <1>5, <1>6, <1>7 DEF CoreInv, Known

\* ... also one that changes nothing.
LEMMA CoreKeeps == CoreInv /\ [Next]_vars => CoreInv'
<1> SUFFICES ASSUME CoreInv, UNCHANGED vars PROVE CoreInv'
  BY CoreSteps
<1> USE DEF vars, dartVars, workerVars, linkVars, callVars, serviceVars, ghosts
<1>1. IInv'
  BY StepKeeps DEF CoreInv
<1>2. Linked' /\ Sending' /\ Ids' /\ Fresh' /\ Last' /\ Ended' /\ Working'
  BY DEF CoreInv, Wire, Linked, Down, Empty, Virgin, SyncOpen, Sending, Ids, Fresh, Last,
     Ended, Working, Answered, Mine
<1>3. Placed' /\ OwnStarts' /\ OnlyQuestions' /\ NoService'
  BY DEF CoreInv, Known, Placed, OwnStarts, OnlyQuestions, NoService, Questions, DeadService,
     NoStarts, Calling, Changing, Starting, Called
<1>4. Failure' /\ Success' /\ LocalOutcome'
  BY DEF CoreInv, Known, Failure, Success, LocalOutcome, Told, AnsweredWith, Mine, Called,
     DeadService, NoStarts, Runs, Losing, ForgetQueued, LossTold
<1>5. Truth' /\ KnownService' /\ KnownLocal'
  BY DEF CoreInv, Known, Truth, KnownService, KnownLocal, Runs, Losing, ForgetQueued,
     LossTold, Changing, Calling, SyncPending, Virgin, SyncOpen, Starting
<1>6. Stopped' /\ ProxyKnown' /\ Leaving'
  BY DEF CoreInv, Stopped, ProxyKnown, Leaving, DeadService, NoStarts, SyncOpen, Calling
<1> QED
  BY <1>1, <1>2, <1>3, <1>4, <1>5, <1>6 DEF CoreInv, Wire, Known

-----------------------------------------------------------------------------
(* The theorems.                                                           *)

\* The invariant holds in every state.
THEOREM CoreIsKnown == Spec => []CoreInv
BY CoreStart, CoreKeeps, PTL DEF Spec

\* At rest the bridge's connection has a core, and no core runs that it does not know of,
\* except one that a given-up call, a rebuild or a late loss has hidden from it; and a
\* proxy setting of ChrNet's has its connection, unless it could not be restored or
\* replaced.
THEOREM WhatTheBridgeRestsOn == Spec => []RestIsTrue
<1>1. CoreInv => RestIsTrue
  <2> SUFFICES ASSUME CoreInv, Rest PROVE RestIsTrue
    BY DEF RestIsTrue
  <2>1. /\ app = "up" /\ wpc = "idle" /\ queue = <<>> /\ toApp = <<>>
        /\ reader # "leaving" /\ ~(reader = "reading" /\ broken)
    BY DEF Rest
  <2>2. DOMAIN queue = {} /\ DOMAIN toApp = {}
    BY <2>1
  <2>3. ~Calling /\ ~SyncOpen /\ \A b : ~Losing(b)
    BY <2>1, <2>2 DEF Calling, SyncOpen, Losing, ForgetQueued, LossTold
  <2>4. active # "none" => core[active] \in Running
    BY <2>1, <2>3 DEF CoreInv, Known, Truth, Runs, Changing
  <2>5. core["service"] = "up" => active = "service" \/ missed # {}
    BY <2>3 DEF CoreInv, Known, KnownService, SyncPending, Virgin, Starting
  <2>6. core["local"] = "up" => active = "local" \/ missed # {}
    BY <2>3 DEF CoreInv, Known, KnownLocal, Starting
  <2>7. proxy # "user" => active # "none" \/ stuck # "no"
    BY <2>1, <2>3 DEF CoreInv, ProxyKnown
  <2> QED
    BY <2>4, <2>5, <2>6, <2>7 DEF RestIsTrue, Backends
<1> QED
  BY <1>1, CoreIsKnown, PTL

\* The app that has gone leaves the user's proxy settings, unless a restore failed, and no
\* core it knew of.
THEOREM NothingIsLeftBehind == Spec => []ExitStops
<1>1. CoreInv => ExitStops
  <2> SUFFICES ASSUME CoreInv, app = "closed"
               PROVE  /\ proxy = "user" \/ stuck = "restore"
                      /\ \A b \in Backends : core[b] = "down" \/ missed # {}
    BY DEF ExitStops
  <2>1. /\ wpc = "idle" /\ queue = <<>> /\ active = "none"
        /\ proxy = "user" \/ stuck = "restore"
    BY DEF CoreInv, Leaving
  <2>2. ~Calling /\ ~SyncOpen
    BY <2>1 DEF Calling, SyncOpen
  <2>3. core["service"] = "down" \/ missed # {}
    BY <2>1, <2>2 DEF CoreInv, Known, KnownService, SyncPending, Virgin, Starting
  <2>4. core["local"] = "down" \/ missed # {}
    BY <2>1, <2>2 DEF CoreInv, Known, KnownLocal, Starting
  <2> QED
    BY <2>1, <2>3, <2>4 DEF Backends
<1> QED
  BY <1>1, CoreIsKnown, PTL

\* A disconnect that is answered has stopped the cores of both backends, unless the stop
\* itself failed or the core of this process was forgotten before.
THEOREM DisconnectIsDone == Spec => DisconnectStops
<1> DEFINE A == task.kind = "disconnect" /\ wpc = "restore" /\ wpc' = "idle"
                => \A b \in Backends : \/ core[b] = "down"
                                       \/ call.why = "stop" /\ ~call.ok
                                       \/ b = "local" /\ "stale" \in missed
<1>1. CoreInv /\ [Next]_vars => [A]_vars
  <2> SUFFICES ASSUME CoreInv, task.kind = "disconnect", wpc = "restore"
               PROVE  \A b \in Backends : \/ core[b] = "down"
                                          \/ call.why = "stop" /\ ~call.ok
                                          \/ b = "local" /\ "stale" \in missed
    OBVIOUS
  <2>1. active = "none" /\ (core["service"] = "down" \/ (call.why = "stop" /\ ~call.ok))
    BY DEF CoreInv, Stopped, DeadService
  <2>2. ~Calling
    BY DEF Calling
  <2>3. core["local"] = "down" \/ "stale" \in missed
    BY <2>1, <2>2 DEF CoreInv, Known, KnownLocal, Starting
  <2> QED
    BY <2>1, <2>3 DEF Backends
<1> QED
  BY <1>1, CoreIsKnown, PTL DEF Spec, DisconnectStops
=============================================================================
