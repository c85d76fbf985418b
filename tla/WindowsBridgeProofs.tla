------------------------- MODULE WindowsBridgeProofs -------------------------
(***************************************************************************)
(* The futures of Dart complete in the order of the calls, each once, for  *)
(* any number of requests and faults.                                      *)
(***************************************************************************)
EXTENDS WindowsBridge, SequenceTheorems, TLAPS

-----------------------------------------------------------------------------
(* The type, part by part.                                                 *)

\* The records of a call, of a request and of the service's thread, and the places
\* of the worker.
Calls == [id : Nat, why : Why, ok : BOOLEAN]
Wires == [id : Nat, why : Why, req : Reqs]
Handlers == [id : Nat, why : Why, req : Reqs, done : BOOLEAN, ok : BOOLEAN]
Places == {"idle", "ensure", "select", "again", "install", "dial", "send", "wait",
           "returned", "local", "proxy", "restore", "forget"}

\* The parts of the type, but for the answers, which come from the order.
DartType ==
  /\ app \in {"up", "ending", "destroying", "closed"} /\ asked \in Reqs
  /\ posts \in Seq(Reqs)
WorkerType ==
  /\ queue \in Seq(Tasks) /\ task \in Tasks /\ wpc \in Places
  /\ active \in Backends \cup {"none"}
BitsType ==
  /\ proxy \in {"user", "chrnet", "orphaned"} /\ stuck \in {"no", "reconnect", "restore"}
  /\ connected \in BOOLEAN /\ broken \in BOOLEAN
LinkType ==
  /\ reader \in {"none", "reading", "leaving", "done"}
  /\ toService \in Seq(Wires) /\ toApp \in Seq(Replies)
CallType == call \in Calls /\ reply \in Replies /\ nextId \in Nat
ServiceType ==
  svc \in {"up", "down"} /\ core \in [Backends -> CoreStates] /\ handler \in Handlers
CountType == missed \subseteq {"late", "rebuild", "stale"} /\ faults \in Nat
Typed == /\ DartType /\ WorkerType /\ BitsType /\ LinkType /\ CallType /\ ServiceType
         /\ CountType

\* They make up the type.
LEMMA TypeParts ==
  TypeOK <=> Typed /\ answers \in [1..MaxRequests -> {0, 1}]
BY DEF TypeOK, Typed, DartType, WorkerType, BitsType, LinkType, CallType, ServiceType,
       CountType, Calls, Wires, Handlers, Places

\* What is put into a record has the type of its place.
LEMMA Records ==
  ASSUME Typed
  PROVE  /\ 0 \in Reqs /\ task.req \in Reqs /\ asked \in Reqs
         /\ Sync \in Tasks /\ Forget \in Tasks /\ Exiting \in Tasks
         /\ NoCall \in Calls /\ NoHandler \in Handlers
         /\ NoReply \in Replies /\ Released \in Replies /\ LostEvent \in Replies
         /\ Answer(handler) \in Replies
         /\ \A b \in Backends : [task EXCEPT !.target = b] \in Tasks
         /\ \A ok \in BOOLEAN : [call EXCEPT !.ok = ok] \in Calls
         /\ [call EXCEPT !.id = nextId] \in Calls
         /\ \A why \in Why : [id |-> 0, why |-> why, ok |-> FALSE] \in Calls
         /\ [id |-> call.id, why |-> call.why, req |-> task.req] \in Wires
<1> USE BridgeAssumption DEF BridgeAssumption, Reqs
<1>1. 0 \in Reqs /\ task.req \in Reqs /\ asked \in Reqs
  BY DEF Typed, DartType, WorkerType, Tasks
<1>2. Sync \in Tasks /\ Forget \in Tasks /\ Exiting \in Tasks
  BY DEF Sync, Forget, Exiting, Task, Tasks, Methods, Modes, Backends
<1>3. NoCall \in Calls /\ NoHandler \in Handlers
  BY DEF NoCall, NoHandler, Calls, Handlers, Why
<1>4. NoReply \in Replies /\ Released \in Replies /\ LostEvent \in Replies
  BY DEF NoReply, Released, LostEvent, Replies
<1>5. Answer(handler) \in Replies
  BY DEF Answer, Replies, Typed, ServiceType, Handlers
<1>6. \A b \in Backends : [task EXCEPT !.target = b] \in Tasks
  BY DEF Typed, WorkerType, Tasks
<1>7. \A ok \in BOOLEAN : [call EXCEPT !.ok = ok] \in Calls
  BY DEF Typed, CallType, Calls
<1>8. [call EXCEPT !.id = nextId] \in Calls
  BY DEF Typed, CallType, Calls
<1>9. \A why \in Why : [id |-> 0, why |-> why, ok |-> FALSE] \in Calls
  BY DEF Calls
<1>10. [id |-> call.id, why |-> call.why, req |-> task.req] \in Wires
  BY <1>1 DEF Typed, CallType, Calls, Wires
<1> QED
  BY <1>1, <1>2, <1>3, <1>4, <1>5, <1>6, <1>7, <1>8, <1>9, <1>10

\* Queues grow at the end and shrink at the front.
LEMMA Queues ==
  ASSUME Typed
  PROVE  /\ \A t \in Tasks : Append(queue, t) \in Seq(Tasks)
         /\ \A r \in Reqs : Append(posts, r) \in Seq(Reqs)
         /\ \A w \in Wires : Append(toService, w) \in Seq(Wires)
         /\ \A m \in Replies : Append(toApp, m) \in Seq(Replies)
         /\ queue # <<>> => Head(queue) \in Tasks /\ Tail(queue) \in Seq(Tasks)
         /\ posts # <<>> => Head(posts) \in Reqs /\ Tail(posts) \in Seq(Reqs)
         /\ toService # <<>> =>
              Head(toService) \in Wires /\ Tail(toService) \in Seq(Wires)
         /\ toApp # <<>> => Head(toApp) \in Replies /\ Tail(toApp) \in Seq(Replies)
<1>1. /\ queue \in Seq(Tasks) /\ posts \in Seq(Reqs)
      /\ toService \in Seq(Wires) /\ toApp \in Seq(Replies)
  BY DEF Typed, WorkerType, DartType, LinkType
<1> QED
  BY <1>1, AppendProperties, HeadTailProperties

\* A request of Dart is a task with the next number.
LEMMA AskIs ==
  ASSUME Typed, NEW r \in Requests, Ask(r)
  PROVE  asked + 1 \in Reqs /\ Task(r.method, asked + 1, r.mode) \in Tasks
<1>1. asked \in 0..MaxRequests /\ asked < MaxRequests /\ MaxRequests \in Nat
  BY BridgeAssumption DEF BridgeAssumption, Typed, DartType, Reqs, Ask
<1>2. r.method \in Methods /\ r.mode \in Modes
  BY BridgeAssumption DEF BridgeAssumption
<1>3. asked + 1 \in Reqs
  BY <1>1 DEF Reqs
<1> QED
  BY <1>2, <1>3 DEF Task, Tasks

\* A connection, old or new, or none.
LEMMA Connects ==
  ASSUME Typed, NEW ok \in BOOLEAN, EnsureConnected(ok)
  PROVE  LinkType' /\ connected' \in BOOLEAN /\ broken' \in BOOLEAN
<1>1. CASE UNCHANGED linkVars
  BY <1>1 DEF Typed, LinkType, BitsType, linkVars
<1>2. CASE /\ connected' = ok /\ broken' = FALSE
           /\ reader' = IF ok THEN "reading" ELSE "none"
           /\ toService' = <<>> /\ toApp' = <<>>
  BY <1>2, EmptySeq DEF LinkType
<1> QED
  BY <1>1, <1>2 DEF EnsureConnected

\* A port is free or not.
LEMMA PortsAre == \A b \in Backends : PortsFree(b) \in BOOLEAN
BY DEF PortsFree

\* What the platform thread keeps stays of its type, ...
LEMMA DartTypeStep ==
  ASSUME Typed, TasksInv, PlaceInv, Next
  PROVE  DartType'
<1> USE Records, Queues, BridgeAssumption DEF BridgeAssumption, Typed,
       DartType, dartVars, workerVars, linkVars, callVars, serviceVars, ghosts,
       AfterCall, CoreStates, Backends, Why, Places
<1>1. CASE \E r \in Requests : Ask(r)
  <2>1. PICK r \in Requests : Ask(r)
    BY <1>1
  <2>2. asked + 1 \in Reqs
    BY <2>1, AskIs
  <2> QED
    BY <2>1, <2>2 DEF Ask
<1>2. CASE Deliver
  BY <1>2 DEF Deliver
<1>3. CASE EndSession
  BY <1>3 DEF EndSession
<1>4. CASE Destroy
  BY <1>4 DEF Destroy
<1>5. CASE Ensure
  <2>1. UNCHANGED <<app, asked, posts>>
    BY <1>5 DEF Ensure, PlaceInv
  <2> QED
    BY <2>1
<1>6. CASE StatusReturned
  BY <1>6 DEF StatusReturned, Attach, QueriedBackend, Done, Finish, Post
<1>7. CASE SetProxy
  BY <1>7 DEF SetProxy, Done, Finish, Post, Invoke
<1>8. CASE UndoReturned
  BY <1>8 DEF UndoReturned, ProxyFailed, Done, Finish, Post
<1>9. CASE RestoreProxy
  BY <1>9 DEF RestoreProxy, Restored, Done, Finish, Post, LeaveProcess
<1>10. CASE ReadLost
  BY <1>10 DEF ReadLost, OnBackendStatus, RunForget, Post
<1>11. CASE ReaderEnds
  BY <1>11 DEF ReaderEnds, ReportLoss, OnBackendStatus, RunForget, Post
<1>12. CASE \E b \in Backends : CoreLost(b)
  BY <1>12 DEF CoreLost, CoreStops, OnBackendStatus, RunForget, Post
<1>13. CASE \E b \in Backends : Rebuilt(b)
  BY <1>13 DEF Rebuilt, CoreStops, OnBackendStatus, RunForget, Post
<1>14. CASE \/ TakeTask
           \/ Select
           \/ StartInstalledService
           \/ Dial
           \/ Send
           \/ Receive
  BY <1>14 DEF Choose, Dial, EnsureConnected, Invoke, Now, Receive, Returned,
     Select, Send, StartInstalledService, StopUnattached, TakeTask
<1>15. CASE \/ Timeout
           \/ Local
           \/ SyncReturned
           \/ StopReturned
           \/ ReplaceReturned
           \/ StartReturned
  BY <1>15 DEF Attach, Finish, Invoke, Local, Now, ReplaceReturned, Returned,
     StartReturned, StopReturned, SyncReturned, Tasks, Timeout
<1>16. CASE \/ ForgetBackend
           \/ Shutdown
           \/ ReadAnswer
           \/ ReadFails
           \/ Serve
           \/ StartEnds
  BY <1>16 DEF Finish, ForgetBackend, Invoke, Now, ReadAnswer, ReadFails,
     ReleasePending, RestoreAtOnce, Serve, Shutdown, StartEnds, StopActive
<1>17. CASE \/ Respond
           \/ (\E b \in Backends : Rebuild(b))
           \/ ServiceGoes
           \/ ServiceReturns
  BY <1>17 DEF Rebuild, Respond, ServiceGoes, ServiceReturns
<1> QED
  BY <1>1, <1>2, <1>3, <1>4, <1>5, <1>6, <1>7, <1>8, <1>9, <1>10, <1>11, <1>12,
     <1>13, <1>14, <1>15, <1>16, <1>17
     DEF Next, Worker, Task0, CallStep, AfterStep, Reader, Handler, Dart, Faults

\* ... so does what the worker keeps, ...
LEMMA WorkerTypeStep ==
  ASSUME Typed, TasksInv, PlaceInv, Next
  PROVE  WorkerType'
<1> USE Records, Queues, BridgeAssumption DEF BridgeAssumption, Typed,
       WorkerType, dartVars, workerVars, linkVars, callVars, serviceVars,
       ghosts, AfterCall, CoreStates, Backends, Why, Places
<1>1. CASE \E r \in Requests : Ask(r)
  <2>1. PICK r \in Requests : Ask(r)
    BY <1>1
  <2>2. Task(r.method, asked + 1, r.mode) \in Tasks
    BY <2>1, AskIs
  <2> QED
    BY <2>1, <2>2 DEF Ask
<1>2. CASE TakeTask
  <2>1. wpc' \in Places
    <3>1. 1 \in DOMAIN queue /\ queue[1] = Head(queue)
      BY <1>2, EmptySeq, LenProperties DEF TakeTask
    <3>2. Head(queue).kind \in {"sync", "connect", "forget", "disconnect", "status"}
      BY <1>2, <3>1 DEF TakeTask, Tasks, Methods, TasksInv
    <3> QED
      BY <1>2, <3>2 DEF TakeTask, Now, Invoke, StopUnattached
  <2> QED
    BY <1>2, <2>1 DEF TakeTask
<1>3. CASE Ensure
  <2>1. UNCHANGED <<queue, task, active>> /\ wpc' \in Places
    BY <1>3 DEF Ensure, PlaceInv, Now, Invoke
  <2> QED
    BY <2>1
<1>4. CASE Select
  BY <1>4 DEF Select, EnsureConnected, Choose, Now, Invoke
<1>5. CASE StartInstalledService
  BY <1>5 DEF StartInstalledService, Choose, Now, Invoke
<1>6. CASE Dial
  BY <1>6 DEF Dial, EnsureConnected, Returned
<1>7. CASE Send
  BY <1>7 DEF Send, Returned
<1>8. CASE Receive
  BY <1>8 DEF Receive, Returned
<1>9. CASE Timeout
  BY <1>9 DEF Timeout, Returned
<1>10. CASE Local
  BY <1>10 DEF Local, Returned
<1>11. CASE SyncReturned
  BY <1>11 DEF SyncReturned, Attach, Finish, Now
<1>12. CASE StatusReturned
  BY <1>12 DEF StatusReturned, Attach, QueriedBackend, Done, Finish, Post
<1>13. CASE StopReturned
  BY <1>13 DEF StopReturned, Now
<1>14. CASE ReplaceReturned
  BY <1>14 DEF ReplaceReturned, Invoke
<1>15. CASE StartReturned
  BY <1>15 DEF StartReturned, Attach, Now, Tasks
<1>16. CASE SetProxy
  BY <1>16 DEF SetProxy, Done, Finish, Post, Invoke
<1>17. CASE UndoReturned
  BY <1>17 DEF UndoReturned, ProxyFailed, Done, Finish, Post
<1>18. CASE RestoreProxy
  BY <1>18 DEF RestoreProxy, Restored, Done, Finish, Post, LeaveProcess
<1>19. CASE ForgetBackend
  BY <1>19 DEF ForgetBackend, RestoreAtOnce, Now, Finish
<1>20. CASE Shutdown
  BY <1>20 DEF Shutdown, StopActive, Now, Invoke
<1>21. CASE ReadLost
  BY <1>21 DEF ReadLost, OnBackendStatus, RunForget, Post
<1>22. CASE ReaderEnds
  BY <1>22 DEF ReaderEnds, ReportLoss, OnBackendStatus, RunForget, Post
<1>23. CASE \E b \in Backends : CoreLost(b)
  BY <1>23 DEF CoreLost, CoreStops, OnBackendStatus, RunForget, Post
<1>24. CASE \E b \in Backends : Rebuilt(b)
  BY <1>24 DEF Rebuilt, CoreStops, OnBackendStatus, RunForget, Post
<1>25. CASE \/ Deliver
           \/ EndSession
           \/ Destroy
           \/ ReadAnswer
           \/ ReadFails
           \/ Serve
  BY <1>25 DEF Deliver, Destroy, EndSession, ReadAnswer, ReadFails,
     ReleasePending, Serve
<1>26. CASE \/ StartEnds
           \/ Respond
           \/ (\E b \in Backends : Rebuild(b))
           \/ ServiceGoes
           \/ ServiceReturns
  BY <1>26 DEF Rebuild, Respond, ServiceGoes, ServiceReturns, StartEnds
<1> QED
  BY <1>1, <1>2, <1>3, <1>4, <1>5, <1>6, <1>7, <1>8, <1>9, <1>10, <1>11, <1>12,
     <1>13, <1>14, <1>15, <1>16, <1>17, <1>18, <1>19, <1>20, <1>21, <1>22,
     <1>23, <1>24, <1>25, <1>26
     DEF Next, Worker, Task0, CallStep, AfterStep, Reader, Handler, Dart, Faults

\* ... the flags, ...
LEMMA BitsTypeStep ==
  ASSUME Typed, TasksInv, PlaceInv, Next
  PROVE  BitsType'
<1> USE Records, Queues, BridgeAssumption DEF BridgeAssumption, Typed,
       BitsType, dartVars, workerVars, linkVars, callVars, serviceVars, ghosts,
       AfterCall, CoreStates, Backends, Why, Places
<1>1. CASE Ensure
  BY <1>1 DEF Ensure, EnsureConnected, Now, Invoke
<1>2. CASE Select
  BY <1>2 DEF Select, EnsureConnected, Choose, Now, Invoke
<1>3. CASE Dial
  BY <1>3 DEF Dial, EnsureConnected, Returned
<1>4. CASE SetProxy
  BY <1>4 DEF SetProxy, Done, Finish, Post, Invoke
<1>5. CASE UndoReturned
  BY <1>5 DEF UndoReturned, ProxyFailed, Done, Finish, Post
<1>6. CASE RestoreProxy
  BY <1>6 DEF RestoreProxy, Restored, Done, Finish, Post, LeaveProcess
<1>7. CASE ReadFails
  BY <1>7 DEF ReadFails, ReleasePending
<1>8. CASE ServiceGoes
  BY <1>8 DEF ServiceGoes
<1>9. CASE \/ (\E r \in Requests : Ask(r))
           \/ Deliver
           \/ EndSession
           \/ Destroy
           \/ TakeTask
           \/ StartInstalledService
  BY <1>9 DEF Ask, BridgeAssumption, Choose, Deliver, Destroy, EndSession,
     Invoke, Methods, Now, StartInstalledService, StopUnattached, TakeTask,
     Task, Tasks
<1>10. CASE \/ Send
           \/ Receive
           \/ Timeout
           \/ Local
           \/ SyncReturned
           \/ StatusReturned
  BY <1>10 DEF Attach, Done, Finish, Local, Now, Post, QueriedBackend, Receive,
     Returned, Send, StatusReturned, SyncReturned, Timeout
<1>11. CASE \/ StopReturned
           \/ ReplaceReturned
           \/ StartReturned
           \/ ForgetBackend
           \/ Shutdown
           \/ ReadAnswer
  BY <1>11 DEF Attach, Finish, ForgetBackend, Invoke, Now, ReadAnswer,
     ReplaceReturned, RestoreAtOnce, Shutdown, StartReturned, StopActive,
     StopReturned, Tasks
<1>12. CASE \/ ReadLost
           \/ ReaderEnds
           \/ Serve
           \/ StartEnds
           \/ Respond
           \/ (\E b \in Backends : CoreLost(b))
  BY <1>12 DEF CoreLost, CoreStops, OnBackendStatus, Post, ReadLost,
     ReaderEnds, ReportLoss, Respond, RunForget, Serve, StartEnds
<1>13. CASE \/ (\E b \in Backends : Rebuild(b))
           \/ (\E b \in Backends : Rebuilt(b))
           \/ ServiceReturns
  BY <1>13 DEF CoreStops, OnBackendStatus, Post, Rebuild, Rebuilt, RunForget,
     ServiceReturns
<1> QED
  BY <1>1, <1>2, <1>3, <1>4, <1>5, <1>6, <1>7, <1>8, <1>9, <1>10, <1>11, <1>12,
     <1>13
     DEF Next, Worker, Task0, CallStep, AfterStep, Reader, Handler, Dart, Faults

\* ... the connection, ...
LEMMA LinkTypeStep ==
  ASSUME Typed, TasksInv, PlaceInv, Next
  PROVE  LinkType'
<1> USE Records, Queues, BridgeAssumption DEF BridgeAssumption, Typed,
       LinkType, dartVars, workerVars, linkVars, callVars, serviceVars, ghosts,
       AfterCall, CoreStates, Backends, Why, Places
<1>1. CASE Ensure
  <2>1. PICK ok \in BOOLEAN : EnsureConnected(ok)
    BY <1>1 DEF Ensure
  <2> QED
    BY <2>1, Connects
<1>2. CASE Select
  <2>1. PICK ok \in BOOLEAN : EnsureConnected(ok)
    BY <1>2 DEF Select
  <2> QED
    BY <2>1, Connects
<1>3. CASE Dial
  <2>1. PICK ok \in BOOLEAN : EnsureConnected(ok)
    BY <1>3 DEF Dial
  <2> QED
    BY <2>1, Connects
<1>4. CASE Send
  BY <1>4 DEF Send, Returned
<1>5. CASE RestoreProxy
  BY <1>5 DEF RestoreProxy, Restored, Done, Finish, Post, LeaveProcess
<1>6. CASE ReadAnswer
  BY <1>6 DEF ReadAnswer
<1>7. CASE ReadLost
  BY <1>7 DEF ReadLost, OnBackendStatus, RunForget, Post
<1>8. CASE ReadFails
  BY <1>8 DEF ReadFails, ReleasePending
<1>9. CASE ReaderEnds
  BY <1>9 DEF ReaderEnds, ReportLoss, OnBackendStatus, RunForget, Post
<1>10. CASE Serve
  BY <1>10 DEF Serve
<1>11. CASE Respond
  BY <1>11 DEF Respond
<1>12. CASE \E b \in Backends : CoreLost(b)
  BY <1>12 DEF CoreLost, CoreStops, OnBackendStatus, RunForget, Post
<1>13. CASE \E b \in Backends : Rebuilt(b)
  BY <1>13 DEF Rebuilt, CoreStops, OnBackendStatus, RunForget, Post
<1>14. CASE ServiceGoes
  BY <1>14 DEF ServiceGoes
<1>15. CASE \/ (\E r \in Requests : Ask(r))
           \/ Deliver
           \/ EndSession
           \/ Destroy
           \/ TakeTask
           \/ StartInstalledService
  BY <1>15 DEF Ask, BridgeAssumption, Choose, Deliver, Destroy, EndSession,
     Invoke, Methods, Now, StartInstalledService, StopUnattached, TakeTask,
     Task, Tasks
<1>16. CASE \/ Receive
           \/ Timeout
           \/ Local
           \/ SyncReturned
           \/ StatusReturned
           \/ StopReturned
  BY <1>16 DEF Attach, Done, Finish, Local, Now, Post, QueriedBackend, Receive,
     Returned, StatusReturned, StopReturned, SyncReturned, Timeout
<1>17. CASE \/ ReplaceReturned
           \/ StartReturned
           \/ SetProxy
           \/ UndoReturned
           \/ ForgetBackend
           \/ Shutdown
  BY <1>17 DEF Attach, Done, Finish, ForgetBackend, Invoke, Now, Post,
     ProxyFailed, ReplaceReturned, RestoreAtOnce, SetProxy, Shutdown,
     StartReturned, StopActive, Tasks, UndoReturned
<1>18. CASE \/ StartEnds
           \/ (\E b \in Backends : Rebuild(b))
           \/ ServiceReturns
  BY <1>18 DEF Rebuild, ServiceReturns, StartEnds
<1> QED
  BY <1>1, <1>2, <1>3, <1>4, <1>5, <1>6, <1>7, <1>8, <1>9, <1>10, <1>11, <1>12,
     <1>13, <1>14, <1>15, <1>16, <1>17, <1>18
     DEF Next, Worker, Task0, CallStep, AfterStep, Reader, Handler, Dart, Faults

\* ... the call, ...
LEMMA CallTypeStep ==
  ASSUME Typed, TasksInv, PlaceInv, Next
  PROVE  CallType'
<1> USE Records, Queues, BridgeAssumption DEF BridgeAssumption, Typed,
       CallType, dartVars, workerVars, linkVars, callVars, serviceVars, ghosts,
       AfterCall, CoreStates, Backends, Why, Places
<1>1. CASE TakeTask
  <2>1. call' \in Calls
    <3>1. 1 \in DOMAIN queue /\ queue[1] = Head(queue)
      BY <1>1, EmptySeq, LenProperties DEF TakeTask
    <3>2. Head(queue).kind \in {"sync", "connect", "forget", "disconnect", "status"}
      BY <1>1, <3>1 DEF TakeTask, Tasks, Methods, TasksInv
    <3> QED
      BY <1>1, <3>2 DEF TakeTask, Now, Invoke, StopUnattached
  <2> QED
    BY <1>1, <2>1 DEF TakeTask
<1>2. CASE Ensure
  <2>1. call' \in Calls
    BY <1>2 DEF Ensure, PlaceInv, Now, Invoke
  <2> QED
    BY <1>2, <2>1 DEF Ensure
<1>3. CASE Select
  BY <1>3 DEF Select, EnsureConnected, Choose, Now, Invoke
<1>4. CASE StartInstalledService
  BY <1>4 DEF StartInstalledService, Choose, Now, Invoke
<1>5. CASE Dial
  <2>1. \/ /\ nextId' = nextId + 1 /\ call' = [call EXCEPT !.id = nextId]
           /\ reply' = NoReply
        \/ /\ call' = [call EXCEPT !.ok = FALSE] /\ reply' = NoReply
           /\ nextId' = nextId
    BY <1>5 DEF Dial, Returned
  <2>2. [call EXCEPT !.ok = FALSE] \in Calls /\ [call EXCEPT !.id = nextId] \in Calls
    BY Records
  <2>3. nextId + 1 \in Nat
    BY DEF CallType
  <2> QED
    BY <2>1, <2>2, <2>3
<1>6. CASE Send
  BY <1>6 DEF Send, Returned
<1>7. CASE Receive
  BY <1>7 DEF Receive, Returned
<1>8. CASE Timeout
  BY <1>8 DEF Timeout, Returned
<1>9. CASE Local
  <2>1. \/ UNCHANGED <<call, reply>>
        \/ reply' = NoReply /\ \E ok \in BOOLEAN : call' = [call EXCEPT !.ok = ok]
    BY <1>9, PortsAre DEF Local, Returned
  <2>2. nextId' = nextId
    BY <1>9 DEF Local
  <2> QED
    BY <2>1, <2>2
<1>10. CASE SyncReturned
  BY <1>10 DEF SyncReturned, Attach, Finish, Now
<1>11. CASE StatusReturned
  BY <1>11 DEF StatusReturned, Attach, QueriedBackend, Done, Finish, Post
<1>12. CASE StopReturned
  BY <1>12 DEF StopReturned, Now
<1>13. CASE ReplaceReturned
  BY <1>13 DEF ReplaceReturned, Invoke
<1>14. CASE StartReturned
  BY <1>14 DEF StartReturned, Attach, Now, Tasks
<1>15. CASE SetProxy
  BY <1>15 DEF SetProxy, Done, Finish, Post, Invoke
<1>16. CASE UndoReturned
  BY <1>16 DEF UndoReturned, ProxyFailed, Done, Finish, Post
<1>17. CASE RestoreProxy
  BY <1>17 DEF RestoreProxy, Restored, Done, Finish, Post, LeaveProcess
<1>18. CASE ForgetBackend
  BY <1>18 DEF ForgetBackend, RestoreAtOnce, Now, Finish
<1>19. CASE Shutdown
  BY <1>19 DEF Shutdown, StopActive, Now, Invoke
<1>20. CASE ReadAnswer
  BY <1>20 DEF ReadAnswer
<1>21. CASE ReadFails
  BY <1>21 DEF ReadFails, ReleasePending
<1>22. CASE \/ (\E r \in Requests : Ask(r))
           \/ Deliver
           \/ EndSession
           \/ Destroy
           \/ ReadLost
           \/ ReaderEnds
  BY <1>22 DEF Ask, BridgeAssumption, Deliver, Destroy, EndSession, Methods,
     OnBackendStatus, Post, ReadLost, ReaderEnds, ReportLoss, RunForget, Task,
     Tasks
<1>23. CASE \/ Serve
           \/ StartEnds
           \/ Respond
           \/ (\E b \in Backends : CoreLost(b))
           \/ (\E b \in Backends : Rebuild(b))
           \/ (\E b \in Backends : Rebuilt(b))
  BY <1>23 DEF CoreLost, CoreStops, OnBackendStatus, Post, Rebuild, Rebuilt,
     Respond, RunForget, Serve, StartEnds
<1>24. CASE \/ ServiceGoes
           \/ ServiceReturns
  BY <1>24 DEF ServiceGoes, ServiceReturns
<1> QED
  BY <1>1, <1>2, <1>3, <1>4, <1>5, <1>6, <1>7, <1>8, <1>9, <1>10, <1>11, <1>12,
     <1>13, <1>14, <1>15, <1>16, <1>17, <1>18, <1>19, <1>20, <1>21, <1>22,
     <1>23, <1>24
     DEF Next, Worker, Task0, CallStep, AfterStep, Reader, Handler, Dart, Faults

\* ... the service, ...
LEMMA ServiceTypeStep ==
  ASSUME Typed, TasksInv, PlaceInv, Next
  PROVE  ServiceType'
<1> USE Records, Queues, BridgeAssumption DEF BridgeAssumption, Typed,
       ServiceType, dartVars, workerVars, linkVars, callVars, serviceVars,
       ghosts, AfterCall, CoreStates, Backends, Why, Places
<1>1. CASE StartInstalledService
  BY <1>1 DEF StartInstalledService, Choose, Now, Invoke
<1>2. CASE Local
  BY <1>2 DEF Local, Returned
<1>3. CASE RestoreProxy
  BY <1>3 DEF RestoreProxy, Restored, Done, Finish, Post, LeaveProcess
<1>4. CASE Serve
  <2> DEFINE r == Head(toService)
             h == [id |-> r.id, why |-> r.why, req |-> r.req, done |-> TRUE, ok |-> TRUE]
  <2>1. r \in Wires
    BY <1>4 DEF Serve
  <2>2. \A done, ok \in BOOLEAN : [h EXCEPT !.done = done, !.ok = ok] \in Handlers
    BY <2>1 DEF Wires, Handlers
  <2>3. h \in Handlers /\ [h EXCEPT !.done = FALSE] \in Handlers
    BY <2>1 DEF Wires, Handlers
  <2>4. [h EXCEPT !.ok = core["service"] = "up"] \in Handlers
    BY <2>1 DEF Wires, Handlers
  <2> HIDE DEF h
  <2>5. handler' \in {h, [h EXCEPT !.done = FALSE],
                      [h EXCEPT !.ok = core["service"] = "up"]}
    BY <1>4 DEF Serve, h
  <2>6. core' \in [Backends -> CoreStates] /\ svc' = svc
    BY <1>4 DEF Serve
  <2> QED
    BY <2>3, <2>4, <2>5, <2>6
<1>5. CASE StartEnds
  <2>1. PICK ok \in BOOLEAN :
          /\ handler' = [handler EXCEPT !.done = TRUE, !.ok = ok]
          /\ core' = [core EXCEPT !["service"] = IF ok THEN "up" ELSE "down"]
    BY <1>5, PortsAre DEF StartEnds
  <2>2. handler' \in Handlers
    BY <2>1 DEF Handlers
  <2>3. core' \in [Backends -> CoreStates] /\ svc' = svc
    BY <1>5, <2>1 DEF StartEnds
  <2> QED
    BY <2>2, <2>3
<1>6. CASE Respond
  BY <1>6 DEF Respond
<1>7. CASE \E b \in Backends : CoreLost(b)
  BY <1>7 DEF CoreLost, CoreStops, OnBackendStatus, RunForget, Post
<1>8. CASE \E b \in Backends : Rebuild(b)
  BY <1>8 DEF Rebuild
<1>9. CASE \E b \in Backends : Rebuilt(b)
  BY <1>9 DEF Rebuilt, CoreStops, OnBackendStatus, RunForget, Post
<1>10. CASE ServiceGoes
  BY <1>10 DEF ServiceGoes
<1>11. CASE ServiceReturns
  BY <1>11 DEF ServiceReturns
<1>12. CASE \/ (\E r \in Requests : Ask(r))
           \/ Deliver
           \/ EndSession
           \/ Destroy
           \/ TakeTask
           \/ Ensure
  BY <1>12 DEF Ask, BridgeAssumption, Deliver, Destroy, EndSession, Ensure,
     EnsureConnected, Invoke, Methods, Now, StopUnattached, TakeTask, Task,
     Tasks
<1>13. CASE \/ Select
           \/ Dial
           \/ Send
           \/ Receive
           \/ Timeout
           \/ SyncReturned
  BY <1>13 DEF Attach, Choose, Dial, EnsureConnected, Finish, Invoke, Now,
     Receive, Returned, Select, Send, SyncReturned, Timeout
<1>14. CASE \/ StatusReturned
           \/ StopReturned
           \/ ReplaceReturned
           \/ StartReturned
           \/ SetProxy
           \/ UndoReturned
  BY <1>14 DEF Attach, Done, Finish, Invoke, Now, Post, ProxyFailed,
     QueriedBackend, ReplaceReturned, SetProxy, StartReturned, StatusReturned,
     StopReturned, Tasks, UndoReturned
<1>15. CASE \/ ForgetBackend
           \/ Shutdown
           \/ ReadAnswer
           \/ ReadLost
           \/ ReadFails
           \/ ReaderEnds
  BY <1>15 DEF Finish, ForgetBackend, Invoke, Now, OnBackendStatus, Post,
     ReadAnswer, ReadFails, ReadLost, ReaderEnds, ReleasePending, ReportLoss,
     RestoreAtOnce, RunForget, Shutdown, StopActive
<1> QED
  BY <1>1, <1>2, <1>3, <1>4, <1>5, <1>6, <1>7, <1>8, <1>9, <1>10, <1>11, <1>12,
     <1>13, <1>14, <1>15
     DEF Next, Worker, Task0, CallStep, AfterStep, Reader, Handler, Dart, Faults

\* ... and what is counted.
LEMMA CountTypeStep ==
  ASSUME Typed, TasksInv, PlaceInv, Next
  PROVE  CountType'
<1> USE Records, Queues, BridgeAssumption DEF BridgeAssumption, Typed,
       CountType, dartVars, workerVars, linkVars, callVars, serviceVars,
       ghosts, AfterCall, CoreStates, Backends, Why, Places
<1>1. CASE Timeout
  BY <1>1 DEF Timeout, Returned
<1>2. CASE SyncReturned
  BY <1>2 DEF SyncReturned, Attach, Finish, Now
<1>3. CASE StatusReturned
  BY <1>3 DEF StatusReturned, Attach, QueriedBackend, Done, Finish, Post
<1>4. CASE StartReturned
  BY <1>4 DEF StartReturned, Attach, Now, Tasks
<1>5. CASE SetProxy
  BY <1>5 DEF SetProxy, Done, Finish, Post, Invoke
<1>6. CASE ForgetBackend
  BY <1>6 DEF ForgetBackend, RestoreAtOnce, Now, Finish
<1>7. CASE Serve
  BY <1>7 DEF Serve
<1>8. CASE \E b \in Backends : CoreLost(b)
  BY <1>8 DEF CoreLost, CoreStops, OnBackendStatus, RunForget, Post
<1>9. CASE \E b \in Backends : Rebuild(b)
  BY <1>9 DEF Rebuild
<1>10. CASE ServiceGoes
  BY <1>10 DEF ServiceGoes
<1>11. CASE \/ (\E r \in Requests : Ask(r))
           \/ Deliver
           \/ EndSession
           \/ Destroy
           \/ TakeTask
           \/ Ensure
  BY <1>11 DEF Ask, BridgeAssumption, Deliver, Destroy, EndSession, Ensure,
     EnsureConnected, Invoke, Methods, Now, StopUnattached, TakeTask, Task,
     Tasks
<1>12. CASE \/ Select
           \/ StartInstalledService
           \/ Dial
           \/ Send
           \/ Receive
           \/ Local
  BY <1>12 DEF Choose, Dial, EnsureConnected, Invoke, Local, Now, Receive,
     Returned, Select, Send, StartInstalledService
<1>13. CASE \/ StopReturned
           \/ ReplaceReturned
           \/ UndoReturned
           \/ RestoreProxy
           \/ Shutdown
           \/ ReadAnswer
  BY <1>13 DEF Done, Finish, Invoke, LeaveProcess, Now, Post, ProxyFailed,
     ReadAnswer, ReplaceReturned, RestoreProxy, Restored, Shutdown, StopActive,
     StopReturned, UndoReturned
<1>14. CASE \/ ReadLost
           \/ ReadFails
           \/ ReaderEnds
           \/ StartEnds
           \/ Respond
           \/ (\E b \in Backends : Rebuilt(b))
  BY <1>14 DEF CoreStops, OnBackendStatus, Post, ReadFails, ReadLost,
     ReaderEnds, Rebuilt, ReleasePending, ReportLoss, Respond, RunForget,
     StartEnds
<1>15. CASE ServiceReturns
  BY <1>15 DEF ServiceReturns
<1> QED
  BY <1>1, <1>2, <1>3, <1>4, <1>5, <1>6, <1>7, <1>8, <1>9, <1>10, <1>11, <1>12,
     <1>13, <1>14, <1>15
     DEF Next, Worker, Task0, CallStep, AfterStep, Reader, Handler, Dart, Faults

-----------------------------------------------------------------------------
(* The line of requests.                                                   *)

\* The line of these posts, this task and this queue; a line in order, when n
\* requests of a are answered.
LineOf(P, u, Q) == P \o <<u>> \o [i \in DOMAIN Q |-> Q[i].req]
Ordered(s, n, a) ==
  /\ {s[i] : i \in DOMAIN s} \ {0} = (n + 1)..a
  /\ Increasing(s)

\* What stands where in the line.
LEMMA LineIs ==
  ASSUME NEW P \in Seq(Reqs), NEW u \in Reqs, NEW Q \in Seq(Tasks)
  PROVE  LET s == LineOf(P, u, Q) IN
         /\ s \in Seq(Reqs) /\ Len(s) = Len(P) + 1 + Len(Q)
         /\ Len(P) \in Nat /\ Len(Q) \in Nat
         /\ \A i \in 1..Len(P) : s[i] = P[i]
         /\ s[Len(P) + 1] = u
         /\ \A j \in 1..Len(Q) : s[Len(P) + 1 + j] = Q[j].req
<1> DEFINE R == [i \in DOMAIN Q |-> Q[i].req]
           front == P \o <<u>>
<1>1. /\ Len(P) \in Nat /\ Len(Q) \in Nat
      /\ DOMAIN Q = 1..Len(Q) /\ DOMAIN P = 1..Len(P)
  BY LenProperties
<1>2. \A i \in 1..Len(Q) : Q[i].req \in Reqs
  <2>1. \A t \in Tasks : t.req \in Reqs
    BY DEF Tasks
  <2> QED
    BY <2>1, ElementOfSeq
<1>3. R \in Seq(Reqs) /\ Len(R) = Len(Q) /\ \A j \in 1..Len(Q) : R[j] = Q[j].req
  BY <1>1, <1>2, IsASeq, LenProperties
<1>4. /\ <<u>> \in Seq(Reqs) /\ Len(<<u>>) = 1 /\ <<u>>[1] = u
  OBVIOUS
<1> HIDE DEF R
<1>5. /\ front \in Seq(Reqs) /\ Len(front) = Len(P) + 1
      /\ \A i \in 1..Len(P) : front[i] = P[i]
      /\ front[Len(P) + 1] = u
  BY <1>1, <1>4, ConcatProperties
<1> HIDE DEF front
<1>6. /\ front \o R \in Seq(Reqs) /\ Len(front \o R) = Len(P) + 1 + Len(Q)
      /\ \A i \in 1..(Len(P) + 1) : (front \o R)[i] = front[i]
  <2>1. front \o R \in Seq(Reqs) /\ Len(front \o R) = Len(P) + 1 + Len(Q)
    <3>1. front \o R \in Seq(Reqs) /\ Len(front \o R) = Len(front) + Len(R)
      BY <1>3, <1>5, ConcatProperties
    <3> QED
      BY <1>3, <1>5, <3>1
  <2>2. ASSUME NEW i \in 1..(Len(P) + 1) PROVE (front \o R)[i] = front[i]
    <3>1. i \in 1..(Len(front) + Len(R)) /\ i <= Len(front)
      BY <1>1, <1>3, <1>5
    <3> QED
      BY <1>3, <1>5, <3>1, ConcatProperties
  <2> QED
    BY <2>1, <2>2
<1>7. ASSUME NEW j \in 1..Len(Q) PROVE (front \o R)[Len(P) + 1 + j] = R[j]
  <2>1. /\ Len(P) + 1 + j \in 1..(Len(front) + Len(R))
        /\ ~(Len(P) + 1 + j <= Len(front)) /\ (Len(P) + 1 + j) - Len(front) = j
    BY <1>1, <1>3, <1>5
  <2> QED
    BY <1>3, <1>5, <2>1, ConcatProperties
<1>8. LineOf(P, u, Q) = front \o R
  BY DEF LineOf, R, front
<1> QED
  BY <1>1, <1>3, <1>5, <1>6, <1>7, <1>8

\* What is not 0 is a request without an answer; one comes before another.
Between(r, n, a) == r # 0 => r \in (n + 1)..a
Before(r, s) == r # 0 /\ s # 0 => r < s
\* The line is in order when its parts are, and follow each other.
Apart(P, u, Q, n, a) ==
  /\ \A i \in 1..Len(P) : Between(P[i], n, a)
  /\ Between(u, n, a)
  /\ \A j \in 1..Len(Q) : Between(Q[j].req, n, a)
  /\ \A k \in (n + 1)..a : \/ \E i \in 1..Len(P) : P[i] = k
                           \/ u = k
                           \/ \E j \in 1..Len(Q) : Q[j].req = k
  /\ \A i, j \in 1..Len(P) : i < j => Before(P[i], P[j])
  /\ \A i, j \in 1..Len(Q) : i < j => Before(Q[i].req, Q[j].req)
  /\ \A i \in 1..Len(P) : Before(P[i], u)
  /\ \A j \in 1..Len(Q) : Before(u, Q[j].req)
  /\ \A i \in 1..Len(P), j \in 1..Len(Q) : Before(P[i], Q[j].req)

\* The two ways of saying it agree.
LEMMA LineParts ==
  ASSUME NEW P \in Seq(Reqs), NEW u \in Reqs, NEW Q \in Seq(Tasks),
         NEW n \in Nat, NEW a \in Nat
  PROVE  Ordered(LineOf(P, u, Q), n, a) <=> Apart(P, u, Q, n, a)
<1> DEFINE s == LineOf(P, u, Q)
<1>1. /\ s \in Seq(Reqs) /\ Len(s) = Len(P) + 1 + Len(Q)
      /\ Len(P) \in Nat /\ Len(Q) \in Nat
      /\ \A i \in 1..Len(P) : s[i] = P[i]
      /\ s[Len(P) + 1] = u
      /\ \A j \in 1..Len(Q) : s[Len(P) + 1 + j] = Q[j].req
  BY LineIs
<1>2. DOMAIN s = 1..(Len(P) + 1 + Len(Q)) /\ Len(P) \in Nat /\ Len(Q) \in Nat
  BY <1>1, LenProperties
<1> HIDE DEF s
<1>3. /\ \A i \in 1..Len(P) : i \in DOMAIN s
      /\ Len(P) + 1 \in DOMAIN s
      /\ \A j \in 1..Len(Q) : Len(P) + 1 + j \in DOMAIN s
  BY <1>2
<1>4. ASSUME NEW k \in DOMAIN s
      PROVE  \/ k \in 1..Len(P)
             \/ k = Len(P) + 1
             \/ \E j \in 1..Len(Q) : k = Len(P) + 1 + j
  <2>1. CASE k > Len(P) + 1
    <3>1. k - (Len(P) + 1) \in 1..Len(Q) /\ k = Len(P) + 1 + (k - (Len(P) + 1))
      BY <1>2, <2>1
    <3> QED
      BY <3>1
  <2>2. CASE ~(k > Len(P) + 1)
    BY <1>2, <2>2
  <2> QED
    BY <2>1, <2>2
<1>5. ASSUME Ordered(s, n, a) PROVE Apart(P, u, Q, n, a)
  <2>1. \A k \in DOMAIN s : Between(s[k], n, a)
    BY <1>5 DEF Ordered, Between
  <2>2. \A k \in (n + 1)..a : \E i \in DOMAIN s : s[i] = k
    BY <1>5 DEF Ordered
  <2>3. \A i, j \in DOMAIN s : i < j => Before(s[i], s[j])
    BY <1>5 DEF Ordered, Increasing, Before
  <2>4. /\ \A i \in 1..Len(P) : Between(P[i], n, a)
        /\ Between(u, n, a)
        /\ \A j \in 1..Len(Q) : Between(Q[j].req, n, a)
    BY <1>1, <1>3, <2>1
  <2>5. ASSUME NEW k \in (n + 1)..a
        PROVE  \/ \E i \in 1..Len(P) : P[i] = k
               \/ u = k
               \/ \E j \in 1..Len(Q) : Q[j].req = k
    <3>1. PICK i \in DOMAIN s : s[i] = k
      BY <2>2
    <3> QED
      BY <1>1, <1>4, <3>1
  <2>6. ASSUME NEW i \in 1..Len(P)
        PROVE  Before(P[i], u) /\ \A j \in 1..Len(P) : i < j => Before(P[i], P[j])
    <3>1. i < Len(P) + 1
      BY <1>2
    <3>2. Before(s[i], s[Len(P) + 1])
      BY <1>3, <2>3, <3>1
    <3> QED
      BY <1>1, <1>3, <2>3, <3>2
  <2>7. ASSUME NEW i \in 1..Len(Q), NEW j \in 1..Len(Q), i < j
        PROVE  Before(Q[i].req, Q[j].req)
    <3>1. Len(P) + 1 + i < Len(P) + 1 + j
      BY <1>2, <2>7
    <3>2. Before(s[Len(P) + 1 + i], s[Len(P) + 1 + j])
      BY <1>3, <2>3, <3>1
    <3> QED
      BY <1>1, <3>2
  <2>8. ASSUME NEW j \in 1..Len(Q)
        PROVE  Before(u, Q[j].req) /\ \A i \in 1..Len(P) : Before(P[i], Q[j].req)
    <3>1. Len(P) + 1 < Len(P) + 1 + j /\ \A i \in 1..Len(P) : i < Len(P) + 1 + j
      BY <1>2
    <3>2. /\ Before(s[Len(P) + 1], s[Len(P) + 1 + j])
          /\ \A i \in 1..Len(P) : Before(s[i], s[Len(P) + 1 + j])
      BY <1>3, <2>3, <3>1
    <3> QED
      BY <1>1, <3>2
  <2> QED
    BY <2>4, <2>5, <2>6, <2>7, <2>8 DEF Apart
<1>6. ASSUME Apart(P, u, Q, n, a) PROVE Ordered(s, n, a)
  <2>1. ASSUME NEW k \in DOMAIN s PROVE Between(s[k], n, a)
    <3>1. CASE k \in 1..Len(P)
      BY <1>1, <1>6, <3>1 DEF Apart
    <3>2. CASE k = Len(P) + 1
      BY <1>1, <1>6, <3>2 DEF Apart
    <3>3. CASE \E j \in 1..Len(Q) : k = Len(P) + 1 + j
      BY <1>1, <1>6, <3>3 DEF Apart
    <3> QED
      BY <1>4, <3>1, <3>2, <3>3
  <2>2. ASSUME NEW k \in (n + 1)..a PROVE k # 0 /\ \E i \in DOMAIN s : s[i] = k
    <3>1. k # 0
      OBVIOUS
    <3>2. CASE \E i \in 1..Len(P) : P[i] = k
      BY <1>1, <1>3, <3>1, <3>2
    <3>3. CASE u = k
      BY <1>1, <1>3, <3>1, <3>3
    <3>4. CASE \E j \in 1..Len(Q) : Q[j].req = k
      BY <1>1, <1>3, <3>1, <3>4
    <3> QED
      BY <1>6, <3>2, <3>3, <3>4 DEF Apart
  <2>3. ASSUME NEW i \in DOMAIN s, NEW j \in DOMAIN s, i < j PROVE Before(s[i], s[j])
    <3>1. i > Len(P) => \E k \in 1..Len(Q) : j = Len(P) + 1 + k
      <4>1. i > Len(P) => j \notin 1..Len(P) /\ j # Len(P) + 1
        BY <1>2, <2>3
      <4> QED
        BY <1>4, <4>1
    <3>2. CASE i \in 1..Len(P)
      <4>1. CASE j \in 1..Len(P)
        BY <1>1, <1>6, <2>3, <3>2, <4>1 DEF Apart
      <4>2. CASE j = Len(P) + 1
        BY <1>1, <1>6, <3>2, <4>2 DEF Apart
      <4>3. CASE \E k \in 1..Len(Q) : j = Len(P) + 1 + k
        BY <1>1, <1>6, <3>2, <4>3 DEF Apart
      <4> QED
        BY <1>4, <4>1, <4>2, <4>3
    <3>3. CASE i = Len(P) + 1
      <4>1. PICK k \in 1..Len(Q) : j = Len(P) + 1 + k
        BY <1>2, <3>1, <3>3
      <4> QED
        BY <1>1, <1>6, <3>3, <4>1 DEF Apart
    <3>4. CASE \E k \in 1..Len(Q) : i = Len(P) + 1 + k
      <4>1. PICK k \in 1..Len(Q) : i = Len(P) + 1 + k
        BY <3>4
      <4>2. i > Len(P)
        BY <1>2, <4>1
      <4>3. PICK m \in 1..Len(Q) : j = Len(P) + 1 + m
        BY <3>1, <4>2
      <4>4. k < m
        BY <1>2, <2>3, <4>1, <4>3
      <4>5. Before(Q[k].req, Q[m].req)
        BY <1>6, <4>4 DEF Apart
      <4> QED
        BY <1>1, <4>1, <4>3, <4>5
    <3> QED
      BY <1>4, <3>2, <3>3, <3>4
  <2>4. Increasing(s)
    BY <2>3 DEF Increasing, Before
  <2>5. {s[i] : i \in DOMAIN s} \ {0} = (n + 1)..a
    BY <2>1, <2>2 DEF Between
  <2> QED
    BY <2>4, <2>5 DEF Ordered
<1> QED
  BY <1>5, <1>6 DEF s

\* The worker's task is answered.
LEMMA LinePosted ==
  ASSUME NEW P \in Seq(Reqs), NEW u \in Reqs, NEW Q \in Seq(Tasks),
         NEW n \in Nat, NEW a \in Nat, Apart(P, u, Q, n, a)
  PROVE  Apart(Append(P, u), 0, Q, n, a)
<1>1. /\ Len(Append(P, u)) = Len(P) + 1 /\ Len(P) \in Nat
      /\ \A i \in 1..Len(P) : Append(P, u)[i] = P[i] /\ i \in 1..(Len(P) + 1)
      /\ Append(P, u)[Len(P) + 1] = u /\ Len(P) + 1 \in 1..(Len(P) + 1)
      /\ \A i \in 1..(Len(P) + 1) : i \in 1..Len(P) \/ i = Len(P) + 1
  BY AppendProperties, LenProperties
<1> QED
  BY <1>1 DEF Apart, Between, Before

\* The worker takes a task.
LEMMA LineTaken ==
  ASSUME NEW P \in Seq(Reqs), NEW Q \in Seq(Tasks), Q # <<>>,
         NEW n \in Nat, NEW a \in Nat, Apart(P, 0, Q, n, a)
  PROVE  Apart(P, Head(Q).req, Tail(Q), n, a)
<1>1. /\ Len(Tail(Q)) = Len(Q) - 1 /\ Len(Q) \in Nat /\ Len(Q) > 0
      /\ Head(Q) = Q[1] /\ \A i \in 1..Len(Tail(Q)) : Tail(Q)[i] = Q[i + 1]
  BY HeadTailProperties, LenProperties, EmptySeq
<1>2. /\ \A i \in 1..Len(Tail(Q)) : i + 1 \in 1..Len(Q) /\ 1 < i + 1
      /\ 1 \in 1..Len(Q)
      /\ \A k \in 1..Len(Q) :
           k = 1 \/ (k - 1 \in 1..Len(Tail(Q)) /\ (k - 1) + 1 = k)
      /\ \A i, j \in 1..Len(Tail(Q)) : i < j => i + 1 < j + 1
  BY <1>1
<1> DEFINE T == Tail(Q)
<1>3. /\ \A i \in 1..Len(T) : T[i] = Q[i + 1]
      /\ \A k \in 1..Len(Q) : Q[k] = Head(Q) \/ \E i \in 1..Len(T) : Q[k] = T[i]
  BY <1>1, <1>2
<1> HIDE DEF T
<1>5. /\ Between(Head(Q).req, n, a)
      /\ \A j \in 1..Len(T) : Between(T[j].req, n, a)
  BY <1>1, <1>2, <1>3 DEF Apart, T
<1>6. ASSUME NEW k \in (n + 1)..a
      PROVE  \/ \E i \in 1..Len(P) : P[i] = k
             \/ Head(Q).req = k
             \/ \E j \in 1..Len(T) : T[j].req = k
  <2>1. k # 0
    OBVIOUS
  <2>2. (\E i \in 1..Len(P) : P[i] = k) \/ \E j \in 1..Len(Q) : Q[j].req = k
    BY <2>1 DEF Apart
  <2> QED
    BY <1>3, <2>2
<1>7. ASSUME NEW i \in 1..Len(T)
      PROVE  /\ Before(Head(Q).req, T[i].req)
             /\ \A j \in 1..Len(T) : i < j => Before(T[i].req, T[j].req)
             /\ \A j \in 1..Len(P) : Before(P[j], T[i].req)
  BY <1>1, <1>2, <1>3 DEF Apart, T
<1>8. \A i \in 1..Len(P) : Before(P[i], Head(Q).req)
  BY <1>1, <1>2 DEF Apart
<1>9. /\ \A i \in 1..Len(P) : Between(P[i], n, a)
      /\ \A i, j \in 1..Len(P) : i < j => Before(P[i], P[j])
  BY DEF Apart
<1> QED
  BY <1>5, <1>6, <1>7, <1>8, <1>9 DEF Apart, T

\* A loss is told to Dart and to the worker.
LEMMA LineInterrupted ==
  ASSUME NEW P \in Seq(Reqs), NEW u \in Reqs, NEW Q \in Seq(Tasks), NEW t \in Tasks,
         t.req = 0, NEW n \in Nat, NEW a \in Nat, Apart(P, u, Q, n, a)
  PROVE  Apart(Append(P, 0), u, Append(Q, t), n, a)
<1>0. 0 \in Reqs
  BY BridgeAssumption DEF BridgeAssumption, Reqs
<1>1. /\ Len(Append(P, 0)) = Len(P) + 1 /\ Len(P) \in Nat
      /\ \A i \in 1..Len(P) : Append(P, 0)[i] = P[i] /\ i \in 1..(Len(P) + 1)
      /\ Append(P, 0)[Len(P) + 1] = 0
      /\ \A i \in 1..(Len(P) + 1) : i \in 1..Len(P) \/ i = Len(P) + 1
  BY <1>0, AppendProperties, LenProperties
<1>2. /\ Len(Append(Q, t)) = Len(Q) + 1 /\ Len(Q) \in Nat
      /\ \A i \in 1..Len(Q) : Append(Q, t)[i] = Q[i] /\ i \in 1..(Len(Q) + 1)
      /\ Append(Q, t)[Len(Q) + 1] = t
      /\ \A i \in 1..(Len(Q) + 1) : i \in 1..Len(Q) \/ i = Len(Q) + 1
  BY AppendProperties, LenProperties
<1> QED
  BY <1>1, <1>2 DEF Apart, Between, Before

\* The next request is queued.
LEMMA LineAsked ==
  ASSUME NEW P \in Seq(Reqs), NEW u \in Reqs, NEW Q \in Seq(Tasks), NEW t \in Tasks,
         NEW a \in Nat, t.req = a + 1, NEW n \in 0..a, Apart(P, u, Q, n, a)
  PROVE  Apart(P, u, Append(Q, t), n, a + 1)
<1>1. /\ Len(Append(Q, t)) = Len(Q) + 1 /\ Len(Q) \in Nat
      /\ \A i \in 1..Len(Q) : Append(Q, t)[i] = Q[i] /\ i \in 1..(Len(Q) + 1)
      /\ Append(Q, t)[Len(Q) + 1] = t /\ Len(Q) + 1 \in 1..(Len(Q) + 1)
      /\ \A i \in 1..(Len(Q) + 1) : i \in 1..Len(Q) \/ i = Len(Q) + 1
  BY AppendProperties, LenProperties
<1>2. /\ (n + 1)..(a + 1) = ((n + 1)..a) \cup {a + 1}
      /\ \A r \in (n + 1)..a : r < a + 1
  OBVIOUS
<1>3. \A i, j \in 1..(Len(Q) + 1) : i < j => i \in 1..Len(Q)
  BY <1>1
<1>4. \A r : Between(r, n, a) => Between(r, n, a + 1) /\ Before(r, a + 1)
  BY <1>2 DEF Between, Before
<1>5. Between(a + 1, n, a + 1)
  BY <1>2 DEF Between
<1> DEFINE R == Append(Q, t)
<1>6. /\ \A i \in 1..Len(P) : Between(P[i], n, a + 1) /\ Before(P[i], a + 1)
      /\ Between(u, n, a + 1) /\ Before(u, a + 1)
      /\ \A j \in 1..Len(Q) : Between(Q[j].req, n, a + 1) /\ Before(Q[j].req, a + 1)
  BY <1>4 DEF Apart
<1>7. \A j \in 1..Len(R) : Between(R[j].req, n, a + 1)
  BY <1>1, <1>5, <1>6
<1>8. ASSUME NEW k \in (n + 1)..(a + 1)
      PROVE  \/ \E i \in 1..Len(P) : P[i] = k
             \/ u = k
             \/ \E j \in 1..Len(R) : R[j].req = k
  <2>1. CASE k \in (n + 1)..a
    BY <1>1, <2>1 DEF Apart
  <2>2. CASE k = a + 1
    BY <1>1, <2>2
  <2> QED
    BY <1>2, <2>1, <2>2
<1>9. \A i, j \in 1..Len(R) : i < j => Before(R[i].req, R[j].req)
  BY <1>1, <1>3, <1>6 DEF Apart
<1>10. /\ \A j \in 1..Len(R) : Before(u, R[j].req)
       /\ \A i \in 1..Len(P), j \in 1..Len(R) : Before(P[i], R[j].req)
  BY <1>1, <1>6 DEF Apart
<1>11. /\ \A i, j \in 1..Len(P) : i < j => Before(P[i], P[j])
       /\ \A i \in 1..Len(P) : Before(P[i], u)
  BY DEF Apart
<1> QED
  BY <1>6, <1>7, <1>8, <1>9, <1>10, <1>11 DEF Apart

\* An answer, or the news of a loss, is delivered.
LEMMA LineDelivered ==
  ASSUME NEW P \in Seq(Reqs), P # <<>>, NEW u \in Reqs, NEW Q \in Seq(Tasks),
         NEW a \in Nat, NEW n \in 0..a, Apart(P, u, Q, n, a)
  PROVE  /\ Head(P) = 0 => Apart(Tail(P), u, Q, n, a)
         /\ Head(P) # 0 => /\ Head(P) = n + 1 /\ n + 1 \in 0..a
                           /\ Apart(Tail(P), u, Q, n + 1, a)
<1>1. /\ Len(Tail(P)) = Len(P) - 1 /\ Len(P) \in Nat /\ Len(P) > 0
      /\ Head(P) = P[1] /\ \A i \in 1..Len(Tail(P)) : Tail(P)[i] = P[i + 1]
  BY HeadTailProperties, LenProperties, EmptySeq
<1>2. /\ \A i \in 1..Len(Tail(P)) : i + 1 \in 1..Len(P) /\ 1 < i + 1
      /\ 1 \in 1..Len(P)
      /\ \A k \in 1..Len(P) :
           k = 1 \/ (k - 1 \in 1..Len(Tail(P)) /\ (k - 1) + 1 = k)
      /\ \A i, j \in 1..Len(Tail(P)) : i < j => i + 1 < j + 1
  BY <1>1
<1> DEFINE T == Tail(P)
<1>3. /\ \A i \in 1..Len(T) : T[i] = P[i + 1]
      /\ \A k \in 1..Len(P) : P[k] = Head(P) \/ \E i \in 1..Len(T) : P[k] = T[i]
  BY <1>1, <1>2
<1> HIDE DEF T
<1>4. /\ \A i \in 1..Len(T) : Between(T[i], n, a)
      /\ Between(u, n, a)
      /\ \A j \in 1..Len(Q) : Between(Q[j].req, n, a)
  BY <1>1, <1>2, <1>3 DEF Apart, T
<1>8. /\ \A i, j \in 1..Len(T) : i < j => Before(T[i], T[j])
      /\ \A i, j \in 1..Len(Q) : i < j => Before(Q[i].req, Q[j].req)
      /\ \A i \in 1..Len(T) : Before(T[i], u)
      /\ \A j \in 1..Len(Q) : Before(u, Q[j].req)
      /\ \A i \in 1..Len(T), j \in 1..Len(Q) : Before(T[i], Q[j].req)
  BY <1>1, <1>2, <1>3 DEF Apart, T
<1>5. \A k \in (n + 1)..a : \/ Head(P) = k
                            \/ \E i \in 1..Len(T) : T[i] = k
                            \/ u = k
                            \/ \E j \in 1..Len(Q) : Q[j].req = k
  BY <1>3 DEF Apart
<1>6. CASE Head(P) = 0
  <2>1. \A k \in (n + 1)..a : k # 0
    OBVIOUS
  <2>2. ASSUME NEW k \in (n + 1)..a
        PROVE  \/ \E i \in 1..Len(T) : T[i] = k
               \/ u = k
               \/ \E j \in 1..Len(Q) : Q[j].req = k
    BY <1>5, <1>6, <2>1
  <2>3. Apart(T, u, Q, n, a)
    BY <1>4, <1>8, <2>2 DEF Apart
  <2> QED
    BY <1>6, <2>3 DEF T
<1>7. CASE Head(P) # 0
  <2>1. Head(P) \in (n + 1)..a
    BY <1>1, <1>2, <1>7 DEF Apart, Between
  <2>2. n + 1 \in 0..a /\ n + 1 \in (n + 1)..a /\ ~(Head(P) < n + 1)
    BY <2>1
  <2>3. /\ \A i \in 1..Len(T) : Before(Head(P), T[i])
        /\ Before(Head(P), u)
        /\ \A j \in 1..Len(Q) : Before(Head(P), Q[j].req)
    BY <1>1, <1>2, <1>3 DEF Apart, T
  <2>4. Head(P) = n + 1
    <3>1. \A r : Before(Head(P), r) => r # n + 1
      BY <1>7, <2>2 DEF Before
    <3> QED
      BY <1>5, <2>2, <2>3, <3>1
  <2>5. \A r : Between(r, n, a) /\ Before(n + 1, r) => Between(r, n + 1, a)
    <3> SUFFICES ASSUME NEW r, Between(r, n, a), Before(n + 1, r), r # 0
                 PROVE  r \in (n + 1 + 1)..a
      BY DEF Between
    <3>1. r \in (n + 1)..a /\ n + 1 < r
      BY <2>2 DEF Between, Before
    <3> QED
      BY <3>1
  <2>6. /\ \A i \in 1..Len(T) : Between(T[i], n + 1, a)
        /\ Between(u, n + 1, a)
        /\ \A j \in 1..Len(Q) : Between(Q[j].req, n + 1, a)
    BY <1>4, <2>3, <2>4, <2>5
  <2>7. ASSUME NEW k \in (n + 1 + 1)..a
        PROVE  \/ \E i \in 1..Len(T) : T[i] = k
               \/ u = k
               \/ \E j \in 1..Len(Q) : Q[j].req = k
    <3>1. k \in (n + 1)..a /\ k # n + 1
      OBVIOUS
    <3> QED
      BY <1>5, <2>4, <3>1
  <2>8. Apart(T, u, Q, n + 1, a)
    BY <1>8, <2>6, <2>7 DEF Apart
  <2> QED
    BY <2>2, <2>4, <2>8 DEF T
<1> QED
  BY <1>6, <1>7

-----------------------------------------------------------------------------
(* What a step does to the line.                                           *)

Stays == UNCHANGED <<posts, queue, asked, answers>> /\ task'.req = task.req
Posted ==
  /\ posts' = Append(posts, task.req) /\ task'.req = 0
  /\ UNCHANGED <<queue, asked, answers>>
Taken ==
  /\ queue # <<>> /\ task.req = 0
  /\ task' = Head(queue) /\ queue' = Tail(queue)
  /\ UNCHANGED <<posts, asked, answers>>
Interrupted ==
  /\ posts' = Append(posts, 0) /\ queue' = Append(queue, Forget)
  /\ task' = task /\ UNCHANGED <<asked, answers>>
Asked == app = "up" /\ \E r \in Requests : Ask(r)
Delivered == app = "up" /\ Deliver
Moves == Stays \/ Posted \/ Taken \/ Interrupted \/ Asked \/ Delivered

\* What a change of one part of a record leaves alone.
LEMMA Kinds ==
  ASSUME Typed
  PROVE  /\ Sync.req = 0 /\ Sync.kind = "sync"
         /\ Forget.req = 0 /\ Forget.kind = "forget"
         /\ Exiting.req = 0 /\ Exiting.kind = "exit"
         /\ \A b \in Backends : /\ [task EXCEPT !.target = b].req = task.req
                              /\ [task EXCEPT !.target = b].kind = task.kind
         /\ \A ok \in BOOLEAN : [call EXCEPT !.ok = ok].why = call.why
         /\ [call EXCEPT !.id = nextId].why = call.why
         /\ task.kind \in Methods \cup Own
BY DEF Sync, Forget, Exiting, Task, Typed, WorkerType, CallType, Calls, Tasks, Own

\* A method is called in its place, ...
LEMMA Invoked ==
  ASSUME NEW b, NEW why, Invoke(b, why)
  PROVE  wpc' \in {"dial", "local"} /\ call'.why = why
BY DEF Invoke

\* ... returns to its task, ...
LEMMA ReturnedIs ==
  ASSUME Typed, NEW ok, Returned(ok)
  PROVE  wpc' = "returned" /\ call'.why = call.why
BY DEF Returned, Typed, CallType, Calls

\* ... and a connect with a target is still this connect.
LEMMA Chosen ==
  ASSUME Typed, NEW b \in Backends, Choose(b)
  PROVE  /\ task'.kind = task.kind /\ task'.req = task.req
         /\ wpc' \in {"dial", "local"} /\ call'.why \in {"replace", "start"}
BY Invoked DEF Choose, Typed, WorkerType, Tasks

\* A connect that looks for its backend finds it, or looks further.
LEMMA SelectIs ==
  ASSUME Typed, Select
  PROVE  \/ wpc' = "install"
         \/ wpc' \in {"dial", "local"} /\ call'.why \in {"replace", "start"}
<1>1. wpc' = "install" \/ Choose("service") \/ Choose("local")
  BY DEF Select, Now
<1>2. ASSUME NEW b \in Backends, Choose(b)
      PROVE  wpc' \in {"dial", "local"} /\ call'.why \in {"replace", "start"}
  BY <1>2, Chosen
<1>3. "service" \in Backends /\ "local" \in Backends
  BY DEF Backends
<1> QED
  BY <1>1, <1>2, <1>3

\* The same once the service was to be started.
LEMMA StartInstalledServiceIs ==
  ASSUME Typed, StartInstalledService
  PROVE  \/ wpc' = "again"
         \/ wpc' \in {"dial", "local"} /\ call'.why \in {"replace", "start"}
<1>1. wpc' = "again" \/ Choose("service") \/ Choose("local")
  BY DEF StartInstalledService, Now
<1>2. ASSUME NEW b \in Backends, Choose(b)
      PROVE  wpc' \in {"dial", "local"} /\ call'.why \in {"replace", "start"}
  BY <1>2, Chosen
<1>3. "service" \in Backends /\ "local" \in Backends
  BY DEF Backends
<1> QED
  BY <1>1, <1>2, <1>3

\* Every step moves the line in one of these ways, while the app is up.
LEMMA LineMoves ==
  ASSUME Typed, TasksInv, PlaceInv, Next, app' = "up"
  PROVE  Moves /\ app = "up"
<1> USE Records, Kinds DEF Moves, Stays, Posted, Taken, Interrupted, Asked,
       Delivered, TasksInv, PlaceInv, Proper, Own, Alive, Methods, AfterCall,
       Backends, dartVars, workerVars, linkVars, callVars, serviceVars, ghosts
<1>1. CASE \E r \in Requests : Ask(r)
  BY <1>1 DEF Ask, Task, Tasks, Methods, BridgeAssumption
<1>2. CASE Deliver
  BY <1>2 DEF Deliver
<1>3. CASE EndSession
  BY <1>3 DEF EndSession
<1>4. CASE Destroy
  BY <1>4 DEF Destroy
<1>5. CASE TakeTask
  BY <1>5 DEF TakeTask, Now, Invoke, StopUnattached
<1>6. CASE Ensure
  BY <1>6 DEF Ensure, EnsureConnected, Now, Invoke
<1>7. CASE Select
  BY <1>7 DEF Select, EnsureConnected, Choose, Now, Invoke
<1>8. CASE StartInstalledService
  BY <1>8 DEF StartInstalledService, Choose, Now, Invoke
<1>9. CASE Dial
  BY <1>9 DEF Dial, EnsureConnected, Returned
<1>10. CASE Send
  BY <1>10 DEF Send, Returned
<1>11. CASE Receive
  BY <1>11 DEF Receive, Returned
<1>12. CASE Timeout
  BY <1>12 DEF Timeout, Returned
<1>13. CASE Local
  BY <1>13 DEF Local, Returned
<1>14. CASE SyncReturned
  BY <1>14 DEF SyncReturned, Attach, Finish, Now
<1>15. CASE StatusReturned
  BY <1>15 DEF StatusReturned, Attach, QueriedBackend, Done, Finish, Post
<1>16. CASE StopReturned
  BY <1>16 DEF StopReturned, Now
<1>17. CASE ReplaceReturned
  BY <1>17 DEF ReplaceReturned, Invoke
<1>18. CASE StartReturned
  BY <1>18 DEF StartReturned, Attach, Now, Tasks
<1>19. CASE SetProxy
  BY <1>19 DEF SetProxy, Done, Finish, Post, Invoke
<1>20. CASE UndoReturned
  BY <1>20 DEF UndoReturned, ProxyFailed, Done, Finish, Post
<1>21. CASE RestoreProxy
  BY <1>21 DEF RestoreProxy, Restored, Done, Finish, Post, LeaveProcess
<1>22. CASE ForgetBackend
  BY <1>22 DEF ForgetBackend, RestoreAtOnce, Now, Finish
<1>23. CASE Shutdown
  BY <1>23 DEF Shutdown, StopActive, Now, Invoke
<1>24. CASE ReadLost
  BY <1>24 DEF ReadLost, OnBackendStatus, RunForget, Post
<1>25. CASE ReaderEnds
  BY <1>25 DEF ReaderEnds, ReportLoss, OnBackendStatus, RunForget, Post
<1>26. CASE \E b \in Backends : CoreLost(b)
  BY <1>26 DEF CoreLost, CoreStops, OnBackendStatus, RunForget, Post
<1>27. CASE \E b \in Backends : Rebuilt(b)
  BY <1>27 DEF Rebuilt, CoreStops, OnBackendStatus, RunForget, Post
<1>28. CASE \/ ReadAnswer
           \/ ReadFails
           \/ Serve
           \/ StartEnds
           \/ Respond
           \/ (\E b \in Backends : Rebuild(b))
  BY <1>28 DEF ReadAnswer, ReadFails, Rebuild, ReleasePending, Respond, Serve,
     StartEnds
<1>29. CASE \/ ServiceGoes
           \/ ServiceReturns
  BY <1>29 DEF ServiceGoes, ServiceReturns
<1> QED
  BY <1>1, <1>2, <1>3, <1>4, <1>5, <1>6, <1>7, <1>8, <1>9, <1>10, <1>11, <1>12,
     <1>13, <1>14, <1>15, <1>16, <1>17, <1>18, <1>19, <1>20, <1>21, <1>22,
     <1>23, <1>24, <1>25, <1>26, <1>27, <1>28, <1>29
     DEF Next, Worker, Task0, CallStep, AfterStep, Reader, Handler, Dart, Faults

\* A queue of proper tasks stays one.
LEMMA QueueKeeps ==
  ASSUME Typed, TasksInv,
         \/ queue' = queue
         \/ queue # <<>> /\ queue' = Tail(queue)
         \/ \E t \in Tasks : Proper(t) /\ t.kind # "exit" /\ queue' = Append(queue, t)
  PROVE  \A i \in DOMAIN queue' : Proper(queue'[i]) /\ queue'[i].kind # "exit"
<1>1. queue \in Seq(Tasks) /\ DOMAIN queue = 1..Len(queue) /\ Len(queue) \in Nat
  BY LenProperties DEF Typed, WorkerType
<1>2. CASE queue' = queue
  BY <1>2 DEF TasksInv
<1>3. CASE queue # <<>> /\ queue' = Tail(queue)
  <2>1. /\ queue' \in Seq(Tasks) /\ Len(queue') = Len(queue) - 1
        /\ \A i \in 1..Len(queue') : queue'[i] = queue[i + 1]
    BY <1>1, <1>3, HeadTailProperties
  <2>2. /\ DOMAIN queue' = 1..Len(queue')
        /\ \A i \in 1..Len(queue') : i + 1 \in DOMAIN queue
    BY <1>1, <2>1, LenProperties
  <2> QED
    BY <2>1, <2>2 DEF TasksInv
<1>4. CASE \E t \in Tasks : Proper(t) /\ t.kind # "exit" /\ queue' = Append(queue, t)
  <2>1. PICK t \in Tasks : Proper(t) /\ t.kind # "exit" /\ queue' = Append(queue, t)
    BY <1>4
  <2>2. /\ Append(queue, t) \in Seq(Tasks) /\ Len(Append(queue, t)) = Len(queue) + 1
        /\ \A i \in 1..Len(queue) : Append(queue, t)[i] = queue[i]
        /\ Append(queue, t)[Len(queue) + 1] = t
    BY <1>1, AppendProperties
  <2>3. DOMAIN Append(queue, t) = 1..(Len(queue) + 1)
    BY <2>2, LenProperties
  <2>4. \A i \in 1..(Len(queue) + 1) : i \in 1..Len(queue) \/ i = Len(queue) + 1
    BY <1>1
  <2>5. ASSUME NEW i \in DOMAIN queue'
        PROVE  Proper(queue'[i]) /\ queue'[i].kind # "exit"
    <3>1. CASE i \in 1..Len(queue)
      BY <1>1, <2>1, <2>2, <3>1 DEF TasksInv
    <3>2. CASE i = Len(queue) + 1
      BY <2>1, <2>2, <3>2
    <3> QED
      BY <2>1, <2>3, <2>4, <2>5, <3>1, <3>2
  <2> QED
    BY <2>5
<1> QED
  BY <1>2, <1>3, <1>4

\* The tasks stay proper, ...
LEMMA TasksStep ==
  ASSUME Typed, TasksInv, PlaceInv, Next
  PROVE  TasksInv'
<1> SUFFICES /\ \/ queue' = queue
                \/ queue # <<>> /\ queue' = Tail(queue)
                \/ \E t \in Tasks : /\ Proper(t) /\ t.kind # "exit"
                                    /\ queue' = Append(queue, t)
             /\ Proper(task)' /\ (wpc' = "idle" => task'.kind \in Own)
  BY QueueKeeps DEF TasksInv
<1> USE Records, Kinds DEF TasksInv, PlaceInv, Proper, Own, Alive, AfterCall,
       Methods, Backends, dartVars, workerVars, linkVars, callVars,
       serviceVars, ghosts
<1>1. CASE \E r \in Requests : Ask(r)
  <2>1. PICK r \in Requests : Ask(r)
    BY <1>1
  <2> DEFINE t == Task(r.method, asked + 1, r.mode)
  <2>2. t \in Tasks /\ queue' = Append(queue, t) /\ UNCHANGED <<task, wpc>>
    BY <2>1, AskIs DEF Ask
  <2>3. t.kind \in Methods /\ t.req = asked + 1 /\ asked \in Nat
    BY BridgeAssumption DEF BridgeAssumption, Typed, DartType, Reqs, Task
  <2>4. Proper(t) /\ t.kind # "exit"
    BY <2>3 DEF Methods
  <2> HIDE DEF t
  <2> QED
    BY <2>2, <2>4
<1>2. CASE TakeTask
  <2>1. 1 \in DOMAIN queue /\ queue[1] = Head(queue)
    BY <1>2, EmptySeq, LenProperties DEF TakeTask, Typed, WorkerType
  <2>2. Proper(Head(queue)) /\ Head(queue) \in Tasks /\ Head(queue).kind # "exit"
    BY <1>2, <2>1, Queues DEF TakeTask
  <2>3. Head(queue).kind \in {"sync", "connect", "forget", "disconnect", "status"}
    BY <2>2 DEF Tasks, Methods
  <2>4. wpc' # "idle"
    BY <1>2, <2>3 DEF TakeTask, Now, Invoke, StopUnattached
  <2> QED
    BY <1>2, <2>2, <2>4 DEF TakeTask
<1>3. CASE Ensure
  BY <1>3 DEF Ensure, EnsureConnected, Now, Invoke
<1>4. CASE Select
  <2>1. UNCHANGED queue /\ task'.kind = task.kind /\ task'.req = task.req
    BY <1>4, Chosen DEF Select
  <2>2. wpc' # "idle"
    BY <1>4, Chosen DEF Select, Now
  <2> QED
    BY <2>1, <2>2
<1>5. CASE StartInstalledService
  <2>1. UNCHANGED queue /\ task'.kind = task.kind /\ task'.req = task.req
    BY <1>5, Chosen DEF StartInstalledService
  <2>2. wpc' # "idle"
    BY <1>5, Chosen DEF StartInstalledService, Now
  <2> QED
    BY <2>1, <2>2
<1>6. CASE Dial
  BY <1>6 DEF Dial, EnsureConnected, Returned
<1>7. CASE Send
  BY <1>7 DEF Send, Returned
<1>8. CASE Receive
  BY <1>8 DEF Receive, Returned
<1>9. CASE Timeout
  BY <1>9 DEF Timeout, Returned
<1>10. CASE Local
  BY <1>10 DEF Local, Returned
<1>11. CASE SyncReturned
  BY <1>11 DEF SyncReturned, Attach, Finish, Now
<1>12. CASE StatusReturned
  BY <1>12 DEF StatusReturned, Attach, QueriedBackend, Done, Finish, Post
<1>13. CASE StopReturned
  BY <1>13 DEF StopReturned, Now
<1>14. CASE ReplaceReturned
  BY <1>14 DEF ReplaceReturned, Invoke
<1>15. CASE StartReturned
  BY <1>15 DEF StartReturned, Attach, Now, Tasks
<1>16. CASE SetProxy
  BY <1>16 DEF SetProxy, Done, Finish, Post, Invoke
<1>17. CASE UndoReturned
  BY <1>17 DEF UndoReturned, ProxyFailed, Done, Finish, Post
<1>18. CASE RestoreProxy
  BY <1>18 DEF RestoreProxy, Restored, Done, Finish, Post, LeaveProcess
<1>19. CASE ForgetBackend
  BY <1>19 DEF ForgetBackend, RestoreAtOnce, Now, Finish
<1>20. CASE Shutdown
  BY <1>20 DEF Shutdown, StopActive, Now, Invoke
<1>21. CASE ReadLost
  BY <1>21 DEF ReadLost, OnBackendStatus, RunForget, Post
<1>22. CASE ReaderEnds
  BY <1>22 DEF ReaderEnds, ReportLoss, OnBackendStatus, RunForget, Post
<1>23. CASE \E b \in Backends : CoreLost(b)
  BY <1>23 DEF CoreLost, CoreStops, OnBackendStatus, RunForget, Post
<1>24. CASE \E b \in Backends : Rebuilt(b)
  BY <1>24 DEF Rebuilt, CoreStops, OnBackendStatus, RunForget, Post
<1>25. CASE \/ Deliver
           \/ EndSession
           \/ Destroy
           \/ ReadAnswer
           \/ ReadFails
           \/ Serve
  BY <1>25 DEF Deliver, Destroy, EndSession, ReadAnswer, ReadFails,
     ReleasePending, Serve
<1>26. CASE \/ StartEnds
           \/ Respond
           \/ (\E b \in Backends : Rebuild(b))
           \/ ServiceGoes
           \/ ServiceReturns
  BY <1>26 DEF Rebuild, Respond, ServiceGoes, ServiceReturns, StartEnds
<1> QED
  BY <1>1, <1>2, <1>3, <1>4, <1>5, <1>6, <1>7, <1>8, <1>9, <1>10, <1>11, <1>12,
     <1>13, <1>14, <1>15, <1>16, <1>17, <1>18, <1>19, <1>20, <1>21, <1>22,
     <1>23, <1>24, <1>25, <1>26
     DEF Next, Worker, Task0, CallStep, AfterStep, Reader, Handler, Dart, Faults

\* ... and take the worker only to places of their kind.
LEMMA PlaceStep ==
  ASSUME Typed, TasksInv, PlaceInv, Next
  PROVE  PlaceInv'
<1> USE Records, Kinds DEF TasksInv, PlaceInv, Proper, Own, AfterCall, Methods,
       Backends, dartVars, workerVars, linkVars, callVars, serviceVars, ghosts
<1>1. CASE TakeTask
  <2>1. 1 \in DOMAIN queue /\ queue[1] = Head(queue)
    BY <1>1, EmptySeq, LenProperties DEF TakeTask, Typed, WorkerType
  <2>2. Head(queue) \in Tasks /\ Head(queue).kind # "exit"
    BY <1>1, <2>1, Queues DEF TakeTask, TasksInv
  <2>3. Head(queue).kind \in {"sync", "connect", "forget", "disconnect", "status"}
    BY <2>2 DEF Tasks, Methods
  <2>4. CASE Head(queue).kind = "sync"
    BY <1>1, <2>4 DEF TakeTask, Now
  <2>5. CASE Head(queue).kind = "connect"
    BY <1>1, <2>5 DEF TakeTask, Now
  <2>6. CASE Head(queue).kind = "forget"
    BY <1>1, <2>6 DEF TakeTask, Now
  <2>7. CASE Head(queue).kind = "disconnect" /\ active # "none"
    <3>1. task'.kind = "disconnect" /\ Invoke(active, "stop")
      BY <1>1, <2>7 DEF TakeTask
    <3>2. wpc' \in {"dial", "local"} /\ call'.why = "stop"
      BY <3>1, Invoked
    <3> QED
      BY <3>1, <3>2
  <2>8. CASE Head(queue).kind = "disconnect" /\ active = "none"
    BY <1>1, <2>8 DEF TakeTask, StopUnattached, Now
  <2>9. CASE Head(queue).kind = "status" /\ active # "none"
    <3>1. task'.kind = "status" /\ Invoke(active, "query")
      BY <1>1, <2>9 DEF TakeTask
    <3>2. wpc' \in {"dial", "local"} /\ call'.why = "query"
      BY <3>1, Invoked
    <3> QED
      BY <3>1, <3>2
  <2>10. CASE Head(queue).kind = "status" /\ active = "none"
    BY <1>1, <2>10 DEF TakeTask, Now
  <2> QED
    BY <2>3, <2>4, <2>5, <2>6, <2>7, <2>8, <2>9, <2>10
<1>2. CASE Ensure
  <2>1. task.kind \in {"sync", "status", "disconnect"} /\ task' = task
    BY <1>2 DEF Ensure
  <2>2. CASE wpc' \in {"dial", "local"} /\ call'.why = "query"
             /\ task.kind \in {"sync", "status"}
    BY <2>1, <2>2
  <2>3. CASE wpc' \in {"dial", "local"} /\ call'.why = "stop"
             /\ task.kind = "disconnect"
    BY <2>1, <2>3
  <2>4. CASE wpc' = "restore" /\ task.kind \in {"sync", "disconnect"}
    BY <2>1, <2>4
  <2>5. CASE task.kind = "sync"
    BY <1>2, <2>2, <2>4, <2>5 DEF Ensure, Now, Invoke
  <2>6. CASE task.kind = "status"
    BY <1>2, <2>2, <2>6 DEF Ensure, Now, Invoke
  <2>7. CASE task.kind = "disconnect"
    BY <1>2, <2>3, <2>4, <2>7 DEF Ensure, Now, Invoke
  <2> QED
    BY <2>1, <2>5, <2>6, <2>7
<1>3. CASE Select
  <2>1. task.kind = "connect" /\ task'.kind = "connect"
    BY <1>3 DEF Select, Choose
  <2>2. CASE wpc' = "install"
    BY <2>1, <2>2
  <2>3. CASE wpc' \in {"dial", "local"} /\ call'.why \in {"replace", "start"}
    BY <2>1, <2>3
  <2>4. \/ wpc' = "install"
        \/ wpc' \in {"dial", "local"} /\ call'.why \in {"replace", "start"}
    BY <1>3, SelectIs
  <2> QED
    BY <2>2, <2>3, <2>4
<1>4. CASE StartInstalledService
  <2>1. task.kind = "connect" /\ task'.kind = "connect"
    BY <1>4 DEF StartInstalledService, Choose
  <2>2. CASE wpc' = "again"
    BY <2>1, <2>2
  <2>3. CASE wpc' \in {"dial", "local"} /\ call'.why \in {"replace", "start"}
    BY <2>1, <2>3
  <2>4. \/ wpc' = "again"
        \/ wpc' \in {"dial", "local"} /\ call'.why \in {"replace", "start"}
    BY <1>4, StartInstalledServiceIs
  <2> QED
    BY <2>2, <2>3, <2>4
<1>5. CASE Dial
  BY <1>5 DEF Dial, EnsureConnected, Returned
<1>6. CASE Send
  BY <1>6 DEF Send, Returned
<1>7. CASE Receive
  BY <1>7 DEF Receive, Returned
<1>8. CASE Timeout
  BY <1>8 DEF Timeout, Returned
<1>9. CASE Local
  <2>1. wpc = "local" /\ task' = task /\ call'.why = call.why
    BY <1>9, ReturnedIs DEF Local
  <2>2. wpc' \in {"local", "returned"}
    BY <1>9 DEF Local, Returned
  <2> QED
    BY <2>1, <2>2
<1>10. CASE SyncReturned
  BY <1>10 DEF SyncReturned, Attach, Finish, Now
<1>11. CASE StatusReturned
  BY <1>11 DEF StatusReturned, Attach, QueriedBackend, Done, Finish, Post
<1>12. CASE StopReturned
  BY <1>12 DEF StopReturned, Now
<1>13. CASE ReplaceReturned
  BY <1>13 DEF ReplaceReturned, Invoke
<1>14. CASE StartReturned
  BY <1>14 DEF StartReturned, Attach, Now, Tasks
<1>15. CASE SetProxy
  BY <1>15 DEF SetProxy, Done, Finish, Post, Invoke
<1>16. CASE UndoReturned
  BY <1>16 DEF UndoReturned, ProxyFailed, Done, Finish, Post
<1>17. CASE RestoreProxy
  BY <1>17 DEF RestoreProxy, Restored, Done, Finish, Post, LeaveProcess
<1>18. CASE ForgetBackend
  BY <1>18 DEF ForgetBackend, RestoreAtOnce, Now, Finish
<1>19. CASE Shutdown
  BY <1>19 DEF Shutdown, StopActive, Now, Invoke
<1>20. CASE \/ (\E r \in Requests : Ask(r))
           \/ Deliver
           \/ EndSession
           \/ Destroy
           \/ ReadAnswer
           \/ ReadLost
  <2>1. UNCHANGED <<task, wpc, call>>
    BY <1>20 DEF Ask, BridgeAssumption, Deliver, Destroy, EndSession, Methods,
       OnBackendStatus, Post, ReadAnswer, ReadLost, RunForget, Task, Tasks
  <2> QED
    BY <2>1
<1>21. CASE \/ ReadFails
           \/ ReaderEnds
           \/ Serve
           \/ StartEnds
           \/ Respond
           \/ (\E b \in Backends : CoreLost(b))
  <2>1. UNCHANGED <<task, wpc, call>>
    BY <1>21 DEF CoreLost, CoreStops, OnBackendStatus, Post, ReadFails,
       ReaderEnds, ReleasePending, ReportLoss, Respond, RunForget, Serve,
       StartEnds
  <2> QED
    BY <2>1
<1>22. CASE \/ (\E b \in Backends : Rebuild(b))
           \/ (\E b \in Backends : Rebuilt(b))
           \/ ServiceGoes
           \/ ServiceReturns
  <2>1. UNCHANGED <<task, wpc, call>>
    BY <1>22 DEF CoreStops, OnBackendStatus, Post, Rebuild, Rebuilt, RunForget,
       ServiceGoes, ServiceReturns
  <2> QED
    BY <2>1
<1> QED
  BY <1>1, <1>2, <1>3, <1>4, <1>5, <1>6, <1>7, <1>8, <1>9, <1>10, <1>11, <1>12,
     <1>13, <1>14, <1>15, <1>16, <1>17, <1>18, <1>19, <1>20, <1>21, <1>22
     DEF Next, Worker, Task0, CallStep, AfterStep, Reader, Handler, Dart, Faults

\* Nothing is answered in the step in which the app goes.
LEMMA LineAnswers ==
  ASSUME Next, app' # "up"
  PROVE  answers' = answers
<1> USE DEF dartVars
<1>1. CASE \E r \in Requests : Ask(r)
  BY <1>1 DEF Ask, Task, Tasks, Methods, BridgeAssumption
<1>2. CASE Deliver
  BY <1>2 DEF Deliver
<1>3. CASE EndSession
  BY <1>3 DEF EndSession
<1>4. CASE Destroy
  BY <1>4 DEF Destroy
<1>5. CASE \/ TakeTask
           \/ Ensure
           \/ Select
           \/ StartInstalledService
           \/ Dial
           \/ Send
  BY <1>5 DEF Choose, Dial, Ensure, EnsureConnected, Invoke, Now, Returned,
     Select, Send, StartInstalledService, StopUnattached, TakeTask
<1>6. CASE \/ Receive
           \/ Timeout
           \/ Local
           \/ SyncReturned
           \/ StatusReturned
           \/ StopReturned
  BY <1>6 DEF Attach, Done, Finish, Local, Now, Post, QueriedBackend, Receive,
     Returned, StatusReturned, StopReturned, SyncReturned, Timeout
<1>7. CASE \/ ReplaceReturned
           \/ StartReturned
           \/ SetProxy
           \/ UndoReturned
           \/ RestoreProxy
           \/ ForgetBackend
  BY <1>7 DEF Attach, Done, Finish, ForgetBackend, Invoke, LeaveProcess, Now,
     Post, ProxyFailed, ReplaceReturned, RestoreAtOnce, RestoreProxy, Restored, SetProxy,
     StartReturned, Tasks, UndoReturned
<1>8. CASE \/ Shutdown
           \/ ReadAnswer
           \/ ReadLost
           \/ ReadFails
           \/ ReaderEnds
           \/ Serve
  BY <1>8 DEF Invoke, Now, OnBackendStatus, Post, ReadAnswer, ReadFails,
     ReadLost, ReaderEnds, ReleasePending, ReportLoss, RunForget, Serve,
     Shutdown, StopActive
<1>9. CASE \/ StartEnds
           \/ Respond
           \/ (\E b \in Backends : CoreLost(b))
           \/ (\E b \in Backends : Rebuild(b))
           \/ (\E b \in Backends : Rebuilt(b))
           \/ ServiceGoes
  BY <1>9 DEF CoreLost, CoreStops, OnBackendStatus, Post, Rebuild, Rebuilt,
     Respond, RunForget, ServiceGoes, StartEnds
<1>10. CASE ServiceReturns
  BY <1>10 DEF ServiceReturns
<1> QED
  BY <1>1, <1>2, <1>3, <1>4, <1>5, <1>6, <1>7, <1>8, <1>9, <1>10
     DEF Next, Worker, Task0, CallStep, AfterStep, Reader, Handler, Dart, Faults

\* The order of the line, while the app is up.
LineInv ==
  app = "up" =>
    \E n \in 0..asked :
      /\ \A i \in DOMAIN answers : answers[i] = (IF i <= n THEN 1 ELSE 0)
      /\ Ordered(Line, n, asked)

\* Every step keeps it.
LEMMA LineStep ==
  ASSUME Typed, TasksInv, PlaceInv, LineInv, Next, Typed',
         answers \in [1..MaxRequests -> {0, 1}]
  PROVE  LineInv' /\ answers' \in [1..MaxRequests -> {0, 1}]
<1>1. /\ posts \in Seq(Reqs) /\ queue \in Seq(Tasks) /\ task.req \in Reqs
      /\ asked \in Nat /\ DOMAIN answers = 1..MaxRequests
  BY Records, BridgeAssumption DEF Typed, DartType, WorkerType, Reqs, BridgeAssumption
<1>2. /\ posts' \in Seq(Reqs) /\ queue' \in Seq(Tasks) /\ task'.req \in Reqs
      /\ asked' \in Nat
  BY BridgeAssumption DEF Typed, DartType, WorkerType, Tasks, Reqs, BridgeAssumption
<1>3. /\ Line = LineOf(posts, task.req, queue)
      /\ Line' = LineOf(posts', task'.req, queue')
  BY DEF Line, LineOf
<1>4. CASE app' # "up"
  <2>1. answers' = answers
    BY <1>4, LineAnswers
  <2> QED
    BY <1>4, <2>1 DEF LineInv
<1>5. CASE app' = "up"
  <2>1. Moves /\ app = "up"
    BY <1>5, LineMoves
  <2>2. PICK n \in 0..asked :
          /\ \A i \in DOMAIN answers : answers[i] = (IF i <= n THEN 1 ELSE 0)
          /\ Ordered(Line, n, asked)
    BY <2>1 DEF LineInv
  <2>3. n \in Nat /\ Apart(posts, task.req, queue, n, asked)
    BY <1>1, <1>3, <2>2, LineParts
  <2>4. SUFFICES \E m \in 0..asked' :
                   /\ \A i \in DOMAIN answers' : answers'[i] = (IF i <= m THEN 1 ELSE 0)
                   /\ Apart(posts', task'.req, queue', m, asked')
                   /\ answers' \in [1..MaxRequests -> {0, 1}]
    <3>1. \A m \in 0..asked' : m \in Nat
      BY <1>2
    <3> QED
      BY <1>2, <1>3, <3>1, LineParts DEF LineInv
  <2>5. CASE Stays
    BY <2>2, <2>3, <2>5 DEF Stays
  <2>6. CASE Posted
    <3>1. Apart(posts', task'.req, queue', n, asked')
      BY <1>1, <2>3, <2>6, LinePosted DEF Posted
    <3> QED
      BY <2>2, <2>6, <3>1 DEF Posted
  <2>7. CASE Taken
    <3>1. Apart(posts', task'.req, queue', n, asked')
      BY <1>1, <2>3, <2>7, LineTaken DEF Taken
    <3> QED
      BY <2>2, <2>7, <3>1 DEF Taken
  <2>8. CASE Interrupted
    <3>1. Forget \in Tasks /\ Forget.req = 0
      BY Records DEF Forget, Task
    <3>2. Apart(posts', task'.req, queue', n, asked')
      BY <1>1, <2>3, <2>8, <3>1, LineInterrupted DEF Interrupted
    <3> QED
      BY <2>2, <2>8, <3>2 DEF Interrupted
  <2>9. CASE Asked
    <3>1. PICK r \in Requests : Ask(r)
      BY <2>9 DEF Asked
    <3>2. Task(r.method, asked + 1, r.mode) \in Tasks
      BY <3>1, AskIs
    <3>3. Task(r.method, asked + 1, r.mode).req = asked + 1
      BY DEF Task
    <3>4. /\ queue' = Append(queue, Task(r.method, asked + 1, r.mode))
          /\ asked' = asked + 1 /\ UNCHANGED <<posts, task, answers>>
      BY <3>1 DEF Ask
    <3>5. Apart(posts', task'.req, queue', n, asked')
      BY <1>1, <2>2, <2>3, <3>2, <3>3, <3>4, LineAsked
    <3>6. n \in 0..asked'
      BY <1>1, <3>4
    <3> QED
      BY <2>2, <3>4, <3>5, <3>6
  <2>10. CASE Delivered
    <3>1. /\ posts # <<>> /\ posts' = Tail(posts)
          /\ answers' = [i \in DOMAIN answers |->
                          IF i = Head(posts) THEN answers[i] + 1 ELSE answers[i]]
          /\ UNCHANGED <<asked, task, queue>>
      BY <2>10 DEF Delivered, Deliver, workerVars
    <3>2. CASE Head(posts) = 0
      <4>1. answers' = answers
        BY <1>1, <3>1, <3>2
      <4>2. Apart(posts', task'.req, queue', n, asked')
        BY <1>1, <2>3, <3>1, <3>2, LineDelivered
      <4> QED
        BY <2>2, <3>1, <4>1, <4>2
    <3>3. CASE Head(posts) # 0
      <4>1. /\ Head(posts) = n + 1 /\ n + 1 \in 0..asked
            /\ Apart(posts', task'.req, queue', n + 1, asked')
        BY <1>1, <2>3, <3>1, <3>3, LineDelivered
      <4>2. \A i \in DOMAIN answers' : answers'[i] = (IF i <= n + 1 THEN 1 ELSE 0)
        <5> SUFFICES ASSUME NEW i \in 1..MaxRequests
                     PROVE  answers'[i] = (IF i <= n + 1 THEN 1 ELSE 0)
          BY <1>1, <3>1
        <5>1. answers[i] = (IF i <= n THEN 1 ELSE 0)
          BY <1>1, <2>2
        <5>2. answers'[i] = IF i = n + 1 THEN answers[i] + 1 ELSE answers[i]
          BY <1>1, <3>1, <4>1
        <5> QED
          BY <2>3, <5>1, <5>2
      <4>3. answers' \in [1..MaxRequests -> {0, 1}]
        <5>1. /\ DOMAIN answers' = 1..MaxRequests
              /\ answers' = [i \in 1..MaxRequests |-> answers'[i]]
          BY <1>1, <3>1
        <5> QED
          BY <4>2, <5>1
      <4> QED
        BY <3>1, <4>1, <4>2, <4>3
    <3> QED
      BY <3>2, <3>3
  <2> QED
    BY <2>1, <2>5, <2>6, <2>7, <2>8, <2>9, <2>10 DEF Moves
<1> QED
  BY <1>4, <1>5

-----------------------------------------------------------------------------
(* The invariant.                                                          *)

\* The invariant in the form of the lemmas.
LEMMA InvParts ==
  IInv <=> /\ Typed /\ answers \in [1..MaxRequests -> {0, 1}]
           /\ LineInv /\ TasksInv /\ PlaceInv
BY TypeParts DEF IInv, InOrder, LineInv, Ordered

\* It holds at the start, ...
LEMMA InitInv ==
  Init => IInv
<1> SUFFICES ASSUME Init PROVE IInv
  OBVIOUS
<1> USE DEF Init
<1>0. MaxRequests \in Nat /\ 0 \in Reqs
  BY BridgeAssumption DEF BridgeAssumption, Reqs
<1>1. Sync \in Tasks /\ Sync.req = 0 /\ Sync.kind = "sync"
  BY <1>0 DEF Sync, Task, Tasks, Methods, Modes, Backends
<1>2. NoCall \in Calls /\ NoHandler \in Handlers /\ NoReply \in Replies
  BY <1>0 DEF NoCall, NoHandler, NoReply, Calls, Handlers, Replies, Why
<1>3. queue \in Seq(Tasks) /\ Len(queue) = 1 /\ queue[1] = Sync
  BY <1>1
<1>4. DartType /\ WorkerType /\ LinkType
  BY <1>0, <1>1, <1>3, EmptySeq DEF DartType, WorkerType, LinkType, Places
<1>5. BitsType /\ CallType /\ CountType
  BY <1>2 DEF BitsType, CallType, CountType
<1>6. ServiceType
  BY <1>2 DEF ServiceType, CoreStates
<1>7. answers \in [1..MaxRequests -> {0, 1}] /\ TasksInv /\ PlaceInv
  BY <1>1, <1>3, LenProperties DEF TasksInv, PlaceInv, Proper, Own
<1>8. LineInv
  <2>1. posts \in Seq(Reqs) /\ Len(posts) = 0 /\ task.req = 0 /\ queue[1].req = 0
    BY <1>1, <1>3, EmptySeq
  <2>2. Apart(posts, 0, queue, 0, 0)
    BY <1>3, <2>1 DEF Apart, Between, Before
  <2>3. Line = LineOf(posts, 0, queue)
    BY <2>1 DEF Line, LineOf
  <2>4. Ordered(Line, 0, asked)
    BY <1>0, <1>3, <2>1, <2>2, <2>3, LineParts
  <2>5. \A i \in DOMAIN answers : answers[i] = (IF i <= 0 THEN 1 ELSE 0)
    BY <1>0
  <2> QED
    BY <2>4, <2>5 DEF LineInv
<1> QED
  BY <1>4, <1>5, <1>6, <1>7, <1>8, InvParts DEF Typed

\* ... and every step keeps it.
LEMMA StepKeeps ==
  IInv /\ [Next]_vars => IInv'
<1> SUFFICES ASSUME IInv, [Next]_vars PROVE IInv'
  OBVIOUS
<1>1. CASE Next
  <2>1. /\ Typed /\ LineInv /\ TasksInv /\ PlaceInv
        /\ answers \in [1..MaxRequests -> {0, 1}]
    BY InvParts
  <2>2. Typed'
    BY <1>1, <2>1, DartTypeStep, WorkerTypeStep, BitsTypeStep, LinkTypeStep,
       CallTypeStep, ServiceTypeStep, CountTypeStep DEF Typed
  <2>3. TasksInv' /\ PlaceInv'
    BY <1>1, <2>1, TasksStep, PlaceStep
  <2>4. LineInv' /\ answers' \in [1..MaxRequests -> {0, 1}]
    BY <1>1, <2>1, <2>2, LineStep
  <2>5. TypeOK'
    BY <2>2, <2>4 DEF TypeOK, Typed, DartType, WorkerType, BitsType, LinkType, CallType,
       ServiceType, CountType, Calls, Wires, Handlers, Places
  <2>6. InOrder'
    BY <2>4, <2>5 DEF InOrder, LineInv, Ordered
  <2> QED
    BY <2>3, <2>6 DEF IInv
<1>2. CASE UNCHANGED vars
  <2>0. UNCHANGED <<app, asked, posts, answers, queue, task, wpc, call>>
    BY <1>2 DEF vars, dartVars, workerVars, callVars
  <2>1. TypeOK'
    BY <1>2 DEF vars, dartVars, workerVars, linkVars, callVars, serviceVars, ghosts,
       IInv, InOrder, TypeOK
  <2>2. Line' = Line
    BY <2>0 DEF Line
  <2>3. InOrder'
    BY <2>0, <2>1, <2>2 DEF IInv, InOrder
  <2>4. TasksInv' /\ PlaceInv'
    BY <2>0 DEF IInv, TasksInv, PlaceInv, Proper
  <2> QED
    BY <2>3, <2>4 DEF IInv
<1> QED
  BY <1>1, <1>2

\* Whatever fails, is given up or is lost on the way to the service, and whatever
\* the bridge does by itself in between, the futures of Dart complete in the order
\* of the calls, each once (vpn_service_bridge.cpp: the worker's queue, the tasks
\* posted to the platform thread).
THEOREM AnswersInOrder == Spec => []InOrder
<1>1. IInv => InOrder
  BY DEF IInv
<1> QED
  BY InitInv, StepKeeps, <1>1, PTL DEF Spec
=============================================================================
