------------------------ MODULE CoreControllerProofs ------------------------
(***************************************************************************)
(* Safety of CoreController, for any number of clients, networks, adapters,*)
(* servers and prefixes and any bounds: each part of the inductive         *)
(* invariant IInv is kept by every step, and the properties follow.        *)
(***************************************************************************)
EXTENDS CoreControllerTypes

(* The session: what is in place at each place of the worker.              *)

LEMMA AdaptersTyped ==
  TypeOK => adapters \subseteq Adapters /\ None \notin Adapters
BY ConstantsAssumption DEF TypeOK, ValuesOK

LEMMA SessionStep ==
  TypeOK /\ LocalsInv /\ SessionInv /\ StoppedIsClean /\ IdleIsConsistent
  /\ [Next]_vars
    => SessionInv' /\ StoppedIsClean' /\ IdleIsConsistent'
<1> DEFINE Inv == SessionInv /\ StoppedIsClean /\ IdleIsConsistent
<1> SUFFICES ASSUME TypeOK, LocalsInv, Inv, [Next]_vars PROVE Inv'
  OBVIOUS
<1> USE ConstantsAssumption
    DEF LocalsInv, SessionInv, StoppedIsClean, IdleIsConsistent, Held, Clean,
        Settled, Building, Status, callVars, localVars, tunnelVars, watchVars,
        coreVars, machineVars, ghosts, bounds
<1>1. CASE Threads
  BY <1>1, ThreadsFrame
<1>2. CASE HostSteps
  BY <1>2 DEF HostSteps, HostGoes, Boot, OpenServer, GiveUp, StopController,
     JoinClients, DestroyController, GoDown, FreshController
<1>3. CASE Crash
  BY <1>3 DEF Crash, FreshController
<1>4. CASE Waking
  BY <1>4 DEF Waking, WakeForQueue, WakeForExit, WakeForNetwork,
     NetworkSettled, BeginTearDown, Idle
<1>5. CASE Draining
  <2>1. CASE TakeStart \/ TakeCleanup \/ QueueDrained
    BY <1>5, <2>1 DEF TakeStart, TakeCleanup, Take, QueueDrained
  <2>2. CASE TakeStop \/ TakeShutdown
    BY <1>5, <2>2 DEF TakeStop, TakeShutdown, ShutdownStops, DoStop, Take
  <2>3. CASE Complete
    BY <1>5, <2>3 DEF Complete, AfterCommand
  <2> QED BY <1>5, <2>1, <2>2, <2>3 DEF Draining
<1>6. CASE Cleaning
  BY <1>6 DEF Cleaning, CleanupRoute, CleanupEnd, TearDownCore, RemoveGuard,
     TearDownRoute, TearDownEnd, PublishStopped
<1>7. CASE Starting
  <2>1. CASE StartBegin \/ FindRoute \/ ResolveServers
    BY <2>1 DEF StartBegin, FindRoute, TakeRoute, ResolveServers, Go, Fail
  <2>2. CASE AddRoute
    BY <2>2 DEF AddRoute, Fail, AddRouteResult
  <2>3. CASE SaveRoute \/ RoutesAdded \/ LaunchXray \/ FindAdapter
    BY <2>3 DEF SaveRoute, RoutesAdded, LaunchXray, FindAdapter, Go, Fail
  <2>4. CASE ConfigureTun
    BY <2>4, AdaptersTyped DEF ConfigureTun, Fail
  <2>5. CASE InstallGuard \/ AwaitListener
    BY <2>5 DEF InstallGuard, AwaitListener, Go, Fail
  <2>6. CASE StartFinish
    BY <2>6 DEF StartFinish, RememberOptions, StartNetworkWatch, Go
  <2>7. CASE StartFailed \/ RebuildFailed
    BY <2>7 DEF StartFailed, RebuildFailed, Go
  <2> QED BY <1>7, <2>1, <2>2, <2>3, <2>4, <2>5, <2>6, <2>7 DEF Starting
<1>8. CASE Machine
  BY <1>8, MachineFrame DEF Machine, NetworkChanges, OtherNotification,
     CoreExits, CoreRuns, CoreCreatesAdapter, AdapterVanishes
<1>9. CASE UNCHANGED vars
  BY <1>9 DEF vars
<1> QED
  BY <1>1, <1>2, <1>3, <1>4, <1>5, <1>6, <1>7, <1>8, <1>9 DEF Next, Worker

-----------------------------------------------------------------------------
(* Notifications and wake-ups.                                             *)

LEMMA WatchStep ==
  FlagsOK /\ WatchMissesNothing /\ [Next]_vars => WatchMissesNothing'
<1> SUFFICES ASSUME FlagsOK, WatchMissesNothing, [Next]_vars
             PROVE  WatchMissesNothing'
  OBVIOUS
<1> USE DEF FlagsOK, WatchMissesNothing, callVars, localVars, tunnelVars,
            watchVars, coreVars, machineVars, ghosts, bounds
<1>1. CASE Threads
  BY <1>1, ThreadsFrame, Zenon
<1>2. CASE HostSteps
  BY <1>2, Zenon DEF HostSteps, HostGoes, Boot, OpenServer, GiveUp, StopController,
     JoinClients, DestroyController, GoDown, FreshController
<1>3. CASE Crash
  BY <1>3, Zenon DEF Crash, FreshController
<1>4. CASE Waking
  <2>1. CASE WakeForQueue \/ WakeForExit
    BY <2>1, Zenon DEF WakeForQueue, WakeForExit
  <2>2. CASE WakeForNetwork
    BY <2>2, Zenon DEF WakeForNetwork, ArmSettleDelay
  <2>3. CASE NetworkSettled
    BY <2>3, Zenon DEF NetworkSettled
  <2> QED BY <1>4, <2>1, <2>2, <2>3 DEF Waking
<1>5. CASE Draining
  BY <1>5, DrainingFrame, Zenon
<1>6. CASE Cleaning
  BY <1>6, CleaningFrame, Zenon DEF Cleaning, CleanupRoute, CleanupEnd,
     TearDownCore, TearDownRoute, TearDownEnd, PublishStopped
<1>7. CASE Starting
  <2>1. CASE StartFinish
    BY <2>1, Zenon DEF StartFinish, StartNetworkWatch
  <2>2. CASE ~StartFinish
    <3>1. UNCHANGED <<watchVars, net, seen>>
      BY <1>7, <2>2, Zenon DEF Starting, StartBegin, FindRoute, TakeRoute,
         ResolveServers, AddRoute, SaveRoute, RoutesAdded, LaunchXray,
         FindAdapter, ConfigureTun, InstallGuard, AwaitListener, StartFailed,
         RebuildFailed
    <3> QED BY <3>1, Zenon
  <2> QED BY <2>1, <2>2
<1>8. CASE Machine
  <2>1. CASE UNCHANGED <<net, netEvent>>
    BY <1>8, <2>1, MachineFrame, Zenon
  <2>2. CASE netEvent' = (netEvent \/ watch)
    BY <1>8, <2>2, MachineFrame, Zenon
  <2> QED
    BY <1>8, <2>1, <2>2, Zenon DEF Machine, NetworkChanges, Notified,
       OtherNotification, CoreExits, CoreCreatesAdapter, AdapterVanishes
<1>9. CASE UNCHANGED vars
  BY <1>9, Zenon DEF vars
<1> QED
  BY <1>1, <1>2, <1>3, <1>4, <1>5, <1>6, <1>7, <1>8, <1>9 DEF Next, Worker

LEMMA WakeupStep ==
  TypeOK /\ LocalsInv /\ WakeupInv /\ [Next]_vars => WakeupInv'
<1> SUFFICES ASSUME TypeOK, LocalsInv, WakeupInv, [Next]_vars
             PROVE  WakeupInv'
  OBVIOUS
<1>0. /\ call \in [Callers -> {"idle", "pushed", "waiting"}] /\ Host \in Callers
      /\ queueEvent \in BOOLEAN /\ Clients \subseteq Callers
      /\ queue # <<>> => Head(queue).kind \in Kinds
  BY LocalTypes DEF TypeOK, FlagsOK, ValuesOK, Callers
<1> USE <1>0
    DEF LocalsInv, WakeupInv, Building, callVars, localVars, tunnelVars,
        watchVars, coreVars, machineVars, ghosts, bounds
<1>1. ASSUME NEW c \in Callers, NEW kind, NEW opts, Push(c, kind, opts)
      PROVE  \E x \in Callers : call'[x] = "pushed"
  BY <1>1 DEF Push
<1>2. CASE Threads
  <2>1. ASSUME NEW c \in Clients, NEW k, NEW o, Submit(c, k, o)
        PROVE  WakeupInv'
    BY <1>1, <2>1 DEF Submit
  <2>2. ASSUME NEW c \in Callers, Signal(c) PROVE WakeupInv'
    BY <2>2 DEF Signal, SetQueueEvent
  <2>3. ASSUME NEW c \in Callers, Return(c) PROVE WakeupInv'
    BY <2>3 DEF Return
  <2> QED BY <1>2, <2>1, <2>2, <2>3 DEF Threads
<1>3. CASE HostSteps
  <2>1. CASE Boot \/ GiveUp \/ StopController \/ DestroyController
    BY <1>1, <2>1 DEF Boot, GiveUp, StopController, DestroyController
  <2>2. CASE OpenServer \/ JoinClients \/ GoDown
    BY <2>2 DEF HostGoes, OpenServer, JoinClients, GoDown, FreshController
  <2> QED BY <1>3, <2>1, <2>2 DEF HostSteps
<1>4. CASE Crash
  BY <1>4 DEF Crash, FreshController
<1>5. CASE Waking
  BY <1>5, WakingFrame DEF Waking, WakeForQueue, WakeForExit, WakeForNetwork,
     NetworkSettled, Idle
<1>6. CASE Draining
  <2>1. CASE TakeStart \/ TakeCleanup \/ QueueDrained
    BY <1>6, <2>1, DrainingFrame DEF TakeStart, TakeCleanup, Take,
       QueueDrained, Kinds
  <2>2. CASE TakeStop \/ TakeShutdown
    BY <1>6, <2>2 DEF TakeStop, TakeShutdown, ShutdownStops, DoStop, Take, Kinds
  <2>3. CASE Complete
    BY <1>6, <2>3 DEF Complete, AfterCommand, Idle
  <2> QED BY <1>6, <2>1, <2>2, <2>3 DEF Draining
<1>7. CASE Cleaning
  BY <1>7, CleaningFrame DEF Cleaning, CleanupRoute, CleanupEnd, TearDownCore,
     TearDownRoute, TearDownEnd, PublishStopped
<1>8. CASE Starting
  BY <1>8, StartingFrame DEF Starting, StartBegin, FindRoute, TakeRoute, ResolveServers,
     AddRoute, SaveRoute, RoutesAdded, LaunchXray, FindAdapter, ConfigureTun,
     InstallGuard, AwaitListener, StartFinish, StartFailed, RebuildFailed, Go,
     Fail, Idle
<1>9. CASE Machine
  BY <1>9, MachineFrame
<1>10. CASE UNCHANGED vars
  BY <1>10 DEF vars
<1> QED
  BY <1>2, <1>3, <1>4, <1>5, <1>6, <1>7, <1>8, <1>9, <1>10 DEF Next, Worker

-----------------------------------------------------------------------------
(* The boot of the service: only its own cleanup runs, and it runs once.   *)

LEMMA CommandKind == \A c, k : Command(c, k).kind = k /\ Command(c, k).from = c
BY DEF Command

LEMMA AppendToEmpty == \A e : Append(<<>>, e) = <<e>>
OBVIOUS

LEMMA Singleton ==
  \A e : /\ Head(<<e>>) = e /\ Tail(<<e>>) = <<>> /\ <<e>> # <<>>
         /\ Len(<<e>>) = 1 /\ <<e>>[1] = e
OBVIOUS

LEMMA EmptyRange == RangeOf(<<>>) = {}
BY DEF RangeOf
LEMMA BootStep ==
  TypeOK /\ LocalsInv /\ SessionInv /\ BootInv /\ [Next]_vars => BootInv'
<1> SUFFICES ASSUME TypeOK, LocalsInv, SessionInv, BootInv, [Next]_vars
             PROVE  BootInv'
  OBVIOUS
<1>0. /\ call \in [Callers -> {"idle", "pushed", "waiting"}] /\ Host \in Callers
      /\ Clients \subseteq Callers /\ Host \notin Clients
      /\ queue \in Seq(Commands) /\ done \subseteq Callers
  BY ConstantsAssumption DEF TypeOK, ValuesOK, Callers
<1> USE <1>0 DEF BootInv, Clean, LocalsInv, Building, callVars, localVars,
        tunnelVars, watchVars, coreVars, machineVars, ghosts, bounds
<1>1. ASSUME NEW c \in Callers, NEW kind \in Kinds \ {"cleanup"},
             NEW opts \in StartOptions, Push(c, kind, opts),
             \A i \in 1 .. Len(queue) : queue[i].kind # "cleanup"
      PROVE  \A i \in 1 .. Len(queue') : queue'[i].kind # "cleanup"
  BY <1>1, CommandTyped, AppendProperties, LenProperties DEF Push
<1>2. CASE Threads
  <2>1. ASSUME NEW c \in Clients, NEW k \in {"start", "stop"},
               NEW o \in StartOptions, Submit(c, k, o)
        PROVE  BootInv'
    <3>1. host \notin {"down", "boot", "closing"} /\ host' = host /\ pc' = pc
      BY <2>1 DEF Submit
    <3>2. \A i \in 1 .. Len(queue') : queue'[i].kind # "cleanup"
      BY <1>1, <2>1, <3>1 DEF Submit, Kinds
    <3> QED BY <3>1, <3>2
  <2>2. ASSUME NEW c \in Callers, Signal(c) PROVE BootInv'
    BY <2>2 DEF Signal
  <2>3. ASSUME NEW c \in Callers, Return(c) PROVE BootInv'
    BY <2>3 DEF Return
  <2> QED
    BY <1>2, <2>1, <2>2, <2>3, ConstantsAssumption, OptionsTyped DEF Threads
<1>3. CASE HostSteps
  <2>1. CASE Boot
    BY <2>1, AppendToEmpty DEF Boot, Push, Command, SessionInv
  <2>2. CASE OpenServer \/ JoinClients
    BY <2>2, LenProperties DEF OpenServer, JoinClients, HostGoes
  <2>3. CASE GiveUp \/ StopController \/ DestroyController
    BY <1>1, <2>3, OptionsTyped
       DEF GiveUp, StopController, DestroyController, HostGoes, Push, Kinds
  <2>4. CASE GoDown
    BY <2>4, EmptySequences DEF GoDown, FreshController
  <2> QED BY <1>3, <2>1, <2>2, <2>3, <2>4 DEF HostSteps
<1>4. CASE Crash
  BY <1>4, EmptySequences DEF Crash, FreshController
<1>5. CASE Waking
  BY <1>5 DEF Waking, WakeForQueue, WakeForExit, ProcessSignalled,
     WakeForNetwork, NetworkSettled, BeginTearDown
<1>6. CASE Draining
  <2>1. ASSUME NEW kind \in Kinds, Take(kind)
        PROVE  /\ host = "boot" => kind = "cleanup" /\ queue' = <<>>
                                   /\ work' = Command(Host, "cleanup")
               /\ host # "boot" => kind # "cleanup"
               /\ \A i \in 1 .. Len(queue') : queue'[i].kind # "cleanup"
    BY <2>1, HeadTailProperties, LenProperties, Singleton, CommandKind, EmptySequences DEF Take
  <2>2. CASE TakeCleanup
    BY <2>1, <2>2 DEF TakeCleanup, Take, Kinds
  <2>3. CASE TakeStart \/ TakeStop \/ TakeShutdown
    BY <2>1, <2>3 DEF TakeStart, TakeStop, TakeShutdown, ShutdownStops, DoStop,
       Take, Kinds
  <2>4. CASE QueueDrained
    BY <2>4 DEF QueueDrained
  <2>5. CASE Complete
    BY <2>5, CommandKind DEF Complete, AfterCommand
  <2> QED BY <1>6, <2>2, <2>3, <2>4, <2>5 DEF Draining
<1>7. CASE Cleaning
  <2>1. CASE CleanupRoute
    BY <2>1 DEF CleanupRoute
  <2>2. CASE CleanupEnd
    BY <2>2 DEF CleanupEnd, SaveLeftoverRoutes
  <2>3. CASE TearDownCore \/ TearDownRoute \/ TearDownEnd \/ PublishStopped
    <3>1. host # "boot" /\ pc' # "cl_routes" /\ pc # "none"
      BY <2>3 DEF TearDownCore, TearDownRoute, TearDownEnd, PublishStopped
    <3> QED BY <1>7, <3>1, CleaningFrame
  <2> QED BY <1>7, <2>1, <2>2, <2>3 DEF Cleaning
<1>8. CASE Starting
  <2>1. host # "boot" /\ pc' # "cl_routes" /\ pc # "none"
    BY <1>8 DEF Starting, StartBegin, FindRoute, TakeRoute, ResolveServers, AddRoute,
       SaveRoute, RoutesAdded, LaunchXray, FindAdapter, ConfigureTun,
       InstallGuard, AwaitListener, StartFinish, StartFailed, RebuildFailed,
       Go, Fail
  <2> QED BY <1>8, <2>1, StartingFrame
<1>9. CASE Machine
  BY <1>9, MachineFrame DEF Machine, NetworkChanges, OtherNotification,
     CoreExits, CoreRuns, CoreCreatesAdapter, AdapterVanishes
<1>10. CASE UNCHANGED vars
  BY <1>10 DEF vars
<1> QED
  BY <1>2, <1>3, <1>4, <1>5, <1>6, <1>7, <1>8, <1>9, <1>10 DEF Next, Worker
-----------------------------------------------------------------------------
(* The routes: what is in the table, in routes_ and in the registry.       *)

LEMMA RouteTypes ==
  TypeOK => /\ routes \in Seq(Routes) /\ RangeOf(routes) \subseteq Routes
            /\ left \in 0 .. Len(routes) /\ Len(routes) \in Nat
            /\ \A i \in 1 .. Len(routes) : routes[i] \in RangeOf(routes)
            /\ left > 0 => left \in 1 .. Len(routes)
            /\ todo \subseteq Routes /\ fresh \in Routes \cup {None}
            /\ table \subseteq Routes /\ leftovers \subseteq Routes
            /\ failures \in Nat /\ crashes \in Nat
BY RangeTyped, LenProperties DEF TypeOK, ValuesOK, RangeOf

LEMMA ForeignIsPhysical ==
  \A r \in Foreign : r \in Routes /\ r.via \in Networks /\ r.via \notin Adapters
BY ConstantsAssumption DEF Routes, ServerRoutes, ServerRoute

LEMMA RecordStep ==
  TypeOK /\ LocalsInv /\ SessionInv /\ BootInv
  /\ RecordInv /\ RoutesAccounted /\ ForeignKept /\ [Next]_vars
    => RecordInv' /\ RoutesAccounted' /\ ForeignKept'
<1> DEFINE Inv == RecordInv /\ RoutesAccounted /\ ForeignKept
<1> SUFFICES ASSUME TypeOK, LocalsInv, SessionInv, BootInv, Inv, [Next]_vars
             PROVE  Inv'
  OBVIOUS
<1>0. None \notin Routes /\ None \notin Foreign
  BY ConstantsAssumption, ForeignIsPhysical
<1> USE <1>0, RouteTypes
    DEF RecordInv, RoutesAccounted, ForeignKept, callVars, localVars,
        tunnelVars, watchVars, coreVars, machineVars, ghosts, bounds
<1>1. CASE Threads
  BY <1>1, ThreadsFrame
<1>2. CASE HostSteps
  <2>1. CASE Boot \/ StopController \/ JoinClients \/ DestroyController
    BY <2>1 DEF Boot, StopController, JoinClients, DestroyController, HostGoes,
       LocalsInv
  <2>2. CASE OpenServer \/ GiveUp
    BY <2>2, EmptyRange DEF OpenServer, GiveUp, HostGoes, BootInv, Clean
  <2>3. CASE GoDown
    <3>1. /\ host' = "down" /\ fresh = None /\ fresh' = None /\ routes' = <<>>
          /\ pc' = "none" /\ UNCHANGED <<table, leftovers, leaked>>
      BY <2>3, Zenon DEF GoDown, FreshController, LocalsInv
    <3> QED BY <3>1, EmptyRange
  <2> QED BY <1>2, <2>1, <2>2, <2>3 DEF HostSteps
<1>3. CASE Crash
  BY <1>3, EmptyRange DEF Crash, FreshController
<1>4. CASE Waking
  BY <1>4, WakingFrame DEF Waking, WakeForQueue, WakeForExit, WakeForNetwork,
     NetworkSettled, BeginTearDown
<1>5. CASE Draining
  BY <1>5, DrainingFrame DEF Draining, TakeStart, TakeStop, DoStop,
     TakeShutdown, ShutdownStops, TakeCleanup, QueueDrained, Complete,
     AfterCommand
<1>6. CASE Cleaning
  <2>1. CASE CleanupRoute
    BY <2>1 DEF CleanupRoute, DeleteRoute
  <2>2. CASE CleanupEnd
    BY <2>2 DEF CleanupEnd, SaveLeftoverRoutes, BootInv
  <2>3. CASE TearDownRoute
    BY <2>3 DEF TearDownRoute, DeleteRoute
  <2>4. CASE TearDownEnd
    BY <2>4, EmptyRange DEF TearDownEnd, SaveLeftoverRoutes
  <2>5. CASE TearDownCore \/ PublishStopped
    BY <2>5 DEF TearDownCore, PublishStopped
  <2> QED BY <1>6, <2>1, <2>2, <2>3, <2>4, <2>5 DEF Cleaning
<1>7. CASE Starting
  <2>1. CASE AddRoute
    <3>1. /\ UNCHANGED <<routes, leftovers, leaked, host>>
          /\ pc' # "cl_routes" /\ fresh = None
      BY <2>1 DEF AddRoute, Fail, LocalsInv
    <3>2. \/ UNCHANGED <<table, fresh>>
          \/ \E r \in todo : /\ r \notin table /\ table' = table \cup {r}
                             /\ fresh' = r
      BY <2>1 DEF AddRoute, AddRouteResult, Fail
    <3> QED BY <3>1, <3>2
  <2>2. CASE SaveRoute
    <3>1. RangeOf(routes') = RangeOf(routes) \cup {fresh}
      BY <2>2, RangeAppend DEF SaveRoute, LocalsInv
    <3>2. leftovers = RangeOf(routes)
      BY <2>2 DEF SaveRoute, BootInv, LocalsInv
    <3> QED BY <2>2, <3>1, <3>2 DEF SaveRoute, SaveLeftoverRoutes
  <2>3. CASE ~AddRoute /\ ~SaveRoute
    <3>1. /\ UNCHANGED <<routes, leftovers, table, fresh, leaked, host>>
          /\ pc' # "cl_routes"
      BY <1>7, <2>3 DEF Starting, StartBegin, FindRoute, TakeRoute, ResolveServers,
         RoutesAdded, LaunchXray, FindAdapter, ConfigureTun, InstallGuard,
         AwaitListener, StartFinish, StartFailed, RebuildFailed, Go, Fail
    <3> QED BY <3>1
  <2> QED BY <2>1, <2>2, <2>3
<1>8. CASE Machine
  <2>1. CASE AdapterVanishes
    BY <2>1, MachineFrame, ForeignIsPhysical, AdaptersTyped
       DEF AdapterVanishes, WorkerUnchanged
  <2>2. CASE ~AdapterVanishes
    BY <1>8, <2>2, MachineFrame DEF Machine, NetworkChanges,
       OtherNotification, CoreExits, CoreCreatesAdapter
  <2> QED BY <2>1, <2>2
<1>9. CASE UNCHANGED vars
  BY <1>9 DEF vars
<1> QED
  BY <1>1, <1>2, <1>3, <1>4, <1>5, <1>6, <1>7, <1>8, <1>9 DEF Next, Worker
LEMMA DeletedStep ==
  TypeOK /\ LocalsInv /\ SessionInv /\ StoppedIsClean /\ IdleIsConsistent
  /\ BootInv /\ RecordInv
  /\ DeletedInv /\ LeakNeedsFault /\ ConfigOnlyWhileStarting /\ [Next]_vars
    => DeletedInv' /\ LeakNeedsFault' /\ ConfigOnlyWhileStarting'
<1> DEFINE Inv == DeletedInv /\ LeakNeedsFault /\ ConfigOnlyWhileStarting
<1> SUFFICES ASSUME TypeOK, LocalsInv, SessionInv, StoppedIsClean,
                    IdleIsConsistent, BootInv, RecordInv, Inv, [Next]_vars
             PROVE  Inv'
  OBVIOUS
<1> USE RouteTypes
    DEF DeletedInv, LeakNeedsFault, ConfigOnlyWhileStarting, LocalsInv,
        Building, Status, callVars, localVars, tunnelVars, watchVars,
        coreVars, machineVars, ghosts, bounds
<1>1. CASE Threads
  BY <1>1, ThreadsFrame
<1>2. CASE HostSteps
  <2>1. CASE GoDown
    <3>1. /\ pc = "exited" /\ pc' = "none" /\ host' = "down"
          /\ UNCHANGED <<leftovers, leaked, files, crashes, failures>>
      BY <2>1, Zenon DEF GoDown
    <3>2. status.state = "stopped" /\ host = "closing"
      BY <2>1 DEF GoDown, SessionInv, Settled
    <3>3. leftovers = {}
      BY <3>2, EmptyRange DEF StoppedIsClean, Held, RecordInv
    <3> QED BY <3>1, <3>2, <3>3
  <2>2. CASE ~GoDown
    BY <1>2, <2>2 DEF HostSteps, HostGoes, Boot, OpenServer, GiveUp, StopController,
       JoinClients, DestroyController
  <2> QED BY <2>1, <2>2
<1>3. CASE Crash
  BY <1>3 DEF Crash, FreshController
<1>4. CASE Waking
  BY <1>4, WakingFrame DEF Waking, WakeForQueue, WakeForExit, WakeForNetwork,
     NetworkSettled, BeginTearDown
<1>5. CASE Draining
  <2>1. CASE TakeStart \/ TakeCleanup \/ QueueDrained
    BY <1>5, <2>1 DEF TakeStart, TakeCleanup, Take, QueueDrained
  <2>2. CASE TakeStop \/ TakeShutdown
    BY <1>5, <2>2 DEF TakeStop, TakeShutdown, ShutdownStops, DoStop, Take,
       IdleIsConsistent, Settled
  <2>3. CASE Complete
    BY <1>5, <2>3 DEF Complete, AfterCommand
  <2> QED BY <1>5, <2>1, <2>2, <2>3 DEF Draining
<1>6. CASE Cleaning
  <2>1. CASE CleanupRoute
    BY <2>1 DEF CleanupRoute, DeleteRoute
  <2>2. CASE CleanupEnd
    BY <2>2 DEF CleanupEnd, SaveLeftoverRoutes
  <2>3. CASE TearDownCore
    BY <2>3 DEF TearDownCore, LastRoute
  <2>4. CASE TearDownRoute
    BY <2>4 DEF TearDownRoute, DeleteRoute
  <2>5. CASE TearDownEnd
    <3>1. leftovers = RangeOf(routes)
      BY <2>5 DEF TearDownEnd, RecordInv, BootInv
    <3>2. failures = 0 => leftovers \cap table = {}
      BY <2>5, <3>1 DEF TearDownEnd, RangeOf
    <3> QED
      BY <2>5, <3>2 DEF TearDownEnd, DeleteRuntimeFiles, SaveLeftoverRoutes
  <2>6. CASE PublishStopped
    BY <2>6 DEF PublishStopped
  <2> QED BY <1>6, <2>1, <2>2, <2>3, <2>4, <2>5, <2>6 DEF Cleaning
<1>7. CASE Starting
  <2>1. /\ UNCHANGED <<host, leaked, crashes, failures>>
        /\ pc' \notin {"cl_routes", "td_routes", "td_publish", "st_failed"}
    BY <1>7, StartingFrame DEF Starting, StartBegin, FindRoute, TakeRoute, ResolveServers,
       AddRoute, SaveRoute, RoutesAdded, LaunchXray, FindAdapter, ConfigureTun,
       InstallGuard, AwaitListener, StartFinish, StartFailed, RebuildFailed,
       Go, Fail
  <2>2. host # "down"
    BY <1>7 DEF Starting, StartBegin, FindRoute, TakeRoute, ResolveServers, AddRoute,
       SaveRoute, RoutesAdded, LaunchXray, FindAdapter, ConfigureTun,
       InstallGuard, AwaitListener, StartFinish, StartFailed, RebuildFailed
  <2>3. /\ pc' = "net_failed" => ~files'
        /\ files' /\ crashes = 0 => status'.state = "starting"
    <3>1. CASE StartBegin
      BY <3>1 DEF StartBegin, Go, Fail
    <3>2. CASE LaunchXray
      <4>1. status.state = "starting"
        BY <3>2 DEF LaunchXray, SessionInv
      <4>2. status' = status /\ pc' # "net_failed"
        BY <3>2 DEF LaunchXray, Go, Fail
      <4> QED BY <4>1, <4>2
    <3>3. CASE StartFinish
      BY <3>3 DEF StartFinish, DeleteRuntimeFiles, Go
    <3>4. CASE StartFailed \/ RebuildFailed
      BY <3>4 DEF StartFailed, RebuildFailed, Go
    <3>5. CASE FindRoute \/ ResolveServers \/ AddRoute \/ SaveRoute
      BY <3>5 DEF FindRoute, TakeRoute, ResolveServers, AddRoute, SaveRoute, Go, Fail
    <3>6. CASE \/ RoutesAdded \/ FindAdapter \/ ConfigureTun \/ InstallGuard
               \/ AwaitListener
      <4>1. UNCHANGED <<files, status>> /\ pc' # "net_failed"
        BY <3>6 DEF RoutesAdded, FindAdapter, ConfigureTun, InstallGuard,
           AwaitListener, Go, Fail
      <4> QED BY <4>1
    <3> QED BY <1>7, <3>1, <3>2, <3>3, <3>4, <3>5, <3>6 DEF Starting
  <2> QED BY <2>1, <2>2, <2>3
<1>8. CASE Machine
  BY <1>8, MachineFrame DEF Machine, NetworkChanges, OtherNotification,
     CoreExits, CoreCreatesAdapter, AdapterVanishes
<1>9. CASE UNCHANGED vars
  BY <1>9 DEF vars
<1> QED
  BY <1>1, <1>2, <1>3, <1>4, <1>5, <1>6, <1>7, <1>8, <1>9 DEF Next, Worker
-----------------------------------------------------------------------------
(* The filters and the routes of a session.                                *)

LEMMA GuardStep ==
  TypeOK /\ LocalsInv /\ SessionInv /\ GuardInv /\ GuardIsSafe /\ [Next]_vars
    => GuardInv' /\ GuardIsSafe'
<1> SUFFICES ASSUME TypeOK, LocalsInv, SessionInv, GuardInv, GuardIsSafe,
                    [Next]_vars
             PROVE  GuardInv' /\ GuardIsSafe'
  OBVIOUS
<1>0. dnsReady \in BOOLEAN
  BY DEF TypeOK, FlagsOK
<1> USE <1>0, AdaptersTyped
    DEF GuardInv, GuardIsSafe, SessionOptions, SessionInv, Building, Clean,
        callVars, localVars, tunnelVars, watchVars, coreVars, machineVars,
        ghosts, bounds
<1>1. CASE Threads
  BY <1>1, ThreadsFrame
<1>2. CASE HostSteps
  <2>1. CASE GoDown
    BY <2>1 DEF GoDown, FreshController
  <2>2. CASE ~GoDown
    BY <1>2, <2>2 DEF HostSteps, HostGoes, Boot, OpenServer, GiveUp, StopController,
       JoinClients, DestroyController, LocalsInv
  <2> QED BY <2>1, <2>2
<1>3. CASE Crash
  BY <1>3 DEF Crash, FreshController
<1>4. CASE Waking
  BY <1>4, WakingFrame DEF Waking, WakeForQueue, WakeForExit, WakeForNetwork,
     NetworkSettled, BeginTearDown
<1>5. CASE Draining
  <2>1. /\ pc \in {"drain", "complete"}
        /\ pc' \in {"td_core", "complete", "cl_routes", "drain", "wait", "exited"}
    BY <1>5 DEF Draining, TakeStart, TakeStop, DoStop, TakeShutdown,
       ShutdownStops, TakeCleanup, Take, QueueDrained, Complete, AfterCommand
  <2> QED BY <1>5, <2>1, DrainingFrame
<1>6. CASE Cleaning
  BY <1>6, CleaningFrame DEF Cleaning, CleanupRoute, CleanupEnd, TearDownCore,
     RemoveGuard, TearDownRoute, TearDownEnd, PublishStopped
<1>7. CASE Starting
  <2>1. CASE StartBegin \/ FindRoute \/ ResolveServers
    BY <2>1 DEF StartBegin, FindRoute, TakeRoute, ResolveServers, Go, Fail
  <2>2. CASE AddRoute
    BY <2>2 DEF AddRoute, Fail
  <2>3. CASE SaveRoute \/ RoutesAdded \/ LaunchXray \/ FindAdapter
    BY <2>3 DEF SaveRoute, RoutesAdded, LaunchXray, FindAdapter, Go, Fail
  <2>4. CASE ConfigureTun
    <3>1. UNCHANGED <<tun, guard, adapters>> /\ guard = None
      BY <2>4 DEF ConfigureTun
    <3>2. CASE dnsReady' = FALSE
      BY <3>1, <3>2
    <3>3. CASE dnsReady' # FALSE
      <4>1. tun \in adapters /\ pc' = "st_routes" /\ dnsReady' \in BOOLEAN
        BY <2>4, <3>3, FlagsStep, Zenon
           DEF ConfigureTun, Fail, TypeOK, ValuesOK, FlagsOK
      <4>2. dnsSet' = dnsSet \cup {tun}
        BY <2>4, <3>3, <4>1 DEF ConfigureTun, Fail
      <4> QED BY <3>1, <4>1, <4>2
    <3> QED BY <3>2, <3>3
  <2>5. CASE InstallGuard
    BY <2>5 DEF InstallGuard, GuardAllowed
  <2>6. CASE AwaitListener
    BY <2>6 DEF AwaitListener, Go, Fail
  <2>7. CASE StartFinish
    BY <2>7 DEF StartFinish, RememberOptions, Go
  <2>8. CASE StartFailed \/ RebuildFailed
    <3>1. guard' = None
      BY <2>8 DEF StartFailed, RebuildFailed
    <3>2. dnsReady' = FALSE
      BY <2>8 DEF StartFailed, RebuildFailed, Go
    <3> QED BY <1>7, <3>1, <3>2, StartingFrame
  <2> QED BY <1>7, <2>1, <2>2, <2>3, <2>4, <2>5, <2>6, <2>7, <2>8 DEF Starting
<1>8. CASE Machine
  BY <1>8, MachineFrame DEF Machine, NetworkChanges, OtherNotification,
     CoreExits, CoreCreatesAdapter, AdapterVanishes
<1>9. CASE UNCHANGED vars
  BY <1>9 DEF vars
<1> QED
  BY <1>1, <1>2, <1>3, <1>4, <1>5, <1>6, <1>7, <1>8, <1>9 DEF Next, Worker
LEMMA ServersStep ==
  TypeOK /\ LocalsInv /\ SessionInv /\ BootInv /\ ServersInv /\ [Next]_vars
    => ServersInv'
<1> SUFFICES ASSUME TypeOK, LocalsInv, SessionInv, BootInv, ServersInv,
                    [Next]_vars
             PROVE  ServersInv'
  OBVIOUS
<1> USE DEF ServersInv, SessionInv, Clean, Building, callVars, localVars,
            tunnelVars, watchVars, coreVars, machineVars, ghosts, bounds
<1>1. CASE Threads
  BY <1>1, ThreadsFrame
<1>2. CASE HostSteps
  BY <1>2 DEF HostSteps, HostGoes, Boot, OpenServer, GiveUp, StopController,
     JoinClients, DestroyController, GoDown, FreshController
<1>3. CASE Crash
  BY <1>3 DEF Crash, FreshController
<1>4. CASE Waking
  BY <1>4, WakingFrame DEF Waking, WakeForQueue, WakeForExit, WakeForNetwork,
     NetworkSettled, BeginTearDown
<1>5. CASE Draining
  BY <1>5, DrainingFrame DEF Draining, TakeStart, TakeStop, DoStop,
     TakeShutdown, ShutdownStops, TakeCleanup, QueueDrained, Complete,
     AfterCommand
<1>6. CASE Cleaning
  <2>1. CASE CleanupRoute \/ CleanupEnd
    BY <2>1 DEF CleanupRoute, CleanupEnd, BootInv
  <2>2. CASE TearDownCore \/ TearDownRoute
    BY <2>2 DEF TearDownCore, TearDownRoute
  <2>3. CASE TearDownEnd \/ PublishStopped
    BY <2>3 DEF TearDownEnd, PublishStopped
  <2> QED BY <1>6, <2>1, <2>2, <2>3 DEF Cleaning
<1>7. CASE Starting
  <2>1. CASE StartBegin \/ FindRoute
    BY <2>1 DEF StartBegin, FindRoute, TakeRoute, Go, Fail
  <2>2. CASE ResolveServers
    BY <2>2 DEF ResolveServers, Fail
  <2>3. CASE AddRoute
    BY <2>3 DEF AddRoute, AddRouteResult, Fail
  <2>4. CASE SaveRoute \/ RoutesAdded
    BY <2>4 DEF SaveRoute, RoutesAdded, Go
  <2>5. CASE LaunchXray \/ FindAdapter
    BY <2>5 DEF LaunchXray, FindAdapter, Go, Fail
  <2>6. CASE ConfigureTun \/ InstallGuard \/ AwaitListener
    BY <2>6 DEF ConfigureTun, InstallGuard, AwaitListener, Go, Fail
  <2>7. CASE StartFinish
    BY <2>7 DEF StartFinish, Go
  <2>8. CASE StartFailed \/ RebuildFailed
    BY <2>8 DEF StartFailed, RebuildFailed, Go
  <2> QED BY <1>7, <2>1, <2>2, <2>3, <2>4, <2>5, <2>6, <2>7, <2>8 DEF Starting
<1>8. CASE Machine
  <2>1. CASE AdapterVanishes
    <3>1. \A ip : ServerRoute(physical, ip).via \notin adapters
      BY ConstantsAssumption DEF ServerRoute, TypeOK, ValuesOK
    <3>2. \A ip : ServerRoute(physical, ip) \in table =>
                     ServerRoute(physical, ip) \in table'
      BY <2>1, <3>1 DEF AdapterVanishes
    <3>3. UNCHANGED <<core, pc, physical, servers, todo>>
      BY <1>8, <2>1, MachineFrame DEF AdapterVanishes
    <3> QED BY <3>2, <3>3
  <2>2. CASE ~AdapterVanishes
    BY <1>8, <2>2, MachineFrame DEF Machine, NetworkChanges,
       OtherNotification, CoreExits, CoreRuns, CoreCreatesAdapter
  <2> QED BY <2>1, <2>2
<1>9. CASE UNCHANGED vars
  BY <1>9 DEF vars
<1> QED
  BY <1>1, <1>2, <1>3, <1>4, <1>5, <1>6, <1>7, <1>8, <1>9 DEF Next, Worker

LEMMA ResultStep ==
  TypeOK /\ LocalsInv /\ SessionInv /\ IdleIsConsistent /\ StartTellsTruth
  /\ [Next]_vars => StartTellsTruth'
<1> SUFFICES ASSUME TypeOK, LocalsInv, SessionInv, IdleIsConsistent,
                    StartTellsTruth, [Next]_vars
             PROVE  StartTellsTruth'
  OBVIOUS
<1> USE DEF StartTellsTruth, LocalsInv, Building, callVars, localVars,
            tunnelVars, watchVars, coreVars, machineVars, ghosts, bounds
<1>1. CASE Threads
  BY <1>1, ThreadsFrame
<1>2. CASE HostSteps
  BY <1>2 DEF HostSteps, HostGoes, Boot, OpenServer, GiveUp, StopController,
     JoinClients, DestroyController, GoDown, FreshController
<1>3. CASE Crash
  BY <1>3 DEF Crash, FreshController
<1>4. CASE Waking
  BY <1>4 DEF Waking, WakeForQueue, WakeForExit, WakeForNetwork,
     NetworkSettled, BeginTearDown
<1>5. CASE Draining
  BY <1>5 DEF Draining, TakeStart, TakeStop, DoStop, TakeShutdown,
     ShutdownStops, TakeCleanup, Take, QueueDrained, Complete, AfterCommand
<1>6. CASE Cleaning
  BY <1>6 DEF Cleaning, CleanupRoute, CleanupEnd, TearDownCore, TearDownRoute,
     TearDownEnd, PublishStopped
<1>7. CASE Starting
  <2>1. CASE StartFinish
    BY <2>1 DEF StartFinish, RememberOptions, SessionInv, Status, Go, Idle
  <2>2. CASE StartFailed
    BY <2>2 DEF StartFailed, Status, Go
  <2>3. CASE ~StartFinish /\ ~StartFailed
    <3>1. pc' # "complete"
      BY <1>7, <2>3 DEF Starting, StartBegin, FindRoute, TakeRoute, ResolveServers,
         AddRoute, SaveRoute, RoutesAdded, LaunchXray, FindAdapter,
         ConfigureTun, InstallGuard, AwaitListener, RebuildFailed, Go, Fail
    <3> QED BY <3>1
  <2> QED BY <2>1, <2>2, <2>3
<1>8. CASE Machine
  BY <1>8, MachineFrame DEF Machine, NetworkChanges, OtherNotification,
     CoreExits, CoreRuns, CoreCreatesAdapter, AdapterVanishes
<1>9. CASE UNCHANGED vars
  BY <1>9 DEF vars
<1> QED
  BY <1>1, <1>2, <1>3, <1>4, <1>5, <1>6, <1>7, <1>8, <1>9 DEF Next, Worker
-----------------------------------------------------------------------------
(* The invariant, and what follows from it.                                *)

LEMMA InvInit == Init => IInv
<1> SUFFICES ASSUME Init PROVE IInv
  OBVIOUS
<1>1. TypeOK /\ LocalsInv
  BY TypeInit
<1>2. /\ SessionInv /\ StoppedIsClean /\ IdleIsConsistent /\ StartTellsTruth
      /\ BootInv /\ WakeupInv /\ DeletedInv /\ LeakNeedsFault
  BY EmptySequences
     DEF Init, SessionInv, StoppedIsClean, IdleIsConsistent, StartTellsTruth,
         BootInv, WakeupInv, DeletedInv, LeakNeedsFault, Clean, Held, Status,
         Building, Callers
<1>3. RecordInv /\ RoutesAccounted /\ ForeignKept
  BY EmptyRange, ConstantsAssumption, ForeignIsPhysical
     DEF Init, RecordInv, RoutesAccounted, ForeignKept
<1>4. ConfigOnlyWhileStarting /\ WatchMissesNothing
  BY DEF Init, ConfigOnlyWhileStarting, WatchMissesNothing
<1>5. GuardInv /\ GuardIsSafe /\ ServersInv
  BY DEF Init, GuardInv, GuardIsSafe, ServersInv
<1> QED BY <1>1, <1>2, <1>3, <1>4, <1>5 DEF IInv

LEMMA InvStep == IInv /\ [Next]_vars => IInv'
BY TypeStep, LocalsStep, SessionStep, BootStep, RecordStep, DeletedStep,
   GuardStep, ServersStep, ResultStep, WakeupStep, WatchStep
   DEF IInv, TypeOK

LEMMA InvCorrect == Spec => []IInv
BY InvInit, InvStep, PTL DEF Spec

\* A route the controller added to the system is recorded in the registry, or
\* about to be, or was dropped from it by a fault (core_controller.cpp:539-548,
\* 685-694, 929-935).
THEOREM RoutesAreAccounted == Spec => []RoutesAccounted
<1>1. IInv => RoutesAccounted
  BY DEF IInv
<1> QED BY <1>1, InvCorrect, PTL

\* Without a crash and without a failing DeleteRoute no route is forgotten:
\* the loops of TearDown and DoCleanupLeftovers cover the whole record.
THEOREM LeaksNeedFaults == Spec => []LeakNeedsFault
<1>1. IInv => LeakNeedsFault
  BY DEF IInv
<1> QED BY <1>1, InvCorrect, PTL

\* No session and no cleanup deletes a route that was there before it.
THEOREM ForeignRoutesAreKept == Spec => []ForeignKept
<1>1. IInv => ForeignKept
  BY DEF IInv
<1> QED BY <1>1, InvCorrect, PTL

\* "stopped" is published only when no core, TUN, filter, route or watch is
\* left in the controller's hands.
THEOREM StoppedMeansClean == Spec => []StoppedIsClean
<1>1. IInv => StoppedIsClean
  BY DEF IInv
<1> QED BY <1>1, InvCorrect, PTL

\* Between commands the published status agrees with the core, the options and
\* the watch of the session.
THEOREM IdleStatusIsConsistent == Spec => []IdleIsConsistent
<1>1. IInv => IdleIsConsistent
  BY DEF IInv
<1> QED BY <1>1, InvCorrect, PTL

\* What Start returns is what the worker published.
THEOREM StartIsTruthful == Spec => []StartTellsTruth
<1>1. IInv => StartTellsTruth
  BY DEF IInv
<1> QED BY <1>1, InvCorrect, PTL

\* The leak filters are up only when they were asked for, and those of port 53
\* only around a TUN that has its DNS server.
THEOREM GuardsAreSafe == Spec => []GuardIsSafe
<1>1. IInv => GuardIsSafe
  BY DEF IInv
<1> QED BY <1>1, InvCorrect, PTL

\* While the core runs, no server is reached through the TUN.
THEOREM ServersStayReachable == Spec => []ServersBypassTun
<1>1. IInv => ServersBypassTun
  BY DEF IInv, ServersInv, ServersBypassTun, CoreRuns
<1> QED BY <1>1, InvCorrect, PTL

\* The generated configuration is on the disk only during a start.
THEOREM ConfigIsTemporary == Spec => []ConfigOnlyWhileStarting
<1>1. IInv => ConfigOnlyWhileStarting
  BY DEF IInv
<1> QED BY <1>1, InvCorrect, PTL

\* A service that was stopped without a fault leaves the machine as it was.
THEOREM DownLeavesNothing == Spec => []DownIsClean
<1>1. IInv => DownIsClean
  <2> SUFFICES ASSUME IInv, host = "down", crashes = 0, failures = 0
               PROVE  core = "none" /\ leftovers = {} /\ table = Foreign /\ ~files
    BY DEF DownIsClean
  <2>1. pc = "none" /\ core = "none" /\ status.state = "stopped" /\ fresh = None
    BY DEF IInv, LocalsInv, SessionInv, Clean
  <2>2. leftovers = {} /\ leaked = {}
    BY DEF IInv, DeletedInv, LeakNeedsFault, TypeOK, ValuesOK
  <2>3. table = Foreign
    <3>1. None \notin table
      BY RouteTypes, ConstantsAssumption DEF IInv
    <3> QED BY <2>1, <2>2, <3>1 DEF IInv, RoutesAccounted, ForeignKept
  <2>4. ~files
    BY <2>1 DEF IInv, ConfigOnlyWhileStarting
  <2> QED BY <2>1, <2>2, <2>3, <2>4
<1> QED BY <1>1, InvCorrect, PTL

\* No command is left in the queue of a sleeping worker.
THEOREM NoWakeupIsLost == Spec => []NoLostWakeup
<1>1. IInv => NoLostWakeup
  BY DEF IInv, WakeupInv, NoLostWakeup
<1> QED BY <1>1, InvCorrect, PTL

\* While the watch is on, no change of the network is overlooked.
THEOREM WatchIsComplete == Spec => []WatchMissesNothing
<1>1. IInv => WatchMissesNothing
  BY DEF IInv
<1> QED BY <1>1, InvCorrect, PTL
-----------------------------------------------------------------------------
(* CoreController implements CoreSession: every step of the one is a step  *)
(* of the other on the published state and on what is held, or changes     *)
(* neither.                                                                *)

LEMMA SessionInit == Init => Session!Init
BY DEF Init, Session!Init, Held, Status

LEMMA SessionSteps ==
  IInv /\ IInv' /\ [Next]_vars => [Session!Next]_<<status.state, Held>>
<1> DEFINE Same == UNCHANGED <<status, core, tun, guard, routes>>
           Allowed == [Session!Next]_<<status.state, Held>>
<1> SUFFICES ASSUME TypeOK, LocalsInv, SessionInv, StoppedIsClean,
                    IdleIsConsistent, BootInv, StoppedIsClean', SessionInv',
                    [Next]_vars
             PROVE  Allowed
  BY DEF IInv
<1>1. ASSUME Same PROVE Allowed
  BY <1>1 DEF Held
<1> USE DEF LocalsInv, SessionInv, StoppedIsClean, IdleIsConsistent, Settled,
            Clean, Building, Status, Session!Next, Session!Begin,
            Session!Build, Session!Run, Session!Ask, Session!Release,
            Session!Stop, Session!Reset, callVars, localVars, tunnelVars,
            watchVars, coreVars, machineVars, ghosts, bounds
<1>2. CASE Threads
  BY <1>1, <1>2, ThreadsFrame
<1>3. CASE HostSteps
  <2>1. CASE GoDown
    BY <2>1 DEF GoDown, FreshController, Held
  <2>2. CASE ~GoDown
    BY <1>1, <1>3, <2>2 DEF HostSteps, HostGoes, Boot, OpenServer, GiveUp,
       StopController, JoinClients, DestroyController
  <2> QED BY <2>1, <2>2
<1>4. CASE Crash
  BY <1>4 DEF Crash, FreshController, Held
<1>5. CASE Waking
  BY <1>1, <1>5, WakingFrame
<1>6. CASE Draining
  <2>1. ASSUME pc = "drain", DoStop, UNCHANGED <<core, tun, guard, routes>>
        PROVE  Allowed
    BY <2>1 DEF DoStop, Held
  <2>2. CASE TakeStop \/ TakeShutdown
    BY <1>1, <1>6, <2>1, <2>2, DrainingFrame
       DEF TakeStop, TakeShutdown, ShutdownStops, Take
  <2>3. CASE TakeStart \/ TakeCleanup \/ QueueDrained \/ Complete
    BY <1>1, <1>6, <2>3, DrainingFrame
       DEF TakeStart, TakeCleanup, QueueDrained, Complete
  <2> QED BY <1>6, <2>2, <2>3 DEF Draining
<1>7. CASE Cleaning
  <2>1. CASE CleanupRoute \/ CleanupEnd \/ TearDownRoute
    BY <1>1, <2>1 DEF CleanupRoute, CleanupEnd, TearDownRoute
  <2>2. CASE TearDownCore
    BY <2>2 DEF TearDownCore, RemoveGuard, Held
  <2>3. CASE TearDownEnd
    BY <2>3 DEF TearDownEnd, Held
  <2>4. CASE PublishStopped
    BY <2>4 DEF PublishStopped, Held
  <2> QED BY <1>7, <2>1, <2>2, <2>3, <2>4 DEF Cleaning
<1>8. CASE Starting
  <2>1. CASE StartBegin \/ StartFailed \/ RebuildFailed
    BY <2>1 DEF StartBegin, StartFailed, RebuildFailed, Held
  <2>2. CASE StartFinish
    BY <2>2 DEF StartFinish, Held
  <2>3. CASE SaveRoute \/ LaunchXray \/ FindAdapter \/ InstallGuard
    BY <2>3, AdaptersTyped DEF SaveRoute, LaunchXray, FindAdapter,
       InstallGuard, Held
  <2>4. CASE \/ FindRoute \/ ResolveServers \/ AddRoute \/ RoutesAdded
             \/ ConfigureTun \/ AwaitListener
    BY <1>1, <2>4 DEF FindRoute, TakeRoute, ResolveServers, AddRoute, RoutesAdded,
       ConfigureTun, AwaitListener
  <2> QED BY <1>8, <2>1, <2>2, <2>3, <2>4 DEF Starting
<1>9. CASE Machine
  BY <1>1, <1>9, MachineFrame DEF Machine, NetworkChanges, OtherNotification,
     CoreExits, CoreRuns, CoreCreatesAdapter, AdapterVanishes, Held
<1>10. CASE UNCHANGED vars
  BY <1>1, <1>10 DEF vars
<1> QED
  BY <1>2, <1>3, <1>4, <1>5, <1>6, <1>7, <1>8, <1>9, <1>10 DEF Next, Worker

\* The status listener sees a CoreSession: "running" and "stopping" only of
\* something that is there, a start only from a clean machine, and "stopped"
\* only once all of it is gone.
THEOREM ImplementsSession == Spec => SessionSpec
<1>1. Init => Session!Init
  BY SessionInit
<1>2. IInv /\ IInv' /\ [Next]_vars => [Session!Next]_<<status.state, Held>>
  BY SessionSteps
<1> QED BY <1>1, <1>2, InvCorrect, PTL DEF Spec, SessionSpec, Session!Spec
=============================================================================
