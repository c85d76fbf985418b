------------------------ MODULE CoreControllerTypes -------------------------
(***************************************************************************)
(* Type correctness of CoreController, and the facts about its values,     *)
(* frames and worker locals that the safety proofs of CoreControllerProofs *)
(* rest on.                                                                *)
(***************************************************************************)
EXTENDS CoreController, SequenceTheorems, TLAPS

(* Records and sequences.                                                  *)

LEMMA OptionsTyped ==
  /\ DefaultOptions \in StartOptions
  /\ \A o \in StartOptions : o.tunnel \in BOOLEAN /\ o.dns \in BOOLEAN
BY DEF DefaultOptions, StartOptions

LEMMA CommandTyped ==
  ASSUME NEW c \in Callers, NEW k \in Kinds, NEW o \in StartOptions
  PROVE  [kind |-> k, from |-> c, opts |-> o] \in Commands
BY DEF Commands

LEMMA CommandIsWork == Commands \subseteq Work
BY DEF Commands, Work

LEMMA WorkTyped ==
  /\ Idle \in Work /\ [Idle EXCEPT !.kind = "exit"] \in Work
  /\ \A k \in {"lost", "rebuild"}, o \in StartOptions :
       [kind |-> k, from |-> Host, opts |-> o] \in Work
BY OptionsTyped DEF Work, Idle, Callers, Kinds

LEMMA WorkFields ==
  ASSUME NEW w \in Work
  PROVE  /\ w.opts \in StartOptions /\ w.from \in Callers
         /\ w.kind \in Kinds \cup {"idle", "exit", "lost", "rebuild"}
BY DEF Work

LEMMA StatusTyped ==
  ASSUME NEW s \in States, NEW t \in BOOLEAN, NEW c \in Codes
  PROVE  Status(s, t, c) \in Statuses
BY DEF Status, Statuses

\* The statuses the actions publish, whose mode is a literal or an option.
LEMMA PublishedTyped ==
  ASSUME NEW s \in States, NEW c \in Codes
  PROVE  /\ Status(s, FALSE, c) \in Statuses
         /\ Status(s, TRUE, c) \in Statuses
         /\ \A o \in StartOptions : Status(s, o.tunnel, c) \in Statuses
BY StatusTyped, OptionsTyped, Zenon

LEMMA NamesTyped ==
  /\ "none" \in Codes
  /\ "stopped" \in States /\ "starting" \in States
  /\ "running" \in States /\ "stopping" \in States
BY DEF Codes, States

LEMMA EmptySequences ==
  <<>> \in Seq(Commands) /\ <<>> \in Seq(Routes) /\ Len(<<>>) = 0
BY EmptySeq

LEMMA RangeTyped ==
  ASSUME NEW S, NEW s \in Seq(S)
  PROVE  RangeOf(s) \subseteq S
BY ElementOfSeq DEF RangeOf

\* Appending to a sequence adds the element to its range.
LEMMA RangeAppend ==
  ASSUME NEW S, NEW s \in Seq(S), NEW e \in S
  PROVE  RangeOf(Append(s, e)) = RangeOf(s) \cup {e}
<1> DEFINE t == Append(s, e)
<1>1. /\ Len(t) = Len(s) + 1 /\ t[Len(s) + 1] = e /\ Len(s) \in Nat
      /\ \A i \in 1 .. Len(s) : t[i] = s[i]
  BY AppendProperties, LenProperties
<1>2. 1 .. Len(t) = (1 .. Len(s)) \cup {Len(s) + 1}
  BY <1>1
<1> HIDE DEF t
<1>3. RangeOf(t) = RangeOf(s) \cup {e}
  BY <1>1, <1>2 DEF RangeOf
<1> QED BY <1>3 DEF t

-----------------------------------------------------------------------------
(* What the groups of actions leave alone.                                 *)

LEMMA ThreadsFrame ==
  Threads => UNCHANGED <<host, pc, localVars, status, tunnelVars, watchVars,
                         machineVars, ghosts, crashes, netEvents, failures>>
BY DEF Threads, Submit, Signal, Return, callVars, localVars, tunnelVars,
       watchVars, coreVars, machineVars, ghosts, bounds

LEMMA MachineFrame ==
  Machine => UNCHANGED <<callVars, pc, localVars, status, tunnelVars, watch,
                         pending, leftovers, files, ghosts, commands, crashes,
                         failures>>
BY DEF Machine, NetworkChanges, OtherNotification, CoreExits,
       CoreCreatesAdapter, AdapterVanishes, WorkerUnchanged

LEMMA WakingFrame ==
  Waking => UNCHANGED <<queue, call, done, host, status, tunnelVars, watch,
                        machineVars, leaked, servers, bounds>>
BY DEF Waking, WakeForQueue, WakeForExit, WakeForNetwork, NetworkSettled,
       callVars, watchVars, ghosts

LEMMA DrainingFrame ==
  Draining => UNCHANGED <<queueEvent, call, host, fresh, left, dnsReady,
                          tunnelVars, watchVars, machineVars, ghosts, bounds>>
BY DEF Draining, TakeStart, TakeStop, TakeShutdown, TakeCleanup, Take,
       QueueDrained, Complete, callVars, localVars

LEMMA CleaningFrame ==
  Cleaning => UNCHANGED <<callVars, fresh, dnsReady, active, physical,
                          net, adapters, dnsSet, seen, commands, crashes,
                          netEvents>>
BY DEF Cleaning, CleanupRoute, CleanupEnd, TearDownCore, TearDownRoute,
       TearDownEnd, PublishStopped, localVars, tunnelVars, coreVars,
       machineVars, ghosts, bounds

LEMMA StartingFrame ==
  Starting => UNCHANGED <<callVars, net, adapters, coreTun, leaked, bounds>>
BY DEF Starting, StartBegin, FindRoute, TakeRoute, ResolveServers, AddRoute, SaveRoute,
       RoutesAdded, LaunchXray, FindAdapter, ConfigureTun, InstallGuard,
       AwaitListener, StartFinish, StartFailed, RebuildFailed, coreVars,
       machineVars, ghosts

-----------------------------------------------------------------------------
(* Every step keeps the types.                                             *)

LEMMA FlagsStep == FlagsOK /\ work \in Work /\ [Next]_vars => FlagsOK'
<1> SUFFICES ASSUME FlagsOK, work \in Work, [Next]_vars PROVE FlagsOK'
  OBVIOUS
<1> USE DEF FlagsOK, callVars, localVars, tunnelVars, watchVars, coreVars,
            machineVars, ghosts, bounds
<1>1. CASE Threads
  <2>1. queueEvent' = queueEvent \/ queueEvent' = TRUE
    BY <1>1, Zenon DEF Threads, Submit, Signal, SetQueueEvent, Return
  <2> QED BY <1>1, <2>1, ThreadsFrame, Zenon
<1>2. CASE HostSteps
  BY <1>2, Zenon DEF HostSteps, HostGoes, Boot, OpenServer, GiveUp, StopController,
     JoinClients, DestroyController, GoDown, FreshController
<1>3. CASE Crash
  BY <1>3, Zenon DEF Crash, FreshController
<1>4. CASE Waking
  BY <1>4, Zenon DEF Waking, WakeForQueue, WakeForExit, WakeForNetwork,
     NetworkSettled, ArmSettleDelay, BeginTearDown
<1>5. CASE Draining
  BY <1>5, DrainingFrame, Zenon
<1>6. CASE Cleaning
  BY <1>6, CleaningFrame, Zenon DEF Cleaning, CleanupRoute, CleanupEnd,
     TearDownCore, TearDownRoute, TearDownEnd, DeleteRuntimeFiles,
     PublishStopped
<1>7. CASE Starting
  <2>1. CASE StartFinish
    BY <2>1, Zenon DEF StartFinish, DeleteRuntimeFiles, StartNetworkWatch, Go
  <2>2. CASE StartBegin \/ FindRoute \/ ResolveServers \/ AddRoute \/ SaveRoute
    BY <2>2, Zenon DEF Go, Fail, StartBegin, FindRoute, TakeRoute, ResolveServers,
       AddRoute, SaveRoute
  <2>3. CASE RoutesAdded \/ LaunchXray \/ FindAdapter \/ ConfigureTun
    <3> ASSUME NEW ok \in {FALSE, work.opts.dns} PROVE ok \in BOOLEAN
      BY WorkFields, OptionsTyped
    <3> QED
      BY <2>3, Zenon DEF Go, Fail, RoutesAdded, LaunchXray, FindAdapter,
         ConfigureTun
  <2>4. CASE InstallGuard \/ AwaitListener \/ StartFailed \/ RebuildFailed
    BY <2>4, Zenon DEF Go, Fail, InstallGuard, AwaitListener, StartFailed,
       RebuildFailed
  <2> QED BY <1>7, <2>1, <2>2, <2>3, <2>4, Zenon DEF Starting
<1>8. CASE Machine
  BY <1>8, MachineFrame, Zenon DEF Machine, NetworkChanges, Notified,
     OtherNotification, CoreExits, CoreCreatesAdapter, AdapterVanishes
<1>9. CASE UNCHANGED vars
  BY <1>9, Zenon DEF vars
<1> QED
  BY <1>1, <1>2, <1>3, <1>4, <1>5, <1>6, <1>7, <1>8, <1>9 DEF Next, Worker

LEMMA ValuesStep == TypeOK /\ LocalsInv /\ [Next]_vars => ValuesOK'
<1> SUFFICES ASSUME FlagsOK, ValuesOK, LocalsInv, [Next]_vars
             PROVE  ValuesOK'
  BY DEF TypeOK
<1> USE ConstantsAssumption
    DEF ValuesOK, callVars, localVars, tunnelVars, watchVars, coreVars,
        machineVars, ghosts, bounds
<1>1. ASSUME NEW c \in Clients, NEW k \in {"start", "stop"},
             NEW o \in StartOptions, Submit(c, k, o)
      PROVE  ValuesOK'
  BY <1>1, AppendProperties, CommandTyped DEF Submit, Push, Callers, Kinds
<1>2. ASSUME NEW c \in Callers, Signal(c) PROVE ValuesOK'
  BY <1>2 DEF Signal
<1>3. ASSUME NEW c \in Callers, Return(c) PROVE ValuesOK'
  BY <1>3 DEF Return
<1>4. CASE Boot
  BY <1>4, AppendProperties, CommandTyped, OptionsTyped
     DEF Boot, Push, Callers, Kinds, PCs
<1>5. CASE OpenServer
  BY <1>5 DEF OpenServer, HostGoes
<1>6. CASE StopController
  BY <1>6, AppendProperties, CommandTyped, OptionsTyped
     DEF StopController, HostGoes, Push, Callers, Kinds
<1>7. CASE JoinClients
  BY <1>7 DEF JoinClients, HostGoes
<1>8. CASE GiveUp
  BY <1>8, AppendProperties, CommandTyped, OptionsTyped
     DEF GiveUp, HostGoes, Push, Callers, Kinds
<1>8b. CASE DestroyController
  BY <1>8b, AppendProperties, CommandTyped, OptionsTyped
     DEF DestroyController, HostGoes, Push, Callers, Kinds
<1>9. ASSUME FreshController
      PROVE  /\ queue' \in Seq(Commands) /\ done' \subseteq Callers
             /\ work' \in Work /\ err' \in Codes /\ todo' \subseteq Routes
             /\ fresh' \in Routes \cup {None}
             /\ routes' \in Seq(Routes) /\ left' \in 0 .. Len(routes')
             /\ status' \in Statuses
             /\ active' \in StartOptions
             /\ physical' \in Networks \cup {None}
             /\ tun' \in Adapters \cup {None} /\ guard' \in Adapters \cup {None}
  <2>1. status' \in Statuses
    BY <1>9, PublishedTyped, NamesTyped, Zenon DEF FreshController
  <2> QED
    <3>1. /\ queue' = <<>> /\ routes' = <<>> /\ left' = 0
          /\ done' = {} /\ todo' = {} /\ work' = Idle /\ err' = "none"
          /\ active' = DefaultOptions /\ fresh' = None /\ physical' = None
          /\ tun' = None /\ guard' = None
      BY <1>9, Zenon DEF FreshController
    <3> QED
      BY <2>1, <3>1, EmptySequences, NamesTyped, WorkTyped, OptionsTyped
<1>10. CASE GoDown
  BY <1>9, <1>10 DEF GoDown, PCs
<1>11. CASE Crash
  BY <1>9, <1>11 DEF Crash, PCs, Cores
<1>12. CASE WakeForQueue
  BY <1>12 DEF WakeForQueue, PCs
<1>13. CASE WakeForExit
  BY <1>13, WorkTyped DEF WakeForExit, BeginTearDown, PCs, Codes
<1>14. CASE WakeForNetwork
  BY <1>14 DEF WakeForNetwork, PCs
<1>15. CASE NetworkSettled
  BY <1>15, WorkTyped DEF NetworkSettled, BeginTearDown, PCs, Codes
<1>16. CASE TakeStart
  BY <1>16, HeadTailProperties, CommandIsWork DEF TakeStart, Take, PCs, Codes
<1>17. ASSUME DoStop
       PROVE  /\ pc' \in PCs
              /\ status' \in Statuses
  <2>1. pc' \in PCs
    BY <1>17 DEF DoStop, PCs
  <2>2. status' \in {Status("stopped", FALSE, "none"),
                     Status("stopping", active.tunnel, "none")}
    BY <1>17, Zenon DEF DoStop
  <2>3. Status("stopping", active.tunnel, "none") \in Statuses
    BY PublishedTyped, NamesTyped
  <2>4. Status("stopped", FALSE, "none") \in Statuses
    BY PublishedTyped, NamesTyped, Zenon
  <2> QED BY <2>1, <2>2, <2>3, <2>4, Zenon
<1>18. CASE TakeStop
  BY <1>17, <1>18, HeadTailProperties, CommandIsWork DEF TakeStop, Take, Codes
<1>19. CASE TakeShutdown
  BY <1>17, <1>19, HeadTailProperties, CommandIsWork
     DEF TakeShutdown, ShutdownStops, Take, PCs, Codes
<1>20. CASE TakeCleanup
  BY <1>20, HeadTailProperties, CommandIsWork DEF TakeCleanup, Take, PCs, Codes
<1>21. CASE QueueDrained
  BY <1>21 DEF QueueDrained, PCs
<1>22. CASE Complete
  BY <1>22, WorkTyped, WorkFields DEF Complete, AfterCommand, PCs, Codes
<1>23. CASE CleanupRoute
  BY <1>23 DEF CleanupRoute, DeleteRoute
<1>24. CASE CleanupEnd
  BY <1>24 DEF CleanupEnd, SaveLeftoverRoutes, PCs
<1>25. CASE TearDownCore
  BY <1>25 DEF TearDownCore, RemoveGuard, LastRoute, PCs, Cores
<1>26. CASE TearDownRoute
  BY <1>26 DEF TearDownRoute, DeleteRoute
<1>27. CASE TearDownEnd
  BY <1>27, EmptySequences DEF TearDownEnd, SaveLeftoverRoutes, PCs
<1>28. CASE PublishStopped
  BY <1>28, WorkTyped, StatusTyped, OptionsTyped
     DEF PublishStopped, PCs, States, Codes
<1>29. CASE StartBegin
  BY <1>29, WorkFields, OptionsTyped, StatusTyped
     DEF StartBegin, Go, Fail, PCs, Codes, States
<1>30. CASE FindRoute
  BY <1>30 DEF FindRoute, TakeRoute, Go, Fail, PCs, Codes
<1>31. CASE ResolveServers
  BY <1>31 DEF ResolveServers, Fail, PCs, Codes, Routes, ServerRoutes, LocalsInv
<1>32. CASE AddRoute
  BY <1>32 DEF AddRoute, Fail, PCs, Codes
<1>33. CASE SaveRoute
  BY <1>33, AppendProperties, RangeTyped
     DEF SaveRoute, SaveLeftoverRoutes, PCs, LocalsInv
<1>34. CASE RoutesAdded
  BY <1>34 DEF RoutesAdded, Go, PCs
<1>35. CASE LaunchXray
  BY <1>35 DEF LaunchXray, Go, Fail, PCs, Codes, Cores
<1>36. CASE FindAdapter
  BY <1>36 DEF FindAdapter, Go, Fail, PCs, Codes
<1>37. CASE ConfigureTun
  <2>1. CASE UNCHANGED dnsSet /\ \E code \in Codes : Fail(code)
    BY <1>37, <2>1 DEF ConfigureTun, Fail, PCs
  <2>2. CASE tun \in adapters /\ pc' = "st_routes" /\ err' = err /\ work' = work
    <3>1. todo' \subseteq Routes /\ dnsSet' \subseteq Adapters
      <4>1. todo' \in {{}, {TunRoute(tun, p) : p \in Prefixes}}
        BY <1>37, Zenon DEF ConfigureTun, Fail
      <4>2. dnsSet' \in {dnsSet, dnsSet \cup {tun}}
        BY <1>37, Zenon DEF ConfigureTun
      <4> QED BY <2>2, <4>1, <4>2 DEF Routes, TunRoutes
    <3> QED BY <1>37, <2>2, <3>1 DEF ConfigureTun, Fail, PCs
  <2> QED BY <1>37, <2>1, <2>2 DEF ConfigureTun, Fail, Codes
<1>38. CASE InstallGuard
  BY <1>38 DEF InstallGuard, PCs
<1>39. CASE AwaitListener
  BY <1>39 DEF AwaitListener, Go, Fail, PCs, Codes
<1>40. CASE StartFinish
  BY <1>40, WorkTyped, WorkFields, OptionsTyped, StatusTyped
     DEF StartFinish, RememberOptions, StartNetworkWatch, Go, PCs, States, Codes
<1>41. CASE StartFailed
  BY <1>41, WorkFields, OptionsTyped, StatusTyped
     DEF StartFailed, Go, PCs, States, Codes
<1>42. CASE RebuildFailed
  <2>1. status' \in Statuses
    BY <1>42, PublishedTyped, Zenon DEF RebuildFailed, States
  <2> QED BY <1>42, <2>1, WorkTyped DEF RebuildFailed, PCs, Codes
<1>43. CASE NetworkChanges
  BY <1>43 DEF NetworkChanges, WorkerUnchanged
<1>44. CASE OtherNotification
  BY <1>44 DEF OtherNotification, WorkerUnchanged
<1>45. CASE CoreExits
  BY <1>45 DEF CoreExits, WorkerUnchanged, Cores
<1>46. CASE CoreCreatesAdapter
  BY <1>46 DEF CoreCreatesAdapter, WorkerUnchanged
<1>47. CASE AdapterVanishes
  BY <1>47 DEF AdapterVanishes, WorkerUnchanged
<1>48. CASE UNCHANGED vars
  BY <1>48 DEF vars
<1>49. CASE Threads
  BY <1>1, <1>2, <1>3, <1>49, OptionsTyped DEF Threads
<1> QED
  BY <1>4, <1>5, <1>6, <1>7, <1>8, <1>8b, <1>10, <1>11, <1>12, <1>13, <1>14, <1>15,
     <1>16, <1>18, <1>19, <1>20, <1>21, <1>22, <1>23, <1>24, <1>25, <1>26,
     <1>27, <1>28, <1>29, <1>30, <1>31, <1>32, <1>33, <1>34, <1>35, <1>36,
     <1>37, <1>38, <1>39, <1>40, <1>41, <1>42, <1>43, <1>44, <1>45, <1>46,
     <1>47, <1>48, <1>49
     DEF Next, HostSteps, Worker, Waking, Draining, Cleaning, Starting, Machine

LEMMA TypeStep == TypeOK /\ LocalsInv /\ [Next]_vars => TypeOK'
BY FlagsStep, ValuesStep DEF TypeOK, ValuesOK

-----------------------------------------------------------------------------
(* What the worker's locals hold at each place, which the types rest on:   *)
(* a route is saved only when one was added, servers are resolved only on  *)
(* a network.                                                              *)

\* What the cases below need of the types.
LEMMA LocalTypes ==
  TypeOK => /\ work.kind \in Kinds \cup {"idle", "exit", "lost", "rebuild"}
            /\ todo \subseteq Routes /\ net \in Networks \cup {None}
            /\ queue # <<>> => Head(queue).kind \in Kinds
            /\ pc \in PCs
<1> SUFFICES ASSUME TypeOK
             PROVE  /\ work.kind \in Kinds \cup {"idle", "exit", "lost", "rebuild"}
                    /\ todo \subseteq Routes /\ net \in Networks \cup {None}
                    /\ queue # <<>> => Head(queue).kind \in Kinds
                    /\ pc \in PCs
  OBVIOUS
<1>1. /\ work \in Work /\ queue \in Seq(Commands)
      /\ todo \subseteq Routes /\ net \in Networks \cup {None} /\ pc \in PCs
  BY DEF TypeOK, ValuesOK
<1>2. queue # <<>> => Head(queue) \in Commands
  BY <1>1, HeadTailProperties
<1>3. queue # <<>> => Head(queue).kind \in Kinds
  BY <1>2 DEF Commands
<1> QED BY <1>1, <1>3, WorkFields

LEMMA LocalsStep == TypeOK /\ LocalsInv /\ [Next]_vars => LocalsInv'
<1> SUFFICES ASSUME TypeOK, LocalsInv, [Next]_vars PROVE LocalsInv'
  OBVIOUS
<1> USE ConstantsAssumption, LocalTypes
    DEF LocalsInv, Building, Kinds, callVars, localVars, tunnelVars, watchVars,
        coreVars, machineVars, ghosts, bounds
<1>1. CASE Threads
  BY <1>1, ThreadsFrame
<1>2. CASE HostSteps
  BY <1>2 DEF HostSteps, HostGoes, Boot, OpenServer, GiveUp, StopController,
     JoinClients, DestroyController, GoDown, FreshController
<1>3. CASE Crash
  BY <1>3 DEF Crash, FreshController
<1>4. CASE Waking
  BY <1>4 DEF Waking, WakeForQueue, WakeForExit, WakeForNetwork,
     NetworkSettled, BeginTearDown, Idle
<1>5. CASE Draining
  <2>1. CASE TakeStart \/ TakeCleanup \/ QueueDrained
    BY <1>5, <2>1 DEF TakeStart, TakeCleanup, Take, QueueDrained
  <2>2. CASE TakeStop \/ TakeShutdown
    BY <1>5, <2>2 DEF TakeStop, TakeShutdown, ShutdownStops, DoStop, Take
  <2>3. CASE Complete
    BY <1>5, <2>3 DEF Complete, AfterCommand
  <2> QED BY <1>5, <2>1, <2>2, <2>3 DEF Draining
<1>6. CASE Cleaning
  BY <1>6 DEF Cleaning, CleanupRoute, CleanupEnd, TearDownCore,
     TearDownRoute, TearDownEnd, PublishStopped
<1>7. CASE Starting
  <2>1. CASE StartBegin \/ FindRoute \/ ResolveServers
    BY <2>1 DEF StartBegin, FindRoute, TakeRoute, ResolveServers, Go, Fail
  <2>2. CASE AddRoute
    BY <2>2 DEF AddRoute, Fail, AddRouteResult
  <2>3. CASE SaveRoute \/ RoutesAdded \/ LaunchXray \/ FindAdapter
    BY <2>3 DEF SaveRoute, RoutesAdded, LaunchXray, FindAdapter, Go, Fail
  <2>4. CASE ConfigureTun \/ InstallGuard \/ AwaitListener
    BY <2>4 DEF ConfigureTun, InstallGuard, AwaitListener, Go, Fail
  <2>5. CASE StartFinish \/ StartFailed \/ RebuildFailed
    BY <2>5 DEF StartFinish, StartFailed, RebuildFailed, Go
  <2> QED BY <1>7, <2>1, <2>2, <2>3, <2>4, <2>5 DEF Starting
<1>8. CASE Machine
  BY <1>8, MachineFrame
<1>9. CASE UNCHANGED vars
  BY <1>9 DEF vars
<1> QED
  BY <1>1, <1>2, <1>3, <1>4, <1>5, <1>6, <1>7, <1>8, <1>9 DEF Next, Worker

LEMMA TypeInit == Init => TypeOK /\ LocalsInv
<1> SUFFICES ASSUME Init PROVE TypeOK /\ LocalsInv
  OBVIOUS
<1>1. FlagsOK
  BY Zenon DEF Init, FlagsOK
<1>2. status \in Statuses
  BY PublishedTyped, NamesTyped, Zenon DEF Init
<1>3. ValuesOK
  <2>1. /\ queue = <<>> /\ routes = <<>> /\ left = 0 /\ done = {}
        /\ call = [c \in Callers |-> "idle"] /\ host = "down" /\ pc = "none"
        /\ work = Idle /\ err = "none" /\ todo = {} /\ fresh = None
        /\ active = DefaultOptions /\ physical = None /\ tun = None
        /\ guard = None /\ core = "none" /\ coreTun = None
        /\ adapters = {} /\ dnsSet = {} /\ net \in Networks
        /\ table = Foreign /\ leftovers = {} /\ leaked = {} /\ seen = None
        /\ servers = {} /\ commands = 0 /\ crashes = 0 /\ netEvents = 0
        /\ failures = 0
    BY Zenon DEF Init
  <2>2. table \subseteq Routes
    BY <2>1, ConstantsAssumption DEF Routes
  <2> QED
    BY <1>2, <2>1, <2>2, EmptySequences, NamesTyped, WorkTyped, OptionsTyped
       DEF ValuesOK, PCs, Cores
<1>4. LocalsInv
  BY DEF Init, LocalsInv, Building
<1> QED BY <1>1, <1>3, <1>4 DEF TypeOK

\* TypeOK is an invariant: the worker's locals, the controller's members and
\* what it records of the machine keep their types through every command,
\* event, failure and crash, for any number of clients, networks, adapters,
\* servers and options.
THEOREM TypeCorrect == Spec => [](TypeOK /\ LocalsInv)
<1>1. TypeOK /\ LocalsInv /\ [Next]_vars => (TypeOK /\ LocalsInv)'
  BY TypeStep, LocalsStep
<1> QED BY <1>1, TypeInit, PTL DEF Spec
=============================================================================
