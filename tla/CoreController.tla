--------------------------- MODULE CoreController ---------------------------
(***************************************************************************)
(* The controller of the Xray core on Windows                              *)
(* (windows/core/core_controller.cpp): one worker thread that owns the     *)
(* core process and, in tunnel mode, everything that makes Windows send    *)
(* traffic into it.  Around it: the threads that call Start and Stop, the  *)
(* host process (the ChrNet service) that builds, stops and may crash, and *)
(* the machine, whose network, TUN adapters and core process change while  *)
(* the worker is in the middle of a command.                               *)
(*                                                                         *)
(* A step of the worker ends where the code does something other threads,  *)
(* the machine or a crash can tell apart.  A route is the pair (interface, *)
(* destination); the gateway and the local address of a network are part   *)
(* of its identity, as in net::SamePhysicalRoute.                          *)
(***************************************************************************)
EXTENDS Integers, Sequences, FiniteSets

CONSTANTS
  Clients,        \* threads that call Start and Stop
  Host,           \* the thread that owns the controller
  Options,        \* the StartOptions a client may send
  Networks,       \* physical default routes the machine can have
  Adapters,       \* interface ids a TUN adapter can get
  Ips,            \* addresses of VPN servers
  Prefixes,       \* prefixes sent into the TUN
  Foreign,        \* server routes somebody else added before
  None,           \* no network, no adapter, no route
  MaxCommands,    \* bound on the commands the clients submit
  MaxCrashes,     \* bound on the crashes of the host
  MaxNetEvents,   \* bound on the changes and notifications of the network
  MaxFailures     \* bound on the failures of DeleteRoute

Callers == Clients \cup {Host}

ServerRoute(n, ip) == [via |-> n, dst |-> ip]
TunRoute(a, p) == [via |-> a, dst |-> p]

ServerRoutes == {ServerRoute(n, ip) : n \in Networks, ip \in Ips}
TunRoutes == {TunRoute(a, p) : a \in Adapters, p \in Prefixes}
Routes == ServerRoutes \cup TunRoutes

\* StartOptions and its TunnelOptions, as far as control depends on them:
\* tunnel or proxy mode, follow_network_changes, leak_protection, a non-empty
\* dns_server, and guarded_dns_port = 53.
StartOptions == [tunnel : BOOLEAN, follow : BOOLEAN, leak : BOOLEAN,
                 dns : BOOLEAN, port53 : BOOLEAN]
DefaultOptions == [tunnel |-> FALSE, follow |-> TRUE, leak |-> TRUE,
                   dns |-> TRUE, port53 |-> TRUE]

ASSUME ConstantsAssumption ==
  /\ Host \notin Clients
  /\ Options \subseteq StartOptions
  /\ Networks \cap Adapters = {}
  /\ None \notin Networks \cup Adapters \cup Routes
  /\ Foreign \subseteq ServerRoutes
  /\ MaxCommands \in Nat /\ MaxCrashes \in Nat
  /\ MaxNetEvents \in Nat /\ MaxFailures \in Nat

VARIABLES
  \* The command queue and the threads blocked in Submit.
  queue,        \* queue_
  queueEvent,   \* queue_event_, an auto-reset event
  call,         \* where each caller is in Submit
  done,         \* callers whose command has done = true
  host,         \* the life of the host process
  \* The worker thread: where it is, and its locals.
  pc,
  work,         \* what it is doing: a command, or its reaction to an event
  err,          \* CoreError::code of the start under way
  todo,         \* routes still to add, or leftovers still to delete
  fresh,        \* a route just added, not yet in routes_
  left,         \* routes of routes_ TearDown has still to delete
  dnsReady,     \* dns_ready of SetUpTunnel
  \* What the worker owns.
  status,       \* status_, as last published
  active,       \* active_options_
  physical,     \* physical_route_
  tun,          \* tun_
  routes,       \* routes_
  guard,        \* leak_guard_: the TUN its filters permit, or None
  watch,        \* network_watch_
  pending,      \* network_change_pending_
  netEvent,     \* network_event_, an auto-reset event
  \* The machine.
  core,         \* the core process behind process_, by its mode while it runs
  coreTun,      \* the adapter that core created
  adapters,     \* adapters of the tunnel's name
  dnsSet,       \* those whose DNS server is the tunnel's
  net,          \* the physical default route
  table,        \* the routes ChrNet could have added, as the system has them
  leftovers,    \* the ActiveRoutes value in the registry
  files,        \* config.json is in runtime_dir
  \* History, read by properties only.
  leaked,       \* our routes in the table whose last record was erased
  seen,         \* the network when the worker last looked with the watch on
  servers,      \* the addresses the session under way resolved its servers to
  \* Bounds.
  commands, crashes, netEvents, failures

callVars == <<queue, queueEvent, call, done, host>>
localVars == <<work, err, todo, fresh, left, dnsReady>>
tunnelVars == <<active, physical, tun, routes, guard>>
watchVars == <<watch, pending, netEvent>>
coreVars == <<core, coreTun, adapters, dnsSet>>
machineVars == <<coreVars, net, table, leftovers, files>>
ghosts == <<leaked, seen, servers>>
bounds == <<commands, crashes, netEvents, failures>>
vars == <<callVars, pc, localVars, status, tunnelVars, watchVars, coreVars,
          net, table, leftovers, files, ghosts, bounds>>

States == {"stopped", "starting", "running", "stopping"}
Codes == {"none", "INVALID_CONFIG", "XRAY_MISSING", "NOT_ELEVATED",
          "PORT_IN_USE", "NETWORK_UNAVAILABLE", "RESOLVE_FAILED",
          "ROUTE_FAILED", "CONFIG_WRITE_FAILED", "XRAY_LAUNCH_FAILED",
          "TUN_NOT_CREATED", "INVALID_OPTIONS", "TUN_ADDRESS_FAILED",
          "CORE_EXITED", "CORE_NOT_READY"}

Kinds == {"start", "stop", "cleanup", "shutdown"}
Commands == [kind : Kinds, from : Callers, opts : StartOptions]
\* Besides commands: a crash of the core, the loss of the network and a
\* rebuild of the tunnel on another one.
Work == [kind : Kinds \cup {"idle", "exit", "lost", "rebuild"},
         from : Callers, opts : StartOptions]
Idle == [kind |-> "idle", from |-> Host, opts |-> DefaultOptions]

Statuses == [state : States, tunnel : BOOLEAN, code : Codes]
Status(state, tunnel, code) ==
  [state |-> state, tunnel |-> tunnel, code |-> code]

Cores == {"none", "proxy", "tunnel", "exited"}
CoreRuns == core \in {"proxy", "tunnel"}

RangeOf(s) == {s[i] : i \in 1 .. Len(s)}

-----------------------------------------------------------------------------
(* Submit: push the command, set the event, wait until it is done.         *)

Push(c, kind, opts) ==
  /\ call[c] = "idle"
  /\ call' = [call EXCEPT ![c] = "pushed"]
  /\ queue' = Append(queue, [kind |-> kind, from |-> c, opts |-> opts])

\* A pipe client handles start or stop.  PipeServer::Stop joins the client
\* threads, so until the host is past it a request it read is still handled.
Submit(c, kind, opts) ==
  /\ host \in {"up", "stopping", "joining"}
  /\ commands < MaxCommands
  /\ commands' = commands + 1
  /\ Push(c, kind, opts)
  /\ UNCHANGED <<queueEvent, done, host, pc, localVars, status, tunnelVars,
                 watchVars, machineVars, ghosts, crashes, netEvents,
                 failures>>

\* Mutation: only the caller that found the queue empty sets the event.
SetEventIfFirst == queueEvent' = (queueEvent \/ Len(queue) = 1)
SetQueueEvent == queueEvent' = TRUE

Signal(c) ==
  /\ call[c] = "pushed"
  /\ call' = [call EXCEPT ![c] = "waiting"]
  /\ SetQueueEvent
  /\ UNCHANGED <<queue, done, host, pc, localVars, status, tunnelVars,
                 watchVars, machineVars, ghosts, bounds>>

Return(c) ==
  /\ call[c] = "waiting"
  /\ c \in done
  /\ call' = [call EXCEPT ![c] = "idle"]
  /\ done' = done \ {c}
  /\ UNCHANGED <<queue, queueEvent, host, pc, localVars, status, tunnelVars,
                 watchVars, machineVars, ghosts, bounds>>

-----------------------------------------------------------------------------
(* The host: ServiceRuntime::Start and Stop, and its death.                *)

\* The controller's own state when the host process is (re)created.
FreshController ==
  /\ queue' = <<>> /\ queueEvent' = FALSE
  /\ done' = {}
  /\ work' = Idle /\ err' = "none" /\ todo' = {} /\ fresh' = None
  /\ left' = 0 /\ dnsReady' = FALSE
  /\ status' = Status("stopped", FALSE, "none")
  /\ active' = DefaultOptions
  /\ physical' = None /\ tun' = None /\ routes' = <<>> /\ guard' = None
  /\ watch' = FALSE /\ pending' = FALSE /\ netEvent' = FALSE

Boot ==
  /\ host = "down"
  /\ host' = "boot"
  /\ pc' = "wait"
  /\ Push(Host, "cleanup", DefaultOptions)
  /\ UNCHANGED <<queueEvent, done, localVars, status, tunnelVars, watchVars,
                 machineVars, ghosts, bounds>>

\* Each later phase begins when the call of the one before has returned; the
\* controller is destroyed only after every client thread was joined.
HostGoes(from, to) ==
  /\ host = from
  /\ call[Host] = "idle"
  /\ host' = to
  /\ UNCHANGED <<queueEvent, done, localVars, status, tunnelVars, watchVars,
                 machineVars, ghosts, bounds>>

OpenServer == HostGoes("boot", "up") /\ UNCHANGED <<pc, queue, call>>
\* The pipe cannot be created: ServiceRuntime goes, and the controller with it.
GiveUp ==
  /\ HostGoes("boot", "closing")
  /\ Push(Host, "shutdown", DefaultOptions)
  /\ UNCHANGED pc
StopController ==
  /\ HostGoes("up", "stopping")
  /\ Push(Host, "stop", DefaultOptions)
  /\ UNCHANGED pc
JoinClients == HostGoes("stopping", "joining") /\ UNCHANGED <<pc, queue, call>>
DestroyController ==
  /\ \A c \in Clients : call[c] = "idle"
  /\ HostGoes("joining", "closing")
  /\ Push(Host, "shutdown", DefaultOptions)
  /\ UNCHANGED pc

\* The destructor has joined the worker.
GoDown ==
  /\ host = "closing" /\ pc = "exited" /\ call[Host] = "idle"
  /\ host' = "down"
  /\ pc' = "none"
  /\ FreshController
  /\ UNCHANGED <<call, machineVars, ghosts, bounds>>

\* The host process dies.  Its job object kills the core, its dynamic WFP
\* session takes the filters along; routes, registry and files stay.
Crash ==
  /\ host # "down"
  /\ crashes < MaxCrashes
  /\ crashes' = crashes + 1
  /\ host' = "down" /\ pc' = "none"
  /\ call' = [c \in Callers |-> "idle"]
  /\ FreshController
  /\ core' = "none" /\ coreTun' = None
  /\ leaked' = leaked \cup ({fresh} \ {None}) /\ servers' = {}
  /\ UNCHANGED <<adapters, dnsSet, net, table, leftovers, files, seen,
                 commands, netEvents, failures>>

-----------------------------------------------------------------------------
(* WorkerLoop.  WaitForMultipleObjects returns the first object signalled, *)
(* in the order queue, process, network; the timeout only without any.     *)

BeginTearDown ==
  /\ pc' = "td_core"
  /\ UNCHANGED <<todo, fresh, left, dnsReady>>

WakeForQueue ==
  /\ pc = "wait" /\ queueEvent
  /\ queueEvent' = FALSE
  /\ pc' = "drain"
  /\ UNCHANGED <<queue, call, done, host, localVars, status, tunnelVars,
                 watchVars, machineVars, ghosts, bounds>>

\* Mutation: the process handle is waited for only beside the network event.
ExitedUnderWatch == core = "exited" /\ watch
ProcessSignalled == core = "exited"

\* HandleCoreExit up to its TearDown.
WakeForExit ==
  /\ pc = "wait" /\ ~queueEvent /\ ProcessSignalled
  /\ work' = [Idle EXCEPT !.kind = "exit"]
  /\ err' = "CORE_EXITED"
  /\ BeginTearDown
  /\ UNCHANGED <<callVars, status, tunnelVars, watchVars, machineVars, ghosts,
                 bounds>>

\* Mutation: the event is consumed and no deadline is set.
ArmNothing == UNCHANGED pending
ArmSettleDelay == pending' = TRUE

\* Every notification pushes the settle deadline back.
WakeForNetwork ==
  /\ pc = "wait" /\ ~queueEvent /\ ~ProcessSignalled
  /\ watch /\ netEvent
  /\ netEvent' = FALSE
  /\ ArmSettleDelay
  /\ UNCHANGED <<callVars, pc, localVars, status, tunnelVars, watch,
                 machineVars, ghosts, bounds>>

\* WAIT_TIMEOUT and HandleNetworkChange up to its TearDown.
NetworkSettled ==
  /\ pc = "wait" /\ ~queueEvent /\ ~ProcessSignalled /\ ~(watch /\ netEvent)
  /\ pending
  /\ pending' = FALSE
  /\ seen' = net
  /\ IF core = "none" \/ ~active.tunnel \/ net = physical
       THEN UNCHANGED <<pc, localVars>>
       ELSE /\ work' = [kind |-> IF net = None THEN "lost" ELSE "rebuild",
                        from |-> Host, opts |-> active]
            /\ err' = IF net = None THEN "NETWORK_UNAVAILABLE" ELSE "none"
            /\ BeginTearDown
  /\ UNCHANGED <<callVars, status, tunnelVars, watch, netEvent, machineVars,
                 leaked, servers, bounds>>

-----------------------------------------------------------------------------
(* DrainCommands.                                                          *)

Take(kind) ==
  /\ pc = "drain"
  /\ queue # <<>> /\ Head(queue).kind = kind
  /\ queue' = Tail(queue)
  /\ work' = Head(queue)
  /\ err' = "none"
  /\ UNCHANGED <<queueEvent, call, done, host, fresh, left, dnsReady,
                 tunnelVars, watchVars, machineVars, ghosts, bounds>>

QueueDrained ==
  /\ pc = "drain" /\ queue = <<>>
  /\ pc' = "wait"
  /\ UNCHANGED <<callVars, localVars, status, tunnelVars, watchVars,
                 machineVars, ghosts, bounds>>

\* DoStart begins with TearDown.
TakeStart == Take("start") /\ pc' = "td_core" /\ UNCHANGED <<status, todo>>

\* Mutation: DoStop publishes "stopped" before its TearDown.
DoStopEarly ==
  IF core = "none" /\ routes = <<>>
    THEN pc' = "complete" /\ status' = Status("stopped", FALSE, "none")
    ELSE pc' = "td_core" /\ status' = Status("stopped", active.tunnel, "none")

\* DoStop up to its TearDown.
DoStop ==
  IF core = "none" /\ routes = <<>>
    THEN pc' = "complete" /\ status' = Status("stopped", FALSE, "none")
    ELSE pc' = "td_core" /\ status' = Status("stopping", active.tunnel, "none")

TakeStop == Take("stop") /\ DoStop /\ UNCHANGED todo

\* Mutation: the destructor trusts the Stop before it.
ShutdownTrustsStop == pc' = "complete" /\ UNCHANGED status
ShutdownStops ==
  IF core = "none" THEN pc' = "complete" /\ UNCHANGED status ELSE DoStop

TakeShutdown == Take("shutdown") /\ ShutdownStops /\ UNCHANGED todo

TakeCleanup ==
  /\ Take("cleanup")
  /\ pc' = "cl_routes"
  /\ todo' = leftovers
  /\ UNCHANGED status

\* Mutation: one command for every wait.
AfterCommandWait == IF work.kind = "shutdown" THEN "exited" ELSE "wait"
AfterCommand == IF work.kind = "shutdown" THEN "exited" ELSE "drain"

\* Complete, and the end of the loop after kShutdown.
Complete ==
  /\ pc = "complete"
  /\ done' = done \cup {work.from}
  /\ pc' = AfterCommand
  /\ work' = Idle /\ err' = "none"
  /\ UNCHANGED <<queue, queueEvent, call, host, todo, fresh, left, dnsReady,
                 status, tunnelVars, watchVars, machineVars, ghosts, bounds>>

-----------------------------------------------------------------------------
(* Deleting routes: DoCleanupLeftovers and TearDown both ignore what       *)
(* DeleteRoute returns, and then erase the registry record.                *)

\* Mutation: the record is written once, when it is still empty.
SaveFirstOnly(rs) == leftovers' = IF leftovers = {} THEN rs ELSE leftovers
SaveLeftoverRoutes(rs) == leftovers' = rs

DeleteRoute(r) ==
  \/ table' = table \ {r} /\ UNCHANGED failures
  \/ r \in table /\ failures < MaxFailures
     /\ failures' = failures + 1 /\ UNCHANGED table

CleanupRoute ==
  /\ pc = "cl_routes"
  /\ \E r \in todo : DeleteRoute(r) /\ todo' = todo \ {r}
  /\ UNCHANGED <<callVars, pc, work, err, fresh, left, dnsReady, status,
                 tunnelVars, watchVars, coreVars, net, leftovers, files,
                 ghosts, commands, crashes, netEvents>>

CleanupEnd ==
  /\ pc = "cl_routes" /\ todo = {}
  /\ SaveLeftoverRoutes({})
  /\ leaked' = leaked \cup (leftovers \cap table)
  /\ pc' = "complete"
  /\ UNCHANGED <<callVars, localVars, status, tunnelVars, watchVars, coreVars,
                 net, table, files, seen, servers, bounds>>

\* Mutation: the filters stay when the session goes.
KeepGuard == UNCHANGED guard
RemoveGuard == guard' = None

\* Mutations: the loop over routes_ starts one too early, or misses the last.
OneBeforeLast == Len(routes) - 1
AllButLast == IF Len(routes) > 1 THEN Len(routes) - 1 ELSE 0
LastRoute == Len(routes)

DeleteRuntimeFiles == files' = FALSE

\* TearDown: the watch, the filters and the core first, ...
TearDownCore ==
  /\ pc = "td_core"
  /\ watch' = FALSE /\ pending' = FALSE /\ netEvent' = FALSE
  /\ RemoveGuard
  /\ core' = "none" /\ coreTun' = None
  /\ left' = LastRoute
  /\ pc' = "td_routes"
  /\ UNCHANGED <<callVars, work, err, todo, fresh, dnsReady, status, active,
                 physical, tun, routes, adapters, dnsSet, net, table,
                 leftovers, files, ghosts, bounds>>

\* ... then the routes, the last one added first, ...
TearDownRoute ==
  /\ pc = "td_routes" /\ left > 0
  /\ DeleteRoute(routes[left])
  /\ left' = left - 1
  /\ UNCHANGED <<callVars, pc, work, err, todo, fresh, dnsReady, status,
                 tunnelVars, watchVars, coreVars, net, leftovers, files,
                 ghosts, commands, crashes, netEvents>>

\* ... then their record, the TUN and the runtime files.
TearDownEnd ==
  /\ pc = "td_routes" /\ left = 0
  /\ routes' = <<>>
  /\ IF routes = <<>>
       THEN UNCHANGED <<leftovers, leaked>>
       ELSE /\ SaveLeftoverRoutes({})
            /\ leaked' = leaked \cup (leftovers \cap table)
  /\ tun' = None /\ servers' = {}
  /\ DeleteRuntimeFiles
  /\ pc' = CASE work.kind \in {"start", "rebuild"} /\ err = "none" -> "st_begin"
             [] work.kind \in {"start", "rebuild"} /\ err # "none" -> "st_failed"
             [] OTHER -> "td_publish"
  /\ UNCHANGED <<callVars, localVars, status, active, physical, guard,
                 watchVars, coreVars, net, table, seen, bounds>>

\* What DoStop, HandleCoreExit and HandleNetworkChange publish after it.
PublishStopped ==
  /\ pc = "td_publish"
  /\ status' = Status("stopped", active.tunnel, err)
  /\ IF work.kind \in {"stop", "shutdown"}
       THEN pc' = "complete" /\ UNCHANGED <<work, err>>
       ELSE pc' = "wait" /\ work' = Idle /\ err' = "none"
  /\ UNCHANGED <<callVars, todo, fresh, left, dnsReady, tunnelVars, watchVars,
                 machineVars, ghosts, bounds>>

-----------------------------------------------------------------------------
(* DoStart after its TearDown, with SetUpTunnel and LaunchXray.            *)

\* The fail lambda: TearDown, then publish "stopped".
Fail(code) ==
  /\ err' = code
  /\ todo' = {} /\ dnsReady' = FALSE
  /\ pc' = "td_core"
  /\ UNCHANGED <<work, fresh, left>>

Go(next) == pc' = next /\ UNCHANGED localVars

\* Publish "starting"; check the options, the executable, the rights, the ports.
StartBegin ==
  /\ pc = "st_begin"
  /\ status' = Status("starting", work.opts.tunnel, "none")
  /\ \/ Go(IF work.opts.tunnel THEN "st_route" ELSE "st_launch")
     \/ \E code \in {"INVALID_CONFIG", "XRAY_MISSING", "NOT_ELEVATED",
                     "PORT_IN_USE"} :
          /\ code = "NOT_ELEVATED" => work.opts.tunnel
          /\ Fail(code)
  /\ UNCHANGED <<callVars, tunnelVars, watchVars, machineVars, ghosts,
                 bounds>>

\* Mutation: a rebuild keeps the interface of the session before it.
KeepRoute == physical' = IF work.kind = "rebuild" THEN physical ELSE net
TakeRoute == physical' = net

FindRoute ==
  /\ pc = "st_route"
  /\ IF net = None
       THEN Fail("NETWORK_UNAVAILABLE") /\ UNCHANGED physical
       ELSE Go("st_resolve") /\ TakeRoute
  /\ UNCHANGED <<callVars, status, active, tun, routes, guard, watchVars,
                 machineVars, ghosts, bounds>>

ResolveServers ==
  /\ pc = "st_resolve"
  /\ \E found \in SUBSET Ips :
       IF found = {}
         THEN Fail("RESOLVE_FAILED") /\ UNCHANGED servers
         ELSE /\ todo' = {ServerRoute(physical, ip) : ip \in found}
              /\ servers' = found
              /\ pc' = "st_routes"
              /\ UNCHANGED <<work, err, fresh, left, dnsReady>>
  /\ UNCHANGED <<callVars, status, tunnelVars, watchVars, machineVars, leaked,
                 seen, bounds>>

\* What CreateIpForwardEntry2 may answer.  Mutations: a route that was there
\* counts as added; a failure counts as a route that was there.
ExistsIsAdded(r) == IF r \in table THEN {"kAdded"} ELSE {"kAdded", "kFailed"}
FailedIsExists(r) ==
  IF r \in table THEN {"kAlreadyExists"} ELSE {"kAdded", "kAlreadyExists"}
AddRouteResult(r) ==
  IF r \in table THEN {"kAlreadyExists"}
  ELSE {"kFailed"} \cup (IF r.via \in Networks \cup adapters THEN {"kAdded"} ELSE {})

\* One turn of either AddRoute loop; tun is still None in the first one.  A
\* route that is already there is used but not recorded.
AddRoute ==
  /\ pc = "st_routes"
  /\ \E r \in todo :
       \/ /\ "kAlreadyExists" \in AddRouteResult(r)
          /\ todo' = todo \ {r}
          /\ UNCHANGED <<pc, work, err, fresh, left, dnsReady, table>>
       \/ /\ "kAdded" \in AddRouteResult(r)
          /\ table' = table \cup {r}
          /\ fresh' = r /\ todo' = todo \ {r}
          /\ pc' = "st_save"
          /\ UNCHANGED <<work, err, left, dnsReady>>
       \/ /\ "kFailed" \in AddRouteResult(r)
          /\ Fail("ROUTE_FAILED")
          /\ UNCHANGED table
  /\ UNCHANGED <<callVars, status, tunnelVars, watchVars, coreVars, net,
                 leftovers, files, ghosts, bounds>>

\* routes_.push_back and SaveLeftoverRoutes, which replaces the whole value.
SaveRoute ==
  /\ pc = "st_save"
  /\ routes' = Append(routes, fresh)
  /\ SaveLeftoverRoutes(RangeOf(routes) \cup {fresh})
  /\ fresh' = None
  /\ pc' = "st_routes"
  /\ UNCHANGED <<callVars, work, err, todo, left, dnsReady, status, active,
                 physical, tun, guard, watchVars, coreVars, net, table, files,
                 ghosts, bounds>>

RoutesAdded ==
  /\ pc = "st_routes" /\ todo = {}
  /\ Go(IF tun = None THEN "st_launch" ELSE "st_guard")
  /\ UNCHANGED <<callVars, status, tunnelVars, watchVars, machineVars, ghosts,
                 bounds>>

\* Write config.json and override.json, start xray.exe in its job.
LaunchXray ==
  /\ pc = "st_launch"
  /\ files' = TRUE
  /\ \/ /\ core' = IF work.opts.tunnel THEN "tunnel" ELSE "proxy"
        /\ Go(IF work.opts.tunnel THEN "st_adapter" ELSE "st_listen")
     \/ /\ \E code \in {"CONFIG_WRITE_FAILED", "XRAY_LAUNCH_FAILED"} : Fail(code)
        /\ UNCHANGED core
  /\ UNCHANGED <<callVars, status, tunnelVars, watchVars, coreTun, adapters,
                 dnsSet, net, table, leftovers, ghosts, bounds>>

\* FindAdapterByName takes any adapter of that name; without one the loop ends
\* at its deadline or when the core has exited.
FindAdapter ==
  /\ pc = "st_adapter"
  /\ \/ \E a \in adapters : tun' = a /\ Go("st_tun")
     \/ adapters = {} /\ Fail("TUN_NOT_CREATED") /\ UNCHANGED tun
  /\ UNCHANGED <<callVars, status, active, physical, routes, guard, watchVars,
                 machineVars, ghosts, bounds>>

\* Address, metric and DNS server of the TUN; a DNS failure only warns.
ConfigureTun ==
  /\ pc = "st_tun"
  /\ \/ \E code \in {"INVALID_OPTIONS", "TUN_ADDRESS_FAILED"} : Fail(code)
        /\ UNCHANGED dnsSet
     \/ /\ tun \in adapters
        /\ \E ok \in {FALSE, work.opts.dns} :
             /\ dnsReady' = ok
             /\ dnsSet' = IF ok THEN dnsSet \cup {tun} ELSE dnsSet
        /\ todo' = {TunRoute(tun, p) : p \in Prefixes}
        /\ pc' = "st_routes"
        /\ UNCHANGED <<work, err, fresh, left>>
  /\ UNCHANGED <<callVars, status, tunnelVars, watchVars, core, coreTun,
                 adapters, net, table, leftovers, files, ghosts, bounds>>

\* Mutation: whether the TUN has its DNS server is not looked at.
GuardOnRequest == work.opts.leak
GuardAllowed == work.opts.leak /\ (dnsReady \/ ~work.opts.port53)

\* A guard that cannot be installed, or would not be safe, only warns.
InstallGuard ==
  /\ pc = "st_guard"
  /\ \/ GuardAllowed /\ guard' = tun
     \/ UNCHANGED guard
  /\ dnsReady' = FALSE
  /\ pc' = "st_listen"
  /\ UNCHANGED <<callVars, work, err, todo, fresh, left, status, active,
                 physical, tun, routes, watchVars, machineVars, ghosts,
                 bounds>>

AwaitListener ==
  /\ pc = "st_listen"
  /\ \/ CoreRuns /\ Go("st_finish")
     \/ CoreRuns /\ Fail("CORE_NOT_READY")
     \/ core = "exited" /\ Fail("CORE_EXITED")
  /\ UNCHANGED <<callVars, status, tunnelVars, watchVars, machineVars, ghosts,
                 bounds>>

\* Mutation: proxy mode is watched too.
WatchEveryMode ==
  IF work.opts.follow
    THEN /\ watch' = TRUE /\ pending' = FALSE /\ netEvent' = FALSE
         /\ seen' = net
    ELSE UNCHANGED <<watchVars, seen>>

\* StartNetworkWatch registers, then resets the event: what the network did
\* before is not noticed.
StartNetworkWatch ==
  IF work.opts.tunnel /\ work.opts.follow
    THEN /\ watch' = TRUE /\ pending' = FALSE /\ netEvent' = FALSE
         /\ seen' = net
    ELSE UNCHANGED <<watchVars, seen>>

RememberOptions == active' = work.opts

StartFinish ==
  /\ pc = "st_finish"
  /\ DeleteRuntimeFiles
  /\ RememberOptions
  /\ StartNetworkWatch
  /\ status' = Status("running", work.opts.tunnel, "none")
  /\ IF work.kind = "start"
       THEN Go("complete")
       ELSE /\ pc' = "wait" /\ work' = Idle
            /\ UNCHANGED <<err, todo, fresh, left, dnsReady>>
  /\ UNCHANGED <<callVars, physical, tun, routes, guard, coreVars, net, table,
                 leftovers, leaked, servers, bounds>>

\* The end of fail; the caller reads the code from its command.
StartFailed ==
  /\ pc = "st_failed"
  /\ status' = Status("stopped", work.opts.tunnel, "none")
  /\ Go(IF work.kind = "start" THEN "complete" ELSE "net_failed")
  /\ UNCHANGED <<callVars, tunnelVars, watchVars, machineVars, ghosts,
                 bounds>>

\* HandleNetworkChange publishes a second "stopped", with the code.
RebuildFailed ==
  /\ pc = "net_failed"
  /\ status' = Status("stopped", TRUE, err)
  /\ pc' = "wait" /\ work' = Idle /\ err' = "none"
  /\ UNCHANGED <<callVars, todo, fresh, left, dnsReady, tunnelVars, watchVars,
                 machineVars, ghosts, bounds>>

-----------------------------------------------------------------------------
(* The machine.                                                            *)

WorkerUnchanged ==
  UNCHANGED <<callVars, pc, localVars, status, tunnelVars, watch, pending,
              leftovers, files, ghosts, commands, crashes, failures>>

\* Mutation: only a default route that appears is noticed.
NotifiedOfNewRoute == netEvent' = (netEvent \/ (watch /\ net' # None))
\* OnRouteChange, OnInterfaceChange: called only while registered.
Notified == netEvent' = (netEvent \/ watch)

NetworkChanges ==
  /\ netEvents < MaxNetEvents
  /\ netEvents' = netEvents + 1
  /\ \E n \in (Networks \cup {None}) \ {net} : net' = n
  /\ Notified
  /\ WorkerUnchanged /\ UNCHANGED <<coreVars, table>>

\* Any other route or interface of the machine changed.
OtherNotification ==
  /\ netEvents < MaxNetEvents /\ watch
  /\ netEvents' = netEvents + 1
  /\ UNCHANGED <<coreVars, net, table>>
  /\ Notified
  /\ WorkerUnchanged

CoreExits ==
  /\ CoreRuns
  /\ core' = "exited" /\ coreTun' = None
  /\ WorkerUnchanged
  /\ UNCHANGED <<adapters, dnsSet, net, netEvent, netEvents, table>>

CoreCreatesAdapter ==
  /\ core = "tunnel" /\ coreTun = None
  /\ \E a \in Adapters \ (adapters \cup {tun}) :
       coreTun' = a /\ adapters' = adapters \cup {a}
  /\ WorkerUnchanged
  /\ UNCHANGED <<core, dnsSet, net, netEvent, netEvents, table>>

\* An adapter may outlive its core for a moment; its routes vanish with it.
AdapterVanishes ==
  /\ \E a \in adapters \ {coreTun} :
       /\ adapters' = adapters \ {a}
       /\ dnsSet' = dnsSet \ {a}
       /\ table' = {r \in table : r.via # a}
  /\ WorkerUnchanged
  /\ UNCHANGED <<core, coreTun, net, netEvent, netEvents>>

-----------------------------------------------------------------------------

Init ==
  /\ queue = <<>> /\ queueEvent = FALSE /\ done = {} /\ host = "down"
  /\ call = [c \in Callers |-> "idle"]
  /\ pc = "none" /\ work = Idle /\ err = "none" /\ todo = {} /\ fresh = None
  /\ left = 0 /\ dnsReady = FALSE
  /\ status = Status("stopped", FALSE, "none")
  /\ active = DefaultOptions /\ physical = None /\ tun = None
  /\ routes = <<>> /\ guard = None
  /\ watch = FALSE /\ pending = FALSE /\ netEvent = FALSE
  /\ core = "none" /\ coreTun = None /\ adapters = {} /\ dnsSet = {}
  /\ net \in Networks
  /\ table = Foreign /\ leftovers = {} /\ files = FALSE
  /\ leaked = {} /\ seen = None /\ servers = {}
  /\ commands = 0 /\ crashes = 0 /\ netEvents = 0 /\ failures = 0

Threads ==
  \/ \E c \in Clients, o \in Options : Submit(c, "start", o)
  \/ \E c \in Clients : Submit(c, "stop", DefaultOptions)
  \/ \E c \in Callers : Signal(c)
  \/ \E c \in Callers : Return(c)

HostSteps ==
  \/ Boot \/ OpenServer \/ GiveUp \/ StopController \/ JoinClients
  \/ DestroyController \/ GoDown

Waking == WakeForQueue \/ WakeForExit \/ WakeForNetwork \/ NetworkSettled
Draining ==
  TakeStart \/ TakeStop \/ TakeShutdown \/ TakeCleanup \/ QueueDrained \/ Complete
Cleaning ==
  \/ CleanupRoute \/ CleanupEnd
  \/ TearDownCore \/ TearDownRoute \/ TearDownEnd \/ PublishStopped
Starting ==
  \/ StartBegin \/ FindRoute \/ ResolveServers
  \/ AddRoute \/ SaveRoute \/ RoutesAdded
  \/ LaunchXray \/ FindAdapter \/ ConfigureTun \/ InstallGuard
  \/ AwaitListener \/ StartFinish \/ StartFailed \/ RebuildFailed

Worker == Waking \/ Draining \/ Cleaning \/ Starting

Machine ==
  \/ NetworkChanges \/ OtherNotification
  \/ CoreExits \/ CoreCreatesAdapter \/ AdapterVanishes

Next == Threads \/ HostSteps \/ Crash \/ Worker \/ Machine

Spec == Init /\ [][Next]_vars

\* The worker thread, the threads inside Submit and the host's own calls run;
\* nobody has to submit anything, to stop the service, or to change the
\* machine.
Fairness ==
  /\ WF_vars(Worker)
  /\ \A c \in Callers : WF_vars(Signal(c)) /\ WF_vars(Return(c))
  /\ WF_vars(Boot \/ OpenServer \/ GiveUp)
  /\ WF_vars(JoinClients \/ DestroyController \/ GoDown)

FairSpec == Spec /\ Fairness

-----------------------------------------------------------------------------
(* Properties.                                                             *)

PCs == {"none", "wait", "drain", "complete", "exited", "cl_routes",
        "td_core", "td_routes", "td_publish", "st_begin", "st_route",
        "st_resolve", "st_routes", "st_save", "st_launch", "st_adapter",
        "st_tun", "st_guard", "st_listen", "st_finish", "st_failed",
        "net_failed"}
Building == {"st_begin", "st_route", "st_resolve", "st_routes", "st_save",
             "st_launch", "st_adapter", "st_tun", "st_guard", "st_listen",
             "st_finish"}

FlagsOK ==
  /\ queueEvent \in BOOLEAN /\ dnsReady \in BOOLEAN /\ files \in BOOLEAN
  /\ watch \in BOOLEAN /\ pending \in BOOLEAN /\ netEvent \in BOOLEAN
ValuesOK ==
  /\ queue \in Seq(Commands)
  /\ call \in [Callers -> {"idle", "pushed", "waiting"}]
  /\ done \subseteq Callers
  /\ host \in {"down", "boot", "up", "stopping", "joining", "closing"}
  /\ pc \in PCs /\ work \in Work /\ err \in Codes
  /\ todo \subseteq Routes /\ fresh \in Routes \cup {None}
  /\ left \in 0 .. Len(routes)
  /\ status \in Statuses
  /\ active \in StartOptions
  /\ physical \in Networks \cup {None} /\ tun \in Adapters \cup {None}
  /\ routes \in Seq(Routes) /\ guard \in Adapters \cup {None}
  /\ core \in Cores /\ coreTun \in Adapters \cup {None}
  /\ adapters \subseteq Adapters /\ dnsSet \subseteq Adapters
  /\ net \in Networks \cup {None}
  /\ table \subseteq Routes /\ leftovers \subseteq Routes
  /\ leaked \subseteq Routes /\ seen \in Networks \cup {None}
  /\ servers \subseteq Ips
  /\ commands \in Nat /\ crashes \in Nat
  /\ netEvents \in Nat /\ failures \in Nat

\* The variables of the controller, its callers and the machine have the
\* types the code gives them.
TypeOK == FlagsOK /\ ValuesOK

\* A route the controller added to the system is in the registry, where the
\* next instance finds it, or has just been added and is about to be saved.
\* The exceptions are the routes whose last record was erased while they were
\* still there (leaked).  core_controller.cpp:539-548, 685-694, 929-935.
RoutesAccounted == table \subseteq Foreign \cup leftovers \cup leaked \cup {fresh}

\* A route is forgotten only when the host dies between AddRoute and
\* SaveLeftoverRoutes, or when DeleteRoute failed and nobody looked.
LeakNeedsFault == leaked # {} => crashes > 0 \/ failures > 0

\* Neither a session nor the cleanup of a previous one deletes a route that
\* was there before: kAlreadyExists keeps it out of routes_ and the registry.
ForeignKept == Foreign \subseteq table

\* While the published state is "stopped", the controller holds nothing of a
\* session: no core, no TUN, no filters, no routes, no network watch.
Held == core # "none" \/ tun # None \/ guard # None \/ routes # <<>>
StoppedIsClean == status.state = "stopped" => ~Held /\ ~watch

\* Between commands the published state tells the truth: running exactly while
\* there is a core to watch, in the mode of its options, and the network is
\* watched exactly when that session asked for it.
Settled ==
  /\ status.state \in {"stopped", "running"}
  /\ status.state = "running" <=> core # "none"
  /\ status.state = "running" =>
       /\ status.tunnel = active.tunnel
       /\ watch <=> active.tunnel /\ active.follow
IdleIsConsistent == pc \in {"wait", "drain"} => Settled

\* Start returns true exactly when it published "running" with its own options.
StartTellsTruth ==
  pc = "complete" /\ work.kind = "start" =>
    /\ err = "none" <=> status.state = "running"
    /\ err = "none" => active = work.opts /\ core # "none"

\* With the DNS filters of port 53 in place, the TUN they permit resolves:
\* they never leave the whole machine without DNS (comment at 697-699).
SessionOptions == IF pc \in Building THEN work.opts ELSE active
GuardIsSafe ==
  guard \in adapters /\ pc # "td_core" =>
    /\ SessionOptions.leak
    /\ SessionOptions.port53 => guard \in dnsSet

\* Nothing addressed to a VPN server is caught by the TUN: while the core runs
\* and a route leads into its TUN, the route of every server the session
\* resolved goes around it (comment at 531-532).
ServersBypassTun ==
  CoreRuns =>
    \A p \in Prefixes : TunRoute(tun, p) \in table =>
      \A ip \in servers : ServerRoute(physical, ip) \in table

\* A command in the queue wakes the worker: a worker that waits has its event
\* set, or the caller is about to set it.
NoLostWakeup ==
  pc = "wait" /\ queue # <<>> =>
    queueEvent \/ \E c \in Callers : call[c] = "pushed"

\* While the watch is on, a network other than the one the worker last looked
\* at has its notification waiting or its settle delay running.
WatchMissesNothing == watch => net = seen \/ netEvent \/ pending

\* Without a crash, the file with the server's credentials is on the disk only
\* while a start is under way.
ConfigOnlyWhileStarting == files /\ crashes = 0 => status.state = "starting"

\* A service that was stopped, and not killed, leaves the machine as it found
\* it, even when a client's start slips in between the controller's stop and
\* the join of the client threads.
DownIsClean ==
  host = "down" /\ crashes = 0 /\ failures = 0 =>
    core = "none" /\ leftovers = {} /\ table = Foreign /\ ~files

\* The promise of CoreSession.
Session == INSTANCE CoreSession WITH state <- status.state, held <- Held
SessionSpec == Session!Spec

\* Every call of Start, Stop or CleanupLeftovers returns, unless the host dies.
CallsReturn ==
  \A c \in Callers : call[c] # "idle" ~> call[c] = "idle"

\* A core that exits under a running session is noticed and reported.
ExitIsReported ==
  (core = "exited" /\ status.state = "running") ~> status.state # "running"

\* A network the tunnel is not on, and of which the watch was told, becomes the
\* tunnel's network (HandleNetworkChange, 846-869): unless it is gone again, the
\* session ends, or a command starts one that does not follow the network.  That
\* the worker looked at it, or began a rebuild, is not enough.
ChangesAreFollowed ==
  \A n \in Networks \cup {None} :
    (watch /\ net = n /\ physical # n /\ (netEvent \/ pending))
      ~> \/ net # n \/ physical = n
         \/ status.state = "stopped" \/ ~(active.tunnel /\ active.follow)

(* The inductive invariant behind the theorems of CoreControllerProofs.     *)

Command(c, kind) == [kind |-> kind, from |-> c, opts |-> DefaultOptions]
Clean == core = "none" /\ tun = None /\ guard = None /\ routes = <<>> /\ ~watch

\* What the worker's locals hold at each place.
LocalsInv ==
  /\ host = "down" <=> pc = "none"
  /\ fresh # None <=> pc = "st_save"
  /\ pc = "st_resolve" => physical \in Networks
  /\ pc \in {"none", "wait", "drain", "exited"} => work = Idle /\ err = "none"
  /\ pc \in Building => work.kind \in {"start", "rebuild"} /\ err = "none"
  /\ pc = "cl_routes" => work.kind = "cleanup"
  /\ pc = "complete" => work.kind \in Kinds
  /\ pc \in {"td_core", "td_routes", "st_failed"} =>
       work.kind \notin {"idle", "cleanup"}
  /\ pc = "st_failed" => work.kind \in {"start", "rebuild"} /\ err # "none"
  /\ pc = "net_failed" => work.kind = "rebuild"
  /\ pc = "td_publish" => work.kind \in {"stop", "shutdown", "exit", "lost"}

\* What is in place of a session at each place.
SessionInv ==
  /\ pc \in {"none", "st_begin", "st_failed", "td_publish", "net_failed"} => Clean
  /\ pc = "none" => status.state = "stopped"
  /\ pc = "td_routes" => core = "none" /\ guard = None /\ ~watch
  /\ pc \in Building \ {"st_begin"} => status.state = "starting"
  /\ pc \in Building => ~watch
  /\ pc \in Building \ {"st_listen", "st_finish"} => guard = None
  /\ pc \in {"st_adapter", "st_tun", "st_guard", "st_listen", "st_finish"} =>
       core # "none"
  /\ pc \in {"st_route", "st_resolve"} => core = "none" /\ tun = None
  /\ pc \in {"st_routes", "st_save", "st_launch"} => (tun = None <=> core = "none")
  /\ pc = "st_launch" => tun = None
  /\ pc = "exited" => core = "none"
  /\ pc = "complete" /\ work.kind = "shutdown" => core = "none"
  /\ pc \in {"cl_routes", "complete", "exited"} => Settled

\* The guard is the guard of the session's TUN, and dnsReady speaks of it.
GuardInv ==
  /\ guard # None => guard = tun
  /\ dnsReady => tun # None /\ pc \in {"st_routes", "st_save", "st_guard"}
  /\ dnsReady /\ tun \in adapters => tun \in dnsSet

\* Before the core starts every server is on its way around it, and nothing
\* deletes those routes while it runs.
ServersInv ==
  LET bypassed(rs) == \A ip \in servers : ServerRoute(physical, ip) \in rs
  IN  /\ core # "none" \/ pc = "st_launch" => bypassed(table)
      /\ pc \in {"st_routes", "st_save"} => bypassed(table \cup todo)
      /\ pc \in {"st_begin", "st_route", "st_resolve"} => servers = {}

\* Until the server opens, the only command is the cleanup of the host.
BootInv ==
  /\ host \in {"down", "boot", "closing"} => \A c \in Clients : call[c] = "idle"
  /\ host = "down" => queue = <<>> /\ done = {} /\ call[Host] = "idle"
  /\ host = "boot" =>
       /\ Clean /\ done \subseteq {Host}
       /\ pc \in {"wait", "drain", "cl_routes", "complete"}
       /\ pc \in {"cl_routes", "complete"} =>
            work = Command(Host, "cleanup") /\ queue = <<>>
       /\ queue \in {<<>>, <<Command(Host, "cleanup")>>}
       /\ queue # <<>> \/ pc \in {"cl_routes", "complete"} =>
            call[Host] # "idle" /\ done = {}
       /\ leftovers = {} \/ queue # <<>> \/ pc = "cl_routes"
  /\ host # "boot" => /\ pc # "cl_routes"
                      /\ \A i \in 1 .. Len(queue) : queue[i].kind # "cleanup"

\* The registry lists routes_, except between a crash and the cleanup, and
\* nothing that was there before.
RecordInv ==
  /\ leftovers = RangeOf(routes) \/ host \in {"down", "boot"}
  /\ pc = "cl_routes" => todo \cap Foreign = {}
  /\ leftovers \cap Foreign = {}
  /\ RangeOf(routes) \cap Foreign = {}
  /\ fresh \notin Foreign

\* Without a fault, what the loops over routes_ and the leftovers have passed
\* is gone, and a stopped service left nothing behind.
DeletedInv ==
  /\ failures = 0 =>
       /\ pc = "td_routes" =>
            \A i \in 1 .. Len(routes) : i > left => routes[i] \notin table
       /\ pc = "cl_routes" => leftovers \cap table \subseteq todo
  /\ host = "down" /\ crashes = 0 => leftovers = {}
  /\ pc \in {"st_failed", "td_publish", "net_failed"} => ~files

\* NoLostWakeup, also while the worker reacts to an event.
WakeupInv ==
  (pc = "wait" \/ work.kind \in {"exit", "lost", "rebuild"}) /\ queue # <<>> =>
    queueEvent \/ \E c \in Callers : call[c] = "pushed"

IInv ==
  /\ TypeOK /\ LocalsInv /\ SessionInv /\ StoppedIsClean /\ IdleIsConsistent
  /\ BootInv /\ RecordInv /\ RoutesAccounted /\ ForeignKept
  /\ DeletedInv /\ LeakNeedsFault /\ ConfigOnlyWhileStarting
  /\ GuardInv /\ GuardIsSafe /\ ServersInv /\ StartTellsTruth
  /\ WakeupInv /\ WatchMissesNothing

(* Two promises of the header that the code does not keep.                 *)

\* "Rebuild the tunnel when the physical network changes underneath it"
\* (core_controller.h:31): a running tunnel that follows the network and is
\* not on the machine's network has the change still ahead of it.
FollowsNetwork ==
  pc = "wait" /\ watch => net = physical \/ netEvent \/ pending

\* "Removes routes a previous instance added and could not delete because it
\* crashed" (core_controller.h:93-94): once CleanupLeftovers returns, only
\* routes of others lead around the tunnel.
CleanupRemovesLeftovers ==
  pc = "complete" /\ work.kind = "cleanup" => table \cap ServerRoutes = Foreign
=============================================================================
