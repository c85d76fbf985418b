# A TLA+ verification project for ChrNet

ChrNet is a VPN client: a Flutter app (Android, Windows) around an Xray core.
On Windows a privileged service runs the core and, in tunnel mode, changes the
machine so that its traffic goes through it.  This directory holds TLA+ models
of the parts of ChrNet where threads, processes, the network and crashes meet,
the TLC configurations that check them on small instances, and proofs that TLAPS
checks for every instance.  Every definition is translated from the source;
`PROJECT.json` ("map") names the lines of each.

## 1. The system

| Component | State it keeps | Operations | Talks to |
|---|---|---|---|
| **Core controller** `windows/core/core_controller.cpp` | command queue and events; core process and job; TUN adapter, routes, leak guard, network watch; published status; `ActiveRoutes` in the registry; `config.json` | `Start`, `Stop`, `CleanupLeftovers`, `Status`, `QueryStats`; reactions to the exit of the core and to network changes | its callers (blocked in `Submit`), Windows (routes, adapters, WFP, notifications), `xray.exe` |
| **Leak guard** `windows/core/wfp_guard.cpp` | a dynamic WFP session | `Install`, `Remove` | the controller |
| **Network helpers** `windows/core/net_util.cpp` | none | find the physical route, adapters, listeners; add and delete routes | the controller |
| **ChrNet service** `windows/service/service_main.cpp` | one controller, one pipe server | service start and stop, `hello`, `status`, `stats`, `start`, `stop` requests | the controller, the pipe server |
| **Pipe server and protocol** `windows/service/pipe_server.cpp`, `windows/core/pipe_protocol.cpp` | one thread per client, the list of clients | `Start`, `Stop`, `Broadcast`, read and write of frames | the service, the app |
| **Service client** `windows/runner/service_client.cpp` | the connection, the calls that wait for an answer | `Start`, `Stop`, `Status`, `Stats`; delivery of status events | the pipe server, the bridge |
| **Windows bridge** `windows/runner/vpn_service_bridge.cpp` | a task queue, the backend in use, whether the system proxy is ours | `connect`, `reconnect`, `disconnect`, status queries, the loss of a connection, exit | Dart, the service client or an in-process controller, the proxy settings |
| **System proxy settings** `windows/core/proxy_settings.cpp` | the user's proxy settings, their backup in the registry | `EnableForChrNet`, `RestoreAfterChrNet`, `RestoreStaleSystemProxy` | the bridge, the user |
| **VpnProvider** `lib/core/services/vpn_provider.dart` | the status the user sees, timers, queued server switch, reconnect attempts | connect, disconnect, reconnect, select a server, resume, events of the native side | the bridge or the Android plugin, storage |
| **Android VPN** `XrayVpnService.kt`, `VpnPlugin.kt`, `VpnTileService.kt`, `QuickSettingsStore.kt` | TUN, core, session id, pending restart and retry, pending permission | start, stop, restart intents; permission dialog and poll; tile clicks | Dart, Android, the core |
| **Subscriptions** `subscription_service.dart`, `import_service.dart`, `storage_service.dart` | servers and subscriptions in storage | refresh, import, delete | the network, storage |
| Config builder and parsers, device and update info, deep links, UI, iOS stub | none that outlives a call, or only widgets | pure conversions, I/O, layout | |

How they interact: the user acts on `VpnProvider`; on Windows it calls the
bridge over a method channel; the bridge's one worker thread calls the service
over the pipe (or a controller in its own process when there is no service);
the service hands `start` and `stop` to the controller and blocks until its one
worker thread has done them; status changes travel back as broadcasts,
`onCoreStopped` and a poll.  On Android the plugin sends intents to
`XrayVpnService`, which calls back over the channel.

### What is hard

* The controller's worker is in the middle of a command when the core exits,
  the network changes, another caller submits, or the service is told to stop.
* Everything the controller changes outlives it if the process is killed, but
  for what the job object and the dynamic WFP session take along.  Routes need
  a record written after them.
* A start has a dozen places to fail, each with a different part of the session
  in place; the rebuild after a network change fails like a start does.
* The bridge's queue, the reader thread of the pipe and the 90 s limit of a
  call can put "connection lost" and "connected" into an order nobody expects.
* The user edits the system proxy while ChrNet has replaced it.
* Dart handlers are interleaved at every `await`; native events, polls and
  timers arrive in between.

### What makes each component correct

* Controller: the published state is true; nothing of a session is left when it
  says "stopped"; every route of ours is on record; no route of others is
  touched; server traffic never enters the tunnel; the DNS guard never leaves
  the machine without DNS; every call returns; exits and network changes are
  acted on.
* Proxy settings: the user's settings come back after any order of sessions and
  crashes; no proxy points to a core that is gone.
* Bridge and client: every call of Dart gets its answer; an idle bridge knows of
  the core that runs; the loss of a connection is not attributed to the next one.
* VpnProvider: the status shown converges to what runs; a disconnect wins over
  every attempt under way; reconnect attempts are bounded.
* Android: at most one core and one TUN, both gone after a stop; a stop cancels
  what is scheduled.
* Subscriptions: a refresh never revives what was deleted meanwhile; a failed
  refresh keeps the servers.

`PROJECT.json` ("hazards") lists what in this code is hard to test, line by line,
with the properties that would catch it.

## 2. The modules and the code

| Module | What it is |
|---|---|
| `CoreController` | the core controller and what surrounds it: its callers, the service that owns it, the machine |
| `CoreSession` | what the controller promises to a watcher of its status; `CoreController` implements it |
| `MCCoreController` | constants of the TLC runs of `CoreController` |
| `CoreControllerTypes` | proof of type correctness, with the frame lemmas ("what these actions leave alone") |
| `CoreControllerProofs` | proofs of the safety properties and of the refinement |
| `ProxySettings` | the proxy settings of the user, their backup, and the bridge's tasks that replace and restore them |
| `MCProxySettings` | constants of its TLC runs |
| `ProxySettingsProofs` | proofs of its safety properties |
| `WindowsBridge` | a request of Dart to the core and back: the bridge's queue and worker, the service client, the pipe, the service's thread; it composes what the other modules model one by one |
| `MCWindowsBridge` | the methods of its TLC runs |
| `WindowsBridgeProofs` | proof that answers come in the order of the calls, each once |
| `WindowsBridgeCoreProofs` | proof that what the bridge rests on is true, that a disconnect has stopped the core, and that the end of the app leaves none |
| `PipeServer` | the service's end of the pipe: its threads, frames, broadcasts and the order it is taken down in |
| `MCPipeServer` | its TLC instance |
| `PipeServerProofs` | proofs of its safety properties |
| `VpnProvider` | the connection as the user sees it on Windows: Dart's handlers, cut at every `await` |
| `MCVpnProvider` | its TLC instance |
| `VpnProviderProofs` | proofs of its safety properties |
| `AndroidVpn` | plugin, service, tile and permission on Android |
| `MCAndroidVpn` | its TLC instance |
| `AndroidVpnProofs` | proof of its safety properties |

`PROJECT.json` ("map") gives the source lines of every definition.

### CoreController

*Threads.*  `call[c]` is where a caller is in `Submit`: the command is pushed
under the lock (`Submit`), the event is set after it (`Signal`), and the caller
waits for `done` (`Return`).  The host thread pushes `cleanup` at the start of
the service, `stop` at its end and `shutdown` in the destructor; `host` follows
`ServiceRuntime::Start` and `Stop`: `boot`, `up`, `stopping`, `joining` (the
pipe server joins its client threads, whose calls may still reach the
controller), `closing`.  `GiveUp` is the service whose pipe cannot be created.

*Worker.*  `pc` is the place of the worker between two effects that another
thread, the machine or a crash can tell apart; `work` is the command or event
it handles.  The waits of `WorkerLoop` are `Waking`: `WaitForMultipleObjects`
prefers the queue, then the process, then the network, and the settle timeout
only fires when nothing is signalled.  A start runs through `StartBegin`,
`FindRoute`, `ResolveServers`, `AddRoute`/`SaveRoute` per server, `LaunchXray`,
`FindAdapter`, `ConfigureTun`, `AddRoute`/`SaveRoute` per TUN prefix,
`InstallGuard`, `AwaitListener`, `StartFinish`; each can go to its error path
with the code's error code.  A rebuild after a network change is the same chain
entered with `work.kind = "rebuild"`, and `RebuildFailed` publishes its error.

*Machine.*  `table` is the routing table restricted to routes ChrNet could
have added, `leftovers` the registry value, `core` the process (it may exit at
any moment), `coreTun` its adapter, `adapters` those with the tunnel's name (an
adapter may outlive its core), `net` the physical default route.  A route is
the pair (interface, destination).  The WFP session and the job object die
with the host; routes, registry and files do not.

*Abstractions.*  Option values are the five that decide control.  Addresses,
metrics, gateways, messages, JSON and the content of `config.json` are left
out.  Polls inside a step (waiting for the adapter and the listener) are one
step with either outcome.

*History.*  `leaked` (routes whose last record was erased while they were in
the table), `seen` (the network the worker last looked at with the watch on),
`servers` (what the session resolved); no guard reads them.

### ProxySettings

`current` is what Windows uses, `backup` the registry key; its four values are
written one after the other, and `LoadBackup` only asks for the first, so a
`Half` backup is a state of its own.  `pc` is the place of the bridge's one
worker in `EnableForChrNet` (`en_*`), `RestoreAfterChrNet` (`rs_*`),
`RestoreStaleSystemProxy` (`stale`, `st_apply`) and `SyncOnStartup` (`sync`,
`attach`).  Each call of Windows is a step and may fail; `Kill` may come between
any two, and a core of the service outlives it while a core in the app's
process does not.  `StartSucceeds`, `StartFails`, `Disconnect`, `HandleLost`
and `Exit` are the tasks; `CoreLost` queues the task of a lost connection.

The controller itself is only `core` here: whose core runs, if any.  The
order of the bridge's queue is not modelled (any task may come next, except
that an exit waits for a queued loss): a superset of what the code does.

`wanted`, `edit` and `hurt` are history: what the user chose last, when that
was, and whether the backup was lost to one of the faults marked in
`SaveFlags`, `SaveStrings`, `RestoreReadFails` and `Kill`.

### WindowsBridge

*Path of a request.*  `Ask` queues a task (`RunOnWorker`), `TakeTask` is the
worker taking it, and `wpc` its place in the task: `ensure`, `select`,
`install`, `again` for the choice of the backend, `dial`, `send`, `wait`,
`returned` for a call of `ServiceClient::Call`, `local` for the same method of
a controller in the app's process, `proxy` and `restore` for the system proxy.
`Done` posts the answer to the platform thread and `Deliver` runs it.  `call.why`
says what a call is for: `query` (status), `stop`, `replace` (the other backend
is stopped first), `start`, `undo` (the proxy could not be set).

*Connection.*  `connected`, `reader` and `broken` are the client's flag, its
reader thread and the state of the pipe; `toService` and `toApp` are the two
directions.  `ReadAnswer` matches ids, `ReadFails` clears `connected_` and
releases the pending call, `ReaderEnds` reports the loss afterwards; a new
connection waits for the old reader (`Joinable`).  `handler` is the service's
thread of this connection; `Serve`, `StartEnds` and `Respond` are
`HandleRequest` and the write of its answer.

*What stands for the controllers* is `core[b]`: down, starting, up, rebuilding.
A command waits while it rebuilds, a query does not.  Both controllers want the
same ports (`PortsFree`).

*The end of the app.*  `EndSession` is `WM_ENDSESSION` (the bridge lives on),
`Destroy` the destruction of the window; `Shutdown` comes after the worker has
emptied its queue.

*System proxy.*  `proxy` is who its settings are of: the user (`user`), ChrNet
with a backup of the user's (`chrnet`), or ChrNet without one (`orphaned`).
`Restored` is `RestoreAfterChrNet`: it may succeed, fail to write (settings and
backup stay, and the next restore tries again) or fail to read (the settings
stay, the backup is dropped, and no later restore finds anything to do).  The
app may start with any of the three.  `ProxySettings` has the single calls.

*History.*  `missed` says why the bridge may not know of a core: a call was
given up (`late`), a query came during a rebuild (`rebuild`), a loss was handled
after a later connect (`stale`).  `stuck` says why ChrNet's proxy settings may
be in force without a connection: a reconnect failed to set them (`reconnect`),
or a restore failed and none has made up for it (`restore`).

### PipeServer

Five kinds of threads: `accept`, `thread[a]` per connection, the controller's
worker (`work`, `targets`, `todo`: a broadcast), and the service's main thread
(`host`, as in `ServiceRuntime::Stop`).  A frame is two parts; `WritePart` puts
one into the pipe when there is room and `WriteFails` gives the frame up
wherever it has got to.  `lock[a]` is `write_mutex_`.  `shared_ptr<Client>` is
modelled by who refers to a client: `clients`, `pruned`, `targets`, `stopped`;
`Drop` is the destructor, run by whoever drops the last reference, and waits
for the thread.  `cut` (a write to it was given up) and `joined` (events
published before it was listed) are history.

A command may publish several statuses; each is a broadcast, up to `MaxEvents`.
Beyond that bound commands are carried out without (`BeyondBound`).

### VpnProvider

`status`, the four timers (`retry`, `stable`, `poll` and, as `attempt`, the
number of the next delay), `selected`, `queued` and `drain` are Dart's.  Every
`await` cuts its handler: `payloads` are attempts that resolve their server,
`calls` are calls on their way to the native side, `answer` the one that was
worked out, `posts` what is on its way back.  `ToggleOn`, `ToggleOff`,
`Reconnect`, `SelectServer` and `Resume` are the user; `Started`, `Confirmed`,
`Ticked`, `Disconnected`, `Synced`, `Initialized` and `CoreStopped` what follows
an await or an event; `Saved` and `SwitchSettles` the queue of server switches;
`Retry`, `Stable` and `Tick` the timers.  An attempt gets its `Payload`, or none
can be made (`Unbuilt`): the attempt fails then without a call.  The native side
is what `WindowsBridge` shows it to be: one call after the other (`Work`), calls
whose outcome the answer does not tell (`Fails`: a start given up that comes up
later, a stop that fails unnoticed, a question asked during a rebuild), and news
of a lost core that may overtake an answer already worked out.

`tangled` collects the races the code loses and the failures it cannot see
(section 3).  `tries` counts
automatic attempts, `off` says that the user has disconnected.

### AndroidVpn

Everything runs on the main thread.  `intents` are delivered by the system in
order, among them the destruction a service asked for with `stopSelf()`;
`posts` are messages the app posts to itself (`postToFlutter`, the end of a
core, the result of the permission dialog); `restart`, `takeover` and `poll`
are the three delayed runnables.  `objects` are the service objects with
`intentionallyStopped` and `activeSessionId` (a destroyed object still hears
its callbacks), `controller` and `cores` are the core the service holds and those
that run; likewise `tun` says that `vpnInterface` holds an open descriptor, and
`open` counts all that are open, since an assignment to `vpnInterface` closes
nothing (`OpenTun`).  A start has five
outcomes (`StartVpn`): an insecure configuration, a device that is busy and is
tried again, one that stays busy, a core that does not start, a core that runs.
`shown` is the status of `VpnProvider` on Android: `Request` sets it and waits
for the storage and the payload in `payloads`, so that a disconnect may come in
between; then the plugin is called (`Payload`), or the request fails unsent
(`Unsent`) and the service hears nothing of it.

`wanted`, `failed`, `races` and `overwritten` (descriptors that a start replaced)
are history.

## 3. The runs

| Run | Module | What it asks | Bounds |
|---|---|---|---|
| `core_commands` | `MCCoreController` | what is published is what is held; no command is lost; refinement of `CoreSession` | 2 clients, 2 commands, production and proxy options, 1 network with 1 event, 2 adapters, 1 server |
| `core_network` | `MCCoreController` | calls return, exits are reported, changes are followed | 1 client, 1 command, 2 networks with 2 events |
| `core_crash` | `MCCoreController` | routes and the registry under crashes and failing deletions | 1 client, 2 commands, 1 crash, 1 failing `DeleteRoute`, 2 servers of which one was routed before |
| `core_missed_change` | `MCCoreController` | violation: a network change during a start is missed | as `core_network` |
| `core_forgotten_route` | `MCCoreController` | violation: a crash between adding and saving a route | 1 crash |
| `proxy_sessions` | `MCProxySettings` | the user's settings come back; no dead proxy | 2 proxies besides a direct connection, 2 edits, 2 deaths, 1 failing call |
| `proxy_edited` | `MCProxySettings` | violation: an edit during a session is lost by a reconnect | 1 edit, no death, no failure |
| `bridge_requests` | `MCWindowsBridge` | answers once and in order; every request is answered; the bridge knows what runs; a disconnect stops it; proxy and exit | 2 requests out of connect (tunnel, proxy), disconnect, status; 2 faults, of which proxy settings left by an app before are one |
| `bridge_stale_loss` | `MCWindowsBridge` | violation: a loss is handled after the next connect | 1 request, 1 fault |
| `pipe_clients` | `MCPipeServer` | frames, broadcasts, lifetimes, the stop of the service | 2 connections, 1 request each, 1 broadcast, room for 1 part |
| `vpn_provider` | `MCVpnProvider` | the status settles and is true; attempts are bounded; off stays off | 2 servers, 1 automatic attempt, 1 poll tick, 2 acts of the user, 2 losses or failing calls, 2 races |
| `android_vpn` | `MCAndroidVpn` | nothing is left by a service that is gone; the last wish holds and is shown; whoever connects is told | 3 wishes, 1 fault, 1 takeover, 1 poll tick, 2 races |

Why these bounds are enough.  Two clients are enough for one command to be
queued while another runs and for the second caller's event to be consumed
early; two commands are a session and what ends or replaces it.  A TUN
adapter that outlives its core needs a second one to be confused with.  One
crash with one failing deletion reaches every place where a record is lost;
one route of somebody else is enough for `kAlreadyExists`.  Two network events
are a change and a second one during its settle delay.  For the proxies, two
deaths allow one in the middle of a repair of the first; two edits one in a
session and one after it; the number of sessions is not bounded at all.

For the bridge, two requests are a connection and what ends or replaces it, or
two that overlap a loss; with the task of the start, the task of a loss and the
exit they make five tasks in one queue.  Two faults are a call given up and a
loss, a loss during the repair of another, or a restore of the proxy that fails
after either.  On the pipe one broadcast meets
an answer on the same connection, and room for one part makes every frame one
that can be cut; two connections are one that is written to and one that comes,
goes or holds the broadcast up.  For `VpnProvider` two acts are a request and
its opposite, or a switch during either; with one delay the last automatic
attempt is also the first, so that every failure meets both ends of the list.
For Android three wishes are a start, a stop or restart, and a start: a start
that fails after its device was opened and one queued behind it already replace
a descriptor.  Both runs follow a behaviour until it has met more than two of the
races below (`FewRaces`).  Most properties excuse it by then, and the state
properties are proved without any such bound; of the liveness properties
`RequestsEnd` excuses every race, and `Settles` was also checked without the bound
(3.5 million states).  Where
proofs cover a module (section 4) they hold for every value of these constants.

### Races the code loses

`VpnProvider`, `AndroidVpn` and `WindowsBridge` have properties that hold but
for named events, recorded in a history variable the moment they happen.  These
are weaknesses of the code as it stands, each with its line in "hazards"; no
comment or test promises otherwise, so they are not violations.  The properties
say that nothing else goes wrong.

* `VpnProvider` (`Races`): a disconnect while an attempt awaits its payload does
  not call it off (*overtaken*); an answer worked out before a loss is heard
  after it (*late*); a server selected during an attempt is not used
  (*switched*); a connect before the answer of a disconnect takes that answer
  for its own (*hasty*); two attempts at once (*doubled*); the poll of one
  attempt runs out during the next (*outpolled*).  Four failures leave a core
  that the app does not know of: no payload can be made for the server that is
  switched to, so nothing stops the core of the one before (*unbuilt*); a start
  given up comes up later (*givenup*); a stop fails (*unstopped*); a question is
  answered "not running" during a rebuild (*blind*).  After those `RestAgrees`
  still promises that no connection is shown without a core.
* `AndroidVpn` (`Races`): a start over a running core (*doubled*), over a
  delayed start (*stale*), between `stopSelf()` and `onDestroy` (*revived*); a
  request or a disconnect while an earlier request is on its way to the plugin or
  its question for permission is open (*asked*); a request that fails unsent over
  a VPN that runs, which the error then hides (*unsent*); a restart before the
  end of the old core is heard (*overtaken*); a destroyed object that hears the
  end of its core (*haunted*); a VPN that the system revokes (*revoked*).  After
  *unsent* the last wish still holds and nothing is shown as on that is off.
  The descriptors that a start replaces are not excused by a race: `NothingLeft`
  counts them (`open = overwritten`).
* `WindowsBridge` (`missed`, `stuck`): see section 2.

`CHECK_DEADLOCK FALSE`: a service that was stopped, or an app nobody uses,
really stops.

The four violation runs are disagreements between a comment in the repository
and its code; `PROJECT.json` ("findings") quotes both.

### Fairness

`core_network` assumes weak fairness of the worker thread, of the callers'
own steps inside `Submit`, and of the host's steps that need nobody else (boot,
the end of a stop under way).  These are threads that Windows schedules and
that block on nothing else.  Nobody has to submit, to stop the service, to
change the network or to crash; no failure has to end.  The settle delay of a
network change is a bounded timeout, and each notification pushes it back
(line 397): `ChangesAreFollowed` holds because notifications are finitely many
(`MaxNetEvents`), and it would not for a network that never settles.  Its goal is
what the tunnel uses (`physical`, set by the route the rebuild finds) and not
that the worker has looked: a rebuild that kept the old route would refute it.

`proxy_sessions` assumes weak fairness of the bridge's worker only.

`bridge_requests` assumes weak fairness of the worker, the reader thread, the
service's thread, the platform thread's loop, and of the end of a rebuild (each
wait in the controller has a limit).  A time limit of a call is a fault, not a
fair step: no answer depends on one running out.  `pipe_clients` assumes it of
every thread of the service and of the end of a write (its five seconds); apps
need not read, send or leave.  `vpn_provider` has one fair action, `Due`: while
a timer runs or something is on its way, the event loop does not stand still;
which of it comes first is open, so no timer is assumed to be slower than an
answer.  `android_vpn` likewise has `MainThread`, and that a request under way
is sent or fails; the user need not answer a dialog, and the poll of the app need
not see anything.

## 4. What is proved

`CoreControllerTypes` and `CoreControllerProofs` prove for `CoreController`,
from `ConstantsAssumption` alone (disjoint names, natural bounds):

* type correctness, with what the worker's locals hold at each place;
* all state properties that `core_commands`, `core_network` and `core_crash`
  check, and two that only the proofs establish: `StartTellsTruth` and
  `ConfigOnlyWhileStarting`;
* that the controller implements `CoreSession`.

The properties are not inductive.  `IInv` adds what makes them so: which parts
of a session are in place at each `pc` (`SessionInv`), that the guard belongs
to the TUN and is only installed after its DNS was set (`GuardInv`), that
server routes are complete before the core starts (`ServersInv`), that until
the server opens the cleanup is the only command (`BootInv`), that the registry
and `routes_` agree outside of a boot (`RecordInv`), that loops over routes
leave nothing behind them (`DeletedInv`), and that a waiting worker's event is
on its way also while it handles an event (`WakeupInv`).  One lemma per part
shows that every step keeps it; lemmas of `CoreControllerTypes` name the
variables each group of actions leaves alone, so that a part is only reproved
for the actions that can disturb it.

`ProxySettingsProofs` proves for `ProxySettings`, from `SettingsAssumption`,
type correctness and its three state properties, for every set of settings and
any number of edits, deaths and failures.  `SettingsComeBack` needs
`BackupInv`: what the worker is about to save or apply is what the user wants,
unless an edit or a fault excused it.  `NoDeadProxy` and `DownIsRestored` need
`ProxyInv`: ChrNet's settings are never in force without a backup, and at every
place where the bridge rests or connects a core runs or the task of its loss is
queued.

`PipeServerProofs` proves for `PipeServer`, from `PipeAssumption`, type
correctness and its four state properties, for any number of connections,
requests, events and any room in the pipes.  `FramesIntact` needs that the parts
in a pipe pair up but for the frame being written (`FrameInv`) and that whoever
holds a `write_mutex_` is at work (`LockInv`).  `EventsReachClients` adds that a
thread only ends when nothing more reaches its app (`EndedInv`), that nothing is
sent before a client is listed (`FreshInv`), and that no client was listed after
an event that is its due (`EventsInv`).  `HandleInUse` needs `HeldInv`: a
pipe is closed exactly when nobody refers to its client any more.
`StoppedIsClean` needs what `Stop` has done at each of its places (`HostInv`,
`ArrivalInv`): a client that connects meanwhile is listed or turned away.

`AndroidVpnProofs` proves for `AndroidVpn`, from `AndroidAssumption` (natural
bounds, and a `None` that is none of the values it stands beside), type
correctness and its three state properties, for any number of requests,
takeovers, polls and faults.  For `NothingLeft`, `CoreInv` says that a core that
runs is its controller's, but for a start that met another (*doubled*),
`DeviceInv` that an open descriptor is in `vpnInterface` or was replaced there,
and `StoppedInv` that an object stopped on purpose has already closed what its
`onDestroy` would close.

`RestAgrees` and `WishHolds` speak of a moment at which nothing is on its way;
`Calm` says what is, as long as no race was met but that of a request that
failed unsent (`Quiet`).  A core that runs is of the
session the service is in, and no delayed start is due beside it (`OwnCore`,
`Restarting`); if it ended, its end is in the posts and nothing has begun since
(`EndingAlone`, `Earlier`); a service that will be destroyed runs nothing and has
said so (`Dying`, `Dead`).  `isVpnRunning` means a core, one whose end will be
heard or a start that is due (`Runs`), and the news still to be heard ends with
what it says (`ShownUp`, `ShownDown`); that rests on `Permission`, since only a
question nobody has granted posts an error while a core could run.  One request
at most is on its way to the plugin, the user's last, with no question open
beside it (`Sole`).  `LastWish`
says that this request, the question for permission, or else the last of the
orders that are not delivered, is the user's last wish; `Wished` that once none
is left, that wish is what runs or is due.  Queues of any length are handled by lemmas on the
last element of a kind (`LastAdded`, `LastLeft`), and steps by what they leave
alone (`ServiceStays`), by what `startVpn` does (`StartMeans`) and by what every
stop does (`StopCalm`).

`WindowsBridgeProofs` proves for `WindowsBridge`, from `BridgeAssumption`, type
correctness and `InOrder`, for any set of requests and any number of them and of
faults.  The argument is about one sequence, `Line`: what is posted, then the
worker's task, then the queue.  Every step moves it in one of six ways
(`LineMoves`), each of which keeps its order (`LinePosted`, `LineTaken`, ...).
That needs that exactly the requests of Dart are tasks with a number
(`TasksInv`), and that a task only reaches the places of its kind (`PlaceInv`),
so that no task is answered twice or not at all.

`WindowsBridgeCoreProofs` adds `RestIsTrue`, `ExitStops` and `DisconnectStops`,
again for any number of requests and faults.  They speak of the moments at which
the bridge has nothing to do; their invariant, `CoreInv`, says how the bridge,
the pipe, the service and the two cores stay in step in between.

* `Wire`: the connection, its reader and the ends of the pipe fit together
  (`Linked`); calls have numbers of their own, and the last one is answered last
  (`Ids`, `Fresh`, `Last`, `Ended`), so that behind an answer nothing of the call
  is left in the service; who starts a core is at work on it, and only one core
  runs (`Working`).
* The calls: whose method is called and where that call can be (`Placed`); a start
  in the service is the one the worker waits for, unless a call was given up
  (`OwnStarts`); beside a connection the service only gets questions
  (`OnlyQuestions`), and it has nothing to start while the core of the process is
  in use (`NoService`).
* What the bridge knows: the outcome of a call is what is the case, wherever the
  outcome has got to (`Failure`, `Success`, `LocalOutcome`); the backend in use
  has a core, or the news of its loss is on its way (`Truth`); and a core that
  runs is of the backend in use, of a start under way or of a bridge that has yet
  to ask, unless one was missed (`KnownService`, `KnownLocal`).
* `Stopped` and `Leaving` say where a disconnect and the end of the app stand;
  `ProxyKnown` that ChrNet's proxy settings are in force for a connection, on the
  way to a restore, or because of a failure (`stuck`), and without a backup only
  because of a failed restore.

`Truth` alone is not inductive: that a query's answer may be believed needs
`Success`, which has to follow the answer from the service's handler through the
pipe and the reader to the worker, past losses that are told in between; and that
no other start slips in behind it needs `Wire` and `OwnStarts`.  The proof first
says what a step is, in the terms of `CoreInv` (`ReadsAs`, `ServesAs`, ... for
the others, `DialsAs`, `AttachesAs`, ... for the worker), and then has one lemma
per part over these shapes instead of over the actions.

`VpnProviderProofs` proves for `VpnProvider`, from `ProviderAssumption` (the
list of delays is not empty), its three state properties, for any number of
servers, delays, ticks, acts of the user, losses and failing calls.  `IInv` is a
conjunction in four groups.  Each part holds as long as the races it names were
not met: no failure that hides a core (`Known`), two attempts neither (`Orderly`),
or nothing but a switch (`Untangled`).

* The order of what is on its way.  A call's kind and method agree on its way to
  the native side and back (`Fits`); no core runs, and none is lost, behind an
  answer that it is down, unless one was started (`DownAfter`); the first
  question is answered before all else (`InitFirst`).
* What the status says of it: while the app is about to try again nothing runs
  (`InitCalm`, `Lonely`), a timer that will try again has counted its attempt
  (`Timers`).
* `AttemptsBounded` and `OffStaysOff`.  Since an automatic attempt there is no
  other one (`Tried`), so each is counted, or the count was given up and nothing
  is left that could begin one (`Counting`).  From a disconnect until it is heard
  no start comes after it, and from then on nothing on its way speaks of a core
  (`OffHolds`).
* `RestAgrees`.  A connection that is shown and gone has its cause still to be
  heard, wherever the two are, also after failures (`Explained`; only
  `DenialExplained` needs `Known`); at most one start
  is under way, behind no disconnect, and shown (`Stopping`, `DisconnectLast`,
  `OneStart`, `StartShown`); a loss that will be heard meets an app that will try
  again (`Losing`); the app says that nothing runs only when nothing does
  (`Shut`); the core that runs, or will, is of the server that was chosen
  (`Chosen`).

The proof corrected the model: `OffStaysOff` once excused a disconnect that
overtook an attempt only.  Its induction failed at a server switch begun while a
disconnect is not answered, which takes five acts of the user, more than the run
allows (on, off, on again at once, off, select a server): the attempt begun
before the first disconnect's answer has that answer count for it.  That is the
race *hasty*, which the property now names.

Only model-checked: liveness, which under fairness is out of the prover's reach
(`CallsReturn`, `ExitIsReported`, `ChangesAreFollowed`, `DeadProxyGoes`,
`RequestsAnswered`, `ExitEnds`, `CommandsEnd`, `StopEnds`, `Settles`,
`RequestsEnd`).  Every state and action property that a passing run checks is proved.

## 5. What is not modelled, and why

Conversions (URI and JSON parsers, configuration builder), one-shot services of
the app, widgets, window and tray, the installer script, logging, and the iOS
stub keep no state between calls or only what is on the screen.  `QueryStats`,
`status()`, `hello` and `stats` only read.  Installing and removing the service
are single commands to the service manager.

`getServiceInfo` and `getStats` of the bridge connect or read; statistics,
notifications and the tray of both platforms show what other state says.  The
mode for tests of the service is left out.

Of Android, the system killing the process and recreating a sticky service is
left out, and with it the start without an intent or with blank configurations
that `onStartCommand` returns from at once (`XrayVpnService.kt:77-79`), as are
exceptions of `stopLoop()`.  `VpnProvider` is modelled over the Windows side; over
the Android one it is the variable `shown`.

Of the controller, writes of the registry that fail inside `SaveLeftoverRoutes`
are left out: its result is `void`, and a record that is not written is a route
that a crash leaves, as in `core_forgotten_route`.  Of the pipe, two frames of an
app are left out: one that is too long (`kError` of `ReadMessage`) ends the thread
of its connection, as an app that leaves does; one that is half-written keeps the
thread reading until the app leaves or the service stops, as an app that sends
nothing does.

The subscriptions (`subscription_service.dart`, `import_service.dart`,
`storage_service.dart`) have behaviour worth modelling: a refresh that meets a
deletion, or a crash between its writes.  They are the next item of the plan.

## 6. Plan

1. `Subscriptions`: a refresh against a deletion, another refresh and a crash.
2. `VpnProvider` over `WindowsBridge`: an abstract native side that both the
   bridge implements and the provider uses; `CoreInv` of `WindowsBridgeCoreProofs`
   says what its refinement mapping needs.
