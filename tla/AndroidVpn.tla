----------------------------- MODULE AndroidVpn -----------------------------
(***************************************************************************)
(* The VPN on Android: the plugin that asks for the permission             *)
(* (VpnPlugin.kt), the service that owns the core and the TUN device       *)
(* (XrayVpnService.kt), the tile (VpnTileService.kt), and what the user is *)
(* shown.                                                                  *)
(*                                                                         *)
(* All of it runs on the main thread, one message after the other.  The    *)
(* system delivers intents, and the destruction a service asked for, in    *)
(* order; messages the app posts to itself, the two delayed starts and the *)
(* permission poll come in between.  The core ends by itself at any time.  *)
(***************************************************************************)
EXTENDS Integers, Sequences, SequencesExt

CONSTANTS
  None,             \* no configuration, no question, no takeover, no core
  TakeoverRetries,  \* TAKEOVER_RETRIES
  PollLimit,        \* ticks of the permission poll before it gives up
  MaxWishes,        \* bound on what the user does
  MaxFaults         \* bound on cores that end and permissions that are revoked

\* None is none of the values it stands beside.
ASSUME AndroidAssumption ==
  /\ None \notin Nat
  /\ None \notin [action : {"start", "restart"}, config : Nat]
  /\ None \notin [config : Nat, attempt : Nat]
  /\ {TakeoverRetries, PollLimit, MaxWishes, MaxFaults} \subseteq Nat

VARIABLES
  permitted,   \* VpnService.prepare() returns null
  payloads,    \* _connect and reconnect, from the status they set to the call
  pending,     \* pendingConfig with pendingAction, or None
  poll,        \* permissionPollRunnable: its ticks, or Off
  dialogs,     \* permission dialogs that are not answered
  stored,      \* the configuration of QuickSettingsStore
  intents,     \* to the service, in the order of the system
  posts,       \* messages of the app to itself
  alive,       \* the last service object is not destroyed
  objects,     \* the service objects: intentionallyStopped, activeSessionId
  controller,  \* coreController
  tun,         \* vpnInterface holds an open descriptor
  open,        \* the descriptors of TUN devices that are open
  restart,     \* pendingRestartRunnable: its configuration
  takeover,    \* pendingTakeoverRunnable: its configuration and attempt
  running,     \* isVpnRunning, one for all the objects
  cores,       \* the cores that run
  shown,       \* what the user sees: off, connecting, connected, error
  wishes, faults,
  wanted,      \* history: what the user asked for last, None for nothing
  failed,      \* history: since then, something failed
  overwritten, \* history: descriptors that a start replaced in vpnInterface
  races        \* history: the races that were met, see Races

pluginVars == <<payloads, permitted, pending, poll, dialogs, stored>>
deviceVars == <<tun, open, overwritten>>
serviceVars == <<alive, objects, controller, restart, takeover, running, cores,
                 tun, open, overwritten>>
bounds == <<wishes, faults>>
ghosts == <<wanted, failed, races>>
vars == <<pluginVars, intents, posts, serviceVars, shown, bounds, ghosts>>

\* Every request has a configuration of its own, numbered as the wishes are; 0
\* is the one the tile has kept.
Configs == 0..MaxWishes
Off == PollLimit + 1
Intent(action, config) == [action |-> action, config |-> config]
DestroyIntent == Intent("destroy", None)
Told(what) == [kind |-> "told", what |-> what]
Granted(ok) == [kind |-> "result", ok |-> ok]
Ended(core) == [kind |-> "shutdown", object |-> core.object, session |-> core.session]

\* Races the code loses; the properties are about everything else.
\*   doubled:   a start while a core runs leaves that core behind;
\*   stale:     a start does not call off the delayed start of an earlier one;
\*   revived:   a start between stopSelf() and the destruction it asked for;
\*   asked:     a disconnect or another request does not withdraw a request that
\*              is on its way to the plugin, nor a question for permission and
\*              what waits for its answer;
\*   unsent:    a request that cannot be sent is an error to the user, while what
\*              ran goes on;
\*   overtaken: a restart while the end of the old core is still to be heard;
\*   haunted:   the end of a core is heard by an object that is destroyed;
\*   revoked:   the system takes the VPN away, and nobody is told.
Races == {"doubled", "stale", "revived", "asked", "unsent", "overtaken", "haunted",
          "revoked"}
Note(race, when) == IF when THEN {race} ELSE {}
Met(race, when) == races' = races \cup Note(race, when)

Asking ==
  \/ payloads # <<>> \/ dialogs > 0 \/ pending # None
  \/ \E p \in ToSet(posts) : p.kind = "result"
Doomed == Contains(intents, DestroyIntent)

-----------------------------------------------------------------------------
(* The user, and what the app shows (vpn_provider.dart).                   *)

Wish(config) ==
  /\ wishes < MaxWishes /\ wishes' = wishes + 1
  /\ wanted' = config /\ failed' = FALSE

\* startVpnService, restartVpnService
Send(action, config) == poll' = Off /\ intents' = Append(intents, Intent(action, config))

\* _connect and reconnect set the status and wait: the server is stored for the
\* tile, unless that fails, and the payload is built.
Request(action) ==
  /\ Wish(wishes + 1) /\ shown' = "connecting" /\ stored' \in {stored, wishes + 1}
  /\ payloads' = Append(payloads, Intent(action, wishes + 1))
  /\ Met("asked", Asking)
  /\ UNCHANGED <<permitted, pending, poll, dialogs, intents, posts, serviceVars, faults>>

Connect == shown \in {"off", "error"} /\ Request("start")
Reconnect == shown = "connected" /\ Request("restart")

\* requestVpnPermissionAndStart; there may be no activity to ask with.
Payload ==
  /\ payloads # <<>> /\ payloads' = Tail(payloads)
  /\ stored' = Head(payloads).config
  /\ \/ /\ Send(Head(payloads).action, Head(payloads).config)
        /\ UNCHANGED <<pending, dialogs>>
     \/ /\ ~permitted
        /\ pending' = Head(payloads) /\ poll' = 0 /\ dialogs' = dialogs + 1
        /\ UNCHANGED intents
  /\ UNCHANGED <<permitted, posts, serviceVars, shown, bounds, ghosts>>

\* _failConnect: the server cannot be made a configuration of, or the service
\* may not be started.
Unsent ==
  /\ payloads # <<>> /\ payloads' = Tail(payloads)
  /\ shown' = "error" /\ failed' = TRUE /\ Met("unsent", running)
  /\ UNCHANGED <<permitted, pending, poll, dialogs, stored, intents, posts, serviceVars,
                 bounds, wanted>>

Stopping ==
  /\ Wish(None) /\ intents' = Append(intents, Intent("stop", None))
  /\ Met("asked", Asking)
  /\ UNCHANGED <<pluginVars, posts, serviceVars, faults>>

Disconnect == shown \in {"connecting", "connected"} /\ Stopping /\ shown' = "off"

\* VpnTileService.onClick, and the button of the notification, which shows
\* before a core runs and may outlast it.
TileStops == Stopping /\ UNCHANGED shown

TileStarts ==
  /\ ~running /\ permitted
  /\ Wish(stored) /\ intents' = Append(intents, Intent("start", stored))
  /\ Met("asked", Asking)
  /\ UNCHANGED <<pluginVars, posts, serviceVars, shown, faults>>

\* The poll of the app sees the core, or gives up; a resumed app asks.
SeesRunning ==
  /\ shown # "connected" /\ running /\ shown' = "connected"
  /\ UNCHANGED <<pluginVars, intents, posts, serviceVars, bounds, ghosts>>

GivesUp ==
  /\ shown = "connecting" /\ shown' = "error"
  /\ UNCHANGED <<pluginVars, intents, posts, serviceVars, bounds, ghosts>>

SeesStopped ==
  /\ shown = "connected" /\ ~running /\ shown' = "off"
  /\ UNCHANGED <<pluginVars, intents, posts, serviceVars, bounds, ghosts>>

-----------------------------------------------------------------------------
(* The permission: a dialog, and a poll that does not wait for its answer. *)

Answer(ok) ==
  /\ dialogs > 0 /\ dialogs' = dialogs - 1
  /\ permitted' = (permitted \/ ok)
  /\ posts' = Append(posts, Granted(ok))
  /\ UNCHANGED <<payloads, pending, poll, stored, intents, serviceVars, shown, bounds,
                 ghosts>>

\* Mutation: the poll gives up without a word.
NoWord == UNCHANGED posts
SayTimeout == posts' = Append(posts, Told("error"))

\* permissionPollRunnable
PermissionPoll ==
  /\ poll # Off
  /\ \/ pending = None /\ poll' = Off /\ UNCHANGED <<pending, intents, posts, failed>>
     \/ /\ pending # None /\ permitted
        /\ pending' = None /\ Send(pending.action, pending.config)
        /\ UNCHANGED <<posts, failed>>
     \/ /\ pending # None /\ ~permitted /\ poll = PollLimit
        /\ pending' = None /\ poll' = Off /\ SayTimeout /\ failed' = TRUE
        /\ UNCHANGED intents
     \/ /\ pending # None /\ ~permitted /\ poll < PollLimit
        /\ poll' = poll + 1 /\ UNCHANGED <<pending, intents, posts, failed>>
  /\ UNCHANGED <<payloads, permitted, dialogs, stored, serviceVars, shown, bounds,
                 wanted, races>>

\* onActivityResult
ActivityResult ==
  /\ posts # <<>> /\ Head(posts).kind = "result"
  /\ pending' = None /\ poll' = Off
  /\ IF Head(posts).ok
     THEN /\ posts' = Tail(posts) /\ UNCHANGED failed
          /\ IF pending # None THEN Send(pending.action, pending.config)
             ELSE UNCHANGED intents
     ELSE /\ posts' = Append(Tail(posts), Told("error")) /\ failed' = TRUE
          /\ UNCHANGED intents
  /\ UNCHANGED <<payloads, permitted, dialogs, stored, serviceVars, shown, bounds,
                 wanted, races>>

-----------------------------------------------------------------------------
(* The service.                                                            *)

\* The object an intent is delivered to: a new one after a destruction.
Here == IF alive THEN objects ELSE Append(objects, [stopped |-> FALSE, session |-> 0])
Marked(list, stopped) == [list EXCEPT ![Len(list)].stopped = stopped]

\* stopSelf() takes effect when the intents before it are delivered.
StopSelf(queue) ==
  intents' = IF Contains(queue, DestroyIntent) THEN queue
             ELSE Append(queue, DestroyIntent)

\* closeTun, and the assignment of vpnInterface, which closes nothing.
CloseTun ==
  /\ tun' = FALSE /\ open' = open - (IF tun THEN 1 ELSE 0)
  /\ UNCHANGED overwritten
OpenTun ==
  /\ tun' = TRUE /\ open' = open + 1
  /\ overwritten' = overwritten + (IF tun THEN 1 ELSE 0)

\* The core and the device of the object, closed.
CloseCore == cores' = cores \ {controller} /\ controller' = None /\ CloseTun

\* Mutation: the app is not told.
NotTold(queue) == posts' = queue
TellOff(queue) == posts' = Append(queue, Told("off"))

\* stopVpn on the object that lives, while queue and messages are what is left
\* of the intents and the posts.  A delayed restart is left.
StopVpn(queue, messages) ==
  /\ objects' = Marked(Here, TRUE) /\ alive' = TRUE
  /\ CloseCore /\ running' = FALSE /\ takeover' = None
  /\ TellOff(messages) /\ StopSelf(queue)
  /\ UNCHANGED restart

NotifyError(queue) ==
  /\ running' = FALSE /\ failed' = TRUE
  /\ posts' = Append(posts, Told("error")) /\ StopSelf(queue)

MayTakeOver(n) == n < TakeoverRetries

\* startVpn: its nth takeover, list the objects, queue the intents that are
\* left, later the takeover that is left.
StartVpn(list, config, n, queue, later) ==
  LET object == Len(list)
      session == list[object].session + 1
      core == [object |-> object, session |-> session, config |-> config]
  IN
  /\ alive' = TRUE
  /\ objects' = [list EXCEPT ![object] = [stopped |-> FALSE, session |-> session]]
  /\ races' = races \cup Note("doubled", controller \in cores)
                    \cup Note("revived", Doomed)
                    \cup Note("stale", later # None \/ restart' # None)
  /\ \/ \* a configuration that is not secure
        /\ NotifyError(queue)
        /\ takeover' = later /\ UNCHANGED <<controller, deviceVars, cores>>
     \/ \* the device cannot be had by now
        /\ MayTakeOver(n)
        /\ takeover' = [config |-> config, attempt |-> n + 1] /\ intents' = queue
        /\ UNCHANGED <<controller, deviceVars, cores, posts, running, failed>>
     \/ \* nor later
        /\ ~MayTakeOver(n) /\ NotifyError(queue)
        /\ takeover' = later /\ UNCHANGED <<controller, deviceVars, cores>>
     \/ \* the core does not start
        /\ permitted /\ OpenTun /\ NotifyError(queue)
        /\ takeover' = later /\ UNCHANGED <<controller, cores>>
     \/ \* the core starts
        /\ permitted /\ OpenTun
        /\ controller' = core /\ cores' = cores \cup {core} /\ running' = TRUE
        /\ posts' = Append(posts, Told("connected")) /\ intents' = queue
        /\ takeover' = later /\ UNCHANGED failed

\* onStartCommand
Delivered(action) == intents # <<>> /\ Head(intents).action = action
Config == Head(intents).config

StartIntent ==
  /\ Delivered("start") /\ UNCHANGED restart
  /\ StartVpn(Here, Config, 0, Tail(intents), takeover)
  /\ UNCHANGED <<pluginVars, shown, bounds, wanted>>

StopIntent ==
  /\ Delivered("stop")
  /\ StopVpn(Tail(intents), posts)
  /\ UNCHANGED <<pluginVars, shown, bounds, ghosts>>

\* restartVpn
RestartIntent ==
  /\ Delivered("restart")
  /\ alive' = TRUE /\ objects' = Marked(Here, FALSE)
  /\ CloseCore /\ running' = FALSE
  /\ takeover' = None /\ restart' = Config
  /\ intents' = Tail(intents)
  /\ races' = races \cup Note("revived", Doomed)
                    \cup Note("overtaken", \E p \in ToSet(posts) : p.kind = "shutdown")
  /\ UNCHANGED <<pluginVars, posts, shown, bounds, wanted, failed>>

RestartFires ==
  /\ restart # None
  /\ restart' = None
  /\ StartVpn(objects, restart, 0, intents, takeover)
  /\ UNCHANGED <<pluginVars, shown, bounds, wanted>>

\* The runnable looks at intentionallyStopped as well; stopVpn, which sets it,
\* has removed the runnable.
TakeoverFires ==
  /\ takeover # None /\ UNCHANGED restart
  /\ StartVpn(objects, takeover.config, takeover.attempt, intents, None)
  /\ UNCHANGED <<pluginVars, shown, bounds, wanted>>

\* Mutation: what a start has left is not closed when the object goes.
Abandon == UNCHANGED <<cores, controller, deviceVars>>
CloseUnlessStopped ==
  IF Last(objects).stopped THEN UNCHANGED <<cores, controller, deviceVars>>
  ELSE CloseCore

\* onDestroy; the core it stops may call back.
Destroy ==
  /\ Delivered("destroy")
  /\ intents' = Tail(intents)
  /\ alive' = FALSE /\ running' = FALSE /\ restart' = None /\ takeover' = None
  /\ CloseUnlessStopped
  /\ IF ~Last(objects).stopped /\ controller \in cores
     THEN posts' = posts \/ posts' = Append(posts, Ended(controller))
     ELSE UNCHANGED posts
  /\ UNCHANGED <<pluginVars, objects, shown, bounds, ghosts>>

\* CoreCallbackHandler.shutdown, on a thread of the core, and what it posts.
\* Mutation: the end of an earlier session counts for the one that runs.
AnySession(object, session) == ~objects[object].stopped
Concerned(object, session) ==
  ~objects[object].stopped /\ objects[object].session = session

CoreEnds ==
  /\ faults < MaxFaults /\ faults' = faults + 1
  /\ \E core \in cores :
       /\ cores' = cores \ {core}
       /\ posts' = IF Concerned(core.object, core.session)
                   THEN Append(posts, Ended(core)) ELSE posts
  /\ failed' = TRUE
  /\ UNCHANGED <<pluginVars, intents, alive, objects, controller, deviceVars, restart,
                 takeover, running, shown, wishes, wanted, races>>

ShutdownPosted ==
  /\ posts # <<>> /\ Head(posts).kind = "shutdown"
  /\ LET object == Head(posts).object IN
     IF ~Concerned(object, Head(posts).session)
     THEN posts' = Tail(posts) /\ UNCHANGED <<intents, serviceVars, races>>
     ELSE IF alive /\ object = Len(objects)
     THEN StopVpn(intents, Tail(posts)) /\ UNCHANGED races
     ELSE /\ objects' = [objects EXCEPT ![object].stopped = TRUE]
          /\ running' = FALSE /\ TellOff(Tail(posts)) /\ Met("haunted", TRUE)
          /\ UNCHANGED <<intents, alive, controller, deviceVars, restart, takeover,
                         cores>>
  /\ UNCHANGED <<pluginVars, shown, bounds, wanted, failed>>

\* postToFlutter
ToldPosted ==
  /\ posts # <<>> /\ Head(posts).kind = "told"
  /\ posts' = Tail(posts) /\ shown' = Head(posts).what
  /\ UNCHANGED <<pluginVars, intents, serviceVars, bounds, ghosts>>

\* onRevoke, which VpnService answers with stopSelf.
Revoke ==
  /\ permitted /\ alive /\ tun /\ faults < MaxFaults
  /\ faults' = faults + 1 /\ permitted' = FALSE
  /\ StopSelf(intents)
  /\ failed' = TRUE /\ Met("revoked", TRUE)
  /\ UNCHANGED <<payloads, pending, poll, dialogs, stored, posts, serviceVars, shown,
                 wishes, wanted>>

-----------------------------------------------------------------------------
(* The specification.                                                      *)

Init ==
  /\ permitted \in BOOLEAN /\ stored = 0
  /\ payloads = <<>> /\ pending = None /\ poll = Off /\ dialogs = 0
  /\ intents = <<>> /\ posts = <<>>
  /\ alive = FALSE /\ objects = <<>> /\ controller = None
  /\ tun = FALSE /\ open = 0 /\ overwritten = 0
  /\ restart = None /\ takeover = None /\ running = FALSE /\ cores = {}
  /\ shown = "off" /\ wishes = 0 /\ faults = 0
  /\ wanted = None /\ failed = FALSE /\ races = {}

User ==
  \/ Connect \/ Reconnect \/ Disconnect \/ TileStops \/ TileStarts
  \/ \E ok \in BOOLEAN : Answer(ok)

App == Payload \/ Unsent \/ SeesRunning \/ GivesUp \/ SeesStopped
Intents == StartIntent \/ StopIntent \/ RestartIntent \/ Destroy
Posts == ActivityResult \/ ShutdownPosted \/ ToldPosted
Faults == CoreEnds \/ Revoke

MainThread == Intents \/ Posts \/ PermissionPoll \/ RestartFires \/ TakeoverFires

Next == User \/ App \/ MainThread \/ Faults

\* The main thread does not idle for ever while something is delivered, posted
\* or due, nor the app while it has a call to make.  The user need not answer,
\* and the poll of the app need not come to anything.
Fairness == WF_vars(MainThread) /\ WF_vars(Payload \/ Unsent)

Spec == Init /\ [][Next]_vars /\ Fairness

-----------------------------------------------------------------------------
(* Properties.                                                             *)

Core == [object : 1..Len(objects), session : Nat, config : Configs]
Orders == [action : {"start", "restart"}, config : Configs]
            \cup [action : {"stop", "destroy"}, config : {None}]
Messages == [kind : {"told"}, what : {"off", "connected", "error"}]
              \cup [kind : {"result"}, ok : BOOLEAN]
              \cup [kind : {"shutdown"}, object : Nat, session : Nat]

\* The type of the state.  Takeovers never go past their number.
TypeOK ==
  /\ {permitted, alive, tun, running, failed} \subseteq BOOLEAN
  /\ {open, overwritten} \subseteq Nat
  /\ payloads \in Seq([action : {"start", "restart"}, config : Configs])
  /\ stored \in Configs /\ {restart, wanted} \subseteq Configs \cup {None}
  /\ pending # None => pending \in [action : {"start", "restart"}, config : Configs]
  /\ poll \in 0..Off /\ dialogs \in Nat
  /\ intents \in Seq(Orders) /\ posts \in Seq(Messages)
  /\ objects \in Seq([stopped : BOOLEAN, session : Nat])
  /\ alive => objects # <<>>
  /\ cores \subseteq Core /\ controller \in Core \cup {None}
  /\ takeover # None => takeover \in [config : Configs, attempt : 1..TakeoverRetries]
  /\ shown \in {"off", "connecting", "connected", "error"}
  /\ wishes \in 0..MaxWishes /\ faults \in 0..MaxFaults /\ races \subseteq Races

\* A service that is gone leaves nothing behind: no core, no start that is still
\* to come, and of the TUN devices it opened none but those that a start replaced
\* unclosed (XrayVpnService.kt:135), whatever was stopped, restarted or failed in
\* which order.  Cores are left by a start that found one running.
NothingLeft ==
  /\ TypeOK
  /\ ~alive => /\ open = overwritten /\ restart = None /\ takeover = None
               /\ "doubled" \in races \/ cores = {}

\* All is delivered, and no delay runs.
Rest ==
  /\ intents = <<>> /\ posts = <<>> /\ restart = None /\ takeover = None
  /\ payloads = <<>> /\ pending = None

\* No race was met but that of a request that was not sent.
Quiet == races \subseteq {"unsent"}

\* At rest the user sees whether the VPN is on, and so does the tile.  A request
\* that was not sent may hide a core that runs behind its error, but a VPN that is
\* off is never shown as on.
RestAgrees ==
  Rest /\ Quiet => /\ running <=> cores # {}
                   /\ shown = "connected" => running
                   /\ races = {} /\ running => shown = "connected"

\* At rest what the user asked for last is what runs: that configuration, or
\* nothing; the end of a core asked for earlier does not undo a later start.
WishHolds ==
  Rest /\ Quiet => /\ wanted = None => cores = {}
                   /\ wanted # None /\ ~failed => {c.config : c \in cores} = {wanted}

\* Whoever asks to be connected is told how it ended by the service or the
\* plugin, even if no poll of the app comes to anything and the question for
\* permission is not answered.
RequestsEnd ==
  shown = "connecting" ~> (shown # "connecting" \/ races # {})

(* The inductive invariant behind GoneLeavesNothing of AndroidVpnProofs.    *)

\* A core that runs is the controller's.
CoreInv == "doubled" \in races \/ cores \subseteq {controller}

\* A descriptor that is open is in vpnInterface, or was replaced there.
DeviceInv == open = overwritten + (IF tun THEN 1 ELSE 0)

\* An object that was stopped on purpose has nothing left that onDestroy would
\* have to close.
StoppedInv ==
  ~alive \/ Last(objects).stopped => ~tun /\ ("doubled" \in races \/ cores = {})

IInv == NothingLeft /\ CoreInv /\ DeviceInv /\ StoppedInv
=============================================================================
