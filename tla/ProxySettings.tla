--------------------------- MODULE ProxySettings ----------------------------
(***************************************************************************)
(* The Windows proxy settings of the user (windows/core/proxy_settings.cpp)*)
(* and the tasks of the bridge that replace them and put them back         *)
(* (windows/runner/vpn_service_bridge.cpp).  The bridge runs one task at a *)
(* time; between any two calls of Windows the user may edit the settings,  *)
(* the core may die, and the app may be killed.                            *)
(*                                                                         *)
(* Settings are opaque values: only ChrNet's own are told apart.  The      *)
(* backup is four registry values under one key, of which LoadBackup asks  *)
(* only for the first one.                                                 *)
(***************************************************************************)
EXTENDS Naturals

CONSTANTS
  Proxies,      \* settings of the user other than a direct connection
  Direct,       \* Settings{}
  ChrNet,       \* 127.0.0.1:port with kChrNetBypass
  OldChrNet,    \* what ChrNet 2.0 and older left: the bypass is "<local>"
  Half,         \* a backup of which only the flags were written
  NoBackup,     \* no backup in the registry
  MaxEdits,     \* bound on the edits of the user
  MaxKills,     \* bound on the deaths of the app
  MaxFailures   \* bound on the failing calls of Windows

UserSettings == Proxies \cup {Direct}
OurSettings == {ChrNet, OldChrNet}

ASSUME SettingsAssumption ==
  /\ UserSettings \cap {ChrNet, OldChrNet, Half, NoBackup} = {}
  /\ ChrNet # OldChrNet /\ ChrNet # Half /\ ChrNet # NoBackup
  /\ OldChrNet # Half /\ OldChrNet # NoBackup /\ Half # NoBackup
  /\ MaxEdits \in Nat /\ MaxKills \in Nat /\ MaxFailures \in Nat

VARIABLES
  current,    \* the proxy settings Windows uses
  backup,     \* the backup in the registry
  snap,       \* original in EnableForChrNet
  app,        \* the life of the app, or of "chrnet.exe --cleanup"
  pc,         \* where its one worker is
  tunnel,     \* options.tunnel of the connect under way
  enabled,    \* proxy_enabled_
  active,     \* active_ is set
  core,       \* whose core runs: the service's, the app's, nobody's
  lost,       \* the task queued by OnBackendStatus for a lost connection
  \* History, read by properties only.
  wanted,     \* the settings the user chose last
  edit,       \* when that was, see UserEdits
  hurt,       \* the backup was lost to one of the faults named where it is set
  \* Bounds.
  edits, kills, failures

settingsVars == <<current, backup>>
bridgeVars == <<tunnel, enabled, active, core, lost>>
ghosts == <<wanted, edit, hurt>>
vars == <<settingsVars, snap, app, pc, bridgeVars, ghosts, edits, kills,
          failures>>

Succeeds == UNCHANGED failures
Fails == failures < MaxFailures /\ failures' = failures + 1

IsChrNetProxy(settings) == settings \in OurSettings
HasPendingRestore == backup # NoBackup

-----------------------------------------------------------------------------
(* The app: start, exit, death.                                            *)

AppStart ==
  /\ app = "down"
  /\ app' = "starting" /\ pc' = "sync"
  /\ UNCHANGED <<settingsVars, snap, bridgeVars, ghosts, edits, kills, failures>>

\* "chrnet.exe --cleanup", run by the installer once the app is gone.
CleanupStart ==
  /\ app = "down"
  /\ app' = "cleanup" /\ pc' = "stale"
  /\ UNCHANGED <<settingsVars, snap, bridgeVars, ghosts, edits, kills, failures>>

\* The service answers that a core runs.
SyncAnswer ==
  /\ pc = "sync" /\ core = "service"
  /\ pc' = "attach"
  /\ UNCHANGED <<settingsVars, snap, app, bridgeVars, ghosts, edits, kills,
                 failures>>

\* A core that outlived the previous app is taken over as it is.
SyncAttach ==
  /\ pc = "attach"
  /\ active' = TRUE /\ enabled' = HasPendingRestore
  /\ app' = "up" /\ pc' = "idle"
  /\ UNCHANGED <<settingsVars, snap, tunnel, core, lost, ghosts, edits, kills,
                 failures>>

\* Without one, or when the service does not answer in time.
SyncRestore ==
  /\ pc = "sync"
  /\ pc' = "stale"
  /\ UNCHANGED <<settingsVars, snap, app, bridgeVars, ghosts, edits, kills,
                 failures>>

\* The last step of a task.  An app that exits takes its own core along.
TaskDone ==
  /\ pc' = "idle"
  /\ app' = IF app \in {"starting", "up"} THEN "up" ELSE "down"
  /\ core' = IF app = "exiting" /\ core = "app" THEN "none" ELSE core

\* ShutdownConnection: the worker finishes its queue first.
Exit ==
  /\ app = "up" /\ pc = "idle" /\ ~lost
  /\ app' = "exiting" /\ pc' = "rs_read"
  /\ core' = IF active THEN "none" ELSE core
  /\ active' = FALSE
  /\ UNCHANGED <<settingsVars, snap, tunnel, enabled, lost, ghosts, edits,
                 kills, failures>>

\* Torn: the flags of the backup are written, the strings are not.
Torn == pc = "en_strings" /\ backup = Half
Kill ==
  /\ app # "down" /\ kills < MaxKills
  /\ kills' = kills + 1
  /\ app' = "down" /\ pc' = "idle"
  /\ enabled' = FALSE /\ active' = FALSE /\ lost' = FALSE
  /\ core' = IF core = "app" THEN "none" ELSE core
  /\ hurt' = (hurt \/ Torn)
  /\ UNCHANGED <<settingsVars, snap, tunnel, wanted, edit, edits, failures>>

-----------------------------------------------------------------------------
(* The tasks of the bridge.                                                *)

Idle == app = "up" /\ pc = "idle"

\* backend->Start succeeded.  The previous core is gone: its own backend
\* replaced it, or active_->Stop() ended it; one the bridge has forgotten
\* keeps its port, and only its own backend can replace it.
\* An edit made while a backup is pending is not protected from here on.
StartSucceeds(b, mode) ==
  /\ Idle
  /\ active \/ core \in {"none", b}
  /\ core' = b /\ active' = TRUE /\ tunnel' = mode
  /\ pc' = "en_read"
  /\ edit' = IF edit = "session" /\ HasPendingRestore THEN "reconnected" ELSE edit
  /\ UNCHANGED <<settingsVars, snap, app, enabled, lost, wanted, hurt, edits,
                 kills, failures>>

\* backend->Start failed: the service may still finish it after its answer
\* was given up, and a core the bridge has forgotten is not touched.
\* Mutation: a failed start only answers with its error.
JustReplies == "idle"
AfterFailedStart == "rs_read"
StartFails ==
  /\ Idle
  /\ core' \in {"none", "service"} \cup (IF active THEN {} ELSE {core})
  /\ active' = FALSE
  /\ pc' = AfterFailedStart
  /\ UNCHANGED <<settingsVars, snap, app, tunnel, enabled, lost, ghosts, edits,
                 kills, failures>>

\* Without active_ the service is told to stop, an own core is not.
Disconnect ==
  /\ Idle
  /\ core' = IF active \/ core = "service" THEN "none" ELSE core
  /\ active' = FALSE
  /\ pc' = "rs_read"
  /\ UNCHANGED <<settingsVars, snap, app, tunnel, enabled, lost, ghosts, edits,
                 kills, failures>>

\* The core dies or the service goes: OnBackendStatus queues a task, until
\* the worker is stopped.
\* Mutation: the listener is set once the bridge has synchronised.
ListensOnceUp == app = "up"
Listens == app \in {"starting", "up"}
CoreLost ==
  /\ core # "none"
  /\ core' = "none"
  /\ lost' = Listens
  /\ UNCHANGED <<settingsVars, snap, app, pc, tunnel, enabled, active, ghosts,
                 edits, kills, failures>>

\* The task forgets the backend, whatever was connected meanwhile.
HandleLost ==
  /\ Idle /\ lost
  /\ lost' = FALSE /\ active' = FALSE
  /\ pc' = "rs_read"
  /\ UNCHANGED <<settingsVars, snap, app, tunnel, enabled, core, ghosts, edits,
                 kills, failures>>

-----------------------------------------------------------------------------
(* EnableForChrNet.                                                        *)

\* Mutation: the settings of an old version are taken for the user's.
AsFound == current
Original == IF IsChrNetProxy(current) THEN Direct ELSE current
\* Mutation: every connect saves what it finds.
AlwaysSaves == TRUE
Saves == ~HasPendingRestore
EnableRead ==
  /\ pc = "en_read"
  /\ IF Saves
     THEN pc' = "en_flags" /\ snap' = Original
     ELSE pc' = "en_apply" /\ UNCHANGED snap
  /\ Succeeds
  /\ UNCHANGED <<settingsVars, app, bridgeVars, ghosts, edits, kills>>

\* SaveBackup looks at the result of RegCreateKeyExW only: a value that could
\* not be written is missing, and the settings are replaced all the same.
SaveFlags ==
  /\ pc = "en_flags"
  /\ pc' = "en_strings"
  /\ \/ /\ Succeeds
        /\ backup' = IF snap = Direct THEN Direct ELSE Half
        /\ UNCHANGED hurt
     \/ Fails /\ hurt' = (hurt \/ snap # Direct) /\ UNCHANGED backup
  /\ UNCHANGED <<current, snap, app, bridgeVars, wanted, edit, edits, kills>>

SaveStrings ==
  /\ pc = "en_strings"
  /\ pc' = "en_apply"
  /\ \/ /\ Succeeds
        /\ backup' = IF HasPendingRestore THEN snap ELSE NoBackup
        /\ UNCHANGED hurt
     \/ Fails /\ hurt' = (hurt \/ snap # Direct) /\ UNCHANGED backup
  /\ UNCHANGED <<current, snap, app, bridgeVars, wanted, edit, edits, kills>>

EnableApply ==
  /\ pc = "en_apply"
  /\ current' = ChrNet /\ enabled' = TRUE
  /\ TaskDone
  /\ Succeeds
  /\ UNCHANGED <<backup, snap, tunnel, active, lost, ghosts, edits, kills>>

\* Reading, creating the key or applying fails: without a tunnel the core is
\* stopped again; what was saved stays.
EnableFails ==
  /\ pc \in {"en_read", "en_flags", "en_apply"}
  /\ Fails
  /\ pc' = "idle"
  /\ IF tunnel THEN UNCHANGED <<core, active>> ELSE core' = "none" /\ active' = FALSE
  /\ UNCHANGED <<settingsVars, snap, app, tunnel, enabled, lost, ghosts, edits,
                 kills>>

-----------------------------------------------------------------------------
(* RestoreProxyIfNeeded, RestoreStaleSystemProxy and RestoreAfterChrNet.   *)

RestoreSkip ==
  /\ pc = "rs_read" /\ ~(enabled \/ HasPendingRestore)
  /\ TaskDone
  /\ UNCHANGED <<settingsVars, snap, tunnel, enabled, active, lost, ghosts,
                 edits, kills, failures>>

RestoreStarts ==
  \/ pc = "rs_read" /\ (enabled \/ HasPendingRestore)
  \/ pc = "stale" /\ HasPendingRestore

RestoreRead ==
  /\ RestoreStarts
  /\ pc' = IF IsChrNetProxy(current) THEN "rs_apply" ELSE "rs_clear"
  /\ enabled' = FALSE
  /\ Succeeds
  /\ UNCHANGED <<settingsVars, snap, app, tunnel, active, core, lost, ghosts,
                 edits, kills>>

\* Settings that cannot be read count as the user's: the backup is dropped.
RestoreReadFails ==
  /\ RestoreStarts
  /\ Fails
  /\ pc' = "rs_clear"
  /\ enabled' = FALSE
  /\ hurt' = (hurt \/ IsChrNetProxy(current))
  /\ UNCHANGED <<settingsVars, snap, app, tunnel, active, core, lost, wanted,
                 edit, edits, kills>>

RestoreApply ==
  /\ pc = "rs_apply"
  /\ current' = IF HasPendingRestore THEN backup ELSE Direct
  /\ pc' = "rs_clear"
  /\ Succeeds
  /\ UNCHANGED <<backup, snap, app, bridgeVars, ghosts, edits, kills>>

RestoreApplyFails ==
  /\ pc = "rs_apply"
  /\ Fails
  /\ TaskDone
  /\ UNCHANGED <<settingsVars, snap, tunnel, enabled, active, lost, ghosts,
                 edits, kills>>

\* Mutation: the backup of the first session is kept.
Kept == backup
Erased == NoBackup
RestoreClear ==
  /\ pc = "rs_clear"
  /\ backup' = Erased
  /\ TaskDone
  /\ UNCHANGED <<current, snap, tunnel, enabled, active, lost, ghosts, edits,
                 kills, failures>>

\* No backup: the settings of an old version go if nobody listens there.
StaleRead ==
  /\ pc = "stale" /\ ~HasPendingRestore
  /\ IF current = OldChrNet /\ core = "none"
     THEN pc' = "st_apply" /\ UNCHANGED <<app, core>>
     ELSE TaskDone
  /\ UNCHANGED <<settingsVars, snap, tunnel, enabled, active, lost, ghosts,
                 edits, kills, failures>>

StaleApply ==
  /\ pc = "st_apply"
  /\ current' = Direct
  /\ TaskDone
  /\ UNCHANGED <<backup, snap, tunnel, enabled, active, lost, ghosts, edits,
                 kills, failures>>

\* Apply, or the Read before it, fails: nothing changes.
StaleFails ==
  /\ pc = "st_apply"
  /\ Fails
  /\ TaskDone
  /\ UNCHANGED <<settingsVars, snap, tunnel, enabled, active, lost, ghosts,
                 edits, kills>>

-----------------------------------------------------------------------------
(* The user.                                                               *)

\* Safe: ChrNet has nothing pending.  In a session: a backup is pending.  A
\* race: the worker is in the middle of a change.
UserEdits(s) ==
  /\ edits < MaxEdits
  /\ edits' = edits + 1
  /\ current' = s /\ wanted' = s
  /\ edit' = IF pc # "idle" THEN "race"
             ELSE IF HasPendingRestore THEN "session" ELSE "safe"
  /\ UNCHANGED <<backup, snap, app, pc, bridgeVars, hurt, kills, failures>>

-----------------------------------------------------------------------------
Init ==
  /\ current \in UserSettings \cup {OldChrNet}
  /\ wanted = IF current = OldChrNet THEN Direct ELSE current
  /\ backup = NoBackup /\ snap = Direct
  /\ app = "down" /\ pc = "idle"
  /\ tunnel = FALSE /\ enabled = FALSE /\ active = FALSE
  /\ core = "none" /\ lost = FALSE
  /\ edit = "safe" /\ hurt = FALSE
  /\ edits = 0 /\ kills = 0 /\ failures = 0

Enabling == EnableRead \/ SaveFlags \/ SaveStrings \/ EnableApply \/ EnableFails
Restoring ==
  \/ RestoreSkip \/ RestoreRead \/ RestoreReadFails
  \/ RestoreApply \/ RestoreApplyFails \/ RestoreClear
  \/ StaleRead \/ StaleApply \/ StaleFails
Syncing == SyncAnswer \/ SyncAttach \/ SyncRestore
Requests ==
  \/ \E b \in {"service", "app"}, mode \in BOOLEAN : StartSucceeds(b, mode)
  \/ StartFails \/ Disconnect

Next ==
  \/ AppStart \/ CleanupStart \/ Exit \/ Kill \/ CoreLost
  \/ Requests \/ HandleLost \/ Syncing \/ Enabling \/ Restoring
  \/ \E s \in UserSettings : UserEdits(s)

Spec == Init /\ [][Next]_vars

\* The worker runs its tasks; nobody has to start the app, connect or edit.
FairSpec == Spec /\ WF_vars(HandleLost \/ Syncing \/ Enabling \/ Restoring)

-----------------------------------------------------------------------------
(* Properties.                                                             *)

PCs == {"idle", "sync", "attach", "stale", "en_read", "en_flags", "en_strings",
        "en_apply", "rs_read", "rs_apply", "rs_clear", "st_apply"}

FlagsOK ==
  /\ tunnel \in BOOLEAN /\ enabled \in BOOLEAN /\ active \in BOOLEAN
  /\ lost \in BOOLEAN /\ hurt \in BOOLEAN
ValuesOK ==
  /\ current \in UserSettings \cup OurSettings \cup {Half}
  /\ backup \in UserSettings \cup {Half, NoBackup}
  /\ snap \in UserSettings \cup {Half}
  /\ app \in {"down", "starting", "up", "exiting", "cleanup"}
  /\ pc \in PCs
  /\ core \in {"none", "service", "app"}
  /\ wanted \in UserSettings
  /\ edit \in {"safe", "session", "reconnected", "race"}
  /\ edits \in Nat /\ kills \in Nat /\ failures \in Nat

\* The variables have the types the code gives them; what is saved is
\* never ChrNet's own settings.
TypeOK == FlagsOK /\ ValuesOK

\* What RestoreAfterChrNet would leave if it ran now.
Restored ==
  IF ~IsChrNetProxy(current) THEN current
  ELSE IF HasPendingRestore THEN backup ELSE Direct

\* At every moment, a restore would leave the settings the user chose last:
\* through any number of sessions, reconnects, deaths of the app and failing
\* calls.  The exceptions are an edit in the middle of a change, an edit
\* during a session that was then reconnected, and the faults of "hurt".
\* proxy_settings.h:27-29 and 32-33.
SettingsComeBack ==
  edit \in {"safe", "session"} /\ ~hurt => wanted = Restored

\* An app at rest that knows of no core to be lost leaves no proxy pointing
\* to a core that is gone (vpn_service_bridge.cpp:507-509).
NoDeadProxy ==
  Idle /\ core = "none" /\ ~lost /\ failures = 0 => current # ChrNet

\* An app that ended by itself has put everything back.
DownIsRestored ==
  app = "down" /\ kills = 0 /\ failures = 0 =>
    /\ backup = NoBackup /\ current # ChrNet
    /\ edit \in {"safe", "session"} => current \in {wanted, OldChrNet}

\* A proxy that points to a core that is gone does not stay while the app
\* runs: the task of the lost connection or the start of the app removes it.
DeadProxy == app \in {"starting", "up"} /\ core = "none" /\ current = ChrNet
DeadProxyGoes == DeadProxy ~> (~DeadProxy \/ failures > 0)

(* The inductive invariant behind the theorems of ProxySettingsProofs.      *)

Enables == {"en_read", "en_flags", "en_strings", "en_apply"}

\* Which task the process that runs can be in.
ShapeInv ==
  /\ app = "down" => pc = "idle" /\ ~enabled /\ ~active /\ ~lost
  /\ app = "starting" => pc \in {"sync", "attach", "stale", "rs_apply",
                                  "rs_clear", "st_apply"}
  /\ app = "up" => pc \in {"idle", "rs_read", "rs_apply", "rs_clear"} \cup Enables
  /\ app = "exiting" => pc \in {"rs_read", "rs_apply", "rs_clear"}
  /\ app = "cleanup" => pc \in {"stale", "rs_apply", "rs_clear", "st_apply"}
  /\ app \in {"exiting", "cleanup"} => ~active /\ ~lost
  /\ app \in {"exiting", "cleanup"} /\ pc # "rs_read" => ~enabled

\* What the worker may rely on at each place, as long as nothing has excused
\* it: the backup, or what is about to be saved, is what the user wants.
Unspoiled == edit \in {"safe", "session"} /\ ~hurt
Saved == IF HasPendingRestore THEN backup ELSE Direct
BackupInv ==
  /\ edit = "safe" /\ ~hurt /\ HasPendingRestore /\ pc # "en_strings" =>
       backup = wanted
  /\ pc \in {"en_flags", "st_apply"} => backup = NoBackup
  /\ pc = "en_read" /\ HasPendingRestore => edit # "session"
  /\ pc \in {"en_flags", "en_strings"} /\ Unspoiled => snap = wanted
  /\ pc = "en_strings" /\ Unspoiled =>
       \/ backup = IF snap = Direct THEN Direct ELSE Half
       \/ backup = NoBackup /\ snap = Direct
  /\ pc = "en_strings" /\ current \in OurSettings /\ Unspoiled => snap = Direct
  /\ pc = "en_apply" /\ Unspoiled => wanted = Saved
  /\ pc \in {"rs_apply", "st_apply"} /\ edit # "race" => current \in OurSettings
  /\ pc = "rs_clear" /\ Unspoiled => current \notin OurSettings

\* Without failing calls, ChrNet's settings are never without a backup, nor,
\* where the worker rests or connects, without a core or the task of its loss.
ProxyInv ==
  /\ hurt => kills > 0 \/ failures > 0
  /\ failures = 0 =>
       /\ current = ChrNet \/ pc = "en_apply" => HasPendingRestore
       /\ pc = "rs_clear" => current # ChrNet
       /\ pc \in Enables \cup {"attach"} => core # "none" \/ lost
       /\ pc = "en_strings" => HasPendingRestore
       /\ app = "down" /\ kills = 0 => backup = NoBackup
  /\ NoDeadProxy

IInv == TypeOK /\ ShapeInv /\ BackupInv /\ SettingsComeBack /\ ProxyInv

\* "Settings the user changed in the meantime are left alone"
\* (proxy_settings.h:32-33), also by a reconnect of the session.
EditsSurvive == edit # "race" /\ ~hurt => wanted = Restored
=============================================================================
