---------------------------- MODULE VpnProvider -----------------------------
(***************************************************************************)
(* The connection as the user sees it (vpn_provider.dart), on Windows: the *)
(* status, the timers and the handlers, each cut where it awaits the       *)
(* payload, the storage or the native side.  Dart runs one piece after the *)
(* other; which piece comes next is open.                                  *)
(*                                                                         *)
(* The native side answers one call after the other and tells of a core it *)
(* lost (WindowsBridge); an answer that it has worked out may be posted    *)
(* after the news that the core is lost.                                   *)
(***************************************************************************)
EXTENDS Naturals, Sequences, SequencesExt

CONSTANTS
  Servers,      \* the servers of the user
  Stored,       \* the one whose id the storage holds at the start
  None,         \* no server, no core
  MaxAttempts,  \* length of _autoReconnectDelaysSeconds
  PollLimit,    \* ticks of a poll before it gives up
  MaxActions,   \* bound on what the user does
  MaxLosses     \* bound on the cores that are lost and the calls that fail

ASSUME ProviderAssumption ==
  /\ None \notin Servers /\ Stored \in Servers
  /\ MaxAttempts \in Nat \ {0}
  /\ {PollLimit, MaxActions, MaxLosses} \subseteq Nat

VARIABLES
  status,      \* _status
  attempt,     \* _autoReconnectAttempt
  retry,       \* _autoReconnectTimer is running
  stable,      \* _stableConnectionTimer is running
  poll,        \* _connectingPollTimer: its ticks, or Off
  selected,    \* _selectedServer
  queued,      \* _queuedServerSwitch
  drain,       \* _drainServerSwitchQueue: idle, saving, same, reconnect, settle
  payloads,    \* attempts that await their payload, each with its server
  calls,       \* calls on their way to the native side
  answer,      \* the call that was worked out, with its result
  posts,       \* answers and events on their way back
  running,     \* the server of the core that runs
  actions, losses,
  tries,       \* history: automatic attempts since the user acted or a
               \* connection was stable
  off,         \* history: the user has disconnected and not connected since
  tangled      \* history: the races that were met, see Races

timerVars == <<attempt, retry, stable, poll>>
switchVars == <<selected, queued, drain>>
nativeVars == <<calls, answer, posts, running>>
bounds == <<actions, losses>>
ghosts == <<tries, off, tangled>>
vars == <<status, timerVars, switchVars, payloads, nativeVars, bounds, ghosts>>

Off == PollLimit + 1  \* no poll
NoAnswer == [kind |-> "none", method |-> "none", result |-> "none"]
Call(kind, method, server) == [kind |-> kind, method |-> method, server |-> server]
Attempts == {"connect", "automatic", "reconnect", "switch"}
Busy == {"connecting", "disconnecting"}

\* Six races this code loses, and four failures after which a core runs that
\* the app does not know of; the properties are about everything else.
\*   overtaken: a disconnect, while an attempt awaits its payload or an
\*              automatic attempt its answer, does not call it off;
\*   late:      a loss is told before an answer that was worked out earlier;
\*   switched:  a server is selected while no connection is up but one is
\*              being made or has not been found yet.
\*   hasty:     an attempt is begun while a disconnect is not answered, whose
\*              answer then counts for the new connection;
\*   doubled:   an attempt is begun while another one is not answered;
\*   outpolled: the poll of an attempt runs out while a later one is made;
\*   unbuilt:   no payload can be made for the server (it is not of VLESS, or
\*              its configuration is not read) while the core of another runs:
\*              the attempt fails without a call;
\*   givenup:   a start that is not answered in time, or was not even asked
\*              for, is an error, and the core comes up later or goes on;
\*   unstopped: the stop of a core fails, which its caller does not look at;
\*   blind:     a question is asked while the core is built anew, or is not
\*              answered in time, and the answer is that none runs.
Unknown == {"unbuilt", "givenup", "unstopped", "blind"}
Races == {"overtaken", "late", "switched", "hasty", "doubled", "outpolled"} \cup Unknown
Met(races) == tangled' = tangled \cup races

Silent == payloads = <<>> /\ calls = <<>> /\ answer = NoAnswer /\ posts = <<>>

\* What the native side has not answered, or Dart has not heard.
Unanswered == {a.kind : a \in ToSet(calls) \cup {answer} \cup ToSet(posts)}
Attempting == payloads # <<>> \/ Unanswered \cap Attempts # {}
Doubled == IF Attempting THEN {"doubled"} ELSE {}
Hasty == IF "disconnect" \in Unanswered THEN {"hasty"} ELSE {}

-----------------------------------------------------------------------------
(* Timers and the steps many handlers share.                               *)

CancelAutoReconnect == retry' = FALSE /\ stable' = FALSE /\ attempt' = 0

\* Mutation: a connection that is made forgets the attempts at once.
ForgetAttempts == attempt' = 0
KeepAttempts == UNCHANGED attempt

MarkConnected ==
  /\ poll' = Off /\ status' = "connected" /\ stable' = TRUE
  /\ KeepAttempts /\ UNCHANGED retry

\* Mutation: the status is left when nothing is tried any more.
CanRetry == attempt < MaxAttempts
Counted == attempt' = attempt + 1
Quietly == UNCHANGED status
Shown == status' = "error"

\* _scheduleAutoReconnect, when it returns true.
Schedule ==
  /\ Counted /\ retry' = TRUE /\ stable' = FALSE
  /\ status' = "connecting"

FailConnect(automatic, permanent) ==
  /\ poll' = Off
  /\ IF automatic /\ ~permanent /\ CanRetry THEN Schedule
     ELSE CancelAutoReconnect /\ Shown

\* connect, reconnect up to the payload; kind tells who asked.
Begin(kind) ==
  /\ payloads' = Append(payloads, Call(kind, "start", selected))
  /\ status' = "connecting"
  /\ IF kind = "automatic" THEN UNCHANGED <<attempt, retry, stable>>
     ELSE CancelAutoReconnect
  /\ poll' = IF kind \in {"reconnect", "switch"} THEN Off ELSE poll

UserActs == actions < MaxActions /\ actions' = actions + 1 /\ tries' = 0

-----------------------------------------------------------------------------
(* The user.                                                               *)

\* toggleConnection, from the window or the tray.
ToggleOn ==
  /\ UserActs /\ status \notin {"connected", "connecting"}
  /\ Begin("connect") /\ off' = FALSE /\ Met(Doubled \cup Hasty)
  /\ UNCHANGED <<switchVars, nativeVars, losses>>

\* disconnect
ToggleOff ==
  /\ UserActs /\ status \in {"connected", "connecting"}
  /\ CancelAutoReconnect /\ status' = "disconnecting" /\ off' = TRUE
  /\ calls' = Append(calls, Call("disconnect", "disconnect", None))
  /\ Met(IF payloads # <<>> \/ "automatic" \in Unanswered THEN {"overtaken"} ELSE {})
  /\ UNCHANGED <<poll, switchVars, payloads, answer, posts, running, losses>>

\* A change of the settings while connected.
Reconnect ==
  /\ UserActs /\ status = "connected"
  /\ Begin("reconnect") /\ off' = FALSE /\ Met(Doubled \cup Hasty)
  /\ UNCHANGED <<switchVars, nativeVars, losses>>

Change(s) == IF s = selected THEN "same" ELSE "saving"

\* _selectServer up to the storage.
StartSwitch(s) == selected' = s /\ drain' = Change(s)

SelectServer(s) ==
  /\ UserActs
  /\ IF drain = "idle" THEN StartSwitch(s) /\ UNCHANGED queued
     ELSE queued' = s /\ UNCHANGED <<selected, drain>>
  /\ UNCHANGED <<status, timerVars, payloads, nativeVars, losses, off, tangled>>

\* The app is resumed: ask the native side what runs.
Resume ==
  /\ actions < MaxActions /\ actions' = actions + 1
  /\ calls' = Append(calls, Call("sync", "status", None))
  /\ UNCHANGED <<status, timerVars, switchVars, payloads, answer, posts, running,
                 losses, ghosts>>

-----------------------------------------------------------------------------
(* The queue of server switches.                                           *)

\* The next server of the queue, or the end of the loop.
NextSwitch ==
  IF queued = None THEN drain' = "idle" /\ UNCHANGED <<selected, queued>>
  ELSE queued' = None /\ StartSwitch(queued)

\* Mutation: the new server is connected to, whatever the status.
Changed == drain = "saving"
\* Another server than before, and a connection to make again.
Switchable == drain = "saving" /\ status = "connected"

\* The storage has the server: a connection is made again with it.
Saved ==
  /\ drain \in {"saving", "same"}
  /\ IF Switchable
     THEN /\ Begin("switch") /\ drain' = "reconnect" /\ tries' = 0
          /\ Met(Doubled \cup Hasty) /\ UNCHANGED <<selected, queued>>
     ELSE /\ NextSwitch
          /\ Met(IF drain = "saving" /\ (~Silent \/ running # None)
                 THEN {"switched"} ELSE {})
          /\ UNCHANGED <<status, timerVars, payloads, tries>>
  /\ UNCHANGED <<nativeVars, bounds, off>>

\* _waitForConnectionTransition: until the status settles, or its time is up.
SwitchSettles ==
  /\ drain = "settle"
  /\ NextSwitch
  /\ UNCHANGED <<status, timerVars, payloads, nativeVars, bounds, ghosts>>

-----------------------------------------------------------------------------
(* Timers.                                                                 *)

Retry ==
  /\ retry
  /\ IF status = "connecting"
     THEN /\ payloads' = Append(payloads, Call("automatic", "start", selected))
          /\ tries' = tries + 1
          /\ Met(Doubled \cup Hasty)
     ELSE UNCHANGED <<payloads, tries, tangled>>
  /\ retry' = FALSE
  /\ UNCHANGED <<status, attempt, stable, poll, switchVars, nativeVars, bounds, off>>

\* A minute of connection.
Stable ==
  /\ stable
  /\ stable' = FALSE /\ attempt' = 0 /\ tries' = 0
  /\ UNCHANGED <<status, retry, poll, switchVars, payloads, nativeVars, bounds,
                 off, tangled>>

Tick ==
  /\ poll # Off
  /\ \/ status # "connecting" /\ poll' = Off /\ UNCHANGED <<status, calls, tangled>>
     \/ /\ status = "connecting" /\ poll = PollLimit
        /\ poll' = Off /\ status' = "error"
        /\ Met(IF Attempting THEN {"outpolled"} ELSE {})
        /\ UNCHANGED calls
     \/ /\ status = "connecting" /\ poll < PollLimit
        /\ poll' = poll + 1
        /\ calls' = Append(calls, Call("tick", "status", None))
        /\ UNCHANGED <<status, tangled>>
  /\ UNCHANGED <<attempt, retry, stable, switchVars, payloads, answer, posts,
                 running, bounds, tries, off>>

-----------------------------------------------------------------------------
(* The native side.                                                        *)

\* The payload is there: the addresses of the server are resolved.
Payload(i) ==
  /\ i \in DOMAIN payloads
  /\ payloads' = RemoveAt(payloads, i)
  /\ calls' = Append(calls, payloads[i])
  /\ UNCHANGED <<status, timerVars, switchVars, answer, posts, running, bounds,
                 ghosts>>

\* The reconnect of a switch is over.
AttemptEnds(kind) ==
  drain' = IF kind = "switch" /\ drain = "reconnect" THEN "settle" ELSE drain

\* There is none: a server of an older version, for which an attempt is not
\* made again, or a configuration that is not read.
Unbuilt(i) ==
  /\ i \in DOMAIN payloads
  /\ payloads' = RemoveAt(payloads, i)
  /\ \E old \in BOOLEAN : FailConnect(payloads[i].kind = "automatic", old)
  /\ AttemptEnds(payloads[i].kind)
  /\ Met(IF running # None THEN {"unbuilt"} ELSE {})
  /\ UNCHANGED <<selected, queued, nativeVars, bounds, tries, off>>

Result(c, r) == [kind |-> c.kind, method |-> c.method, result |-> r]

\* One call after the other: a start, a stop, or a question.
Work ==
  /\ calls # <<>> /\ answer = NoAnswer
  /\ calls' = Tail(calls)
  /\ LET c == Head(calls) IN
     \/ /\ c.method = "start"
        /\ \E r \in {"ok", "error"}
                    \cup IF c.kind = "automatic" THEN {"permanent"} ELSE {} :
             /\ answer' = Result(c, r)
             /\ running' = IF r = "ok" THEN c.server ELSE None
     \/ c.method = "disconnect" /\ answer' = Result(c, "ok") /\ running' = None
     \/ /\ c.method = "status" /\ UNCHANGED running
        /\ answer' = Result(c, IF running # None THEN "ok" ELSE "down")
  /\ UNCHANGED <<status, timerVars, switchVars, payloads, posts, bounds, ghosts>>

\* Or the call fails, and the answer does not tell what runs.
Fails ==
  /\ calls # <<>> /\ answer = NoAnswer /\ losses < MaxLosses
  /\ losses' = losses + 1 /\ calls' = Tail(calls)
  /\ LET c == Head(calls) IN
     \/ /\ c.method = "start" /\ answer' = Result(c, "error")
        /\ running' \in {running, c.server} /\ Met({"givenup"})
     \/ /\ c.method = "disconnect" /\ answer' = Result(c, "ok")
        /\ UNCHANGED running /\ Met({"unstopped"})
     \/ /\ c.method = "status" /\ running # None /\ answer' = Result(c, "down")
        /\ UNCHANGED running /\ Met({"blind"})
  /\ UNCHANGED <<status, timerVars, switchVars, payloads, posts, actions, tries, off>>

Post ==
  /\ answer # NoAnswer
  /\ posts' = Append(posts, answer) /\ answer' = NoAnswer
  /\ UNCHANGED <<status, timerVars, switchVars, payloads, calls, running, bounds,
                 ghosts>>

\* The news overtakes an answer.
Loss ==
  /\ running # None /\ losses < MaxLosses
  /\ losses' = losses + 1 /\ running' = None
  /\ posts' = Append(posts, [kind |-> "lost", method |-> "lost", result |-> "lost"])
  /\ Met(IF answer.method = "status" THEN {"late"} ELSE {})
  /\ UNCHANGED <<status, timerVars, switchVars, payloads, calls, answer, actions,
                 tries, off>>

-----------------------------------------------------------------------------
(* What Dart does with what comes back.                                    *)

Comes(kinds, method) ==
  /\ posts # <<>> /\ Head(posts).kind \in kinds /\ Head(posts).method = method
  /\ posts' = Tail(posts)

Answered == Head(posts).result

\* connect, reconnect after the call: is the core running?
Started ==
  /\ Comes(Attempts, "start")
  /\ LET kind == Head(posts).kind IN
     IF Answered = "ok"
     THEN /\ calls' = Append(calls, Call(kind, "status", None))
          /\ UNCHANGED <<status, timerVars, drain>>
     ELSE /\ FailConnect(kind = "automatic", Answered = "permanent")
          /\ AttemptEnds(kind) /\ UNCHANGED calls
  /\ UNCHANGED <<selected, queued, payloads, answer, running, bounds, ghosts>>

\* _confirmWindowsCoreRunning; otherwise the poll begins.
Confirmed ==
  /\ Comes(Attempts, "status")
  /\ IF Answered = "ok" /\ status = "connecting"
     THEN MarkConnected
     ELSE poll' = 0 /\ UNCHANGED <<status, attempt, retry, stable>>
  /\ AttemptEnds(Head(posts).kind)
  /\ UNCHANGED <<selected, queued, payloads, calls, answer, running, bounds, ghosts>>

Ticked ==
  /\ Comes({"tick"}, "status")
  /\ IF Answered = "ok" /\ status = "connecting"
     THEN MarkConnected ELSE UNCHANGED <<status, timerVars>>
  /\ UNCHANGED <<switchVars, payloads, calls, answer, running, bounds, ghosts>>

Disconnected ==
  /\ Comes({"disconnect"}, "disconnect")
  /\ poll' = Off /\ status' = "disconnected"
  /\ UNCHANGED <<attempt, retry, stable, switchVars, payloads, calls, answer,
                 running, bounds, ghosts>>

\* Mutation: an answer given before an attempt ends that attempt.
Trying == status \in {"connected", "connecting"}
Connected == status = "connected"

\* _syncStatusWithNative
Synced ==
  /\ Comes({"sync"}, "status")
  /\ IF Answered = "ok" /\ status \in {"disconnected", "error"}
     THEN status' = "connected" /\ UNCHANGED poll
     ELSE IF Answered = "down" /\ Connected
     THEN status' = "disconnected" /\ poll' = Off
     ELSE UNCHANGED <<status, poll>>
  /\ UNCHANGED <<attempt, retry, stable, switchVars, payloads, calls, answer,
                 running, bounds, ghosts>>

\* _initialize: with auto-connect on, a connection is made at the start.
Initialized ==
  /\ Comes({"init"}, "status")
  /\ IF Answered = "ok" /\ status \in {"disconnected", "error"}
     THEN status' = "connected" /\ UNCHANGED <<timerVars, payloads>>
     ELSE \/ status = "disconnected" /\ Begin("connect")
          \/ UNCHANGED <<status, timerVars, payloads>>
  /\ UNCHANGED <<switchVars, calls, answer, running, bounds, ghosts>>

\* A connection to restore.
Concerned == status \in {"connected", "connecting"}

\* _handleCoreStopped
CoreStopped ==
  /\ Comes({"lost"}, "lost")
  /\ IF ~Concerned THEN UNCHANGED <<status, timerVars>>
     ELSE /\ poll' = Off
          /\ IF CanRetry THEN Schedule
             ELSE attempt' = 0 /\ Shown /\ UNCHANGED <<retry, stable>>
  /\ UNCHANGED <<switchVars, payloads, calls, answer, running, bounds, ghosts>>

-----------------------------------------------------------------------------
(* The specification.                                                      *)

\* The app starts; the service may have kept a connection.
Init ==
  /\ status = "disconnected" /\ attempt = 0 /\ retry = FALSE /\ stable = FALSE
  /\ poll = Off /\ selected = Stored /\ queued = None /\ drain = "idle"
  /\ payloads = <<>> /\ calls = <<Call("init", "status", None)>>
  /\ answer = NoAnswer /\ posts = <<>> /\ running \in {None, selected}
  /\ actions = 0 /\ losses = 0 /\ tries = 0 /\ off = FALSE
  /\ tangled = {}

User == \/ ToggleOn \/ ToggleOff \/ Reconnect \/ Resume
        \/ \E s \in Servers : SelectServer(s)
Switch == Saved \/ SwitchSettles
Native == Work \/ Post
Reply == \/ Started \/ Confirmed \/ Ticked \/ Disconnected \/ Synced \/ Initialized
         \/ CoreStopped
Payloads == \E i \in DOMAIN payloads : Payload(i) \/ Unbuilt(i)

Due == Retry \/ Tick \/ Switch \/ Payloads \/ Native \/ Reply

Next == User \/ Stable \/ Loss \/ Fails \/ Due

\* While a timer runs, or something is on its way, the program does not stand
\* still: timers fire, the storage and the resolver answer, the native side
\* works and the event loop delivers.
Fairness == WF_vars(Due)

Spec == Init /\ [][Next]_vars /\ Fairness

-----------------------------------------------------------------------------
(* Properties.                                                             *)

Kinds == Attempts \cup {"disconnect", "sync", "init", "tick"}
Posts == [kind : Kinds \cup {"lost"}, method : {"start", "disconnect", "status", "lost"},
          result : {"ok", "down", "error", "permanent", "lost"}]

\* The type of the state.  The attempts never go past the list of delays.
TypeOK ==
  /\ status \in {"disconnected", "connecting", "connected", "disconnecting", "error"}
  /\ attempt \in 0..MaxAttempts /\ {retry, stable} \subseteq BOOLEAN
  /\ poll \in 0..Off
  /\ selected \in Servers /\ queued \in Servers \cup {None}
  /\ drain \in {"idle", "saving", "same", "reconnect", "settle"}
  /\ payloads \in Seq([kind : Attempts, method : {"start"}, server : Servers])
  /\ calls \in Seq([kind : Kinds, method : {"start", "disconnect", "status"},
                    server : Servers \cup {None}])
  /\ answer \in Posts \cup {NoAnswer} /\ posts \in Seq(Posts)
  /\ running \in Servers \cup {None}
  /\ actions \in 0..MaxActions /\ losses \in 0..MaxLosses /\ tries \in Nat
  /\ off \in BOOLEAN /\ tangled \subseteq Races

\* Nothing is on its way and no timer will fire.
Rest == Silent /\ ~retry /\ poll = Off /\ drain = "idle"

\* The app does not try for ever: between two acts of the user, or a minute of
\* connection, there are at most as many automatic attempts as delays, however
\* losses, failures and late answers follow each other, unless two attempts ran
\* at once, the first of which then resets the count, or a core ran that the app
\* did not know of, whose loss begins another count.
AttemptsBounded ==
  TypeOK /\ (({"doubled"} \cup Unknown) \cap tangled = {} => tries <= MaxAttempts)

\* At rest the user sees what runs: no connection without a core, unless a
\* disconnect overtook an attempt, a loss an answer, or one attempt another;
\* no core without a connection, unless a failure left one the app does not
\* know of; and of which server, unless that was changed in the middle of an
\* attempt.
RestAgrees ==
  Rest => /\ tangled \subseteq {"switched"} \cup Unknown /\ status = "connected"
               => running # None
          /\ tangled \subseteq {"switched"} /\ running # None => status = "connected"
          /\ tangled = {} /\ running # None => running = selected

\* Once the user has disconnected, nothing the app does by itself (a retry, a
\* late loss, a poll, a switch) brings a core back, unless the disconnect
\* overtook an attempt, an attempt overtook a disconnect, or the core was never
\* stopped.
OffStaysOff ==
  Rest /\ off /\ {"overtaken", "hasty", "unstopped"} \cap tangled = {} => running = None

\* What is being done ends, once the losses end: connected, disconnected or an
\* error is what every attempt comes to.
Settles == []<>(status \notin Busy)
=============================================================================
