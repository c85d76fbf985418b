-------------------------- MODULE AndroidVpnProofs --------------------------
(***************************************************************************)
(* A service of AndroidVpn that is gone leaves nothing behind; and at rest *)
(* the user sees what runs, and it is what was asked for last.  For any    *)
(* number of requests, retries and faults.                                 *)
(***************************************************************************)
EXTENDS AndroidVpn, SequenceTheorems, TLAPS

\* A service object, as far as it matters.
Object == [stopped : BOOLEAN, session : Nat]

\* The parts of the type, by who changes them.
PluginType ==
  /\ payloads \in Seq([action : {"start", "restart"}, config : Configs])
  /\ permitted \in BOOLEAN /\ stored \in Configs
  /\ pending # None => pending \in [action : {"start", "restart"}, config : Configs]
  /\ poll \in 0..Off /\ dialogs \in Nat
QueueType == intents \in Seq(Orders) /\ posts \in Seq(Messages)
DelayType ==
  /\ restart \in Configs \cup {None}
  /\ takeover # None => takeover \in [config : Configs, attempt : 1..TakeoverRetries]
ObjectType ==
  /\ open \in Nat /\ overwritten \in Nat
  /\ alive \in BOOLEAN /\ tun \in BOOLEAN /\ running \in BOOLEAN
  /\ objects \in Seq(Object) /\ (alive => objects # <<>>)
  /\ cores \subseteq Core /\ controller \in Core \cup {None}
GhostType ==
  /\ wanted \in Configs \cup {None} /\ failed \in BOOLEAN /\ races \subseteq Races
  /\ shown \in {"off", "connecting", "connected", "error"}
  /\ wishes \in 0..MaxWishes /\ faults \in 0..MaxFaults

\* They make up the type.
LEMMA TypeParts ==
  TypeOK <=> PluginType /\ QueueType /\ DelayType /\ ObjectType /\ GhostType
BY DEF TypeOK, PluginType, QueueType, DelayType, ObjectType, GhostType, Object

\* The object an intent is delivered to is the last one.
LEMMA HereIs ==
  ASSUME ObjectType
  PROVE  /\ Here \in Seq(Object) /\ Here # <<>> /\ Len(Here) >= Len(objects)
<1>1. [stopped |-> FALSE, session |-> 0] \in Object
  BY DEF Object
<1>2. /\ Append(objects, [stopped |-> FALSE, session |-> 0]) \in Seq(Object)
      /\ Append(objects, [stopped |-> FALSE, session |-> 0]) # <<>>
      /\ Len(Append(objects, [stopped |-> FALSE, session |-> 0]))
           = Len(objects) + 1
  BY <1>1, AppendProperties DEF ObjectType
<1>3. Len(objects) \in Nat
  BY LenProperties DEF ObjectType
<1> QED
  BY <1>2, <1>3 DEF ObjectType, Here

\* What a change of the last object does to the list.
LEMMA LastChanged ==
  ASSUME NEW list \in Seq(Object), list # <<>>, NEW object \in Object
  PROVE  LET new == [list EXCEPT ![Len(list)] = object] IN
         /\ new \in Seq(Object) /\ new # <<>>
         /\ Len(new) = Len(list) /\ Last(new) = object
<1> DEFINE new == [list EXCEPT ![Len(list)] = object]
<1>1. Len(list) \in 1..Len(list)
  BY EmptySeq, LenProperties
<1>2. new \in Seq(Object) /\ Len(new) = Len(list) /\ new[Len(list)] = object
  BY <1>1, ExceptSeq
<1> QED
  BY <1>1, <1>2 DEF Last

LEMMA MarkedIs ==
  ASSUME NEW list \in Seq(Object), list # <<>>, NEW stopped \in BOOLEAN
  PROVE  /\ Marked(list, stopped) \in Seq(Object) /\ Marked(list, stopped) # <<>>
         /\ Len(Marked(list, stopped)) = Len(list)
         /\ Last(Marked(list, stopped)).stopped = stopped
<1> DEFINE object == [list[Len(list)] EXCEPT !.stopped = stopped]
<1>1. list[Len(list)] \in Object
  BY EmptySeq, LenProperties, ElementOfSeq
<1>2. object \in Object /\ object.stopped = stopped
  BY <1>1 DEF Object
<1>3. Marked(list, stopped) = [list EXCEPT ![Len(list)] = object]
  BY DEF Marked
<1> HIDE DEF object
<1> QED
  BY <1>2, <1>3, LastChanged

\* A queue the service has asked in to be destroyed.
LEMMA StopSelfIs ==
  ASSUME NEW queue \in Seq(Orders), StopSelf(queue)
  PROVE  intents' \in Seq(Orders)
<1>1. DestroyIntent \in Orders
  BY DEF DestroyIntent, Intent, Orders
<1> QED
  BY <1>1 DEF StopSelf

\* More objects, more cores there may be.
LEMMA CoreGrows ==
  ASSUME objects \in Seq(Object), objects' \in Seq(Object),
         Len(objects') >= Len(objects)
  PROVE  Core \subseteq Core'
<1>1. Len(objects) \in Nat /\ Len(objects') \in Nat
  BY LenProperties
<1>2. 1..Len(objects) \subseteq 1..Len(objects')
  BY <1>1
<1> QED
  BY <1>2 DEF Core, Configs

\* Descriptors are opened, closed and replaced one at a time.
LEMMA DeviceKept ==
  ASSUME IInv, CloseTun \/ OpenTun \/ UNCHANGED deviceVars
  PROVE  /\ DeviceInv' /\ open' \in Nat /\ overwritten' \in Nat /\ tun' \in BOOLEAN
         /\ ~tun' => open' = overwritten'
<1>1. DeviceInv /\ open \in Nat /\ overwritten \in Nat /\ tun \in BOOLEAN
  BY TypeParts DEF IInv, NothingLeft, ObjectType
<1>2. CASE CloseTun
  <2>1. tun' = FALSE /\ open' = overwritten /\ overwritten' = overwritten
    BY <1>1, <1>2 DEF CloseTun, DeviceInv
  <2>2. DeviceInv'
    BY <1>1, <2>1 DEF DeviceInv
  <2> QED
    BY <1>1, <2>1, <2>2
<1>3. CASE OpenTun
  BY <1>1, <1>3 DEF OpenTun, DeviceInv
<1>4. CASE UNCHANGED deviceVars
  BY <1>1, <1>4 DEF deviceVars, DeviceInv
<1> QED
  BY <1>2, <1>3, <1>4

\* After stopVpn ...
LEMMA StopKeeps ==
  ASSUME IInv, NEW queue \in Seq(Orders), NEW messages \in Seq(Messages),
         StopVpn(queue, messages),
         UNCHANGED <<pluginVars, shown, bounds, ghosts>>
  PROVE  IInv'
<1>0. TypeOK /\ CoreInv
  BY DEF IInv, NothingLeft
<1>1. PluginType' /\ GhostType'
  BY <1>0, TypeParts DEF PluginType, GhostType, pluginVars, bounds, ghosts
<1>2. intents' \in Seq(Orders)
  BY StopSelfIs DEF StopVpn
<1>3. posts' \in Seq(Messages)
  <2>1. Told("off") \in Messages
    BY DEF Told, Messages
  <2> QED
    BY <2>1 DEF StopVpn, TellOff
<1>4. DelayType'
  BY <1>0, TypeParts DEF DelayType, StopVpn
<1>5. /\ objects' \in Seq(Object) /\ objects' # <<>> 
      /\ Len(objects') >= Len(objects) /\ Last(objects').stopped = TRUE
  BY <1>0, TypeParts, HereIs, MarkedIs DEF StopVpn
<1>6. Core \subseteq Core'
  BY <1>0, <1>5, TypeParts, CoreGrows DEF ObjectType
<1>7. ObjectType' /\ DeviceInv'
  <2>1. DeviceInv' /\ open' \in Nat /\ overwritten' \in Nat /\ tun' \in BOOLEAN
    BY DeviceKept DEF StopVpn, CloseCore
  <2> QED
    BY <1>0, <1>5, <1>6, <2>1, TypeParts DEF ObjectType, StopVpn, CloseCore
<1>8. TypeOK'
  BY <1>1, <1>2, <1>3, <1>4, <1>7, TypeParts DEF QueueType, TypeOK, PluginType,
     DelayType, ObjectType, GhostType, Object
<1>9. ~tun' /\ ("doubled" \in races' \/ cores' = {}) /\ alive'
  BY <1>0 DEF CoreInv, StopVpn, CloseCore, CloseTun, ghosts
<1> QED
  BY <1>7, <1>8, <1>9 DEF IInv, NothingLeft, CoreInv, StoppedInv

\* ... and after startVpn, which changes the last object and leaves at most the
\* core it starts.
LEMMA StartKeeps ==
  ASSUME IInv, NEW list \in Seq(Object), list # <<>>, Len(list) >= Len(objects),
         NEW config \in Configs, NEW n \in 0..TakeoverRetries,
         NEW queue \in Seq(Orders), NEW later \in {None, takeover},
         StartVpn(list, config, n, queue, later), restart' \in {None, restart},
         UNCHANGED <<pluginVars, shown, bounds, wanted>>
  PROVE  IInv'
<1> DEFINE object == Len(list)
           session == list[object].session + 1
           core == [object |-> object, session |-> session, config |-> config]
           changed == [stopped |-> FALSE, session |-> session]
<1>0. TypeOK /\ CoreInv
  BY DEF IInv, NothingLeft
<1>1. object \in Nat /\ object \in 1..object /\ session \in Nat
  <2>1. object \in Nat /\ object # 0
    BY EmptySeq, LenProperties
  <2>2. list[object] \in Object
    BY <2>1, ElementOfSeq
  <2> QED
    BY <2>1, <2>2 DEF Object
<1>2. changed \in Object /\ changed.stopped = FALSE
  BY <1>1 DEF Object
<1>3. /\ objects' = [list EXCEPT ![object] = changed] /\ alive' = TRUE
      /\ races' = races \cup Note("doubled", controller \in cores)
                        \cup Note("revived", Doomed)
                        \cup Note("stale", later # None \/ restart' # None)
  BY DEF StartVpn
<1> HIDE DEF changed
<1>4. /\ objects' \in Seq(Object) /\ objects' # <<>> /\ Len(objects') = object
      /\ Last(objects') = changed
  BY <1>2, <1>3, LastChanged
<1>5. Core \subseteq Core'
  BY <1>0, <1>4, TypeParts, CoreGrows DEF ObjectType
<1>6. core \in Core'
  BY <1>1, <1>4 DEF Core, Configs
<1>7. races \subseteq races' /\ races' \subseteq Races
  BY <1>0, <1>3, TypeParts DEF GhostType, Note, Races
<1>8. "doubled" \in races' \/ cores = {}
  BY <1>0, <1>3 DEF CoreInv, Note
<1>9. \/ /\ cores' = cores /\ controller' = controller
      \/ /\ cores' = cores \cup {core} /\ controller' = core
  BY DEF StartVpn
<1>20. DeviceInv' /\ open' \in Nat /\ overwritten' \in Nat /\ tun' \in BOOLEAN
  <2>1. OpenTun \/ UNCHANGED deviceVars
    BY DEF StartVpn, deviceVars
  <2> QED
    BY <2>1, DeviceKept
<1>10. running' \in BOOLEAN /\ failed' \in BOOLEAN
  BY <1>0, TypeParts DEF StartVpn, NotifyError, ObjectType, GhostType
<1>11. takeover' # None =>
         takeover' \in [config : Configs, attempt : 1..TakeoverRetries]
  <2>1. \/ takeover' = later
        \/ /\ n < TakeoverRetries
           /\ takeover' = [config |-> config, attempt |-> n + 1]
    BY DEF StartVpn, MayTakeOver
  <2>2. CASE takeover' = later
    BY <1>0, <2>2, TypeParts DEF DelayType
  <2>3. CASE /\ n < TakeoverRetries
             /\ takeover' = [config |-> config, attempt |-> n + 1]
    BY <2>3, AndroidAssumption DEF AndroidAssumption
  <2> QED
    BY <2>1, <2>2, <2>3
<1>12. intents' \in Seq(Orders)
  BY StopSelfIs DEF StartVpn, NotifyError
<1>13. posts' \in Seq(Messages)
  <2>1. Told("error") \in Messages /\ Told("connected") \in Messages
    BY DEF Told, Messages
  <2>2. posts' \in {posts, Append(posts, Told("error")),
                    Append(posts, Told("connected"))}
    BY DEF StartVpn, NotifyError
  <2>3. posts \in Seq(Messages)
    BY <1>0, TypeParts DEF QueueType
  <2>4. \A m \in Messages : Append(posts, m) \in Seq(Messages)
    BY <2>3, AppendProperties
  <2> QED
    BY <2>1, <2>2, <2>3, <2>4
<1> HIDE DEF core
<1>14. ObjectType'
  BY <1>0, <1>3, <1>4, <1>5, <1>6, <1>9, <1>10, <1>20, TypeParts DEF ObjectType
<1>15. PluginType' /\ GhostType'
  BY <1>0, <1>7, <1>10, TypeParts DEF PluginType, GhostType, pluginVars, bounds
<1>16. DelayType'
  BY <1>0, <1>11, TypeParts DEF DelayType
<1>17. TypeOK'
  BY <1>12, <1>13, <1>14, <1>15, <1>16 DEF QueueType, TypeOK, PluginType,
     DelayType, ObjectType, GhostType, Object
<1>18. CoreInv'
  BY <1>8, <1>9 DEF CoreInv
<1>19. StoppedInv'
  BY <1>2, <1>3, <1>4 DEF StoppedInv
<1> QED
  BY <1>3, <1>17, <1>18, <1>19, <1>20 DEF IInv, NothingLeft

\* The actions that leave the service alone need only keep their own types.
LEMMA ElsewhereKeeps ==
  ASSUME IInv, UNCHANGED serviceVars, races \subseteq races',
         PluginType', QueueType', GhostType'
  PROVE  IInv'
<1>0. TypeOK /\ CoreInv
  BY DEF IInv, NothingLeft
<1>1. Core' = Core
  BY DEF Core, serviceVars, Configs
<1>2. ObjectType' /\ DelayType'
  BY <1>0, <1>1, TypeParts DEF ObjectType, DelayType, serviceVars
<1>3. TypeOK'
  BY <1>2 DEF QueueType, TypeOK, PluginType,
     DelayType, ObjectType, GhostType, Object
<1> QED
  BY <1>3 DEF IInv, NothingLeft, CoreInv, DeviceInv, StoppedInv, serviceVars

\* An order to the service is one.
LEMMA OrderIs ==
  /\ \A action \in {"start", "restart"}, config \in Configs :
       Intent(action, config) \in Orders
  /\ Intent("stop", None) \in Orders
BY DEF Intent, Orders

\* The user and the app.
LEMMA UserKeeps ==
  ASSUME IInv, User \/ App
  PROVE  IInv'
<1>0. TypeOK
  BY DEF IInv, NothingLeft
<1>1. PluginType /\ QueueType /\ GhostType
  BY <1>0, TypeParts
<1>2. \A race \in Races, when \in BOOLEAN :
        races \cup Note(race, when) \subseteq Races
  BY <1>1 DEF GhostType, Note
<1>3. ASSUME NEW config \in Configs \cup {None}, Wish(config)
      PROVE  /\ wishes' = wishes + 1 /\ wishes' \in 0..MaxWishes
             /\ wanted' \in Configs \cup {None} /\ failed' \in BOOLEAN
             /\ wishes + 1 \in Configs
  <2>1. MaxWishes \in Nat /\ wishes \in 0..MaxWishes
    BY <1>1, AndroidAssumption DEF AndroidAssumption, GhostType
  <2>2. wishes < MaxWishes /\ wishes' = wishes + 1
    BY <1>3 DEF Wish
  <2>3. wanted' = config /\ failed' = FALSE
    BY <1>3 DEF Wish
  <2>4. wishes' \in 0..MaxWishes /\ wishes + 1 \in Configs
    BY <2>1, <2>2 DEF Configs
  <2>5. wanted' \in Configs \cup {None} /\ failed' \in BOOLEAN
    BY <2>3
  <2> QED
    BY <2>2, <2>4, <2>5
<1>4. wishes \in Nat /\ 0 \in 0..Off /\ Off \in 0..Off
  BY <1>1, AndroidAssumption DEF AndroidAssumption, GhostType, Off
<1>5. ASSUME NEW action \in {"start", "restart"}, Request(action) PROVE IInv'
  <2>0. wishes + 1 \in Configs /\ wishes' = wishes + 1 /\ wishes \in Nat
    <3>1. wishes' = wishes + 1 /\ wishes < MaxWishes /\ MaxWishes \in Nat
      BY <1>5, AndroidAssumption DEF AndroidAssumption, Request, Wish
    <3> QED
      BY <1>4, <3>1 DEF Configs
  <2>1. Intent(action, wishes + 1) \in [action : {"start", "restart"}, config : Configs]
    BY <2>0 DEF Intent
  <2>2. PluginType'
    <3>1. payloads' \in Seq([action : {"start", "restart"}, config : Configs])
      BY <1>1, <1>5, <2>1, AppendProperties DEF PluginType, Request
    <3>2. /\ stored' \in Configs /\ UNCHANGED <<permitted, pending, poll, dialogs>>
          /\ dialogs \in Nat
      BY <1>1, <1>5, <2>0 DEF PluginType, Request
    <3>3. Configs' = Configs
      BY DEF Configs
    <3> QED
      BY <1>1, <3>1, <3>2, <3>3 DEF PluginType
  <2>3. QueueType'
    BY <1>1, <1>5 DEF QueueType, Request
  <2>4. GhostType' /\ races \subseteq races'
    BY <1>1, <1>3, <1>5, <2>0 DEF GhostType, Request, Met, Note, Races
  <2> QED
    BY <1>5, <2>2, <2>3, <2>4, ElsewhereKeeps DEF Request
<1>6. CASE Connect \/ Reconnect
  BY <1>5, <1>6 DEF Connect, Reconnect
<1>7. ASSUME Stopping, shown' \in {"off", shown} PROVE IInv'
  <2>1. PluginType'
    BY <1>1, <1>3, <1>4, <1>7 DEF PluginType, Stopping, pluginVars
  <2>2. QueueType'
    BY <1>1, <1>7, OrderIs DEF QueueType, Stopping
  <2>3. GhostType' /\ races \subseteq races'
    BY <1>1, <1>3, <1>7 DEF GhostType, Stopping, Met, Note, Races
  <2> QED
    BY <1>7, <2>1, <2>2, <2>3, ElsewhereKeeps DEF Stopping
<1>8. CASE TileStarts
  <2>1. stored \in Configs
    BY <1>1 DEF PluginType
  <2>2. PluginType'
    BY <1>1, <1>3, <1>4, <1>8, <2>1 DEF PluginType, TileStarts, pluginVars
  <2>3. QueueType'
    BY <1>1, <1>8, <2>1, OrderIs DEF QueueType, TileStarts
  <2>4. GhostType' /\ races \subseteq races'
    BY <1>1, <1>3, <1>8, <2>1 DEF GhostType, TileStarts, Met, Note, Races
  <2> QED
    BY <1>8, <2>2, <2>3, <2>4, ElsewhereKeeps DEF TileStarts
<1>9. ASSUME NEW ok \in BOOLEAN, Answer(ok) PROVE IInv'
  <2>1. Granted(ok) \in Messages
    BY DEF Granted, Messages
  <2>2. PluginType'
    BY <1>1, <1>4, <1>9 DEF PluginType, Answer, bounds
  <2>3. QueueType'
    BY <1>1, <1>9, <2>1 DEF QueueType, Answer
  <2>4. GhostType' /\ races \subseteq races'
    BY <1>1, <1>9 DEF GhostType, Answer, bounds, ghosts
  <2> QED
    BY <1>9, <2>2, <2>3, <2>4, ElsewhereKeeps DEF Answer
<1>10. CASE SeesRunning \/ GivesUp \/ SeesStopped
  <2>1. PluginType' /\ QueueType' /\ GhostType' /\ races' = races
    BY <1>1, <1>10 DEF SeesRunning, GivesUp, SeesStopped, PluginType,
       QueueType, GhostType, pluginVars, bounds, ghosts
  <2> QED
    BY <1>10, <2>1, ElsewhereKeeps DEF SeesRunning, GivesUp, SeesStopped
<1>11. ASSUME payloads # <<>>
       PROVE  /\ Tail(payloads) \in Seq([action : {"start", "restart"}, config : Configs])
              /\ Head(payloads) \in [action : {"start", "restart"}, config : Configs]
              /\ Intent(Head(payloads).action, Head(payloads).config) \in Orders
  <2>1. /\ Tail(payloads) \in Seq([action : {"start", "restart"}, config : Configs])
        /\ Head(payloads) \in [action : {"start", "restart"}, config : Configs]
    BY <1>1, <1>11, HeadTailProperties DEF PluginType
  <2> QED
    BY <2>1, OrderIs
<1>12. CASE Payload
  <2>1. QueueType'
    <3>1. /\ payloads # <<>> /\ posts' = posts
          /\ \/ intents' = intents
             \/ intents' = Append(intents,
                                  Intent(Head(payloads).action, Head(payloads).config))
      BY <1>12 DEF Payload, Send
    <3>2. \A o \in Orders : Append(intents, o) \in Seq(Orders)
      BY <1>1, AppendProperties DEF QueueType
    <3>3. intents' \in Seq(Orders)
      BY <1>1, <1>11, <3>1, <3>2 DEF QueueType
    <3> QED
      BY <1>1, <3>1, <3>3 DEF QueueType
  <2>2. GhostType' /\ races' = races /\ UNCHANGED <<wishes, serviceVars>>
    BY <1>1, <1>12 DEF GhostType, Payload, bounds, ghosts
  <2>3. /\ payloads # <<>> /\ payloads' = Tail(payloads) /\ permitted' = permitted
        /\ stored' = Head(payloads).config /\ pending' \in {pending, Head(payloads)}
        /\ poll' \in {0, Off} /\ dialogs' \in {dialogs, dialogs + 1}
    BY <1>12 DEF Payload, Send
  <2>4. poll' \in 0..Off /\ dialogs' \in Nat
    BY <1>1, <1>4, <2>3 DEF PluginType
  <2>5. PluginType'
    BY <1>1, <1>11, <2>3, <2>4 DEF PluginType, Configs, Off
  <2> QED
    BY <2>1, <2>2, <2>5, ElsewhereKeeps
<1>13. CASE Unsent
  <2>1. QueueType' /\ UNCHANGED serviceVars
    BY <1>1, <1>13 DEF QueueType, Unsent
  <2>2. GhostType' /\ races \subseteq races'
    BY <1>1, <1>13 DEF GhostType, Unsent, bounds, Met, Note, Races
  <2>3. PluginType'
    BY <1>1, <1>11, <1>13 DEF PluginType, Unsent, Configs, Off
  <2> QED
    BY <2>1, <2>2, <2>3, ElsewhereKeeps
<1> QED
  BY <1>6, <1>7, <1>8, <1>9, <1>10, <1>12, <1>13 DEF User, App, Disconnect, TileStops

\* The permission.

LEMMA PermissionKeeps ==
  ASSUME IInv, PermissionPoll \/ ActivityResult
  PROVE  IInv'
<1>0. TypeOK
  BY DEF IInv, NothingLeft
<1>1. PluginType /\ QueueType /\ GhostType
  BY <1>0, TypeParts
<1>2. poll \in 0..Off /\ 0 \in 0..Off /\ Off \in 0..Off
      /\ (poll # Off /\ poll < PollLimit => poll + 1 \in 0..Off)
  BY <1>1, AndroidAssumption DEF AndroidAssumption, PluginType, Off
<1>3. pending # None => Intent(pending.action, pending.config) \in Orders
  BY <1>1 DEF PluginType, Intent, Orders
<1>4. Told("error") \in Messages
  BY DEF Told, Messages
<1>5. /\ \A m \in Messages : Append(posts, m) \in Seq(Messages)
      /\ \A i \in Orders : Append(intents, i) \in Seq(Orders)
      /\ posts # <<>> =>
           /\ Tail(posts) \in Seq(Messages)
           /\ \A m \in Messages : Append(Tail(posts), m) \in Seq(Messages)
  <2>1. posts # <<>> => Tail(posts) \in Seq(Messages)
    BY <1>1, HeadTailProperties DEF QueueType
  <2> QED
    BY <1>1, <2>1, AppendProperties DEF QueueType
<1>6. GhostType' /\ races' = races
  <2>1. failed' \in BOOLEAN
    BY <1>1 DEF GhostType, PermissionPoll, ActivityResult
  <2> QED
    BY <1>1, <2>1 DEF GhostType, PermissionPoll, ActivityResult, bounds
<1>7. UNCHANGED <<permitted, stored, dialogs, wishes, serviceVars>>
  BY DEF PermissionPoll, ActivityResult, bounds
<1>8. pending' \in {None, pending} /\ poll' \in 0..Off
  BY <1>2 DEF PermissionPoll, ActivityResult, Send
<1>9. intents' \in Seq(Orders)
  BY <1>1, <1>3, <1>5 DEF PermissionPoll, ActivityResult, Send, QueueType
<1>10. posts' \in Seq(Messages)
  BY <1>1, <1>4, <1>5 DEF PermissionPoll, SayTimeout, ActivityResult, QueueType
<1>11. PluginType'
  <2>1. permitted' \in BOOLEAN /\ stored' \in Configs /\ dialogs' \in Nat
        /\ payloads' = payloads
    BY <1>1 DEF PermissionPoll, ActivityResult, PluginType
  <2> QED
    BY <1>1, <1>8, <2>1 DEF PluginType, Configs, Off
<1> QED
  BY <1>6, <1>7, <1>9, <1>10, <1>11, ElsewhereKeeps DEF QueueType

\* What is left of a queue is a queue, and the order at its head is one.
LEMMA HeadIs ==
  ASSUME TypeOK, intents # <<>>
  PROVE  /\ Tail(intents) \in Seq(Orders) /\ Head(intents) \in Orders
         /\ Head(intents).action \in {"start", "restart"} => Config \in Configs
<1>1. Tail(intents) \in Seq(Orders) /\ Head(intents) \in Orders
  BY HeadTailProperties DEF TypeOK
<1>2. \A order \in Orders :
        order.action \in {"start", "restart"} => order.config \in Configs
  BY DEF Orders
<1> QED
  BY <1>1, <1>2 DEF Config

\* So with the posted messages.
LEMMA PostIs ==
  ASSUME TypeOK, posts # <<>>
  PROVE  /\ Tail(posts) \in Seq(Messages)
         /\ Head(posts).kind = "told" =>
              Head(posts).what \in {"off", "connected", "error"}
<1>1. Tail(posts) \in Seq(Messages) /\ Head(posts) \in Messages
  BY HeadTailProperties DEF TypeOK
<1>2. \A m \in Messages : m.kind = "told" =>
        m.what \in {"off", "connected", "error"}
  BY DEF Messages
<1> QED
  BY <1>1, <1>2

\* onStartCommand and the two delayed starts.
LEMMA IntentsKeep ==
  ASSUME IInv, StartIntent \/ StopIntent \/ RestartFires \/ TakeoverFires
  PROVE  IInv'
<1>0. TypeOK /\ NothingLeft
  BY DEF IInv, NothingLeft
<1>1. TakeoverRetries \in Nat /\ 0 \in 0..TakeoverRetries
  BY AndroidAssumption DEF AndroidAssumption
<1>2. Here \in Seq(Object) /\ Here # <<>> /\ Len(Here) >= Len(objects)
  BY <1>0, TypeParts, HereIs
<1>3. CASE StartIntent
  <2>1. Config \in Configs /\ Tail(intents) \in Seq(Orders)
    BY <1>0, <1>3, HeadIs DEF StartIntent, Delivered
  <2> QED
    BY <1>1, <1>2, <1>3, <2>1, StartKeeps DEF StartIntent
<1>4. CASE StopIntent
  <2>1. Tail(intents) \in Seq(Orders) /\ posts \in Seq(Messages)
    BY <1>0, <1>4, HeadIs DEF StopIntent, Delivered, TypeOK
  <2> QED
    BY <1>4, <2>1, StopKeeps DEF StopIntent
<1>5. ASSUME alive
      PROVE  /\ objects \in Seq(Object) /\ objects # <<>>
             /\ Len(objects) >= Len(objects)
  BY <1>0, <1>5, TypeParts, LenProperties DEF ObjectType
<1>6. CASE RestartFires
  <2>1. restart \in Configs /\ alive /\ intents \in Seq(Orders)
    BY <1>0, <1>6, TypeParts DEF RestartFires, NothingLeft, DelayType, QueueType
  <2> QED
    BY <1>1, <1>5, <1>6, <2>1, StartKeeps DEF RestartFires
<1>7. CASE TakeoverFires
  <2>1. alive /\ takeover.config \in Configs /\ intents \in Seq(Orders)
    BY <1>0, <1>7, TypeParts DEF TakeoverFires, NothingLeft, DelayType, QueueType
  <2>2. takeover.attempt \in 0..TakeoverRetries
    BY <1>0, <1>1, <1>7, TypeParts DEF TakeoverFires, DelayType
  <2> QED
    BY <1>5, <1>7, <2>1, <2>2, StartKeeps DEF TakeoverFires
<1> QED
  BY <1>3, <1>4, <1>6, <1>7

\* restartVpn closes what the last object has, and wants it to live.
LEMMA RestartKeeps ==
  ASSUME IInv, RestartIntent
  PROVE  IInv'
<1>0. TypeOK /\ CoreInv
  BY DEF IInv, NothingLeft
<1>1. PluginType /\ QueueType /\ DelayType /\ ObjectType /\ GhostType
  BY <1>0, TypeParts
<1>2. Config \in Configs /\ Tail(intents) \in Seq(Orders)
  BY <1>0, HeadIs DEF RestartIntent, Delivered
<1>3. /\ objects' \in Seq(Object) /\ objects' # <<>> 
      /\ Len(objects') >= Len(objects) /\ Last(objects').stopped = FALSE
  BY <1>1, HereIs, MarkedIs DEF RestartIntent
<1>4. Core \subseteq Core'
  BY <1>1, <1>3, CoreGrows DEF ObjectType
<1>5. alive' = TRUE /\ tun' = FALSE /\ running' = FALSE /\ takeover' = None
  BY DEF RestartIntent, CloseCore, CloseTun
<1>6. cores' \subseteq cores /\ controller' = None
  BY DEF RestartIntent, CloseCore
<1>13. DeviceInv' /\ open' \in Nat /\ overwritten' \in Nat
  BY DeviceKept DEF RestartIntent, CloseCore
<1>7. ObjectType'
  BY <1>1, <1>3, <1>4, <1>5, <1>6, <1>13 DEF ObjectType
<1>8. races \subseteq races' /\ races' \subseteq Races
  BY <1>1 DEF RestartIntent, GhostType, Note, Races
<1>9. PluginType' /\ GhostType'
  BY <1>1, <1>8 DEF PluginType, GhostType, RestartIntent, pluginVars, bounds
<1>10. QueueType' /\ DelayType'
  BY <1>1, <1>2, <1>5 DEF QueueType, DelayType, RestartIntent
<1>11. TypeOK'
  BY <1>7, <1>9, <1>10 DEF QueueType, TypeOK, PluginType, DelayType,
     ObjectType, GhostType, Object
<1>12. CoreInv'
  BY <1>0, <1>8 DEF CoreInv, RestartIntent, CloseCore
<1> QED
  BY <1>3, <1>5, <1>11, <1>12, <1>13 DEF IInv, NothingLeft, StoppedInv

\* onDestroy: an object that was stopped has nothing left to close.
LEMMA DestroyKeeps ==
  ASSUME IInv, Destroy
  PROVE  IInv'
<1>0. TypeOK /\ NothingLeft /\ CoreInv /\ StoppedInv
  BY DEF IInv, NothingLeft
<1>1. PluginType /\ QueueType /\ DelayType /\ ObjectType /\ GhostType
  BY <1>0, TypeParts
<1>2. Tail(intents) \in Seq(Orders)
  BY <1>0, HeadIs DEF Destroy, Delivered
<1>3. posts' \in Seq(Messages)
  <2>1. controller \in cores => Ended(controller) \in Messages
    <3> SUFFICES ASSUME controller \in cores PROVE Ended(controller) \in Messages
      OBVIOUS
    <3>1. controller \in Core
      BY <1>1 DEF ObjectType
    <3>2. controller.object \in Nat /\ controller.session \in Nat
      BY <1>1, <3>1, LenProperties DEF Core, ObjectType
    <3> QED
      BY <3>2 DEF Ended, Messages
  <2> QED
    BY <1>1, <2>1, AppendProperties DEF Destroy, QueueType
<1>4. /\ alive' = FALSE /\ running' = FALSE /\ restart' = None /\ takeover' = None
      /\ UNCHANGED <<objects, races>>
  BY DEF Destroy, ghosts
<1>5. Core' = Core
  BY <1>4 DEF Core, Configs
<1>6. ~tun' /\ ("doubled" \in races' \/ cores' = {})
  BY <1>0, <1>4 DEF Destroy, CloseUnlessStopped, CloseCore, CloseTun, deviceVars,
     CoreInv, StoppedInv, NothingLeft
<1>12. /\ DeviceInv' /\ tun' \in BOOLEAN /\ open' \in Nat /\ overwritten' \in Nat
       /\ open' = overwritten'
  <2>1. CloseTun \/ UNCHANGED deviceVars
    BY DEF Destroy, CloseUnlessStopped, CloseCore, deviceVars
  <2> QED
    BY <1>6, <2>1, DeviceKept
<1>7. /\ cores' \subseteq cores /\ controller' \in {None, controller}
  BY DEF Destroy, CloseUnlessStopped, CloseCore
<1>8. ObjectType'
  BY <1>1, <1>4, <1>5, <1>6, <1>7, <1>12 DEF ObjectType
<1>9. PluginType' /\ GhostType'
  BY <1>1 DEF PluginType, GhostType, Destroy, pluginVars, bounds, ghosts
<1>10. QueueType' /\ DelayType'
  BY <1>1, <1>2, <1>3, <1>4 DEF QueueType, DelayType, Destroy
<1>11. TypeOK'
  BY <1>8, <1>9, <1>10 DEF QueueType, TypeOK, PluginType, DelayType,
     ObjectType, GhostType, Object
<1> QED
  BY <1>4, <1>6, <1>11, <1>12 DEF IInv, NothingLeft, CoreInv, StoppedInv

\* A core that ends by itself, and a VPN that is taken away.
LEMMA FaultsKeep ==
  ASSUME IInv, Faults
  PROVE  IInv'
<1>0. TypeOK /\ NothingLeft /\ CoreInv /\ StoppedInv
  BY DEF IInv, NothingLeft
<1>1. PluginType /\ QueueType /\ DelayType /\ ObjectType /\ GhostType
  BY <1>0, TypeParts
<1>2. faults + 1 \in 0..MaxFaults
  <2>1. MaxFaults \in Nat /\ faults \in 0..MaxFaults /\ faults < MaxFaults
    BY <1>1, AndroidAssumption DEF AndroidAssumption, Faults, CoreEnds, Revoke,
       GhostType
  <2> QED
    BY <2>1
<1>3. CASE CoreEnds
  <2>1. PICK core \in cores :
          /\ cores' = cores \ {core}
          /\ posts' = IF Concerned(core.object, core.session)
                      THEN Append(posts, Ended(core)) ELSE posts
    BY <1>3 DEF CoreEnds
  <2>2. Ended(core) \in Messages
    <3>1. core \in Core
      BY <1>1 DEF ObjectType
    <3>2. core.object \in Nat /\ core.session \in Nat
      BY <1>1, <3>1, LenProperties DEF Core, ObjectType
    <3> QED
      BY <3>2 DEF Ended, Messages
  <2>3. posts' \in Seq(Messages)
    BY <1>1, <2>1, <2>2, AppendProperties DEF QueueType
  <2>4. UNCHANGED <<pluginVars, intents, alive, objects, controller, restart, takeover,
                    tun, open, overwritten, running, shown, wishes, wanted, races>>
        /\ failed' = TRUE /\ faults' = faults + 1
    BY <1>3 DEF CoreEnds, deviceVars
  <2>5. Core' = Core
    BY <2>4 DEF Core, Configs
  <2>6. ObjectType'
    BY <1>1, <2>1, <2>4, <2>5 DEF ObjectType
  <2>7. PluginType' /\ GhostType'
    BY <1>1, <1>2, <2>4 DEF PluginType, GhostType, pluginVars
  <2>8. QueueType' /\ DelayType'
    BY <1>1, <2>3, <2>4 DEF QueueType, DelayType
  <2>9. TypeOK'
    BY <2>6, <2>7, <2>8 DEF QueueType, TypeOK, PluginType, DelayType,
       ObjectType, GhostType, Object
  <2> QED
    BY <1>0, <2>1, <2>4, <2>9 DEF IInv, NothingLeft, CoreInv, DeviceInv, StoppedInv
<1>4. CASE Revoke
  <2>1. QueueType'
    BY <1>1, <1>4, StopSelfIs DEF QueueType, Revoke
  <2>2. PluginType'
    BY <1>1, <1>4 DEF PluginType, Revoke
  <2>3. GhostType' /\ races \subseteq races'
    BY <1>1, <1>2, <1>4 DEF GhostType, Revoke, Met, Note, Races
  <2> QED
    BY <1>4, <2>1, <2>2, <2>3, ElsewhereKeeps DEF Revoke
<1> QED
  BY <1>3, <1>4 DEF Faults

\* What the app posted to itself.
LEMMA ShutdownKeeps ==
  ASSUME IInv, ShutdownPosted
  PROVE  IInv'
<1>0. TypeOK /\ NothingLeft /\ CoreInv /\ StoppedInv
  BY DEF IInv, NothingLeft
<1>1. PluginType /\ QueueType /\ DelayType /\ ObjectType /\ GhostType
  BY <1>0, TypeParts
<1>2. Tail(posts) \in Seq(Messages)
  BY <1>0, PostIs DEF ShutdownPosted
<1> DEFINE object == Head(posts).object
<1>3. CASE ~Concerned(object, Head(posts).session)
  <2>1. /\ QueueType' /\ PluginType' /\ GhostType'
        /\ UNCHANGED <<serviceVars, races>>
    BY <1>1, <1>2, <1>3 DEF ShutdownPosted, QueueType, PluginType, GhostType,
       pluginVars, bounds
  <2> QED
    BY <2>1, ElsewhereKeeps
<1>4. CASE /\ Concerned(object, Head(posts).session)
           /\ alive /\ object = Len(objects)
  <2>1. /\ StopVpn(intents, Tail(posts))
        /\ UNCHANGED <<pluginVars, shown, bounds, ghosts>>
    BY <1>4 DEF ShutdownPosted, ghosts
  <2> QED
    BY <1>1, <1>2, <2>1, StopKeeps DEF QueueType
<1>5. CASE /\ Concerned(object, Head(posts).session)
           /\ ~(alive /\ object = Len(objects))
  <2>1. /\ objects' = [objects EXCEPT ![object].stopped = TRUE]
        /\ running' = FALSE /\ posts' = Append(Tail(posts), Told("off"))
        /\ races' = races \cup {"haunted"}
        /\ UNCHANGED <<intents, alive, controller, tun, open, overwritten, restart,
                       takeover, cores>>
        /\ UNCHANGED <<pluginVars, shown, bounds, wanted, failed>>
    BY <1>5 DEF ShutdownPosted, TellOff, Met, Note, deviceVars
  <2>2. /\ objects' \in Seq(Object) /\ Len(objects') = Len(objects)
        /\ \A i \in 1..Len(objects) : i # object => objects'[i] = objects[i]
    <3>1. \A i \in 1..Len(objects) : [objects[i] EXCEPT !.stopped = TRUE] \in Object
      <4>1. \A o \in Object : [o EXCEPT !.stopped = TRUE] \in Object
        BY DEF Object
      <4> QED
        BY <1>1, <4>1, ElementOfSeq DEF ObjectType
    <3>2. DOMAIN objects = 1..Len(objects)
      BY <1>1, LenProperties DEF ObjectType
    <3>3. objects' = [i \in 1..Len(objects) |->
                        IF i = object THEN [objects[i] EXCEPT !.stopped = TRUE]
                        ELSE objects[i]]
      BY <2>1, <3>2
    <3>4. /\ Len(objects) \in Nat
          /\ \A i \in 1..Len(objects) : objects[i] \in Object
      BY <1>1, LenProperties, ElementOfSeq DEF ObjectType
    <3> QED
      BY <3>1, <3>3, <3>4, SeqDef
  <2>3. (alive' => objects' # <<>>)
    BY <1>1, <2>1, <2>2, EmptySeq, LenProperties DEF ObjectType
  <2>4. Core' = Core
    BY <2>2 DEF Core, Configs
  <2>5. ObjectType'
    BY <1>1, <2>1, <2>2, <2>3, <2>4 DEF ObjectType
  <2>6. posts' \in Seq(Messages)
    <3>1. Told("off") \in Messages
      BY DEF Told, Messages
    <3> QED
      BY <1>2, <2>1, <3>1, AppendProperties
  <2>7. PluginType' /\ GhostType'
    BY <1>1, <2>1 DEF PluginType, GhostType, pluginVars, bounds, Races
  <2>8. QueueType' /\ DelayType'
    BY <1>1, <2>1, <2>6 DEF QueueType, DelayType
  <2>9. TypeOK'
    BY <2>5, <2>7, <2>8 DEF QueueType, TypeOK, PluginType, DelayType,
       ObjectType, GhostType, Object
  <2>10. alive => Last(objects') = Last(objects)
    <3> SUFFICES ASSUME alive
                 PROVE  objects'[Len(objects')] = objects[Len(objects)]
      BY DEF Last
    <3>1. Len(objects) \in 1..Len(objects)
      BY <1>1, EmptySeq, LenProperties DEF ObjectType
    <3> QED
      BY <1>5, <2>2, <3>1
  <2> QED
    BY <1>0, <2>1, <2>9, <2>10 DEF IInv, NothingLeft, CoreInv, DeviceInv, StoppedInv
<1> QED
  BY <1>3, <1>4, <1>5

\* The user is shown what was posted.
LEMMA ToldKeeps ==
  ASSUME IInv, ToldPosted
  PROVE  IInv'
<1>1. TypeOK /\ PluginType /\ QueueType /\ GhostType
  BY TypeParts DEF IInv, NothingLeft
<1>2. QueueType' /\ PluginType' /\ GhostType' /\ UNCHANGED <<serviceVars, races>>
  BY <1>1, PostIs DEF ToldPosted, QueueType, PluginType, GhostType, pluginVars,
     bounds, ghosts
<1> QED
  BY <1>2, ElsewhereKeeps

\* The invariant holds at the start, ...
LEMMA InitInv ==
  Init => IInv
<1> SUFFICES ASSUME Init PROVE IInv
  OBVIOUS
<1>1. {TakeoverRetries, PollLimit, MaxWishes, MaxFaults} \subseteq Nat
  BY AndroidAssumption DEF AndroidAssumption
<1>2. PluginType /\ GhostType
  <2>1. /\ stored \in Configs /\ poll \in 0..Off /\ dialogs \in Nat
        /\ wishes \in 0..MaxWishes /\ faults \in 0..MaxFaults
    BY <1>1 DEF Init, Configs, Off
  <2>2. permitted \in BOOLEAN /\ failed \in BOOLEAN /\ races \subseteq Races
    BY DEF Init
  <2>3. wanted \in {None} /\ shown = "off" /\ pending = None
        /\ payloads \in Seq([action : {"start", "restart"}, config : Configs])
    BY EmptySeq DEF Init
  <2> QED
    BY <2>1, <2>2, <2>3 DEF PluginType, GhostType
<1>3. ObjectType /\ QueueType /\ DelayType
  BY EmptySeq DEF Init, ObjectType, QueueType, DelayType
<1>4. TypeOK
  BY <1>2, <1>3, TypeParts
<1> QED
  BY <1>4 DEF Init, IInv, NothingLeft, CoreInv, DeviceInv, StoppedInv

\* ... and every step keeps it.
LEMMA StepKeeps ==
  IInv /\ [Next]_vars => IInv'
<1> SUFFICES ASSUME IInv, [Next]_vars PROVE IInv'
  OBVIOUS
<1>1. CASE UNCHANGED vars
  <2>1. TypeOK /\ PluginType /\ QueueType /\ GhostType
    BY TypeParts DEF IInv, NothingLeft
  <2>2. UNCHANGED <<pluginVars, intents, posts, serviceVars, shown, bounds, ghosts>>
    BY <1>1 DEF vars
  <2>3. PluginType' /\ QueueType' /\ GhostType' /\ races' = races
    BY <2>1, <2>2 DEF PluginType, QueueType, GhostType, pluginVars, bounds, ghosts
  <2> QED
    BY <2>2, <2>3, ElsewhereKeeps
<1>2. CASE User \/ App
  BY <1>2, UserKeeps
<1>3. CASE MainThread
  BY <1>3, PermissionKeeps, IntentsKeep, RestartKeeps, DestroyKeeps, ShutdownKeeps,
     ToldKeeps DEF MainThread, Intents, Posts
<1>4. CASE Faults
  BY <1>4, FaultsKeep
<1> QED
  BY <1>1, <1>2, <1>3, <1>4 DEF Next

\* A service that is gone leaves nothing behind, in whatever order it was
\* started, stopped and restarted, permissions were revoked and cores ended
\* (stopVpn, restartVpn and onDestroy of XrayVpnService.kt): of the TUN devices
\* only those that startVpn replaced in vpnInterface are open still, and a core
\* runs only if a start found one running.
THEOREM GoneLeavesNothing == Spec => []NothingLeft
<1>1. IInv => NothingLeft
  BY DEF IInv
<1> QED
  BY InitInv, StepKeeps, <1>1, PTL DEF Spec

-----------------------------------------------------------------------------
(* What holds while no race was met.                                       *)

\* The last element of s that is in S is x.
LastOf(s, S, x) ==
  \E i \in DOMAIN s : /\ s[i] = x /\ x \in S
                      /\ \A j \in DOMAIN s : j > i => s[j] \notin S

\* The orders of the user, and whether one is still to be delivered.
Wishes == {order \in Orders : order.action # "destroy"}
Idle(queue) == ToSet(queue) \cap Wishes = {}

\* The user sees the VPN on once all the news is heard.
Tolds == {Told(what) : what \in {"off", "connected", "error"}}
ShownOn(messages, seen) ==
  \/ ToSet(messages) \cap Tolds = {} /\ seen = "connected"
  \/ LastOf(messages, Tolds, Told("connected"))
Up == ShownOn(posts, shown)

\* The end of the session that the service is in is still to be heard.
EndOf(object, session) == [kind |-> "shutdown", object |-> object, session |-> session]
Ending ==
  /\ objects # <<>> /\ ~Last(objects).stopped
  /\ EndOf(Len(objects), Last(objects).session) \in ToSet(posts)

\* A core that runs is that of the session the service is in; nothing else is due.
OwnCore == cores # {} =>
  /\ controller \in cores /\ running /\ alive /\ restart = None /\ takeover = None
  /\ controller.object = Len(objects) /\ controller.session = Last(objects).session
  /\ ~Last(objects).stopped

\* While a restart is due nothing runs, and nothing else is due.
Restarting == restart # None => cores = {} /\ takeover = None /\ ~running

\* A service that will be destroyed runs nothing, and has said so.
Dying == Doomed => cores = {} /\ takeover = None /\ ~running /\ ~Up

\* An object that was stopped on purpose will be destroyed.
Dead == alive /\ Last(objects).stopped => Doomed

\* One question for permission at a time; what runs is permitted.
Permission ==
  /\ dialogs \in {0, 1}
  /\ dialogs = 1 => ~permitted /\ \A p \in ToSet(posts) : p.kind # "result"
  /\ Granted(FALSE) \in ToSet(posts) => ~permitted
  /\ running => permitted

\* A request that is still to be sent is of the user's last wish, and nothing else
\* is asked for.
Unasked ==
  pending = None /\ dialogs = 0 /\ \A p \in ToSet(posts) : p.kind # "result"
Sole == payloads # <<>> =>
  Tail(payloads) = <<>> /\ Head(payloads).config = wanted /\ Unasked

\* No message is of a session to come; while the end of this one is still to be
\* heard nothing runs or is due.
Earlier == \A p \in ToSet(posts) : p.kind = "shutdown" =>
  \/ p.object < Len(objects)
  \/ p.object = Len(objects) /\ p.session <= Last(objects).session
EndingAlone == Ending => cores = {} /\ restart = None /\ takeover = None

\* isVpnRunning means a core, one whose end will be heard, or a start that is due.
Runs == running => cores # {} \/ takeover # None \/ Ending

\* The user sees what isVpnRunning says, or will.
ShownUp == running =>
  takeover # None \/ payloads # <<>> \/ ~Idle(intents) \/ Up \/ races # {}
ShownDown == ~running /\ restart = None /\ takeover = None => ~Up

\* The question for permission and, if nothing failed, the last order to the
\* service are of the user's last wish.
Sent == payloads = <<>> /\ pending = None
LastWish ==
  /\ pending # None => pending.config = wanted
  /\ Sent /\ (wanted = None \/ ~failed) =>
       \A order \in Wishes : LastOf(intents, Wishes, order) => order.config = wanted

\* If no order is left, that wish is what runs or is due; or nothing is.
Wished == Sent /\ Idle(intents) =>
  /\ wanted = None => cores = {} /\ takeover = None /\ (restart = None \/ Doomed)
  /\ wanted # None /\ ~failed =>
       /\ ~Doomed
       /\ \/ cores # {} /\ controller.config = wanted
          \/ takeover # None /\ takeover.config = wanted
          \/ restart = wanted

\* The inductive invariant: all this, unless a race was met that a request that
\* was not sent is not.
Calm == /\ OwnCore /\ Restarting /\ Dying /\ Dead /\ Permission /\ Sole
        /\ Earlier /\ EndingAlone /\ Runs /\ ShownUp /\ ShownDown
        /\ LastWish /\ Wished
CalmInv == IInv /\ (Quiet => Calm)

-----------------------------------------------------------------------------
(* Queues.                                                                 *)

\* The elements of a sequence, which grows at the end and shrinks at the front.
LEMMA ToSetIs ==
  ASSUME NEW S, NEW s \in Seq(S)
  PROVE  /\ ToSet(s) \subseteq S /\ (s = <<>> <=> ToSet(s) = {})
         /\ \A x \in S : ToSet(Append(s, x)) = ToSet(s) \cup {x}
         /\ s # <<>> => ToSet(s) = {Head(s)} \cup ToSet(Tail(s)) /\ Head(s) \in S
<1>0. Len(s) \in Nat /\ DOMAIN s = 1..Len(s) /\ \A i \in DOMAIN s : s[i] \in S
  BY LenProperties, ElementOfSeq
<1>1. ToSet(s) \subseteq S
  BY <1>0 DEF ToSet
<1>2. s = <<>> <=> ToSet(s) = {}
  <2>1. s = <<>> <=> Len(s) = 0
    BY EmptySeq
  <2>2. Len(s) > 0 => s[1] \in ToSet(s)
    BY <1>0 DEF ToSet
  <2>3. Len(s) = 0 => DOMAIN s = {}
    BY <1>0
  <2>4. Len(s) = 0 => ToSet(s) = {}
    BY <2>3 DEF ToSet
  <2> QED
    BY <1>0, <2>1, <2>2, <2>4
<1>3. ASSUME NEW x \in S PROVE ToSet(Append(s, x)) = ToSet(s) \cup {x}
  <2>1. /\ Append(s, x) \in Seq(S) /\ Len(Append(s, x)) = Len(s) + 1
        /\ \A i \in 1..Len(s) : Append(s, x)[i] = s[i]
        /\ Append(s, x)[Len(s) + 1] = x
    BY AppendProperties
  <2>2. DOMAIN Append(s, x) = 1..(Len(s) + 1)
    BY <2>1, LenProperties
  <2>3. 1..(Len(s) + 1) = 1..Len(s) \cup {Len(s) + 1}
    BY <1>0
  <2> QED
    BY <1>0, <2>1, <2>2, <2>3 DEF ToSet
<1>4. ASSUME s # <<>> PROVE ToSet(s) = {Head(s)} \cup ToSet(Tail(s)) /\ Head(s) \in S
  <2>1. Len(s) > 0
    BY <1>0, <1>4, EmptySeq
  <2>2. /\ Head(s) = s[1] /\ Tail(s) \in Seq(S) /\ Len(Tail(s)) = Len(s) - 1
        /\ \A i \in 1..(Len(s) - 1) : Tail(s)[i] = s[i + 1]
    BY <1>0, <1>4, HeadTailProperties
  <2>3. DOMAIN Tail(s) = 1..(Len(s) - 1)
    BY <2>2, LenProperties
  <2>4. \A i \in 1..Len(s) : i = 1 \/ (i - 1 \in 1..(Len(s) - 1) /\ (i - 1) + 1 = i)
    BY <1>0
  <2>5. \A i \in 1..(Len(s) - 1) : i + 1 \in 1..Len(s)
    BY <1>0
  <2>6. ToSet(s) \subseteq {Head(s)} \cup ToSet(Tail(s))
    <3> SUFFICES ASSUME NEW i \in 1..Len(s)
                 PROVE  s[i] \in {Head(s)} \cup ToSet(Tail(s))
      BY <1>0 DEF ToSet
    <3>1. CASE i = 1
      BY <2>2, <3>1
    <3>2. CASE i # 1
      <4>1. i - 1 \in 1..(Len(s) - 1) /\ (i - 1) + 1 = i
        BY <2>4, <3>2
      <4>2. Tail(s)[i - 1] = s[i]
        BY <2>2, <4>1
      <4> QED
        BY <2>3, <4>1, <4>2 DEF ToSet
    <3> QED
      BY <3>1, <3>2
  <2>7. {Head(s)} \cup ToSet(Tail(s)) \subseteq ToSet(s)
    <3>1. Head(s) \in ToSet(s)
      BY <1>0, <2>1, <2>2 DEF ToSet
    <3>2. \A i \in 1..(Len(s) - 1) : Tail(s)[i] \in ToSet(s)
      BY <1>0, <2>2, <2>5 DEF ToSet
    <3> QED
      BY <2>3, <3>1, <3>2 DEF ToSet
  <2>8. Head(s) \in S
    BY <1>0, <2>1, <2>2
  <2> QED
    BY <2>6, <2>7, <2>8
<1> QED
  BY <1>1, <1>2, <1>3, <1>4

\* The last element in T of a sequence that has grown ...
LEMMA LastAdded ==
  ASSUME NEW S, NEW s \in Seq(S), NEW x \in S, NEW T, NEW y
  PROVE  LastOf(Append(s, x), T, y) <=> IF x \in T THEN y = x ELSE LastOf(s, T, y)
<1> DEFINE new == Append(s, x)
<1>1. /\ Len(s) \in Nat /\ DOMAIN s = 1..Len(s)
      /\ DOMAIN new = 1..(Len(s) + 1)
      /\ \A i \in 1..Len(s) : new[i] = s[i]
      /\ new[Len(s) + 1] = x
  BY AppendProperties, LenProperties
<1> HIDE DEF new
<1>2. /\ \A i \in DOMAIN new : i \in DOMAIN s \/ i = Len(s) + 1
      /\ \A i \in DOMAIN s : i \in DOMAIN new /\ i < Len(s) + 1
      /\ Len(s) + 1 \in DOMAIN new
      /\ \A i \in DOMAIN new : ~(i > Len(s) + 1)
  BY <1>1
<1>3. CASE x \in T
  <2>1. LastOf(new, T, y) => y = x
    BY <1>1, <1>2, <1>3 DEF LastOf
  <2>2. LastOf(new, T, x)
    BY <1>1, <1>2, <1>3 DEF LastOf
  <2> QED
    BY <1>3, <2>1, <2>2 DEF new
<1>4. CASE x \notin T
  <2>1. ASSUME LastOf(new, T, y) PROVE LastOf(s, T, y)
    <3>1. PICK i \in DOMAIN new : /\ new[i] = y /\ y \in T
                                  /\ \A j \in DOMAIN new : j > i => new[j] \notin T
      BY <2>1 DEF LastOf
    <3>2. i \in DOMAIN s
      BY <1>1, <1>2, <1>4, <3>1
    <3>3. \A j \in DOMAIN s : j > i => s[j] \notin T
      BY <1>1, <1>2, <3>1
    <3> QED
      BY <1>1, <3>1, <3>2, <3>3 DEF LastOf
  <2>2. ASSUME LastOf(s, T, y) PROVE LastOf(new, T, y)
    <3>1. PICK i \in DOMAIN s : /\ s[i] = y /\ y \in T
                                /\ \A j \in DOMAIN s : j > i => s[j] \notin T
      BY <2>2 DEF LastOf
    <3>2. \A j \in DOMAIN new : j > i => new[j] \notin T
      BY <1>1, <1>2, <1>4, <3>1
    <3> QED
      BY <1>1, <1>2, <3>1, <3>2 DEF LastOf
  <2> QED
    BY <1>4, <2>1, <2>2 DEF new
<1> QED
  BY <1>3, <1>4

\* ... and of one that has shrunk.
LEMMA LastLeft ==
  ASSUME NEW S, NEW s \in Seq(S), s # <<>>, NEW T, NEW y
  PROVE  /\ LastOf(Tail(s), T, y) => LastOf(s, T, y)
         /\ LastOf(s, T, y) => \/ LastOf(Tail(s), T, y)
                               \/ y = Head(s) /\ ToSet(Tail(s)) \cap T = {}
         /\ Head(s) \in T /\ ToSet(Tail(s)) \cap T = {} => LastOf(s, T, Head(s))
<1> DEFINE t == Tail(s)
<1>1. /\ Len(s) \in Nat \ {0} /\ DOMAIN s = 1..Len(s) /\ Head(s) = s[1]
      /\ DOMAIN t = 1..(Len(s) - 1)
      /\ \A i \in 1..(Len(s) - 1) : t[i] = s[i + 1]
  BY EmptySeq, HeadTailProperties, LenProperties
<1> HIDE DEF t
<1>2. /\ \A i \in DOMAIN t : i + 1 \in DOMAIN s /\ s[i + 1] = t[i]
      /\ \A i \in DOMAIN s : i \in Nat /\ (i = 1 \/ i > 1)
      /\ \A i \in DOMAIN s : i # 1 => i - 1 \in DOMAIN t /\ t[i - 1] = s[i]
      /\ \A i \in DOMAIN t : i \in Nat \ {0}
      /\ 1 \in DOMAIN s
  BY <1>1
<1>3. ASSUME LastOf(t, T, y) PROVE LastOf(s, T, y)
  <2>1. PICK i \in DOMAIN t : /\ t[i] = y /\ y \in T
                              /\ \A j \in DOMAIN t : j > i => t[j] \notin T
    BY <1>3 DEF LastOf
  <2>2. ASSUME NEW j \in DOMAIN s, j > i + 1 PROVE s[j] \notin T
    <3>1. j # 1 /\ j - 1 > i
      BY <1>1, <1>2, <2>2
    <3> QED
      BY <1>2, <2>1, <3>1
  <2> QED
    BY <1>2, <2>1, <2>2 DEF LastOf
<1>4. ASSUME LastOf(s, T, y)
      PROVE  LastOf(t, T, y) \/ (y = Head(s) /\ ToSet(t) \cap T = {})
  <2>1. PICK i \in DOMAIN s : /\ s[i] = y /\ y \in T
                              /\ \A j \in DOMAIN s : j > i => s[j] \notin T
    BY <1>4 DEF LastOf
  <2>2. CASE i = 1
    <3>1. \A j \in DOMAIN t : t[j] \notin T
      <4> SUFFICES ASSUME NEW j \in DOMAIN t PROVE t[j] \notin T
        OBVIOUS
      <4>1. j + 1 \in DOMAIN s /\ s[j + 1] = t[j] /\ j + 1 > 1
        BY <1>2
      <4> QED
        BY <2>1, <2>2, <4>1
    <3> QED
      BY <1>1, <2>1, <2>2, <3>1 DEF ToSet
  <2>3. CASE i # 1
    <3>1. i - 1 \in DOMAIN t /\ t[i - 1] = y
      BY <1>2, <2>1, <2>3
    <3>2. ASSUME NEW j \in DOMAIN t, j > i - 1 PROVE t[j] \notin T
      <4>1. j + 1 \in DOMAIN s /\ s[j + 1] = t[j] /\ j + 1 > i
        BY <1>1, <1>2, <2>1, <3>2
      <4> QED
        BY <2>1, <4>1
    <3> QED
      BY <2>1, <3>1, <3>2 DEF LastOf
  <2> QED
    BY <2>2, <2>3
<1>5. ASSUME Head(s) \in T, ToSet(t) \cap T = {} PROVE LastOf(s, T, Head(s))
  <2>1. \A j \in DOMAIN t : t[j] \notin T
    BY <1>5 DEF ToSet
  <2>2. \A j \in DOMAIN s : j > 1 => s[j] \notin T
    BY <1>2, <2>1
  <2> QED
    BY <1>1, <1>2, <1>5, <2>2 DEF LastOf
<1> QED
  BY <1>3, <1>4, <1>5 DEF t

\* The orders of the user and the destruction.
LEMMA OrdersAre ==
  /\ \A o \in Orders : o \in Wishes \/ o = DestroyIntent
  /\ DestroyIntent \in Orders /\ DestroyIntent \notin Wishes
  /\ \A o \in Wishes : o \in Orders /\ o # DestroyIntent
  /\ \A action \in {"start", "restart"}, config \in Configs :
       Intent(action, config) \in Wishes
  /\ Intent("stop", None) \in Wishes
BY DEF Orders, Wishes, DestroyIntent, Intent

\* The intents, as one is added ...
LEMMA IntentAdded ==
  ASSUME NEW queue \in Seq(Orders), NEW o \in Orders
  PROVE  /\ Idle(Append(queue, o)) <=> Idle(queue) /\ o \notin Wishes
         /\ \A w : LastOf(Append(queue, o), Wishes, w) <=>
              IF o \in Wishes THEN w = o ELSE LastOf(queue, Wishes, w)
         /\ ToSet(Append(queue, o)) = ToSet(queue) \cup {o}
<1>1. ToSet(Append(queue, o)) = ToSet(queue) \cup {o}
  BY ToSetIs
<1>2. \A w : LastOf(Append(queue, o), Wishes, w) <=>
              IF o \in Wishes THEN w = o ELSE LastOf(queue, Wishes, w)
  BY LastAdded
<1> QED
  BY <1>1, <1>2 DEF Idle

\* ... or delivered.
LEMMA IntentTaken ==
  ASSUME NEW queue \in Seq(Orders), queue # <<>>
  PROVE  /\ ToSet(queue) = {Head(queue)} \cup ToSet(Tail(queue))
         /\ Head(queue) \in Orders /\ Tail(queue) \in Seq(Orders)
         /\ Idle(queue) <=> Idle(Tail(queue)) /\ Head(queue) \notin Wishes
         /\ \A w : LastOf(Tail(queue), Wishes, w) => LastOf(queue, Wishes, w)
         /\ Head(queue) \in Wishes /\ Idle(Tail(queue)) =>
              LastOf(queue, Wishes, Head(queue))
<1>1. /\ ToSet(queue) = {Head(queue)} \cup ToSet(Tail(queue))
      /\ Head(queue) \in Orders /\ Tail(queue) \in Seq(Orders)
  BY ToSetIs, HeadTailProperties
<1>2. /\ \A w : LastOf(Tail(queue), Wishes, w) => LastOf(queue, Wishes, w)
      /\ Head(queue) \in Wishes /\ ToSet(Tail(queue)) \cap Wishes = {} =>
           LastOf(queue, Wishes, Head(queue))
  BY LastLeft
<1> QED
  BY <1>1, <1>2 DEF Idle

\* A destruction in the queue, and stopSelf() that puts it there.
LEMMA DoomedIs ==
  ASSUME NEW queue \in Seq(Orders)
  PROVE  Contains(queue, DestroyIntent) <=> DestroyIntent \in ToSet(queue)
<1>1. DOMAIN queue = 1..Len(queue)
  BY LenProperties
<1> QED
  BY <1>1 DEF Contains, ToSet

\* It leaves the orders of the user as they are.
LEMMA StopSelfMeans ==
  ASSUME NEW queue \in Seq(Orders), StopSelf(queue)
  PROVE  /\ Doomed' /\ (Idle(intents') <=> Idle(queue))
         /\ \A w : LastOf(intents', Wishes, w) <=> LastOf(queue, Wishes, w)
<1>1. CASE Contains(queue, DestroyIntent)
  BY <1>1 DEF StopSelf, Doomed
<1>2. CASE ~Contains(queue, DestroyIntent)
  <2>1. intents' = Append(queue, DestroyIntent) /\ intents' \in Seq(Orders)
    BY <1>2, OrdersAre, AppendProperties DEF StopSelf
  <2>2. DestroyIntent \in ToSet(intents')
    BY <2>1, IntentAdded, OrdersAre
  <2>3. Doomed'
    BY <2>1, <2>2, DoomedIs DEF Doomed
  <2> QED
    BY <2>1, <2>3, IntentAdded, OrdersAre
<1> QED
  BY <1>1, <1>2

\* The news, as some is added ...
LEMMA NewsAdded ==
  ASSUME NEW messages \in Seq(Messages), NEW m \in Messages, NEW seen
  PROVE  ShownOn(Append(messages, m), seen) <=>
           IF m \in Tolds THEN m = Told("connected") ELSE ShownOn(messages, seen)
<1>1. ToSet(Append(messages, m)) = ToSet(messages) \cup {m}
  BY ToSetIs
<1>2. LastOf(Append(messages, m), Tolds, Told("connected")) <=>
        IF m \in Tolds THEN Told("connected") = m
        ELSE LastOf(messages, Tolds, Told("connected"))
  BY LastAdded
<1> QED
  BY <1>1, <1>2 DEF ShownOn

\* ... or heard.
LEMMA NewsHeard ==
  ASSUME NEW messages \in Seq(Messages), messages # <<>>, NEW seen
  PROVE  /\ Head(messages) \notin Tolds =>
              (ShownOn(Tail(messages), seen) <=> ShownOn(messages, seen))
         /\ Head(messages) \in Tolds =>
              (ShownOn(Tail(messages), Head(messages).what) <=> ShownOn(messages, seen))
<1> DEFINE c == Told("connected")
           h == Head(messages)
           t == Tail(messages)
           quiet == ToSet(t) \cap Tolds = {}
<1>1. ToSet(messages) = {h} \cup ToSet(t)
  BY ToSetIs
<1>2. /\ LastOf(t, Tolds, c) => LastOf(messages, Tolds, c)
      /\ LastOf(messages, Tolds, c) => LastOf(t, Tolds, c) \/ (c = h /\ quiet)
      /\ h \in Tolds /\ quiet => LastOf(messages, Tolds, h)
  BY LastLeft
<1>3. LastOf(t, Tolds, c) => c \in ToSet(t) \cap Tolds
  BY DEF LastOf, ToSet
<1>4. c \in Tolds /\ \A m \in Tolds : m = c <=> m.what = "connected"
  BY DEF Told, Tolds
<1> QED
  BY <1>1, <1>2, <1>3, <1>4 DEF ShownOn

-----------------------------------------------------------------------------
(* Steps that leave the service alone.                                     *)

\* The types of the state, in one place.
LEMMA StateIs ==
  ASSUME IInv
  PROVE  /\ intents \in Seq(Orders) /\ posts \in Seq(Messages)
         /\ objects \in Seq(Object) /\ (alive => objects # <<>>)
         /\ (Doomed <=> DestroyIntent \in ToSet(intents))
         /\ permitted \in BOOLEAN /\ running \in BOOLEAN /\ failed \in BOOLEAN
         /\ wanted \in Configs \cup {None} /\ restart \in Configs \cup {None}
         /\ stored \in Configs /\ wishes + 1 \in Nat
         /\ cores \subseteq Core /\ (Quiet => cores \subseteq {controller})
         /\ (~alive /\ Quiet => cores = {} /\ restart = None /\ takeover = None)
         /\ (pending # None => /\ Intent(pending.action, pending.config) \in Wishes
                               /\ pending.config # None)
         /\ (payloads # <<>> =>
              /\ Intent(Head(payloads).action, Head(payloads).config) \in Wishes
              /\ Head(payloads).config \in Configs /\ Head(payloads) # None)
         /\ None \notin Configs
<1>1. TypeOK /\ CoreInv /\ NothingLeft
  BY DEF IInv, NothingLeft
<1>2. PluginType /\ QueueType /\ DelayType /\ ObjectType /\ GhostType
  BY <1>1, TypeParts
<1>3. None \notin Configs
  BY AndroidAssumption DEF AndroidAssumption, Configs
<1>4. Doomed <=> DestroyIntent \in ToSet(intents)
  BY <1>2, DoomedIs DEF Doomed, QueueType
<1>5. pending # None => /\ pending.action \in {"start", "restart"}
                        /\ pending.config \in Configs
  BY <1>2 DEF PluginType
<1>7. ASSUME payloads # <<>>
      PROVE  /\ Head(payloads).action \in {"start", "restart"}
             /\ Head(payloads).config \in Configs /\ Head(payloads) # None
  <2>1. Head(payloads) \in [action : {"start", "restart"}, config : Configs]
    BY <1>2, <1>7, HeadTailProperties DEF PluginType
  <2>2. Head(payloads) \in [action : {"start", "restart"}, config : Nat]
    BY <2>1 DEF Configs
  <2> QED
    BY <2>1, <2>2, AndroidAssumption DEF AndroidAssumption
<1>6. wishes + 1 \in Nat
  BY <1>2, AndroidAssumption DEF AndroidAssumption, GhostType
<1> QED
  BY <1>1, <1>2, <1>3, <1>4, <1>5, <1>6, <1>7, OrdersAre
     DEF PluginType, QueueType, DelayType, ObjectType, GhostType, CoreInv, NothingLeft,
         Quiet

\* What such a step has to keep.
LEMMA ServiceStays ==
  ASSUME Calm, UNCHANGED serviceVars,
         \A m : m.kind = "shutdown" /\ m \in ToSet(posts') => m \in ToSet(posts),
         Ending => Ending', Doomed' <=> Doomed,
         running => \/ takeover # None \/ payloads' # <<>> \/ ~Idle(intents')
                    \/ Up' \/ races' # {},
         ~running /\ Up' => Up,
         Permission', Sole', LastWish', Wished'
  PROVE  Calm'
<1> USE DEF serviceVars
<1>1. OwnCore' /\ Restarting'
  BY DEF Calm, OwnCore, Restarting
<1>2. Dying' /\ Dead'
  BY DEF Calm, Dying, Dead
<1>3. Earlier'
  BY DEF Calm, Earlier
<1>4. EndingAlone' /\ Runs'
  <2>1. EndOf(Len(objects), Last(objects).session).kind = "shutdown"
    BY DEF EndOf
  <2>2. Ending' => Ending
    BY <2>1 DEF Ending
  <2> QED
    BY <2>2 DEF Calm, EndingAlone, Runs
<1>5. ShownUp' /\ ShownDown'
  BY DEF Calm, ShownUp, ShownDown
<1> QED
  BY <1>1, <1>2, <1>3, <1>4, <1>5 DEF Calm

\* A wish of the user that becomes an order ...
LEMMA OrderCalm ==
  ASSUME IInv, Calm, UNCHANGED <<permitted, pending, dialogs, posts, serviceVars>>,
         Unasked, payloads' = <<>>, shown' = "connected" => shown = "connected",
         NEW order \in Wishes, intents' = Append(intents, order), wanted' = order.config
  PROVE  Calm'
<1>0. /\ intents \in Seq(Orders) /\ dialogs' = 0 /\ pending' = None
      /\ \A p \in ToSet(posts') : p.kind # "result"
  BY StateIs DEF Unasked
<1>1. (Up' => Up) /\ (Ending => Ending')
  BY DEF Up, ShownOn, Ending, serviceVars
<1>2. order \in Orders /\ order # DestroyIntent
  BY OrdersAre
<1>3. /\ ~Idle(intents') /\ \A w : LastOf(intents', Wishes, w) => w = order
      /\ (Doomed' <=> Doomed)
  <2>1. intents' \in Seq(Orders)
    BY <1>0, <1>2, AppendProperties
  <2>2. Doomed' <=> DestroyIntent \in ToSet(intents')
    BY <2>1, DoomedIs DEF Doomed
  <2> QED
    BY <1>0, <1>2, <2>2, IntentAdded, StateIs
<1>4. Permission' /\ Sole'
  BY <1>0 DEF Calm, Permission, Sole, serviceVars, Granted
<1>5. LastWish' /\ Wished'
  BY <1>0, <1>3 DEF LastWish, Wished, Sent
<1> QED
  BY <1>1, <1>3, <1>4, <1>5, ServiceStays

\* ... or a question for permission.
LEMMA QuestionCalm ==
  ASSUME IInv, Calm, UNCHANGED <<permitted, posts, intents, serviceVars, shown, wanted>>,
         Unasked, payloads' = <<>>, ~permitted, dialogs' = dialogs + 1,
         pending' # None, pending'.config = wanted
  PROVE  Calm'
<1>0. dialogs' = 1 /\ \A p \in ToSet(posts') : p.kind # "result"
  BY DEF Unasked
<1>1. (Up' => Up) /\ (Ending => Ending') /\ (Doomed' <=> Doomed)
  BY DEF Up, ShownOn, Ending, Doomed, serviceVars
<1>2. ~running
  BY DEF Calm, Permission
<1>3. Permission' /\ Sole'
  BY <1>0, <1>2 DEF Calm, Permission, Sole, serviceVars, Granted
<1>4. LastWish' /\ Wished'
  BY DEF LastWish, Wished, Sent
<1> QED
  BY <1>1, <1>2, <1>3, <1>4, ServiceStays

\* The user.
LEMMA UserCalm ==
  ASSUME IInv, Calm, Quiet, Quiet', User
  PROVE  Calm'
<1>1. ASSUME Met("asked", Asking) PROVE Unasked /\ payloads = <<>>
  <2>1. ~Asking
    BY <1>1 DEF Met, Note, Quiet
  <2> QED
    BY <2>1 DEF Asking, Unasked, Calm, Permission
<1>2. ASSUME NEW action \in {"start", "restart"}, Request(action) PROVE Calm'
  <2>1. /\ Unasked /\ payloads = <<>>
        /\ UNCHANGED <<permitted, pending, dialogs, posts, intents, serviceVars>>
        /\ wanted' = wishes + 1 /\ shown' = "connecting"
        /\ payloads' = Append(payloads, Intent(action, wishes + 1))
    BY <1>1, <1>2 DEF Request, Wish
  <2>2. /\ payloads' # <<>> /\ Tail(payloads') = <<>>
        /\ Head(payloads') = Intent(action, wishes + 1)
    BY <2>1
  <2>3. Head(payloads').config = wanted'
    BY <2>1, <2>2 DEF Intent
  <2>4. Permission'
    BY <2>1 DEF Calm, Permission, serviceVars, Granted
  <2>5. Unasked'
    BY <2>1 DEF Unasked
  <2>6. Sole'
    BY <2>2, <2>3, <2>5 DEF Sole
  <2>7. LastWish' /\ Wished'
    BY <2>1, <2>2 DEF LastWish, Wished, Sent, Unasked
  <2>8. (Up' => Up) /\ (Ending => Ending') /\ (Doomed' <=> Doomed)
    BY <2>1 DEF Up, ShownOn, Ending, Doomed, serviceVars
  <2> QED
    BY <2>1, <2>2, <2>4, <2>6, <2>7, <2>8, ServiceStays
<1>3. CASE Connect \/ Reconnect
  BY <1>2, <1>3 DEF Connect, Reconnect
<1>4. ASSUME Stopping, shown' \in {"off", shown} PROVE Calm'
  <2>1. /\ Unasked /\ payloads' = <<>>
        /\ UNCHANGED <<permitted, pending, dialogs, posts, serviceVars>>
        /\ wanted' = None /\ intents' = Append(intents, Intent("stop", None))
    BY <1>1, <1>4 DEF Stopping, Wish, pluginVars
  <2>2. Intent("stop", None) \in Wishes /\ Intent("stop", None).config = None
    BY OrdersAre DEF Intent
  <2> QED
    BY <1>4, <2>1, <2>2, OrderCalm
<1>5. CASE TileStarts
  <2>1. /\ Unasked /\ payloads' = <<>>
        /\ UNCHANGED <<permitted, pending, dialogs, posts, serviceVars, shown>>
        /\ wanted' = stored /\ intents' = Append(intents, Intent("start", stored))
    BY <1>1, <1>5 DEF TileStarts, Wish, pluginVars
  <2>2. Intent("start", stored) \in Wishes /\ Intent("start", stored).config = stored
    BY OrdersAre, StateIs DEF Intent
  <2> QED
    BY <2>1, <2>2, OrderCalm
<1>6. ASSUME NEW ok \in BOOLEAN, Answer(ok) PROVE Calm'
  <2>0. /\ posts \in Seq(Messages) /\ dialogs = 1 /\ dialogs' = 0 /\ ~permitted
        /\ \A p \in ToSet(posts) : p.kind # "result"
    BY <1>6, StateIs DEF Answer, Calm, Permission
  <2>1. /\ permitted' = ok /\ posts' = Append(posts, Granted(ok))
        /\ UNCHANGED <<payloads, pending, intents, serviceVars, shown, wanted, failed,
                       races>>
    BY <1>6, <2>0 DEF Answer, ghosts
  <2>2. /\ Granted(ok) \in Messages /\ Granted(ok) \notin Tolds
        /\ Granted(ok).kind = "result" /\ Granted(TRUE) # Granted(FALSE)
    BY DEF Granted, Messages, Tolds, Told
  <2>3. ToSet(posts') = ToSet(posts) \cup {Granted(ok)} /\ (Up' <=> Up)
    BY <2>0, <2>1, <2>2, ToSetIs, NewsAdded DEF Up
  <2>4. Permission'
    <3>1. ~running
      BY <2>0 DEF Calm, Permission
    <3>2. Granted(FALSE).kind = "result"
      BY DEF Granted
    <3>3. Granted(FALSE) \in ToSet(posts') => ok = FALSE
      BY <2>0, <2>2, <2>3, <3>2
    <3>4. permitted' = ok
      BY <2>1
    <3>5. Granted(FALSE) \in ToSet(posts') => ~permitted'
      BY <3>3, <3>4, Zenon
    <3>6. dialogs' = 0 /\ ~running'
      BY <2>0, <2>1, <3>1 DEF serviceVars
    <3> QED
      BY <3>5, <3>6 DEF Permission, Granted
  <2>7. Sole'
    <3>1. payloads = <<>>
      BY <2>0 DEF Calm, Sole, Unasked
    <3> QED
      BY <2>1, <3>1 DEF Sole
  <2>5. LastWish' /\ Wished' /\ (Doomed' <=> Doomed)
    BY <2>1 DEF Calm, LastWish, Wished, Sent, Doomed, serviceVars
  <2>6. Ending => Ending'
    BY <2>1, <2>3 DEF Ending, serviceVars
  <2> QED
    BY <2>1, <2>2, <2>3, <2>4, <2>5, <2>6, <2>7, ServiceStays DEF Calm, ShownUp
<1> QED
  BY <1>3, <1>4, <1>5, <1>6 DEF User, Disconnect, TileStops

\* The app.
LEMMA AppCalm ==
  ASSUME IInv, Calm, Quiet', App
  PROVE  Calm'
<1>1. CASE SeesRunning \/ GivesUp \/ SeesStopped
  <2>1. /\ UNCHANGED <<pluginVars, intents, posts, serviceVars, wanted, failed, races>>
        /\ \/ running /\ shown' = "connected"
           \/ shown # "connected" /\ shown' # "connected"
           \/ ~running /\ shown' # "connected"
    BY <1>1 DEF SeesRunning, GivesUp, SeesStopped, ghosts
  <2>2. /\ running /\ Up => Up'
        /\ ~running /\ Up' => Up
    BY <2>1 DEF Up, ShownOn
  <2>3. /\ Permission' /\ Sole' /\ LastWish' /\ Wished' /\ (Doomed' <=> Doomed)
        /\ (Ending => Ending')
    BY <2>1 DEF Calm, Permission, Granted, Sole, Unasked, LastWish, Wished, Sent, Doomed,
       Ending, pluginVars, serviceVars
  <2> QED
    BY <2>1, <2>2, <2>3, ServiceStays DEF Calm, ShownUp, pluginVars
<1> DEFINE request == Head(payloads)
<1>2. ASSUME payloads # <<>>
      PROVE  /\ Tail(payloads) = <<>> /\ Unasked /\ request.config = wanted
             /\ Intent(request.action, request.config) \in Wishes
             /\ request # None /\ wanted # None
  BY <1>2, StateIs DEF Calm, Sole
<1>3. CASE Payload
  <2>1. /\ payloads # <<>> /\ payloads' = <<>>
        /\ UNCHANGED <<permitted, posts, serviceVars, shown, wanted>>
    BY <1>2, <1>3 DEF Payload, ghosts
  <2>2. CASE /\ intents' = Append(intents, Intent(request.action, request.config))
             /\ UNCHANGED <<pending, dialogs>>
    <3>1. Intent(request.action, request.config).config = wanted'
      BY <1>2, <2>1 DEF Intent
    <3> QED
      BY <1>2, <2>1, <2>2, <3>1, OrderCalm
  <2>3. CASE /\ ~permitted /\ pending' = request /\ dialogs' = dialogs + 1
             /\ intents' = intents
    BY <1>2, <2>1, <2>3, QuestionCalm
  <2> QED
    BY <1>3, <2>2, <2>3 DEF Payload, Send
<1>4. CASE Unsent
  <2>1. /\ payloads # <<>> /\ payloads' = <<>> /\ shown' = "error" /\ failed' = TRUE
        /\ UNCHANGED <<permitted, pending, dialogs, intents, posts, serviceVars, wanted>>
    BY <1>2, <1>4 DEF Unsent
  <2>2. running => races' # {}
    BY <1>4 DEF Unsent, Met, Note
  <2>3. (Up' => Up) /\ (Ending => Ending') /\ (Doomed' <=> Doomed)
    BY <2>1 DEF Up, ShownOn, Ending, Doomed, serviceVars
  <2>4. Permission' /\ Sole'
    BY <2>1 DEF Calm, Permission, Granted, Sole, serviceVars
  <2>5. LastWish' /\ Wished'
    BY <1>2, <2>1 DEF LastWish, Wished, Unasked
  <2> QED
    BY <2>1, <2>2, <2>3, <2>4, <2>5, ServiceStays
<1> QED
  BY <1>1, <1>3, <1>4 DEF App

\* The poll for permission and the answer of the dialog.
LEMMA PermissionCalm ==
  ASSUME IInv, Calm, PermissionPoll \/ ActivityResult
  PROVE  Calm'
<1>0. /\ intents \in Seq(Orders) /\ posts \in Seq(Messages) /\ None \notin Configs
      /\ pending # None => /\ Intent(pending.action, pending.config) \in Wishes
                           /\ pending.config = wanted /\ wanted # None
  BY StateIs DEF Calm, LastWish
<1>1. UNCHANGED <<payloads, permitted, dialogs, serviceVars, shown, wanted, races>>
  BY DEF PermissionPoll, ActivityResult
\* What may be posted, ...
<1>2. Told("error") \in Messages /\ Told("error") \in Tolds /\ Told("error").kind = "told"
      /\ Told("error") # Told("connected")
  BY DEF Told, Messages, Tolds
<1>3. ASSUME posts # <<>>, Head(posts).kind = "result"
      PROVE  /\ ToSet(posts) = {Head(posts)} \cup ToSet(Tail(posts))
             /\ Tail(posts) \in Seq(Messages) /\ Head(posts) \notin Tolds
             /\ Head(posts).ok \in BOOLEAN /\ Head(posts) = Granted(Head(posts).ok)
             /\ (ShownOn(Tail(posts), shown) <=> Up)
  <2>1. /\ ToSet(posts) = {Head(posts)} \cup ToSet(Tail(posts))
        /\ Tail(posts) \in Seq(Messages) /\ Head(posts) \in Messages
    BY <1>0, <1>3, ToSetIs, HeadTailProperties
  <2>2. Head(posts) \notin Tolds
    BY <1>3 DEF Tolds, Told
  <2>3. Head(posts).ok \in BOOLEAN /\ Head(posts) = Granted(Head(posts).ok)
    BY <1>3, <2>1 DEF Messages, Granted
  <2> QED
    BY <1>0, <1>3, <2>1, <2>2, <2>3, NewsHeard DEF Up
\* ... and how the question may be settled: not at all, by an order, or it failed.
<1>4. ASSUME UNCHANGED <<pending, intents, failed>>,
             ToSet(posts') \subseteq ToSet(posts), Up' <=> Up,
             \A m \in ToSet(posts) : m.kind = "shutdown" => m \in ToSet(posts')
      PROVE  Calm'
  <2>1. Permission' /\ Sole'
    BY <1>1, <1>4 DEF Calm, Permission, Sole, Unasked, serviceVars, Granted
  <2>2. LastWish' /\ Wished' /\ (Doomed' <=> Doomed)
    BY <1>1, <1>4 DEF Calm, LastWish, Wished, Sent, Doomed, serviceVars
  <2>3. Ending => Ending'
    BY <1>1, <1>4 DEF Ending, EndOf, serviceVars
  <2> QED
    BY <1>1, <1>4, <2>1, <2>2, <2>3, ServiceStays DEF Calm, ShownUp
<1>5. ASSUME pending # None, pending' = None, failed' = failed,
             intents' = Append(intents, Intent(pending.action, pending.config)),
             ToSet(posts') \subseteq ToSet(posts), Up' <=> Up,
             \A m \in ToSet(posts) : m.kind = "shutdown" => m \in ToSet(posts')
      PROVE  Calm'
  <2> DEFINE order == Intent(pending.action, pending.config)
  <2>1. /\ order \in Orders /\ order \in Wishes /\ order # DestroyIntent
        /\ order.config = wanted
    BY <1>0, <1>5, OrdersAre DEF Intent
  <2> HIDE DEF order
  <2>2. intents' = Append(intents, order)
    BY <1>5 DEF order
  <2>3. /\ ~Idle(intents') /\ \A w : LastOf(intents', Wishes, w) => w = order
        /\ (Doomed' <=> Doomed)
    <3>1. intents' \in Seq(Orders)
      BY <1>0, <2>1, <2>2, AppendProperties
    <3>2. Doomed' <=> DestroyIntent \in ToSet(intents')
      BY <3>1, DoomedIs DEF Doomed
    <3> QED
      BY <1>0, <2>1, <2>2, <3>2, IntentAdded, StateIs
  <2>4. Permission' /\ Sole'
    BY <1>1, <1>5 DEF Calm, Permission, Sole, Unasked, serviceVars, Granted
  <2>5. LastWish' /\ Wished'
    BY <1>1, <1>5, <2>1, <2>3 DEF LastWish, Wished
  <2>6. Ending => Ending'
    BY <1>1, <1>5 DEF Ending, EndOf, serviceVars
  <2> QED
    BY <1>1, <1>5, <2>3, <2>4, <2>5, <2>6, ServiceStays
<1>6. ASSUME NEW messages \in Seq(Messages), posts' = Append(messages, Told("error")),
             ToSet(messages) \subseteq ToSet(posts),
             \A m \in ToSet(posts) : m.kind = "shutdown" => m \in ToSet(messages),
             ~permitted, pending' = None, failed' = TRUE, intents' = intents
      PROVE  Calm'
  <2>1. ~running
    BY <1>6 DEF Calm, Permission
  <2>2. ToSet(posts') = ToSet(messages) \cup {Told("error")}
    BY <1>2, <1>6, ToSetIs
  <2>3. ~Up'
    BY <1>2, <1>6, NewsAdded DEF Up
  <2>4. Permission' /\ Sole'
    BY <1>1, <1>2, <1>6, <2>1, <2>2
       DEF Calm, Permission, Sole, Unasked, serviceVars, Granted, Told
  <2>5. pending # None => wanted # None
    BY <1>0
  <2>6. LastWish' /\ Wished' /\ (Doomed' <=> Doomed)
    BY <1>1, <1>6, <2>5 DEF Calm, LastWish, Wished, Sent, Doomed, serviceVars
  <2>7. Ending => Ending'
    BY <1>1, <1>6, <2>2 DEF Ending, EndOf, serviceVars
  <2>8. \A m : m.kind = "shutdown" /\ m \in ToSet(posts') => m \in ToSet(posts)
    BY <1>2, <1>6, <2>2
  <2> QED
    BY <1>1, <1>6, <2>1, <2>3, <2>4, <2>6, <2>7, <2>8, ServiceStays
<1>7. CASE PermissionPoll
  <2>1. CASE pending = None /\ UNCHANGED <<pending, intents, posts, failed>>
    BY <1>1, <1>4, <2>1 DEF Up
  <2>2. CASE /\ pending # None /\ pending' = None
             /\ Send(pending.action, pending.config) /\ UNCHANGED <<posts, failed>>
    BY <1>1, <1>5, <2>2 DEF Send, Up
  <2>3. CASE /\ ~permitted /\ pending' = None /\ SayTimeout /\ failed' = TRUE
             /\ UNCHANGED intents
    BY <1>0, <1>6, <2>3 DEF SayTimeout
  <2>4. CASE UNCHANGED <<pending, intents, posts, failed>>
    BY <1>1, <1>4, <2>4 DEF Up
  <2> QED
    BY <1>7, <2>1, <2>2, <2>3, <2>4 DEF PermissionPoll
<1>8. CASE ActivityResult
  <2>0. /\ posts # <<>> /\ Head(posts).kind = "result" /\ pending' = None
    BY <1>8 DEF ActivityResult
  <2>1. \A m \in ToSet(posts) : m.kind = "shutdown" => m \in ToSet(Tail(posts))
    BY <1>3, <2>0
  <2>2. CASE /\ Head(posts).ok /\ posts' = Tail(posts) /\ pending # None
             /\ Send(pending.action, pending.config) /\ UNCHANGED failed
    BY <1>1, <1>3, <1>5, <2>0, <2>1, <2>2 DEF Send, Up
  <2>3. CASE /\ posts' = Tail(posts) /\ pending = None /\ UNCHANGED <<intents, failed>>
    BY <1>1, <1>3, <1>4, <2>0, <2>1, <2>3 DEF Up
  <2>4. CASE /\ ~Head(posts).ok /\ posts' = Append(Tail(posts), Told("error"))
             /\ failed' = TRUE /\ UNCHANGED intents
    <3>1. Head(posts).ok = FALSE
      BY <1>3, <2>0, <2>4
    <3>2. Granted(FALSE) \in ToSet(posts)
      BY <1>3, <2>0, <3>1
    <3>3. ~permitted
      BY <3>2 DEF Calm, Permission
    <3> QED
      BY <1>3, <1>6, <2>0, <2>1, <2>4, <3>3
  <2> QED
    BY <1>8, <2>0, <2>2, <2>3, <2>4 DEF ActivityResult
<1> QED
  BY <1>7, <1>8

\* What was told is heard.
LEMMA ToldCalm ==
  ASSUME IInv, Calm, ToldPosted
  PROVE  Calm'
<1>1. /\ posts \in Seq(Messages) /\ posts # <<>> /\ Head(posts).kind = "told"
      /\ posts' = Tail(posts) /\ shown' = Head(posts).what
      /\ UNCHANGED <<pluginVars, intents, serviceVars, wanted, failed, races>>
  BY StateIs DEF ToldPosted, ghosts
<1>2. /\ ToSet(posts) = {Head(posts)} \cup ToSet(posts')
      /\ Head(posts) \in Messages
  BY <1>1, ToSetIs
<1>3. Head(posts) \in Tolds
  BY <1>1, <1>2 DEF Messages, Tolds, Told
<1>4. Up' <=> Up
  BY <1>1, <1>3, NewsHeard DEF Up
<1>5. /\ Permission' /\ Sole' /\ LastWish' /\ Wished' /\ (Doomed' <=> Doomed)
      /\ payloads' = payloads
  BY <1>1, <1>2
     DEF Calm, Permission, Sole, Unasked, LastWish, Wished, Sent, Doomed, pluginVars,
         serviceVars, Granted
<1>6. Ending => Ending'
  BY <1>1, <1>2 DEF Ending, EndOf, serviceVars
<1> QED
  BY <1>1, <1>2, <1>4, <1>5, <1>6, ServiceStays DEF Calm, ShownUp

-----------------------------------------------------------------------------
(* Steps of the service.                                                   *)

\* The object an intent is delivered to.
LEMMA HereMeans ==
  ASSUME IInv
  PROVE  /\ Here \in Seq(Object) /\ Here # <<>>
         /\ \/ alive /\ Here = objects
            \/ ~alive /\ Len(Here) = Len(objects) + 1
               /\ Last(Here).session = 0 /\ ~Last(Here).stopped
<1>1. ObjectType /\ objects \in Seq(Object)
  BY TypeParts DEF IInv, NothingLeft, ObjectType
<1>2. CASE alive
  BY <1>1, <1>2, HereIs DEF Here
<1>3. CASE ~alive
  <2> DEFINE o == [stopped |-> FALSE, session |-> 0]
  <2>1. o \in Object /\ o.session = 0 /\ ~o.stopped
    BY DEF Object
  <2> HIDE DEF o
  <2>2. Here = Append(objects, o)
    BY <1>3 DEF Here, o
  <2>3. Len(Here) = Len(objects) + 1 /\ Here[Len(objects) + 1] = o
    BY <1>1, <2>1, <2>2, AppendProperties
  <2> QED
    BY <1>1, <1>3, <2>1, <2>3, HereIs DEF Last
<1> QED
  BY <1>2, <1>3

\* The end of a session is not posted before it begins.
LEMMA EndsLater ==
  ASSUME IInv, Calm, NEW list \in Seq(Object), list # <<>>, NEW session,
         NEW p \in ToSet(posts), p.kind = "shutdown",
         \/ list = objects /\ session \in Nat /\ session >= Last(objects).session
         \/ Len(list) = Len(objects) + 1
  PROVE  /\ p.session \in Nat
         /\ p.object < Len(list) \/ (p.object = Len(list) /\ p.session <= session)
<1>1. /\ Len(list) \in Nat /\ Len(objects) \in Nat /\ posts \in Seq(Messages)
      /\ \/ p.object < Len(objects)
         \/ p.object = Len(objects) /\ p.session <= Last(objects).session
  BY StateIs, LenProperties DEF Calm, Earlier
<1>2. p \in Messages
  BY <1>1, ToSetIs
<1>3. p.object \in Nat /\ p.session \in Nat
  BY <1>2 DEF Messages
<1>4. CASE list = objects
  <2>1. Last(objects).session \in Nat
    <3>1. Len(objects) \in 1..Len(objects)
      BY <1>4, EmptySeq, LenProperties, StateIs
    <3>2. Last(objects) \in Object
      BY <1>4, <3>1, ElementOfSeq, StateIs DEF Last
    <3> QED
      BY <3>2 DEF Object
  <2>2. Len(list) # Len(objects) + 1
    BY <1>1, <1>4
  <2> QED
    BY <1>1, <1>3, <1>4, <2>1, <2>2
<1>5. CASE Len(list) = Len(objects) + 1
  BY <1>1, <1>3, <1>5
<1> QED
  BY <1>4, <1>5

\* What startVpn does, if it meets no race.
StartFails(queue) ==
  /\ running' = FALSE /\ failed' = TRUE /\ takeover' = None /\ cores' = cores
  /\ posts' = Append(posts, Told("error")) /\ StopSelf(queue)
StartWaits(config, queue) ==
  /\ takeover' # None /\ takeover'.config = config /\ intents' = queue
  /\ UNCHANGED <<controller, cores, posts, running, failed>>
StartWorks(config, queue) ==
  /\ permitted /\ running' = TRUE /\ takeover' = None
  /\ cores' = cores \cup {controller'}
  /\ controller'.object = Len(objects') /\ controller'.config = config
  /\ controller'.session = Last(objects').session
  /\ posts' = Append(posts, Told("connected")) /\ intents' = queue /\ failed' = failed

\* That is all of it.
LEMMA StartMeans ==
  ASSUME IInv, Calm, NEW list \in Seq(Object), list # <<>>,
         NEW config \in Configs, NEW n \in Nat, NEW queue, NEW later,
         StartVpn(list, config, n, queue, later), Quiet'
  PROVE  /\ objects' \in Seq(Object) /\ objects' # <<>> /\ Len(objects') = Len(list)
         /\ ~Last(objects').stopped /\ Last(objects').session = Last(list).session + 1
         /\ Last(list).session \in Nat
         /\ alive' = TRUE /\ ~Doomed /\ restart' = None /\ cores = {}
         /\ StartFails(queue) \/ StartWaits(config, queue) \/ StartWorks(config, queue)
<1> DEFINE object == Len(list)
           session == list[object].session + 1
           core == [object |-> object, session |-> session, config |-> config]
           changed == [stopped |-> FALSE, session |-> session]
<1>1. object \in 1..object /\ Last(list).session \in Nat /\ session = Last(list).session + 1
  <2>1. object \in Nat /\ object # 0
    BY EmptySeq, LenProperties
  <2>2. list[object] \in Object
    BY <2>1, ElementOfSeq
  <2> QED
    BY <2>1, <2>2 DEF Object, Last
<1>2. changed \in Object /\ ~changed.stopped /\ changed.session = session
  BY <1>1 DEF Object
<1>3. /\ core.object = object /\ core.session = session /\ core.config = config
  OBVIOUS
<1> HIDE DEF changed, core
<1>4. /\ objects' = [list EXCEPT ![object] = changed] /\ alive' = TRUE
      /\ races' = races \cup Note("doubled", controller \in cores)
                        \cup Note("revived", Doomed)
                        \cup Note("stale", later # None \/ restart' # None)
  BY DEF StartVpn, changed
<1>5. /\ objects' \in Seq(Object) /\ objects' # <<>> /\ Len(objects') = object
      /\ Last(objects') = changed
  BY <1>2, <1>4, LastChanged
<1>6. controller \notin cores /\ ~Doomed /\ later = None /\ restart' = None
  BY <1>4 DEF Note, Quiet
<1>7. cores = {}
  BY <1>6 DEF Calm, OwnCore
<1>8. n + 1 \in Nat /\ config \in Nat
  BY DEF Configs
<1>9. [config |-> config, attempt |-> n + 1] # None
  BY <1>8, AndroidAssumption DEF AndroidAssumption
<1>10. \/ StartFails(queue)
       \/ takeover' = [config |-> config, attempt |-> n + 1] /\ intents' = queue
          /\ UNCHANGED <<controller, cores, posts, running, failed>>
       \/ permitted /\ controller' = core /\ cores' = cores \cup {core} /\ running' = TRUE
          /\ posts' = Append(posts, Told("connected")) /\ intents' = queue
          /\ takeover' = None /\ failed' = failed
  BY <1>6 DEF StartVpn, StartFails, NotifyError, core
<1>11. StartFails(queue) \/ StartWaits(config, queue) \/ StartWorks(config, queue)
  BY <1>2, <1>3, <1>5, <1>9, <1>10 DEF StartWaits, StartWorks
<1> QED
  BY <1>1, <1>2, <1>4, <1>5, <1>6, <1>7, <1>11

\* A start that is of the last wish, or of one that is not the last.
LEMMA StartCalm ==
  ASSUME IInv, Calm, Quiet, Quiet',
         NEW list \in Seq(Object), list # <<>>,
         list = objects \/ Len(list) = Len(objects) + 1,
         NEW config \in Configs, NEW n \in Nat, NEW queue \in Seq(Orders), NEW later,
         StartVpn(list, config, n, queue, later),
         ToSet(queue) \subseteq ToSet(intents),
         \A w \in Wishes : LastOf(queue, Wishes, w) => LastOf(intents, Wishes, w),
         Sent /\ Idle(queue) => wanted # None /\ (~failed => config = wanted),
         UNCHANGED <<pluginVars, shown, wanted>>
  PROVE  Calm'
<1>0. /\ posts \in Seq(Messages) /\ objects \in Seq(Object)
      /\ (Doomed <=> DestroyIntent \in ToSet(intents))
      /\ running \in BOOLEAN /\ failed \in BOOLEAN
  BY StateIs
<1>1. /\ objects' \in Seq(Object) /\ objects' # <<>> /\ Len(objects') = Len(list)
      /\ ~Last(objects').stopped /\ Last(objects').session = Last(list).session + 1
      /\ Last(list).session \in Nat
      /\ alive' = TRUE /\ ~Doomed /\ restart' = None /\ cores = {}
      /\ StartFails(queue) \/ StartWaits(config, queue) \/ StartWorks(config, queue)
  BY StartMeans
<1>2. UNCHANGED <<payloads, permitted, pending, dialogs>>
  BY DEF pluginVars
<1>3. /\ Told("error") \in Messages /\ Told("error") \in Tolds
      /\ Told("connected") \in Messages /\ Told("connected") \in Tolds
      /\ Told("error") # Told("connected")
      /\ \A m \in Tolds : m.kind = "told"
  BY DEF Told, Messages, Tolds
<1>4. \A m \in ToSet(posts') : m \in ToSet(posts) \/ m.kind = "told"
  <2>1. posts' \in {posts, Append(posts, Told("error")), Append(posts, Told("connected"))}
    BY <1>1 DEF StartFails, StartWaits, StartWorks
  <2>2. /\ ToSet(Append(posts, Told("error"))) = ToSet(posts) \cup {Told("error")}
        /\ ToSet(Append(posts, Told("connected"))) = ToSet(posts) \cup {Told("connected")}
    BY <1>0, <1>3, ToSetIs
  <2> QED
    BY <1>3, <2>1, <2>2
<1>5. ASSUME NEW p \in ToSet(posts'), p.kind = "shutdown"
      PROVE  \/ p.object < Len(objects')
             \/ /\ p.object = Len(objects') /\ p.session < Last(objects').session
                /\ p.session \in Nat
  <2>1. p \in ToSet(posts)
    BY <1>4, <1>5
  <2>2. Last(list).session \in Nat /\ Last(list).session >= Last(list).session
    BY <1>1
  <2>3. /\ p.session \in Nat
        /\ \/ p.object < Len(list)
           \/ p.object = Len(list) /\ p.session <= Last(list).session
    BY <1>5, <2>1, <2>2, EndsLater
  <2> QED
    BY <1>1, <2>3
<1>6. Len(objects') \in Nat /\ Last(objects').session \in Nat
  BY <1>1, LenProperties
<1>7. Earlier' /\ ~Ending'
  <2>1. Earlier'
    BY <1>5, <1>6 DEF Earlier
  <2>2. ASSUME Ending' PROVE FALSE
    <3> DEFINE p == EndOf(Len(objects'), Last(objects').session)
    <3>1. /\ p \in ToSet(posts') /\ p.kind = "shutdown" /\ p.object = Len(objects')
          /\ p.session = Last(objects').session
      BY <2>2 DEF Ending, EndOf
    <3> HIDE DEF p
    <3> QED
      BY <1>5, <1>6, <3>1
  <2> QED
    BY <2>1, <2>2
<1>8. Restarting' /\ Dead' /\ EndingAlone'
  BY <1>1, <1>7 DEF Restarting, Dead, EndingAlone
<1>9. \A m \in ToSet(posts') : m.kind = "result" => m \in ToSet(posts)
  BY <1>4
<1>10. /\ dialogs' \in {0, 1}
       /\ dialogs' = 1 => ~permitted' /\ \A p \in ToSet(posts') : p.kind # "result"
       /\ Granted(FALSE) \in ToSet(posts') => ~permitted'
  BY <1>2, <1>9 DEF Calm, Permission, Granted
<1>13. Sole'
  BY <1>2, <1>9 DEF Calm, Sole, Unasked
<1>11. CASE StartFails(queue)
  <2>1. ~running' /\ failed' /\ takeover' = None /\ cores' = {}
    BY <1>1, <1>11 DEF StartFails
  <2>2. ~Up'
    BY <1>0, <1>3, <1>11, NewsAdded DEF StartFails, Up
  <2>3. /\ Idle(intents') <=> Idle(queue)
        /\ \A w : LastOf(intents', Wishes, w) <=> LastOf(queue, Wishes, w)
    BY <1>11, StopSelfMeans DEF StartFails
  <2>4. OwnCore' /\ Dying' /\ Runs' /\ ShownUp' /\ ShownDown'
    BY <2>1, <2>2 DEF OwnCore, Dying, Runs, ShownUp, ShownDown
  <2>5. Permission'
    BY <1>10, <2>1 DEF Permission, Granted
  <2>6. LastWish' /\ Wished'
    BY <1>2, <2>1, <2>3 DEF Calm, LastWish, Wished, Sent
  <2> QED
    BY <1>7, <1>8, <1>13, <2>4, <2>5, <2>6 DEF Calm
<1>12. CASE StartWaits(config, queue) \/ StartWorks(config, queue)
  <2>0. intents' = queue /\ failed' = failed
    BY <1>12 DEF StartWaits, StartWorks
  <2>1. ~Doomed'
    <3>1. DestroyIntent \notin ToSet(intents')
      BY <1>0, <1>1, <2>0
    <3> QED
      BY <2>0, <3>1, DoomedIs DEF Doomed
  <2>2. Dying'
    BY <2>1 DEF Dying
  <2>3. LastWish'
    BY <1>2, <2>0 DEF Calm, LastWish, Sent
  <2>4. ASSUME StartWaits(config, queue) PROVE Calm'
    <3>1. /\ takeover' # None /\ takeover'.config = config /\ cores' = {}
          /\ running' = running
      BY <1>1, <2>4 DEF StartWaits
    <3>2. OwnCore' /\ Runs' /\ ShownUp' /\ ShownDown'
      BY <3>1 DEF OwnCore, Runs, ShownUp, ShownDown
    <3>3. Permission'
      BY <1>2, <1>10, <3>1 DEF Calm, Permission, Granted
    <3>4. Wished'
      BY <1>2, <2>0, <2>1, <3>1 DEF Wished, Sent
    <3> QED
      BY <1>7, <1>8, <1>13, <2>2, <2>3, <3>2, <3>3, <3>4 DEF Calm
  <2>5. ASSUME StartWorks(config, queue) PROVE Calm'
    <3>1. /\ permitted /\ running' /\ takeover' = None /\ cores' = {controller'}
          /\ controller'.object = Len(objects') /\ controller'.config = config
          /\ controller'.session = Last(objects').session
      BY <1>1, <2>5 DEF StartWorks
    <3>2. Up'
      BY <1>0, <1>3, <2>5, NewsAdded DEF StartWorks, Up
    <3>3. OwnCore' /\ Runs' /\ ShownUp' /\ ShownDown'
      BY <1>1, <3>1, <3>2 DEF OwnCore, Runs, ShownUp, ShownDown
    <3>4. Permission'
      BY <1>2, <1>10, <3>1 DEF Permission, Granted
    <3>5. Wished'
      BY <1>2, <2>0, <2>1, <3>1 DEF Wished, Sent
    <3> QED
      BY <1>7, <1>8, <1>13, <2>2, <2>3, <3>3, <3>4, <3>5 DEF Calm
  <2> QED
    BY <1>12, <2>4, <2>5
<1> QED
  BY <1>1, <1>11, <1>12

\* The delivery of an order, and the two delayed starts.
LEMMA StartsCalm ==
  ASSUME IInv, Calm, Quiet, Quiet',
         StartIntent \/ RestartFires \/ TakeoverFires
  PROVE  Calm'
<1>0. /\ intents \in Seq(Orders) /\ None \notin Configs /\ objects \in Seq(Object)
      /\ restart \in Configs \cup {None} /\ (alive => objects # <<>>)
      /\ ~alive => restart = None /\ takeover = None
      /\ (Doomed <=> DestroyIntent \in ToSet(intents))
  BY StateIs
<1>1. CASE StartIntent
  <2>1. /\ intents # <<>> /\ Head(intents).action = "start"
        /\ StartVpn(Here, Config, 0, Tail(intents), takeover)
        /\ UNCHANGED <<pluginVars, shown, wanted>>
    BY <1>1 DEF StartIntent, Delivered
  <2>2. Config \in Configs /\ Head(intents) \in Wishes
    <3>1. Config \in Configs /\ Head(intents) \in Orders
      BY <2>1, HeadIs DEF IInv, NothingLeft
    <3> QED
      BY <2>1, <3>1 DEF Wishes
  <2>3. Here \in Seq(Object) /\ Here # <<>> /\ (Here = objects \/ Len(Here) = Len(objects) + 1)
    BY HereMeans
  <2>4. /\ Tail(intents) \in Seq(Orders) /\ ToSet(Tail(intents)) \subseteq ToSet(intents)
        /\ \A w \in Wishes : LastOf(Tail(intents), Wishes, w) => LastOf(intents, Wishes, w)
        /\ Idle(Tail(intents)) => LastOf(intents, Wishes, Head(intents))
    BY <1>0, <2>1, <2>2, IntentTaken
  <2>5. Sent /\ Idle(Tail(intents)) =>
          wanted # None /\ (~failed => Config = wanted)
    BY <1>0, <2>2, <2>4 DEF Calm, LastWish, Config
  <2> QED
    BY <2>1, <2>2, <2>3, <2>4, <2>5, StartCalm
<1>2. ASSUME NEW config \in Configs, NEW n \in Nat, NEW later, alive,
             StartVpn(objects, config, n, intents, later),
             Sent /\ Idle(intents) => wanted # None /\ (~failed => config = wanted),
             UNCHANGED <<pluginVars, shown, wanted>>
      PROVE  Calm'
  BY <1>0, <1>2, StartCalm
<1>3. CASE RestartFires
  <2>1. /\ restart \in Configs /\ restart # None /\ alive
        /\ StartVpn(objects, restart, 0, intents, takeover)
        /\ UNCHANGED <<pluginVars, shown, wanted>>
    BY <1>0, <1>3 DEF RestartFires
  <2>2. ~Doomed
    BY <1>0, <2>1, StartMeans
  <2>3. Sent /\ Idle(intents) => wanted # None /\ (~failed => restart = wanted)
    BY <2>1, <2>2 DEF Calm, Restarting, Wished
  <2> QED
    BY <1>2, <2>1, <2>3
<1>4. CASE TakeoverFires
  <2>1. /\ takeover # None /\ alive
        /\ StartVpn(objects, takeover.config, takeover.attempt, intents, None)
        /\ UNCHANGED <<pluginVars, shown, wanted>>
    BY <1>0, <1>4 DEF TakeoverFires
  <2>2. takeover.config \in Configs /\ takeover.attempt \in Nat
    BY <2>1 DEF IInv, NothingLeft, TypeOK
  <2>3. Sent /\ Idle(intents) =>
          wanted # None /\ (~failed => takeover.config = wanted)
    BY <1>0, <2>1 DEF Calm, OwnCore, Restarting, Wished
  <2> QED
    BY <1>2, <2>1, <2>2, <2>3
<1> QED
  BY <1>1, <1>3, <1>4

\* A stop that is of the last wish or of a core that has ended.
LEMMA StopCalm ==
  ASSUME IInv, Calm, Quiet, Quiet',
         NEW queue \in Seq(Orders), NEW messages \in Seq(Messages),
         StopVpn(queue, messages),
         ToSet(messages) \subseteq ToSet(posts),
         \A w \in Wishes : LastOf(queue, Wishes, w) => LastOf(intents, Wishes, w),
         Sent /\ Idle(queue) => wanted = None \/ failed,
         UNCHANGED <<pluginVars, shown, wanted, failed>>
  PROVE  Calm'
<1>0. cores \subseteq {controller} /\ posts \in Seq(Messages) /\ objects \in Seq(Object)
  BY StateIs
<1>1. /\ Here \in Seq(Object) /\ Here # <<>>
      /\ Here = objects \/ Len(Here) = Len(objects) + 1
  BY HereMeans
<1>2. /\ objects' \in Seq(Object) /\ objects' # <<>> /\ Len(objects') = Len(Here)
      /\ Last(objects').stopped /\ Last(objects').session = Last(Here).session
      /\ Last(Here).session \in Nat
  <2> DEFINE o == [Here[Len(Here)] EXCEPT !.stopped = TRUE]
  <2>1. Here[Len(Here)] \in Object
    BY <1>1, EmptySeq, LenProperties, ElementOfSeq
  <2>2. o \in Object /\ o.stopped /\ o.session = Last(Here).session
        /\ Last(Here).session \in Nat
    BY <2>1 DEF Object, Last
  <2>3. objects' = [Here EXCEPT ![Len(Here)] = o]
    BY DEF StopVpn, Marked
  <2> HIDE DEF o
  <2> QED
    BY <1>1, <2>2, <2>3, LastChanged
<1>3. /\ cores' = {} /\ takeover' = None /\ restart' = restart /\ ~running'
      /\ posts' = Append(messages, Told("off")) /\ StopSelf(queue)
  BY <1>0 DEF StopVpn, CloseCore, TellOff
<1>4. /\ Told("off") \in Messages /\ Told("off") \in Tolds
      /\ Told("off") # Told("connected") /\ Told("off").kind = "told"
  BY DEF Told, Messages, Tolds
<1>5. ToSet(posts') = ToSet(messages) \cup {Told("off")} /\ ~Up'
  BY <1>3, <1>4, ToSetIs, NewsAdded DEF Up
<1>6. /\ Doomed' /\ (Idle(intents') <=> Idle(queue))
      /\ \A w : LastOf(intents', Wishes, w) <=> LastOf(queue, Wishes, w)
  BY <1>3, StopSelfMeans
<1>7. OwnCore' /\ Restarting' /\ Dying' /\ Dead' /\ EndingAlone' /\ Runs'
  BY <1>2, <1>3, <1>5, <1>6
     DEF OwnCore, Restarting, Dying, Dead, EndingAlone, Ending, Runs
<1>8. ShownUp' /\ ShownDown'
  BY <1>3, <1>5 DEF ShownUp, ShownDown
<1>9. Permission' /\ Sole'
  BY <1>3, <1>4, <1>5 DEF Calm, Permission, Sole, Unasked, pluginVars, Granted, Told
<1>10. Earlier'
  <2> SUFFICES ASSUME NEW p \in ToSet(posts'), p.kind = "shutdown"
               PROVE  \/ p.object < Len(objects')
                      \/ p.object = Len(objects') /\ p.session <= Last(objects').session
    BY DEF Earlier
  <2>1. p \in ToSet(posts)
    BY <1>4, <1>5
  <2>2. Last(Here).session >= Last(Here).session
    BY <1>2
  <2> QED
    BY <1>1, <1>2, <2>1, <2>2, EndsLater
<1>11. LastWish' /\ Wished'
  BY <1>3, <1>6 DEF Calm, LastWish, Wished, Sent, pluginVars
<1> QED
  BY <1>7, <1>8, <1>9, <1>10, <1>11 DEF Calm

\* The delivery of a stop, and the end of a core that is heard.
LEMMA StopsCalm ==
  ASSUME IInv, Calm, Quiet, Quiet', StopIntent \/ ShutdownPosted
  PROVE  Calm'
<1>0. /\ intents \in Seq(Orders) /\ posts \in Seq(Messages) /\ None \notin Configs
      /\ objects \in Seq(Object)
  BY StateIs
<1>1. CASE StopIntent
  <2>1. /\ intents # <<>> /\ Head(intents).action = "stop"
        /\ StopVpn(Tail(intents), posts)
        /\ UNCHANGED <<pluginVars, shown, wanted, failed>>
    BY <1>1 DEF StopIntent, Delivered, ghosts
  <2>2. Head(intents) \in Wishes /\ Head(intents).config = None
    <3>1. Head(intents) \in Orders
      BY <1>0, <2>1, IntentTaken
    <3> QED
      BY <2>1, <3>1 DEF Wishes, Orders
  <2>3. /\ Tail(intents) \in Seq(Orders)
        /\ \A w \in Wishes : LastOf(Tail(intents), Wishes, w) => LastOf(intents, Wishes, w)
        /\ Idle(Tail(intents)) => LastOf(intents, Wishes, Head(intents))
    BY <1>0, <2>1, <2>2, IntentTaken
  <2>4. Sent /\ Idle(Tail(intents)) => wanted = None \/ failed
    BY <2>2, <2>3 DEF Calm, LastWish
  <2> QED
    BY <1>0, <2>1, <2>3, <2>4, StopCalm
<1>2. CASE ShutdownPosted
  <2> DEFINE p == Head(posts)
  <2>1. /\ posts # <<>> /\ p.kind = "shutdown"
        /\ UNCHANGED <<pluginVars, shown, wanted, failed>>
    BY <1>2 DEF ShutdownPosted
  <2>2. /\ Tail(posts) \in Seq(Messages) /\ p \in Messages
        /\ ToSet(posts) = {p} \cup ToSet(Tail(posts))
    BY <1>0, <2>1, ToSetIs, HeadTailProperties
  <2>3. p = EndOf(p.object, p.session) /\ p \notin Tolds
    BY <2>1, <2>2 DEF EndOf, Messages, Tolds, Told
  <2>4. CASE ~Concerned(p.object, p.session)
    <3>1. posts' = Tail(posts) /\ UNCHANGED <<intents, serviceVars, races>>
      BY <1>2, <2>4 DEF ShutdownPosted
    <3>2. Up' <=> Up
      BY <1>0, <2>1, <2>3, <3>1, NewsHeard DEF Up
    <3>3. Ending => Ending'
      <4> SUFFICES ASSUME Ending, p = EndOf(Len(objects), Last(objects).session)
                   PROVE  FALSE
        BY <2>2, <3>1 DEF Ending, serviceVars
      <4>1. p.object = Len(objects) /\ p.session = Last(objects).session
        BY DEF EndOf
      <4> QED
        BY <2>4, <4>1 DEF Concerned, Ending, Last
    <3>4. /\ Permission' /\ Sole' /\ LastWish' /\ Wished' /\ (Doomed' <=> Doomed)
          /\ payloads' = payloads
      BY <2>1, <2>2, <3>1
         DEF Calm, Permission, Sole, Unasked, LastWish, Wished, Sent, Doomed, pluginVars,
             serviceVars, Granted
    <3> QED
      BY <2>1, <2>2, <3>1, <3>2, <3>3, <3>4, ServiceStays DEF Calm, ShownUp
  <2>5. CASE Concerned(p.object, p.session) /\ alive /\ p.object = Len(objects)
    <3>1. StopVpn(intents, Tail(posts))
      BY <1>2, <2>5 DEF ShutdownPosted
    <3>2. Ending
      <4>1. objects # <<>>
        BY <2>5, StateIs
      <4> QED
        BY <2>2, <2>3, <2>5, <4>1 DEF Ending, Concerned, Last
    <3>3. cores = {} /\ restart = None /\ takeover = None
      BY <3>2 DEF Calm, EndingAlone
    <3>4. Sent /\ Idle(intents) => wanted = None \/ failed
      BY <3>3 DEF Calm, Wished
    <3> QED
      BY <1>0, <2>1, <2>2, <3>1, <3>4, StopCalm
  <2>6. CASE Concerned(p.object, p.session) /\ ~(alive /\ p.object = Len(objects))
    <3>1. Met("haunted", TRUE)
      BY <1>2, <2>6 DEF ShutdownPosted
    <3> QED
      BY <3>1 DEF Met, Note, Quiet
  <2> QED
    BY <2>4, <2>5, <2>6
<1> QED
  BY <1>1, <1>2

\* The delivery of a restart.
LEMMA RestartCalm ==
  ASSUME IInv, Calm, Quiet, Quiet', RestartIntent
  PROVE  Calm'
<1>0. /\ intents \in Seq(Orders) /\ None \notin Configs /\ objects \in Seq(Object)
      /\ cores \subseteq {controller} /\ (Doomed <=> DestroyIntent \in ToSet(intents))
      /\ posts \in Seq(Messages)
  BY StateIs
<1>1. /\ intents # <<>> /\ Head(intents).action = "restart" /\ intents' = Tail(intents)
      /\ alive' = TRUE /\ objects' = Marked(Here, FALSE) /\ cores' = {} /\ ~running'
      /\ takeover' = None /\ restart' = Config
      /\ UNCHANGED <<pluginVars, posts, shown, wanted, failed>>
  BY <1>0 DEF RestartIntent, Delivered, CloseCore
<1>2. ~Doomed /\ \A p \in ToSet(posts) : p.kind # "shutdown"
  BY DEF RestartIntent, Note, Quiet
<1>3. Config \in Configs /\ Head(intents) \in Wishes
  <2>1. Config \in Configs /\ Head(intents) \in Orders
    BY <1>1, HeadIs DEF IInv, NothingLeft
  <2> QED
    BY <1>1, <2>1 DEF Wishes
<1>4. /\ intents' \in Seq(Orders) /\ ToSet(intents') \subseteq ToSet(intents)
      /\ \A w \in Wishes : LastOf(intents', Wishes, w) => LastOf(intents, Wishes, w)
      /\ Idle(intents') => LastOf(intents, Wishes, Head(intents))
  BY <1>0, <1>1, <1>3, IntentTaken
<1>5. ~Doomed'
  BY <1>0, <1>2, <1>4, DoomedIs DEF Doomed
<1>6. ~Last(objects').stopped
  BY <1>1, HereMeans, MarkedIs
<1>7. ~Ending'
  BY <1>1, <1>2 DEF Ending, EndOf
<1>8. OwnCore' /\ Restarting' /\ Dying' /\ Dead' /\ EndingAlone' /\ Runs' /\ Earlier'
  BY <1>1, <1>2, <1>5, <1>6, <1>7
     DEF OwnCore, Restarting, Dying, Dead, EndingAlone, Runs, Earlier
<1>9. ShownUp' /\ ShownDown'
  BY <1>0, <1>1, <1>3 DEF ShownUp, ShownDown
<1>10. Permission' /\ Sole'
  BY <1>1 DEF Calm, Permission, Sole, Unasked, pluginVars, Granted
<1>11. LastWish' /\ Wished'
  <2>1. Sent /\ Idle(intents') => wanted # None /\ (~failed => Config = wanted)
    BY <1>0, <1>3, <1>4 DEF Calm, LastWish, Config
  <2> QED
    BY <1>1, <1>4, <1>5, <2>1 DEF Calm, LastWish, Wished, Sent, pluginVars
<1> QED
  BY <1>8, <1>9, <1>10, <1>11 DEF Calm

\* The destruction finds nothing that runs.
LEMMA DestroyCalm ==
  ASSUME IInv, Calm, Quiet, Quiet', Destroy
  PROVE  Calm'
<1>0. intents \in Seq(Orders) /\ (Doomed <=> DestroyIntent \in ToSet(intents))
  BY StateIs
<1>1. /\ intents # <<>> /\ Head(intents).action = "destroy" /\ intents' = Tail(intents)
      /\ ~alive' /\ ~running' /\ restart' = None /\ takeover' = None
      /\ UNCHANGED <<pluginVars, objects, shown, wanted, failed>>
  BY DEF Destroy, Delivered, ghosts
<1>2. Head(intents) \notin Wishes /\ Head(intents) = DestroyIntent
  <2>1. Head(intents) \in Orders
    BY <1>0, <1>1, IntentTaken
  <2>2. Head(intents) \notin Wishes
    BY <1>1 DEF Wishes
  <2> QED
    BY <2>1, <2>2, OrdersAre
<1>3. /\ intents' \in Seq(Orders) /\ (Idle(intents') <=> Idle(intents)) /\ Doomed
      /\ \A w \in Wishes : LastOf(intents', Wishes, w) => LastOf(intents, Wishes, w)
  BY <1>0, <1>1, <1>2, IntentTaken
<1>4. cores = {} /\ ~Up
  BY <1>3 DEF Calm, Dying
<1>5. cores' = {} /\ posts' = posts
  BY <1>4 DEF Destroy, CloseUnlessStopped, CloseCore
<1>6. ~Up'
  BY <1>1, <1>4, <1>5 DEF Up
<1>7. OwnCore' /\ Restarting' /\ Dying' /\ Dead' /\ EndingAlone' /\ Runs' /\ Earlier'
  BY <1>1, <1>5, <1>6
     DEF Calm, OwnCore, Restarting, Dying, Dead, EndingAlone, Runs, Earlier
<1>8. ShownUp' /\ ShownDown'
  BY <1>1, <1>6 DEF ShownUp, ShownDown
<1>9. Permission' /\ Sole'
  BY <1>1, <1>5 DEF Calm, Permission, Sole, Unasked, pluginVars, Granted
<1>10. LastWish' /\ Wished'
  BY <1>1, <1>3, <1>5 DEF Calm, LastWish, Wished, Sent, pluginVars
<1> QED
  BY <1>7, <1>8, <1>9, <1>10 DEF Calm

\* A core that ends by itself is that of the session the service is in.
LEMMA FaultsCalm ==
  ASSUME IInv, Calm, Quiet, Quiet', Faults
  PROVE  Calm'
<1>0. posts \in Seq(Messages) /\ cores \subseteq {controller} /\ cores \subseteq Core
      /\ objects \in Seq(Object)
  BY StateIs
<1>1. ~Revoke
  BY DEF Revoke, Met, Note, Quiet
<1>2. PICK core \in cores :
        /\ cores' = cores \ {core}
        /\ posts' = IF Concerned(core.object, core.session)
                    THEN Append(posts, Ended(core)) ELSE posts
  BY <1>1 DEF Faults, CoreEnds
<1>3. /\ failed' = TRUE
      /\ UNCHANGED <<pluginVars, intents, alive, objects, controller, restart, takeover,
                     running, shown, wanted, races>>
  BY <1>1 DEF Faults, CoreEnds
<1>4. /\ core = controller /\ cores' = {} /\ running /\ alive
      /\ restart = None /\ takeover = None /\ ~Last(objects).stopped
      /\ core.object = Len(objects) /\ core.session = Last(objects).session
  BY <1>0, <1>2 DEF Calm, OwnCore
<1> DEFINE end == EndOf(Len(objects), Last(objects).session)
<1>5. posts' = Append(posts, end)
  <2>1. Concerned(core.object, core.session)
    BY <1>4 DEF Concerned, Last
  <2> QED
    BY <1>2, <1>4, <2>1 DEF Ended, EndOf
<1>6. /\ end \in Messages /\ end \notin Tolds /\ end.kind = "shutdown"
      /\ end.object = Len(objects) /\ end.session = Last(objects).session
      /\ end.session \in Nat
  <2>1. core.object \in Nat /\ core.session \in Nat
    BY <1>0, LenProperties DEF Core
  <2> QED
    BY <1>4, <2>1 DEF EndOf, Messages, Tolds, Told
<1> HIDE DEF end
<1>7. ToSet(posts') = ToSet(posts) \cup {end} /\ (Up' <=> Up)
  BY <1>0, <1>3, <1>5, <1>6, ToSetIs, NewsAdded DEF Up
<1>8. Ending'
  BY <1>3, <1>4, <1>7, StateIs DEF Ending, end
<1>9. ~Doomed /\ (Doomed' <=> Doomed)
  BY <1>2, <1>3 DEF Calm, Dying, Doomed
<1>10. OwnCore' /\ Restarting' /\ Dying' /\ Dead' /\ EndingAlone' /\ Runs'
  BY <1>3, <1>4, <1>8, <1>9
     DEF Calm, OwnCore, Restarting, Dying, Dead, EndingAlone, Runs
<1>11. Earlier'
  BY <1>3, <1>6, <1>7 DEF Calm, Earlier
<1>12. ShownUp' /\ ShownDown'
  BY <1>3, <1>4, <1>7 DEF Calm, ShownUp, ShownDown, pluginVars
<1>13. Permission' /\ Sole'
  BY <1>3, <1>6, <1>7 DEF Calm, Permission, Sole, Unasked, pluginVars, Granted
<1>14. LastWish' /\ Wished'
  BY <1>3, <1>4 DEF Calm, LastWish, Wished, Sent, pluginVars
<1> QED
  BY <1>10, <1>11, <1>12, <1>13, <1>14 DEF Calm

-----------------------------------------------------------------------------
(* The invariant holds.                                                    *)

\* It holds at the start, ...
LEMMA InitCalm ==
  Init => CalmInv
<1> SUFFICES ASSUME Init PROVE CalmInv
  OBVIOUS
<1>1. /\ intents = <<>> /\ posts = <<>> /\ objects = <<>> /\ cores = {} /\ ~alive
      /\ ~running /\ restart = None /\ takeover = None /\ pending = None /\ dialogs = 0
      /\ payloads = <<>>
      /\ shown = "off" /\ wanted = None
  BY DEF Init
<1>2. ToSet(intents) = {} /\ ToSet(posts) = {} /\ DOMAIN intents = {} /\ DOMAIN posts = {}
  BY <1>1 DEF ToSet
<1>3. ~Up /\ ~Ending
  BY <1>1, <1>2 DEF Up, ShownOn, LastOf, Ending
<1>4. ~Doomed
  BY <1>1 DEF Doomed, Contains
<1>5. OwnCore /\ Restarting /\ Dying /\ Dead /\ Earlier /\ EndingAlone /\ Runs
  BY <1>1, <1>2, <1>3, <1>4
     DEF OwnCore, Restarting, Dying, Dead, Earlier, EndingAlone, Runs
<1>6. Permission /\ Sole /\ ShownUp /\ ShownDown
  BY <1>1, <1>2, <1>3 DEF Permission, Sole, Granted, ShownUp, ShownDown
<1>7. LastWish /\ Wished
  BY <1>1, <1>2 DEF LastWish, LastOf, Wished
<1> QED
  BY <1>5, <1>6, <1>7, InitInv DEF CalmInv, Calm

\* ... and every step keeps it: races that were met stay met.
LEMMA StepCalm ==
  CalmInv /\ [Next]_vars => CalmInv'
<1> SUFFICES ASSUME CalmInv, [Next]_vars, Quiet' PROVE Calm'
  BY StepKeeps DEF CalmInv
<1>1. IInv
  BY DEF CalmInv
<1>2. CASE UNCHANGED vars
  <2>1. Calm
    BY <1>2 DEF CalmInv, vars, ghosts, Quiet
  <2>2. UNCHANGED <<pluginVars, intents, posts, serviceVars, shown, wanted, failed, races>>
    BY <1>2 DEF vars, ghosts
  <2>3. /\ Up' = Up /\ Ending' = Ending /\ Doomed' = Doomed
        /\ Permission' /\ Sole' /\ LastWish' /\ Wished' /\ payloads' = payloads
    BY <2>1, <2>2
       DEF Calm, Up, Ending, Doomed, Permission, Granted, Sole, Unasked, LastWish,
           Wished, Sent, pluginVars, serviceVars
  <2> QED
    BY <2>1, <2>2, <2>3, ServiceStays DEF Calm, ShownUp
<1>3. CASE Next
  <2>1. races \subseteq races'
    BY <1>3 DEF Next, User, App, MainThread, Intents, Posts, Faults, Connect, Reconnect,
       Request, Payload, Unsent, Disconnect, TileStops, Stopping, TileStarts, Answer,
       SeesRunning, GivesUp, SeesStopped, StartIntent, StopIntent, RestartIntent, Destroy, StartVpn,
       ActivityResult, ShutdownPosted, ToldPosted, PermissionPoll, RestartFires,
       TakeoverFires, CoreEnds, Revoke, Met, ghosts
  <2>2. Quiet /\ Calm
    BY <2>1 DEF CalmInv, Quiet
  <2>3. CASE User \/ App
    BY <1>1, <2>2, <2>3, UserCalm, AppCalm
  <2>4. CASE MainThread
    BY <1>1, <2>2, <2>4, StartsCalm, StopsCalm, RestartCalm, DestroyCalm, PermissionCalm,
       ToldCalm DEF MainThread, Intents, Posts
  <2>5. CASE Faults
    BY <1>1, <2>2, <2>5, FaultsCalm
  <2> QED
    BY <1>3, <2>3, <2>4, <2>5 DEF Next
<1> QED
  BY <1>2, <1>3

\* At rest, with nothing delivered, posted or due, the user and the tile see
\* whether a core runs, whatever was asked for, refused, given up or ended before
\* (startVpn, stopVpn and the shutdown callback of XrayVpnService.kt, and what they
\* tell the app), but for the races.  A request that never reaches the plugin
\* (_failConnect of vpn_provider.dart) is one of them: it may leave a core behind an
\* error, and all the same nothing is shown as on that is off.
THEOREM RestIsSeen == Spec => []RestAgrees
<1>1. CalmInv => RestAgrees
  <2> SUFFICES ASSUME CalmInv, Rest, Quiet
               PROVE  /\ running <=> cores # {}
                      /\ shown = "connected" => running
                      /\ races = {} /\ running => shown = "connected"
    BY DEF RestAgrees
  <2>1. /\ Calm /\ intents = <<>> /\ posts = <<>> /\ restart = None /\ takeover = None
        /\ payloads = <<>>
    BY DEF CalmInv, Rest
  <2>2. ToSet(intents) = {} /\ ToSet(posts) = {} /\ DOMAIN posts = {}
    BY <2>1 DEF ToSet
  <2>3. Idle(intents) /\ ~Ending /\ (Up <=> shown = "connected")
    BY <2>2 DEF Idle, Ending, Up, ShownOn, LastOf
  <2> QED
    BY <2>1, <2>3 DEF Calm, OwnCore, Runs, ShownUp, ShownDown
<1> QED
  BY InitCalm, StepCalm, <1>1, PTL DEF Spec

\* At rest what the user asked for last is what runs: a stop has ended every
\* core, and a start or restart that did not fail is of that request, whatever
\* delayed starts, permissions and ends of earlier cores came in between
\* (VpnPlugin.kt, XrayVpnService.kt, VpnTileService.kt), or requests that were not
\* sent, but for the other races.
THEOREM TheLastWishHolds == Spec => []WishHolds
<1>1. CalmInv => WishHolds
  <2> SUFFICES ASSUME CalmInv, Rest, Quiet
               PROVE  /\ wanted = None => cores = {}
                      /\ wanted # None /\ ~failed => {c.config : c \in cores} = {wanted}
    BY DEF WishHolds
  <2>1. /\ Calm /\ intents = <<>> /\ restart = None /\ takeover = None /\ Sent
        /\ cores \subseteq {controller}
    BY StateIs DEF CalmInv, Rest, Sent
  <2>2. Idle(intents)
    BY <2>1 DEF ToSet, Idle
  <2> QED
    BY <2>1, <2>2 DEF Calm, Wished
<1> QED
  BY InitCalm, StepCalm, <1>1, PTL DEF Spec
=============================================================================
