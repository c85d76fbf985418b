-------------------------- MODULE VpnProviderProofs --------------------------
(***************************************************************************)
(* The connection of VpnProvider, for any number of servers, acts of the   *)
(* user, losses and delays: its attempts are bounded, what is switched off *)
(* stays off, and at rest the user sees what runs.                         *)
(***************************************************************************)
EXTENDS VpnProvider, SequenceTheorems, TLAPS

-----------------------------------------------------------------------------
(* Sequences.                                                              *)

\* A sequence without its head.
LEMMA TailIs ==
  ASSUME NEW S, NEW s \in Seq(S), s # <<>>
  PROVE  /\ Len(s) \in Nat \ {0} /\ DOMAIN s = 1..Len(s)
         /\ Head(s) = s[1] /\ s[1] \in S
         /\ Tail(s) \in Seq(S) /\ DOMAIN Tail(s) = 1..(Len(s) - 1)
         /\ \A i \in 1..(Len(s) - 1) : Tail(s)[i] = s[i + 1]
BY EmptySeq, HeadTailProperties, LenProperties

\* That is another sequence.
LEMMA TailNot ==
  ASSUME NEW S, NEW s \in Seq(S), s # <<>>
  PROVE  Tail(s) # s
<1> SUFFICES ASSUME Tail(s) = s PROVE FALSE
  OBVIOUS
<1> DEFINE n == Len(s)
<1>1. n \in Nat /\ Len(Tail(s)) = n - 1
  BY EmptySeq, HeadTailProperties, LenProperties
<1>2. n = n - 1
  BY <1>1
<1> HIDE DEF n
<1> QED
  BY <1>1, <1>2

\* A sequence with one more element.
LEMMA AppendIs ==
  ASSUME NEW S, NEW s \in Seq(S), NEW e \in S
  PROVE  /\ Len(s) \in Nat /\ DOMAIN s = 1..Len(s)
         /\ Append(s, e) \in Seq(S) /\ Append(s, e) # <<>>
         /\ DOMAIN Append(s, e) = 1..(Len(s) + 1)
         /\ \A i \in 1..Len(s) : Append(s, e)[i] = s[i]
         /\ Append(s, e)[Len(s) + 1] = e
BY AppendProperties, LenProperties

\* A sequence without one of its elements.
LEMMA RemoveAtIs ==
  ASSUME NEW S, NEW s \in Seq(S), NEW i \in DOMAIN s
  PROVE  /\ Len(s) \in Nat \ {0} /\ DOMAIN s = 1..Len(s)
         /\ RemoveAt(s, i) \in Seq(S)
         /\ DOMAIN RemoveAt(s, i) = 1..(Len(s) - 1)
         /\ Len(RemoveAt(s, i)) = Len(s) - 1
         /\ \A j \in 1..(Len(s) - 1) :
              RemoveAt(s, i)[j] = IF j < i THEN s[j] ELSE s[j + 1]
<1>1. Len(s) \in Nat /\ DOMAIN s = 1..Len(s) /\ i \in 1..Len(s)
  BY LenProperties
<1> DEFINE before == SubSeq(s, 1, i - 1)
           after == SubSeq(s, i + 1, Len(s))
<1>2. /\ before \in Seq(S) /\ Len(before) = i - 1
      /\ \A j \in 1..(i - 1) : before[j] = s[j]
  BY <1>1, SubSeqProperties
<1>3. /\ after \in Seq(S) /\ Len(after) = Len(s) - i
      /\ \A j \in 1..(Len(s) - i) : after[j] = s[i + j]
  BY <1>1, SubSeqProperties
<1> DEFINE all == before \o after
<1>4. /\ all \in Seq(S) /\ Len(all) = Len(before) + Len(after)
      /\ \A j \in 1..(Len(before) + Len(after)) : all[j] =
           IF j <= Len(before) THEN before[j] ELSE after[j - Len(before)]
  <2> HIDE DEF before, after
  <2>1. before \in Seq(S) /\ after \in Seq(S)
    BY <1>2, <1>3
  <2> QED
    BY <2>1, ConcatProperties, Zenon
<1>5. RemoveAt(s, i) = all
  BY DEF RemoveAt
<1> HIDE DEF before, after, all
<1>6. Len(all) = Len(s) - 1
  BY <1>1, <1>2, <1>3, <1>4
<1>7. ASSUME NEW j \in 1..(Len(s) - 1)
      PROVE  all[j] = IF j < i THEN s[j] ELSE s[j + 1]
  <2>1. j \in Int /\ i \in Int /\ (j < i \/ j >= i)
    BY <1>1, <1>7
  <2>2. CASE j < i
    BY <1>1, <1>2, <1>4, <1>6, <1>7, <2>2
  <2>3. CASE j >= i
    <3>1. j - (i - 1) \in 1..(Len(s) - i) /\ i + (j - (i - 1)) = j + 1
      BY <1>1, <1>7, <2>3
    <3>2. all[j] = after[j - (i - 1)]
      BY <1>1, <1>2, <1>3, <1>4, <1>7, <2>3
    <3>3. after[j - (i - 1)] = s[j + 1]
      BY <1>3, <3>1
    <3> QED
      BY <1>1, <1>7, <2>3, <3>2, <3>3
  <2> QED
    BY <2>1, <2>2, <2>3
<1>8. DOMAIN all = 1..(Len(s) - 1)
  BY <1>4, <1>6, LenProperties
<1>9. Len(s) \in Nat \ {0}
  BY <1>1
<1> QED
  BY <1>1, <1>4, <1>5, <1>6, <1>7, <1>8, <1>9

-----------------------------------------------------------------------------
(* The type.                                                               *)

\* The attempts that await their payload, and the calls.
Waiting == [kind : Attempts, method : {"start"}, server : Servers]
Asked == [kind : Kinds, method : {"start", "disconnect", "status"},
          server : Servers \cup {None}]

\* The parts of the type, by who changes them.
ShownType ==
  /\ status \in {"disconnected", "connecting", "connected", "disconnecting", "error"}
  /\ attempt \in 0..MaxAttempts /\ poll \in 0..Off
FlagType == retry \in BOOLEAN /\ stable \in BOOLEAN /\ off \in BOOLEAN
SwitchType ==
  /\ selected \in Servers /\ queued \in Servers \cup {None}
  /\ drain \in {"idle", "saving", "same", "reconnect", "settle"}
NativeType ==
  /\ payloads \in Seq(Waiting) /\ calls \in Seq(Asked)
  /\ answer \in Posts \cup {NoAnswer} /\ posts \in Seq(Posts)
  /\ running \in Servers \cup {None}
GhostType ==
  /\ actions \in 0..MaxActions /\ losses \in 0..MaxLosses /\ tries \in Nat
  /\ tangled \subseteq Races

\* They make up the type.
LEMMA TypeParts ==
  TypeOK <=> ShownType /\ FlagType /\ SwitchType /\ NativeType /\ GhostType
BY DEF TypeOK, ShownType, FlagType, SwitchType, NativeType, GhostType, Waiting, Asked

\* A call and an attempt that are made fit.
LEMMA CallFits ==
  /\ \A k \in Attempts, s \in Servers : Call(k, "start", s) \in Waiting
  /\ \A k \in Kinds : Call(k, "status", None) \in Asked
  /\ Call("disconnect", "disconnect", None) \in Asked
  /\ Waiting \subseteq Asked
BY DEF Call, Waiting, Asked, Kinds, Attempts

\* So does what a call is answered with, and the news of a loss.
LEMMA ResultFits ==
  /\ \A c \in Asked, r \in {"ok", "down", "error", "permanent"} : Result(c, r) \in Posts
  /\ [kind |-> "lost", method |-> "lost", result |-> "lost"] \in Posts
BY DEF Result, Asked, Posts, Kinds

\* What an attempt may meet are races.
LEMMA RacesFit ==
  Hasty \subseteq Races /\ Doubled \subseteq Races
BY DEF Hasty, Doubled, Races

\* The status and the timers have their type after every step.
LEMMA ShownStep ==
  TypeOK /\ [Next]_vars => ShownType'
<1> SUFFICES ASSUME TypeOK, [Next]_vars PROVE  ShownType'
  OBVIOUS
<1>0. ShownType /\ MaxAttempts \in Nat /\ PollLimit \in Nat
  BY TypeParts, ProviderAssumption DEF ProviderAssumption
<1> USE <1>0 DEF ShownType
<1>1. CASE ToggleOn
  BY <1>1 DEF ToggleOn, Begin, CancelAutoReconnect, timerVars, Off
<1>2. CASE ToggleOff
  BY <1>2 DEF ToggleOff, CancelAutoReconnect, timerVars, Off
<1>3. CASE Reconnect
  BY <1>3 DEF Reconnect, Begin, CancelAutoReconnect, timerVars, Off
<1>4. CASE Resume
  BY <1>4 DEF Resume, timerVars, Off
<1>5. ASSUME NEW s \in Servers, SelectServer(s) PROVE ShownType'
  BY <1>5 DEF SelectServer, StartSwitch, Change, timerVars, Off
<1>6. CASE Saved
  BY <1>6
     DEF Saved, Switchable, Begin, CancelAutoReconnect, NextSwitch, StartSwitch, Change,
         timerVars, Off
<1>7. CASE SwitchSettles
  BY <1>7 DEF SwitchSettles, NextSwitch, StartSwitch, Change, timerVars, Off
<1>8. CASE Retry
  BY <1>8 DEF Retry, timerVars, Off
<1>9. CASE Stable
  BY <1>9 DEF Stable, timerVars, Off
<1>10. CASE Tick
  BY <1>10 DEF Tick, timerVars, Off
<1>11. ASSUME NEW i \in DOMAIN payloads, Payload(i) PROVE ShownType'
  BY <1>11 DEF Payload, timerVars, Off
<1>12. CASE Work
  BY <1>12 DEF Work, timerVars, Off
<1>13. CASE Post
  BY <1>13 DEF Post, timerVars, Off
<1>14. CASE Loss
  BY <1>14 DEF Loss, timerVars, Off
<1>15. CASE Started
  BY <1>15
     DEF Started, FailConnect, CanRetry, Schedule, Counted, CancelAutoReconnect,
         Shown, AttemptEnds, timerVars, Off
<1>16. CASE Confirmed
  BY <1>16
     DEF Confirmed, MarkConnected, KeepAttempts, AttemptEnds, timerVars, Off
<1>17. CASE Ticked
  BY <1>17 DEF Ticked, MarkConnected, KeepAttempts, timerVars, Off
<1>18. CASE Disconnected
  BY <1>18 DEF Disconnected, timerVars, Off
<1>19. CASE Synced
  BY <1>19 DEF Synced, timerVars, Off
<1>20. CASE Initialized
  BY <1>20 DEF Initialized, Begin, CancelAutoReconnect, timerVars, Off
<1>21. CASE CoreStopped
  BY <1>21 DEF CoreStopped, CanRetry, Schedule, Counted, Shown, timerVars, Off
<1>22. CASE UNCHANGED vars
  BY <1>22 DEF vars, timerVars
<1>23. ASSUME NEW i \in DOMAIN payloads, Unbuilt(i) PROVE ShownType'
  BY <1>23 DEF Unbuilt, FailConnect, CanRetry, Schedule, Counted,
         CancelAutoReconnect, Shown, timerVars, Off
<1>24. CASE Fails
  BY <1>24 DEF Fails, timerVars, Off
<1> QED
  BY <1>1, <1>2, <1>3, <1>4, <1>5, <1>6, <1>7, <1>8, <1>9, <1>10, <1>11, <1>12,
     <1>13, <1>14, <1>15, <1>16, <1>17, <1>18, <1>19, <1>20, <1>21, <1>22, <1>23, <1>24
     DEF Next, User, Due, Switch, Native, Reply, Payloads

\* So have the timers that run and what the user wants.
LEMMA FlagStep ==
  TypeOK /\ [Next]_vars => FlagType'
<1> SUFFICES ASSUME TypeOK, [Next]_vars PROVE  FlagType'
  OBVIOUS
<1>0. FlagType
  BY TypeParts
<1> USE <1>0 DEF FlagType
<1>1. CASE ToggleOn
  BY <1>1, Zenon DEF ToggleOn, Begin, CancelAutoReconnect, timerVars, ghosts
<1>2. CASE ToggleOff
  BY <1>2, Zenon DEF ToggleOff, CancelAutoReconnect, timerVars, ghosts
<1>3. CASE Reconnect
  BY <1>3, Zenon DEF Reconnect, Begin, CancelAutoReconnect, timerVars, ghosts
<1>4. CASE Resume
  BY <1>4, Zenon DEF Resume, timerVars, ghosts
<1>5. ASSUME NEW s \in Servers, SelectServer(s) PROVE FlagType'
  BY <1>5, Zenon DEF SelectServer, StartSwitch, Change, timerVars, ghosts
<1>6. CASE Saved
  BY <1>6, Zenon
     DEF Saved, Switchable, Begin, CancelAutoReconnect, NextSwitch, StartSwitch, Change,
         timerVars, ghosts
<1>7. CASE SwitchSettles
  BY <1>7, Zenon
     DEF SwitchSettles, NextSwitch, StartSwitch, Change, timerVars, ghosts
<1>8. CASE Retry
  BY <1>8, Zenon DEF Retry, timerVars, ghosts
<1>9. CASE Stable
  BY <1>9, Zenon DEF Stable, timerVars, ghosts
<1>10. CASE Tick
  BY <1>10, Zenon DEF Tick, timerVars, ghosts
<1>11. ASSUME NEW i \in DOMAIN payloads, Payload(i) PROVE FlagType'
  BY <1>11, Zenon DEF Payload, timerVars, ghosts
<1>12. CASE Work
  BY <1>12, Zenon DEF Work, timerVars, ghosts
<1>13. CASE Post
  BY <1>13, Zenon DEF Post, timerVars, ghosts
<1>14. CASE Loss
  BY <1>14, Zenon DEF Loss, timerVars, ghosts
<1>15. CASE Started
  BY <1>15, Zenon
     DEF Started, FailConnect, CanRetry, Schedule, Counted, CancelAutoReconnect,
         Shown, AttemptEnds, timerVars, ghosts
<1>16. CASE Confirmed
  BY <1>16, Zenon
     DEF Confirmed, MarkConnected, KeepAttempts, AttemptEnds, timerVars, ghosts
<1>17. CASE Ticked
  BY <1>17, Zenon DEF Ticked, MarkConnected, KeepAttempts, timerVars, ghosts
<1>18. CASE Disconnected
  BY <1>18, Zenon DEF Disconnected, timerVars, ghosts
<1>19. CASE Synced
  BY <1>19, Zenon DEF Synced, timerVars, ghosts
<1>20. CASE Initialized
  BY <1>20, Zenon DEF Initialized, Begin, CancelAutoReconnect, timerVars, ghosts
<1>21. CASE CoreStopped
  BY <1>21, Zenon
     DEF CoreStopped, CanRetry, Schedule, Counted, Shown, timerVars, ghosts
<1>22. CASE UNCHANGED vars
  BY <1>22 DEF vars, timerVars, ghosts
<1>23. ASSUME NEW i \in DOMAIN payloads, Unbuilt(i) PROVE FlagType'
  BY <1>23, Zenon DEF Unbuilt, FailConnect, CanRetry, Schedule, Counted,
         CancelAutoReconnect, Shown, timerVars, ghosts
<1>24. CASE Fails
  BY <1>24, Zenon DEF Fails, timerVars, ghosts
<1> QED
  BY <1>1, <1>2, <1>3, <1>4, <1>5, <1>6, <1>7, <1>8, <1>9, <1>10, <1>11, <1>12,
     <1>13, <1>14, <1>15, <1>16, <1>17, <1>18, <1>19, <1>20, <1>21, <1>22, <1>23, <1>24
     DEF Next, User, Due, Switch, Native, Reply, Payloads

\* The queue of switches has its type after every step.
LEMMA SwitchStep ==
  TypeOK /\ [Next]_vars => SwitchType'
<1> SUFFICES ASSUME TypeOK, [Next]_vars PROVE  SwitchType'
  OBVIOUS
<1>0. SwitchType
  BY TypeParts
<1> USE <1>0 DEF SwitchType
<1>1. CASE ToggleOn
  BY <1>1 DEF ToggleOn, switchVars
<1>2. CASE ToggleOff
  BY <1>2 DEF ToggleOff, switchVars
<1>3. CASE Reconnect
  BY <1>3 DEF Reconnect, switchVars
<1>4. CASE Resume
  BY <1>4 DEF Resume, switchVars
<1>5. ASSUME NEW s \in Servers, SelectServer(s) PROVE SwitchType'
  BY <1>5 DEF SelectServer, StartSwitch, Change, switchVars
<1>6. CASE Saved
  BY <1>6 DEF Saved, Switchable, NextSwitch, StartSwitch, Change, switchVars
<1>7. CASE SwitchSettles
  BY <1>7 DEF SwitchSettles, NextSwitch, StartSwitch, Change, switchVars
<1>8. CASE Retry
  BY <1>8 DEF Retry, switchVars
<1>9. CASE Stable
  BY <1>9 DEF Stable, switchVars
<1>10. CASE Tick
  BY <1>10 DEF Tick, switchVars
<1>11. ASSUME NEW i \in DOMAIN payloads, Payload(i) PROVE SwitchType'
  BY <1>11 DEF Payload, switchVars
<1>12. CASE Work
  BY <1>12 DEF Work, switchVars
<1>13. CASE Post
  BY <1>13 DEF Post, switchVars
<1>14. CASE Loss
  BY <1>14 DEF Loss, switchVars
<1>15. CASE Started
  BY <1>15 DEF Started, AttemptEnds, switchVars
<1>16. CASE Confirmed
  BY <1>16 DEF Confirmed, AttemptEnds, switchVars
<1>17. CASE Ticked
  BY <1>17 DEF Ticked, switchVars
<1>18. CASE Disconnected
  BY <1>18 DEF Disconnected, switchVars
<1>19. CASE Synced
  BY <1>19 DEF Synced, switchVars
<1>20. CASE Initialized
  BY <1>20 DEF Initialized, switchVars
<1>21. CASE CoreStopped
  BY <1>21 DEF CoreStopped, switchVars
<1>22. CASE UNCHANGED vars
  BY <1>22 DEF vars, switchVars
<1>23. ASSUME NEW i \in DOMAIN payloads, Unbuilt(i) PROVE SwitchType'
  BY <1>23 DEF Unbuilt, AttemptEnds, switchVars
<1>24. CASE Fails
  BY <1>24 DEF Fails, switchVars
<1> QED
  BY <1>1, <1>2, <1>3, <1>4, <1>5, <1>6, <1>7, <1>8, <1>9, <1>10, <1>11, <1>12,
     <1>13, <1>14, <1>15, <1>16, <1>17, <1>18, <1>19, <1>20, <1>21, <1>22, <1>23, <1>24
     DEF Next, User, Due, Switch, Native, Reply, Payloads

\* The bounds and the history have their type after every step.
LEMMA GhostStep ==
  TypeOK /\ [Next]_vars => GhostType'
<1> SUFFICES ASSUME TypeOK, [Next]_vars PROVE  GhostType'
  OBVIOUS
<1>0. GhostType /\ MaxActions \in Nat /\ MaxLosses \in Nat
  BY TypeParts, ProviderAssumption DEF ProviderAssumption
<1> USE RacesFit
<1> USE <1>0 DEF GhostType
<1>1. CASE ToggleOn
  BY <1>1 DEF ToggleOn, ghosts, bounds, UserActs, Met
<1>2. CASE ToggleOff
  BY <1>2 DEF ToggleOff, ghosts, bounds, UserActs, Met, Races
<1>3. CASE Reconnect
  BY <1>3 DEF Reconnect, ghosts, bounds, UserActs, Met
<1>4. CASE Resume
  BY <1>4 DEF Resume, ghosts, bounds
<1>5. ASSUME NEW s \in Servers, SelectServer(s) PROVE GhostType'
  BY <1>5 DEF SelectServer, ghosts, bounds, UserActs
<1>6. CASE Saved
  <2>1. {"switched"} \subseteq Races /\ {} \subseteq Races
    BY DEF Races
  <2>2. tangled' \subseteq Races
    BY <1>6, <2>1 DEF Saved, Switchable, Met
  <2> QED
    BY <1>6, <2>2 DEF Saved, Switchable, ghosts, bounds
<1>7. CASE SwitchSettles
  BY <1>7 DEF SwitchSettles, ghosts, bounds
<1>8. CASE Retry
  BY <1>8 DEF Retry, ghosts, bounds, Met
<1>9. CASE Stable
  BY <1>9 DEF Stable, ghosts, bounds
<1>10. CASE Tick
  BY <1>10 DEF Tick, ghosts, bounds, Met, Races
<1>11. ASSUME NEW i \in DOMAIN payloads, Payload(i) PROVE GhostType'
  BY <1>11 DEF Payload, ghosts, bounds
<1>12. CASE Work
  BY <1>12 DEF Work, ghosts, bounds
<1>13. CASE Post
  BY <1>13 DEF Post, ghosts, bounds
<1>14. CASE Loss
  BY <1>14 DEF Loss, ghosts, bounds, Met, Races
<1>15. CASE Started
  BY <1>15 DEF Started, ghosts, bounds
<1>16. CASE Confirmed
  BY <1>16 DEF Confirmed, ghosts, bounds
<1>17. CASE Ticked
  BY <1>17 DEF Ticked, ghosts, bounds
<1>18. CASE Disconnected
  BY <1>18 DEF Disconnected, ghosts, bounds
<1>19. CASE Synced
  BY <1>19 DEF Synced, ghosts, bounds
<1>20. CASE Initialized
  BY <1>20 DEF Initialized, ghosts, bounds
<1>21. CASE CoreStopped
  BY <1>21 DEF CoreStopped, ghosts, bounds
<1>22. CASE UNCHANGED vars
  BY <1>22 DEF vars, bounds, ghosts
<1>23. ASSUME NEW i \in DOMAIN payloads, Unbuilt(i) PROVE GhostType'
  <2>1. {"unbuilt"} \subseteq Races /\ {} \subseteq Races
    BY DEF Races, Unknown
  <2> QED
    BY <1>23, <2>1 DEF Unbuilt, bounds, Met
<1>24. CASE Fails
  <2>1. tangled' \subseteq Races
    BY <1>24 DEF Fails, Met, Races, Unknown
  <2> QED
    BY <1>24, <2>1 DEF Fails, ghosts, bounds
<1> QED
  BY <1>1, <1>2, <1>3, <1>4, <1>5, <1>6, <1>7, <1>8, <1>9, <1>10, <1>11, <1>12,
     <1>13, <1>14, <1>15, <1>16, <1>17, <1>18, <1>19, <1>20, <1>21, <1>22, <1>23, <1>24
     DEF Next, User, Due, Switch, Native, Reply, Payloads

\* What is on its way has its type after every step.
LEMMA NativeStep ==
  TypeOK /\ [Next]_vars => NativeType'
<1> SUFFICES ASSUME TypeOK, [Next]_vars PROVE  NativeType'
  OBVIOUS
<1>0. NativeType /\ selected \in Servers
  BY TypeParts DEF SwitchType
<1> USE <1>0 DEF NativeType
<1>1. CASE ToggleOn
  <2>1. CASE payloads' = Append(payloads, Call("connect", "start", selected))
    <3>1. Append(payloads, Call("connect", "start", selected)) \in Seq(Waiting)
      BY <1>0, CallFits, AppendIs DEF Attempts
    <3> QED
      BY <1>1, <2>1, <3>1 DEF ToggleOn, nativeVars
  <2>2. CASE UNCHANGED payloads
    BY <1>1, <2>2 DEF ToggleOn, nativeVars
  <2> QED
    BY <1>1, <2>1, <2>2 DEF ToggleOn, Begin
<1>2. CASE ToggleOff
  <2>1. Append(calls, Call("disconnect", "disconnect", None)) \in Seq(Asked)
    BY <1>0, CallFits, AppendIs DEF Kinds
  <2> QED
    BY <1>2, <2>1 DEF ToggleOff, nativeVars
<1>3. CASE Reconnect
  <2>1. CASE payloads' = Append(payloads, Call("reconnect", "start", selected))
    <3>1. Append(payloads, Call("reconnect", "start", selected)) \in Seq(Waiting)
      BY <1>0, CallFits, AppendIs DEF Attempts
    <3> QED
      BY <1>3, <2>1, <3>1 DEF Reconnect, nativeVars
  <2>2. CASE UNCHANGED payloads
    BY <1>3, <2>2 DEF Reconnect, nativeVars
  <2> QED
    BY <1>3, <2>1, <2>2 DEF Reconnect, Begin
<1>4. CASE Resume
  <2>1. Append(calls, Call("sync", "status", None)) \in Seq(Asked)
    BY <1>0, CallFits, AppendIs DEF Kinds
  <2> QED
    BY <1>4, <2>1 DEF Resume, nativeVars
<1>5. ASSUME NEW s \in Servers, SelectServer(s) PROVE NativeType'
  BY <1>5 DEF SelectServer, nativeVars
<1>6. CASE Saved
  <2>1. CASE payloads' = Append(payloads, Call("switch", "start", selected))
    <3>1. Append(payloads, Call("switch", "start", selected)) \in Seq(Waiting)
      BY <1>0, CallFits, AppendIs DEF Attempts
    <3> QED
      BY <1>6, <2>1, <3>1 DEF Saved, Switchable, nativeVars
  <2>2. CASE UNCHANGED payloads
    BY <1>6, <2>2 DEF Saved, Switchable, nativeVars
  <2> QED
    BY <1>6, <2>1, <2>2 DEF Saved, Switchable, Begin
<1>7. CASE SwitchSettles
  BY <1>7 DEF SwitchSettles, nativeVars
<1>8. CASE Retry
  <2>1. CASE payloads' = Append(payloads, Call("automatic", "start", selected))
    <3>1. Append(payloads, Call("automatic", "start", selected)) \in Seq(Waiting)
      BY <1>0, CallFits, AppendIs DEF Attempts
    <3> QED
      BY <1>8, <2>1, <3>1 DEF Retry, nativeVars
  <2>2. CASE UNCHANGED payloads
    BY <1>8, <2>2 DEF Retry, nativeVars
  <2> QED
    BY <1>8, <2>1, <2>2 DEF Retry, Begin
<1>9. CASE Stable
  BY <1>9 DEF Stable, nativeVars
<1>10. CASE Tick
  <2>1. Append(calls, Call("tick", "status", None)) \in Seq(Asked)
    BY <1>0, CallFits, AppendIs DEF Kinds
  <2> QED
    BY <1>10, <2>1 DEF Tick, nativeVars
<1>11. ASSUME NEW i \in DOMAIN payloads, Payload(i) PROVE NativeType'
  <2>1. RemoveAt(payloads, i) \in Seq(Waiting) /\ payloads[i] \in Asked
    BY <1>0, CallFits, RemoveAtIs
  <2>2. Append(calls, payloads[i]) \in Seq(Asked)
    BY <1>0, <2>1, AppendIs
  <2> QED
    BY <1>11, <2>1, <2>2 DEF Payload
<1>12. CASE Work
  <2>1. Tail(calls) \in Seq(Asked) /\ Head(calls) \in Asked
    BY <1>12, <1>0, TailIs DEF Work
  <2>2. Head(calls).method = "start" => Head(calls).server \in Servers \cup {None}
    BY <2>1 DEF Asked
  <2>3. answer' \in Posts
    BY <1>12, <2>1, ResultFits DEF Work
  <2>4. running' \in Servers \cup {None}
    BY <1>12, <1>0, <2>2 DEF Work
  <2> QED
    BY <1>12, <2>1, <2>3, <2>4 DEF Work
<1>13. CASE Post
  <2>1. Append(posts, answer) \in Seq(Posts)
    BY <1>13, <1>0, AppendIs DEF Post
  <2> QED
    BY <1>13, <2>1 DEF Post
<1>14. CASE Loss
  <2> DEFINE news == [kind |-> "lost", method |-> "lost", result |-> "lost"]
  <2>1. Append(posts, news) \in Seq(Posts)
    BY <1>0, ResultFits, AppendIs
  <2> QED
    BY <1>14, <2>1 DEF Loss
<1>15. CASE Started
  <2>1. Tail(posts) \in Seq(Posts) /\ Head(posts).kind \in Attempts
    BY <1>15, <1>0, TailIs DEF Started, Comes
  <2>2. Append(calls, Call(Head(posts).kind, "status", None)) \in Seq(Asked)
    BY <1>0, <2>1, CallFits, AppendIs DEF Kinds
  <2> QED
    BY <1>15, <2>1, <2>2 DEF Started, Comes
<1>16. CASE Confirmed
  <2>1. Tail(posts) \in Seq(Posts)
    BY <1>16, <1>0, TailIs DEF Confirmed, Comes
  <2> QED
    BY <1>16, <2>1 DEF Confirmed, Comes
<1>17. CASE Ticked
  <2>1. Tail(posts) \in Seq(Posts)
    BY <1>17, <1>0, TailIs DEF Ticked, Comes
  <2> QED
    BY <1>17, <2>1 DEF Ticked, Comes
<1>18. CASE Disconnected
  <2>1. Tail(posts) \in Seq(Posts)
    BY <1>18, <1>0, TailIs DEF Disconnected, Comes
  <2> QED
    BY <1>18, <2>1 DEF Disconnected, Comes
<1>19. CASE Synced
  <2>1. Tail(posts) \in Seq(Posts)
    BY <1>19, <1>0, TailIs DEF Synced, Comes
  <2> QED
    BY <1>19, <2>1 DEF Synced, Comes
<1>20. CASE Initialized
  <2>1. Tail(posts) \in Seq(Posts)
    BY <1>20, <1>0, TailIs DEF Initialized, Comes
  <2>2. Append(payloads, Call("connect", "start", selected)) \in Seq(Waiting)
    BY <1>0, CallFits, AppendIs DEF Attempts
  <2>3. payloads' \in Seq(Waiting)
    BY <1>20, <2>2 DEF Initialized, Begin
  <2> QED
    BY <1>20, <2>1, <2>3 DEF Initialized, Comes
<1>21. CASE CoreStopped
  <2>1. Tail(posts) \in Seq(Posts)
    BY <1>21, <1>0, TailIs DEF CoreStopped, Comes
  <2> QED
    BY <1>21, <2>1 DEF CoreStopped, Comes
<1>22. CASE UNCHANGED vars
  BY <1>22 DEF vars, nativeVars
<1>23. ASSUME NEW i \in DOMAIN payloads, Unbuilt(i) PROVE NativeType'
  <2>1. RemoveAt(payloads, i) \in Seq(Waiting)
    BY RemoveAtIs
  <2> QED
    BY <1>23, <2>1 DEF Unbuilt, nativeVars
<1>24. CASE Fails
  <2>1. Tail(calls) \in Seq(Asked) /\ Head(calls) \in Asked
    BY <1>24, <1>0, TailIs DEF Fails
  <2>2. Head(calls).server \in Servers \cup {None}
    BY <2>1 DEF Asked
  <2>3. answer' \in Posts
    BY <1>24, <2>1, ResultFits DEF Fails
  <2>4. running' \in Servers \cup {None}
    BY <1>24, <1>0, <2>2 DEF Fails
  <2> QED
    BY <1>24, <2>1, <2>3, <2>4 DEF Fails
<1> QED
  BY <1>1, <1>2, <1>3, <1>4, <1>5, <1>6, <1>7, <1>8, <1>9, <1>10, <1>11, <1>12,
     <1>13, <1>14, <1>15, <1>16, <1>17, <1>18, <1>19, <1>20, <1>21, <1>22, <1>23, <1>24
     DEF Next, User, Due, Switch, Native, Reply, Payloads

\* Every step keeps the type.
LEMMA TypeStep ==
  TypeOK /\ [Next]_vars => TypeOK'
<1> SUFFICES ASSUME TypeOK, [Next]_vars
             PROVE  TypeOK'
  OBVIOUS
<1>1. ShownType' /\ FlagType' /\ SwitchType' /\ NativeType' /\ GhostType'
  BY ShownStep, FlagStep, SwitchStep, NativeStep, GhostStep
<1> QED
  BY <1>1 DEF TypeOK, ShownType, FlagType, SwitchType, NativeType, GhostType, Waiting,
             Asked

\* What was met stays met.
LEMMA TangledGrows ==
  ASSUME [Next]_vars
  PROVE  tangled \subseteq tangled'
<1>1. ASSUME NEW races, Met(races) PROVE tangled \subseteq tangled'
  BY <1>1 DEF Met
<1> USE <1>1
<1>2. CASE ToggleOn
  BY <1>2 DEF ToggleOn, ghosts
<1>3. CASE ToggleOff
  BY <1>3 DEF ToggleOff, ghosts
<1>4. CASE Reconnect
  BY <1>4 DEF Reconnect, ghosts
<1>5. CASE Resume
  BY <1>5 DEF Resume, ghosts
<1>6. ASSUME NEW s \in Servers, SelectServer(s) PROVE tangled \subseteq tangled'
  BY <1>6 DEF SelectServer, ghosts
<1>7. CASE Saved
  BY <1>7 DEF Saved, Switchable, ghosts
<1>8. CASE SwitchSettles
  BY <1>8 DEF SwitchSettles, ghosts
<1>9. CASE Retry
  BY <1>9 DEF Retry, ghosts
<1>10. CASE Stable
  BY <1>10 DEF Stable, ghosts
<1>11. CASE Tick
  BY <1>11 DEF Tick, ghosts
<1>12. ASSUME NEW i \in DOMAIN payloads, Payload(i) PROVE tangled \subseteq tangled'
  BY <1>12 DEF Payload, ghosts
<1>13. CASE Work
  BY <1>13 DEF Work, ghosts
<1>14. CASE Post
  BY <1>14 DEF Post, ghosts
<1>15. CASE Loss
  BY <1>15 DEF Loss, ghosts
<1>16. CASE Started
  BY <1>16 DEF Started, ghosts
<1>17. CASE Confirmed
  BY <1>17 DEF Confirmed, ghosts
<1>18. CASE Ticked
  BY <1>18 DEF Ticked, ghosts
<1>19. CASE Disconnected
  BY <1>19 DEF Disconnected, ghosts
<1>20. CASE Synced
  BY <1>20 DEF Synced, ghosts
<1>21. CASE Initialized
  BY <1>21 DEF Initialized, ghosts
<1>22. CASE CoreStopped
  BY <1>22 DEF CoreStopped, ghosts
<1>23. CASE UNCHANGED vars
  BY <1>23 DEF vars, ghosts
<1>24. ASSUME NEW i \in DOMAIN payloads, Unbuilt(i)
       PROVE tangled \subseteq tangled'
  BY <1>24 DEF Unbuilt, Met
<1>25. CASE Fails
  BY <1>25 DEF Fails, Met
<1> QED
  BY <1>2, <1>3, <1>4, <1>5, <1>6, <1>7, <1>8, <1>9, <1>10, <1>11, <1>12, <1>13,
     <1>14, <1>15, <1>16, <1>17, <1>18, <1>19, <1>20, <1>21, <1>22, <1>23, <1>24, <1>25
     DEF Next, User, Due, Switch, Native, Reply, Payloads

-----------------------------------------------------------------------------
(* What is on its way, in its order: calls, the answer, posts.             *)

\* What a sequence holds of some kinds, and whether it holds a start.
Has(s, K) == \E i \in DOMAIN s : s[i].kind \in K
HasStart(s) == \E i \in DOMAIN s : s[i].method = "start"

\* A loss that is told; what of some kinds is asked and not answered.
HasLost == Has(posts, {"lost"})
Pending(K) == Has(calls, K) \/ answer.kind \in K \/ Has(posts, K)

\* What a call's kind says of its method, from the call to the post.
Fits ==
  /\ \A i \in DOMAIN calls :
       /\ calls[i].method = "start" =>
            calls[i].kind \in Attempts /\ calls[i].server # None
       /\ calls[i].kind = "disconnect" <=> calls[i].method = "disconnect"
  /\ answer.method = "start" => answer.kind \in Attempts
  /\ answer.kind # "lost"
  /\ \A i \in DOMAIN posts : posts[i].method = "start" => posts[i].kind \in Attempts

\* When it was said no core ran.
Down(p) == \/ p.kind \in {"lost", "disconnect"}
           \/ p.method \in {"start", "status"} /\ p.result # "ok"

\* No start was worked later than the post that is the i-th.
NoStartAfter(i) ==
  /\ answer.method # "start"
  /\ \A j \in DOMAIN posts : j > i => posts[j].method # "start"

\* No failure has left a core that the app does not know of, and no two attempts
\* were under way.
Known == tangled \cap Unknown = {}
Orderly == "doubled" \notin tangled /\ Known

\* No core runs and none is lost after that, unless one was started.
DownAfter ==
  Known =>
  /\ Down(answer) => running = None
  /\ \A i \in DOMAIN posts : Down(posts[i]) /\ NoStartAfter(i) =>
       /\ running = None
       /\ \A j \in DOMAIN posts : j > i => posts[j].kind # "lost"

\* The first question is answered before everything else, losses apart.
InitFirst ==
  /\ \A i \in DOMAIN posts : posts[i].kind = "init" =>
       \A j \in 1..(i - 1) : posts[j].kind = "lost"
  /\ answer.kind = "init" => \A j \in DOMAIN posts : posts[j].kind = "lost"
  /\ \A i \in DOMAIN calls : calls[i].kind = "init" =>
       i = 1 /\ answer = NoAnswer /\ \A j \in DOMAIN posts : posts[j].kind = "lost"

\* How a step moves the calls and the posts.
MoreCalls ==
  \/ UNCHANGED calls
  \/ \E c \in Asked :
       /\ calls' = Append(calls, c) /\ c.kind # "init"
       /\ c.method = "start" => c.kind \in Attempts /\ c.server # None
       /\ c.kind = "disconnect" <=> c.method = "disconnect"

\* Nothing is heard but calls may be made; or the first post is heard.
Kept == UNCHANGED <<answer, posts, running>> /\ MoreCalls
Heard == /\ posts # <<>> /\ posts' = Tail(posts)
         /\ UNCHANGED <<answer, running>> /\ MoreCalls

\* What a sequence has when an element is appended.
LEMMA HasAppend ==
  ASSUME NEW S, NEW s \in Seq(S), NEW e \in S, NEW K
  PROVE  /\ Has(Append(s, e), K) <=> Has(s, K) \/ e.kind \in K
         /\ HasStart(Append(s, e)) <=> HasStart(s) \/ e.method = "start"
<1> DEFINE t == Append(s, e)
<1>1. /\ Len(s) \in Nat /\ DOMAIN s = 1..Len(s) /\ DOMAIN t = 1..(Len(s) + 1)
      /\ \A i \in 1..Len(s) : t[i] = s[i]
      /\ t[Len(s) + 1] = e
  BY AppendIs
<1> HIDE DEF t
<1>2. Has(t, K) <=> Has(s, K) \/ e.kind \in K
  BY <1>1 DEF Has
<1>3. HasStart(t) <=> HasStart(s) \/ e.method = "start"
  BY <1>1 DEF HasStart
<1> QED
  BY <1>2, <1>3 DEF t

\* What a sequence has when its head is taken.
LEMMA HasTail ==
  ASSUME NEW S, NEW s \in Seq(S), s # <<>>, NEW K
  PROVE  /\ Has(s, K) <=> Head(s).kind \in K \/ Has(Tail(s), K)
         /\ HasStart(s) <=> Head(s).method = "start" \/ HasStart(Tail(s))
<1> DEFINE t == Tail(s)
<1>1. /\ Len(s) \in Nat \ {0} /\ DOMAIN s = 1..Len(s) /\ DOMAIN t = 1..(Len(s) - 1)
      /\ \A i \in 1..(Len(s) - 1) : t[i] = s[i + 1]
      /\ Head(s) = s[1]
  BY TailIs
<1> HIDE DEF t
<1>2. \A i \in DOMAIN s : i = 1 \/ (i - 1 \in DOMAIN t /\ t[i - 1] = s[i])
  BY <1>1
<1>3. \A i \in DOMAIN t : i + 1 \in DOMAIN s /\ t[i] = s[i + 1]
  BY <1>1
<1>4. 1 \in DOMAIN s
  BY <1>1
<1>5. Has(s, K) <=> Head(s).kind \in K \/ Has(t, K)
  BY <1>1, <1>2, <1>3, <1>4 DEF Has
<1>6. HasStart(s) <=> Head(s).method = "start" \/ HasStart(t)
  BY <1>1, <1>2, <1>3, <1>4 DEF HasStart
<1> QED
  BY <1>5, <1>6 DEF t

\* The kinds of what is unanswered.
LEMMA UnansweredIs ==
  ASSUME NEW k
  PROVE  /\ k \in Unanswered <=> Pending({k})
         /\ (k \in Unanswered)' <=> Pending({k})'
BY DEF Unanswered, Pending, Has, ToSet

\* The attempts under way.
LEMMA AttemptingIs ==
  /\ Attempting <=> payloads # <<>> \/ Pending(Attempts)
  /\ Attempting' <=> payloads' # <<>> \/ Pending(Attempts)'
BY DEF Attempting, Unanswered, Pending, Has, ToSet

\* The native side loses nothing: what it takes up stays unanswered.
LEMMA PendingStays ==
  ASSUME TypeOK, NEW K, "none" \notin K, "lost" \notin K, Work \/ Fails \/ Post \/ Loss
  PROVE  Pending(K)' <=> Pending(K)
<1>0. NativeType
  BY TypeParts
<1>1. CASE Work \/ Fails
  <2>1. Has(calls, K) <=> Head(calls).kind \in K \/ Has(Tail(calls), K)
    BY <1>0, <1>1, HasTail DEF NativeType, Work, Fails
  <2>2. answer'.kind = Head(calls).kind /\ calls' = Tail(calls) /\ posts' = posts
    BY <1>1 DEF Work, Fails, Result
  <2>3. answer.kind = "none"
    BY <1>1 DEF Work, Fails, NoAnswer
  <2> QED
    BY <2>1, <2>2, <2>3 DEF Pending
<1>2. CASE Post
  <2>1. Has(Append(posts, answer), K) <=> Has(posts, K) \/ answer.kind \in K
    BY <1>0, <1>2, HasAppend DEF NativeType, Post
  <2>2. answer'.kind = "none" /\ calls' = calls /\ posts' = Append(posts, answer)
    BY <1>2 DEF Post, NoAnswer
  <2> QED
    BY <2>1, <2>2 DEF Pending
<1>3. CASE Loss
  <2> DEFINE news == [kind |-> "lost", method |-> "lost", result |-> "lost"]
  <2>1. Has(Append(posts, news), K) <=> Has(posts, K) \/ news.kind \in K
    BY <1>0, ResultFits, HasAppend DEF NativeType
  <2>2. answer' = answer /\ calls' = calls /\ posts' = Append(posts, news)
    BY <1>3 DEF Loss
  <2> QED
    BY <2>1, <2>2 DEF Pending
<1> QED
  BY <1>1, <1>2, <1>3

\* A call that is made is unanswered.
LEMMA PendingAsked ==
  ASSUME TypeOK, NEW K, NEW c \in Asked, calls' = Append(calls, c),
         UNCHANGED <<answer, posts>>
  PROVE  Pending(K)' <=> Pending(K) \/ c.kind \in K
<1>1. Has(Append(calls, c), K) <=> Has(calls, K) \/ c.kind \in K
  BY TypeParts, HasAppend DEF NativeType
<1> QED
  BY <1>1 DEF Pending

\* A post that is heard is answered.
LEMMA PendingHeard ==
  ASSUME TypeOK, NEW K, posts # <<>>, posts' = Tail(posts), UNCHANGED <<answer, calls>>
  PROVE  Pending(K) <=> Head(posts).kind \in K \/ Pending(K)'
<1>1. Has(posts, K) <=> Head(posts).kind \in K \/ Has(Tail(posts), K)
  BY TypeParts, HasTail DEF NativeType
<1> QED
  BY <1>1 DEF Pending

\* A step hears the first post, or the native side takes a step, or neither;
\* what else it does on the way is to ask.
LEMMA Moves ==
  TypeOK /\ [Next]_vars => Kept \/ Heard \/ Work \/ Fails \/ Post \/ Loss
<1> SUFFICES ASSUME TypeOK, [Next]_vars
             PROVE  Kept \/ Heard \/ Work \/ Fails \/ Post \/ Loss
  OBVIOUS
<1>1. CASE ToggleOn
  BY <1>1 DEF Kept, MoreCalls, ToggleOn, nativeVars
<1>2. CASE ToggleOff
  <2>1. Call("disconnect", "disconnect", None) \in Asked
    BY CallFits DEF Kinds
  <2> QED
    BY <1>2, <2>1 DEF Kept, MoreCalls, ToggleOff, Call
<1>3. CASE Reconnect
  BY <1>3 DEF Kept, MoreCalls, Reconnect, nativeVars
<1>4. CASE Resume
  <2>1. Call("sync", "status", None) \in Asked
    BY CallFits DEF Kinds
  <2> QED
    BY <1>4, <2>1 DEF Kept, MoreCalls, Resume, Call
<1>5. ASSUME NEW s \in Servers, SelectServer(s)
      PROVE  Kept \/ Heard \/ Work \/ Fails \/ Post \/ Loss
  BY <1>5 DEF Kept, MoreCalls, SelectServer, nativeVars
<1>6. CASE Saved
  BY <1>6 DEF Kept, MoreCalls, Saved, Switchable, nativeVars
<1>7. CASE SwitchSettles
  BY <1>7 DEF Kept, MoreCalls, SwitchSettles, nativeVars
<1>8. CASE Retry
  BY <1>8 DEF Kept, MoreCalls, Retry, nativeVars
<1>9. CASE Stable
  BY <1>9 DEF Kept, MoreCalls, Stable, nativeVars
<1>10. CASE Tick
  <2>1. Call("tick", "status", None) \in Asked
    BY CallFits DEF Kinds
  <2>2. CASE UNCHANGED calls
    BY <1>10, <2>2 DEF Kept, MoreCalls, Tick
  <2>3. CASE calls' = Append(calls, Call("tick", "status", None))
    BY <1>10, <2>1, <2>3 DEF Kept, MoreCalls, Tick, Call
  <2> QED
    BY <1>10, <2>2, <2>3 DEF Tick
<1>11. ASSUME NEW i \in DOMAIN payloads, Payload(i)
       PROVE  Kept \/ Heard \/ Work \/ Fails \/ Post \/ Loss
  <2>1. payloads[i] \in Waiting /\ payloads[i] \in Asked
    BY TypeParts, CallFits, RemoveAtIs, ElementOfSeq DEF NativeType
  <2>2. /\ payloads[i].kind \in Attempts /\ payloads[i].kind # "init"
        /\ payloads[i].kind # "disconnect" /\ payloads[i].method = "start"
        /\ payloads[i].server # None
    BY <2>1, ProviderAssumption DEF Waiting, Attempts, ProviderAssumption
  <2> QED
    BY <1>11, <2>1, <2>2 DEF Kept, MoreCalls, Payload
<1>12. CASE Work
  BY <1>12
<1>13. CASE Post
  BY <1>13
<1>14. CASE Loss
  BY <1>14
<1>15. CASE Started
  <2>1. Head(posts).kind \in Attempts /\ Head(posts).kind \in Kinds
    BY <1>15 DEF Started, Comes, Kinds
  <2>2. Call(Head(posts).kind, "status", None) \in Asked
    BY <2>1, CallFits
  <2>3. CASE UNCHANGED calls
    BY <1>15, <2>3 DEF Heard, MoreCalls, Started, Comes
  <2>4. CASE calls' = Append(calls, Call(Head(posts).kind, "status", None))
    <3>1. Head(posts).kind # "init" /\ Head(posts).kind # "disconnect"
      BY <2>1 DEF Attempts
    <3> QED
      BY <1>15, <2>2, <2>4, <3>1 DEF Heard, MoreCalls, Started, Comes, Call
  <2> QED
    BY <1>15, <2>3, <2>4 DEF Started
<1>16. CASE Confirmed
  BY <1>16 DEF Heard, MoreCalls, Confirmed, Comes
<1>17. CASE Ticked
  BY <1>17 DEF Heard, MoreCalls, Ticked, Comes
<1>18. CASE Disconnected
  BY <1>18 DEF Heard, MoreCalls, Disconnected, Comes
<1>19. CASE Synced
  BY <1>19 DEF Heard, MoreCalls, Synced, Comes
<1>20. CASE Initialized
  BY <1>20 DEF Heard, MoreCalls, Initialized, Comes
<1>21. CASE CoreStopped
  BY <1>21 DEF Heard, MoreCalls, CoreStopped, Comes
<1>22. CASE UNCHANGED vars
  BY <1>22 DEF Kept, MoreCalls, vars, nativeVars
<1>23. ASSUME NEW i \in DOMAIN payloads, Unbuilt(i)
       PROVE Kept \/ Heard \/ Work \/ Fails \/ Post \/ Loss
  BY <1>23 DEF Kept, MoreCalls, Unbuilt, nativeVars
<1>24. CASE Fails
  BY <1>24
<1> QED
  BY <1>1, <1>2, <1>3, <1>4, <1>5, <1>6, <1>7, <1>8, <1>9, <1>10, <1>11, <1>12,
     <1>13, <1>14, <1>15, <1>16, <1>17, <1>18, <1>19, <1>20, <1>21, <1>22, <1>23, <1>24
     DEF Next, User, Due, Switch, Native, Reply, Payloads

\* The parts of a post that is answered or lost.
LEMMA ResultIs ==
  ASSUME NEW c, NEW r
  PROVE  Result(c, r).kind = c.kind /\ Result(c, r).method = c.method
         /\ Result(c, r).result = r
BY DEF Result

\* The first post is taken.
LEMMA HeardIs ==
  ASSUME TypeOK, Heard
  PROVE  /\ Len(posts) \in Nat /\ Len(posts) >= 1 /\ DOMAIN posts = 1..Len(posts)
         /\ DOMAIN posts' = 1..(Len(posts) - 1) /\ Head(posts) = posts[1]
         /\ \A i \in DOMAIN posts' : posts'[i] = posts[i + 1]
         /\ UNCHANGED <<answer, running>> /\ MoreCalls
<1>1. posts \in Seq(Posts) /\ posts # <<>>
  BY TypeParts DEF NativeType, Heard
<1>2. /\ Len(posts) \in Nat \ {0} /\ DOMAIN posts = 1..Len(posts)
      /\ DOMAIN Tail(posts) = 1..(Len(posts) - 1) /\ Head(posts) = posts[1]
      /\ \A i \in 1..(Len(posts) - 1) : Tail(posts)[i] = posts[i + 1]
  BY <1>1, TailIs
<1>3. posts' = Tail(posts)
  BY DEF Heard
<1> QED
  BY <1>2, <1>3 DEF Heard

\* The first call is taken.
LEMMA TakenIs ==
  ASSUME TypeOK, calls # <<>>, calls' = Tail(calls)
  PROVE  /\ Len(calls) \in Nat /\ Len(calls) >= 1 /\ DOMAIN calls = 1..Len(calls)
         /\ DOMAIN calls' = 1..(Len(calls) - 1) /\ Head(calls) = calls[1]
         /\ \A i \in DOMAIN calls' : calls'[i] = calls[i + 1]
<1>1. calls \in Seq(Asked)
  BY TypeParts DEF NativeType
<1>2. /\ Len(calls) \in Nat \ {0} /\ DOMAIN calls = 1..Len(calls)
      /\ DOMAIN Tail(calls) = 1..(Len(calls) - 1) /\ Head(calls) = calls[1]
      /\ \A i \in 1..(Len(calls) - 1) : Tail(calls)[i] = calls[i + 1]
  BY <1>1, TailIs
<1> QED
  BY <1>2

\* A call is made.
LEMMA AskedIs ==
  ASSUME TypeOK, NEW c \in Asked, calls' = Append(calls, c)
  PROVE  /\ Len(calls) \in Nat /\ DOMAIN calls = 1..Len(calls)
         /\ DOMAIN calls' = 1..(Len(calls) + 1)
         /\ \A i \in DOMAIN calls : calls'[i] = calls[i]
         /\ calls'[Len(calls) + 1] = c
<1>1. calls \in Seq(Asked)
  BY TypeParts DEF NativeType
<1>2. /\ Len(calls) \in Nat /\ DOMAIN calls = 1..Len(calls)
      /\ DOMAIN Append(calls, c) = 1..(Len(calls) + 1)
      /\ \A i \in 1..Len(calls) : Append(calls, c)[i] = calls[i]
      /\ Append(calls, c)[Len(calls) + 1] = c
  BY <1>1, AppendIs
<1> QED
  BY <1>2

\* A post is added.
LEMMA PostedIs ==
  ASSUME TypeOK, NEW p \in Posts, posts' = Append(posts, p)
  PROVE  /\ Len(posts) \in Nat /\ DOMAIN posts = 1..Len(posts)
         /\ DOMAIN posts' = 1..(Len(posts) + 1)
         /\ \A i \in DOMAIN posts : posts'[i] = posts[i]
         /\ posts'[Len(posts) + 1] = p
<1>1. posts \in Seq(Posts)
  BY TypeParts DEF NativeType
<1>2. /\ Len(posts) \in Nat /\ DOMAIN posts = 1..Len(posts)
      /\ DOMAIN Append(posts, p) = 1..(Len(posts) + 1)
      /\ \A i \in 1..Len(posts) : Append(posts, p)[i] = posts[i]
      /\ Append(posts, p)[Len(posts) + 1] = p
  BY <1>1, AppendIs
<1> QED
  BY <1>2

\* The calls and posts are numbered.
LEMMA Numbered ==
  ASSUME TypeOK
  PROVE  /\ Len(posts) \in Nat /\ DOMAIN posts = 1..Len(posts)
         /\ Len(calls) \in Nat /\ DOMAIN calls = 1..Len(calls)
         /\ \A i \in DOMAIN posts : posts[i] \in Posts
         /\ \A i \in DOMAIN calls : calls[i] \in Asked
<1>1. posts \in Seq(Posts) /\ calls \in Seq(Asked)
  BY TypeParts DEF NativeType
<1> QED
  BY <1>1, LenProperties, ElementOfSeq

\* What the native side makes of the first call.
LEMMA WorkIs ==
  ASSUME TypeOK, Fits, Work
  PROVE  /\ calls # <<>> /\ calls' = Tail(calls) /\ posts' = posts /\ answer = NoAnswer
         /\ Head(calls) = calls[1] /\ 1 \in DOMAIN calls /\ Head(calls) \in Asked
         /\ answer'.kind = Head(calls).kind /\ answer'.method = Head(calls).method
         /\ answer'.method = "start" =>
              /\ running' = IF answer'.result = "ok" THEN Head(calls).server ELSE None
              /\ running' = None <=> answer'.result # "ok"
         /\ answer'.method = "disconnect" => running' = None
         /\ answer'.method = "status" =>
              /\ running' = running
              /\ answer'.result = "ok" <=> running # None
         /\ answer' \in Posts
         /\ answer'.method = "start" => answer'.kind \in Attempts
         /\ answer'.kind = "disconnect" <=> answer'.method = "disconnect"
         /\ answer'.kind # "lost"
<1>0. calls \in Seq(Asked)
  BY TypeParts DEF NativeType
<1>1. /\ calls # <<>> /\ calls' = Tail(calls) /\ posts' = posts /\ answer = NoAnswer
      /\ Head(calls) = calls[1] /\ 1 \in DOMAIN calls /\ Head(calls) \in Asked
  BY <1>0, TailIs DEF Work
<1>2. /\ Head(calls).method = "start" =>
           Head(calls).kind \in Attempts /\ Head(calls).server # None
      /\ Head(calls).kind = "disconnect" <=> Head(calls).method = "disconnect"
      /\ Head(calls).kind # "lost"
  BY <1>1 DEF Fits, Asked, Kinds, Attempts
<1>3. /\ answer'.kind = Head(calls).kind /\ answer'.method = Head(calls).method
      /\ answer'.method = "start" =>
           /\ running' = IF answer'.result = "ok" THEN Head(calls).server ELSE None
           /\ running' = None <=> answer'.result # "ok"
      /\ answer'.method = "disconnect" => running' = None
      /\ answer'.method = "status" =>
           /\ running' = running
           /\ answer'.result = "ok" <=> running # None
  BY <1>2, ResultIs DEF Work
<1>4. answer' \in Posts
  BY <1>1, ResultFits DEF Work
<1> QED
  BY <1>1, <1>2, <1>3, <1>4

\* What a call that fails leaves: the app knows no longer what runs.
LEMMA FailsIs ==
  ASSUME TypeOK, Fits, Fails
  PROVE  /\ calls # <<>> /\ calls' = Tail(calls) /\ posts' = posts /\ answer = NoAnswer
         /\ Head(calls) = calls[1] /\ 1 \in DOMAIN calls /\ Head(calls) \in Asked
         /\ answer'.kind = Head(calls).kind /\ answer'.method = Head(calls).method
         /\ answer'.result = "ok" => answer'.method = "disconnect"
         /\ answer' \in Posts
         /\ answer'.method = "start" => answer'.kind \in Attempts
         /\ answer'.kind = "disconnect" <=> answer'.method = "disconnect"
         /\ answer'.kind # "lost"
         /\ answer'.method = "status" => running # None /\ running' = running
         /\ answer'.method = "disconnect" => "unstopped" \in tangled'
         /\ ~Known'
<1>0. calls \in Seq(Asked)
  BY TypeParts DEF NativeType
<1>1. /\ calls # <<>> /\ calls' = Tail(calls) /\ posts' = posts /\ answer = NoAnswer
      /\ Head(calls) = calls[1] /\ 1 \in DOMAIN calls /\ Head(calls) \in Asked
  BY <1>0, TailIs DEF Fails
<1>2. /\ Head(calls).method = "start" =>
           Head(calls).kind \in Attempts /\ Head(calls).server # None
      /\ Head(calls).kind = "disconnect" <=> Head(calls).method = "disconnect"
      /\ Head(calls).kind # "lost"
  BY <1>1 DEF Fits, Asked, Kinds, Attempts
<1>3. /\ answer'.kind = Head(calls).kind /\ answer'.method = Head(calls).method
      /\ answer'.result = "ok" => answer'.method = "disconnect"
  BY <1>2, ResultIs DEF Fails
<1>4. answer' \in Posts
  BY <1>1, ResultFits DEF Fails
<1>5. ~Known'
  BY DEF Fails, Met, Known, Unknown
<1>6. /\ answer'.method = "status" => running # None /\ running' = running
      /\ answer'.method = "disconnect" => "unstopped" \in tangled'
  BY <1>3 DEF Fails, Met
<1> QED
  BY <1>1, <1>2, <1>3, <1>4, <1>5, <1>6

\* What the app knows it knew before, and what is in order was.
LEMMA OrderlyStays ==
  ASSUME TypeOK, Fits, [Next]_vars
  PROVE  /\ Known' => Known /\ ~Fails
         /\ \A i \in DOMAIN payloads : Known' /\ Unbuilt(i) => running = None
         /\ Orderly' => /\ Orderly /\ Known /\ Known' /\ ~Fails
                        /\ "doubled" \notin tangled'
<1>1. tangled \subseteq tangled' /\ (Fails => ~Known')
  BY TangledGrows, FailsIs
<1>2. \A i \in DOMAIN payloads : Known' /\ Unbuilt(i) => running = None
  BY DEF Unbuilt, Met, Known, Unknown
<1> QED
  BY <1>1, <1>2 DEF Known, Orderly

\* No answer is of no kind.
LEMMA NoAnswerIs ==
  NoAnswer.kind = "none" /\ NoAnswer.method = "none" /\ NoAnswer.result = "none"
BY DEF NoAnswer

\* The news of a loss.
LEMMA LossIs ==
  ASSUME TypeOK, Loss
  PROVE  /\ running # None /\ running' = None /\ UNCHANGED <<calls, answer>>
         /\ DOMAIN posts' = 1..(Len(posts) + 1)
         /\ \A i \in DOMAIN posts : posts'[i] = posts[i]
         /\ posts'[Len(posts) + 1].kind = "lost" /\
              posts'[Len(posts) + 1].method = "lost"
<1> DEFINE news == [kind |-> "lost", method |-> "lost", result |-> "lost"]
<1>1. news \in Posts /\ news.kind = "lost" /\ news.method = "lost"
  BY ResultFits
<1>2. posts' = Append(posts, news)
  BY DEF Loss
<1> HIDE DEF news
<1>3. /\ DOMAIN posts' = 1..(Len(posts) + 1)
      /\ \A i \in DOMAIN posts : posts'[i] = posts[i]
      /\ posts'[Len(posts) + 1] = news
  BY <1>1, <1>2, PostedIs
<1> QED
  BY <1>1, <1>3 DEF Loss

\* An answer that is posted.
LEMMA PostIs ==
  ASSUME TypeOK, Post
  PROVE  /\ answer # NoAnswer /\ answer \in Posts
         /\ answer' = NoAnswer /\ UNCHANGED <<calls, running>>
         /\ DOMAIN posts' = 1..(Len(posts) + 1)
         /\ \A i \in DOMAIN posts : posts'[i] = posts[i]
         /\ posts'[Len(posts) + 1] = answer
<1>1. answer # NoAnswer /\ answer \in Posts
  BY TypeParts DEF Post, NativeType
<1>2. /\ DOMAIN posts' = 1..(Len(posts) + 1)
      /\ \A i \in DOMAIN posts : posts'[i] = posts[i]
      /\ posts'[Len(posts) + 1] = answer
  BY <1>1, PostedIs DEF Post
<1> QED
  BY <1>1, <1>2 DEF Post

\* The kinds fit after every step.
LEMMA FitsStep ==
  ASSUME TypeOK, Fits, [Next]_vars
  PROVE  Fits'
<1>0. /\ Len(posts) \in Nat /\ DOMAIN posts = 1..Len(posts)
      /\ Len(calls) \in Nat /\ DOMAIN calls = 1..Len(calls)
  BY Numbered
<1>a. ASSUME MoreCalls
      PROVE  \A i \in DOMAIN calls' :
               /\ calls'[i].method = "start" =>
                    calls'[i].kind \in Attempts /\ calls'[i].server # None
               /\ calls'[i].kind = "disconnect" <=> calls'[i].method = "disconnect"
  <2>1. CASE UNCHANGED calls
    BY <2>1 DEF Fits
  <2>2. CASE ~UNCHANGED calls
    <3>1. PICK c \in Asked :
            /\ calls' = Append(calls, c)
            /\ c.method = "start" => c.kind \in Attempts /\ c.server # None
            /\ c.kind = "disconnect" <=> c.method = "disconnect"
      BY <1>a, <2>2 DEF MoreCalls
    <3>2. /\ DOMAIN calls' = 1..(Len(calls) + 1)
          /\ \A i \in DOMAIN calls : calls'[i] = calls[i]
          /\ calls'[Len(calls) + 1] = c
      BY <3>1, AskedIs
    <3> QED
      BY <1>0, <3>1, <3>2 DEF Fits
  <2> QED
    BY <2>1, <2>2
<1>1. CASE Kept
  BY <1>1, <1>a DEF Kept, Fits
<1>2. CASE Heard
  <2>1. /\ DOMAIN posts' = 1..(Len(posts) - 1) /\ answer' = answer /\ MoreCalls
        /\ \A i \in DOMAIN posts' : posts'[i] = posts[i + 1]
    BY <1>2, HeardIs
  <2> QED
    BY <1>0, <1>a, <2>1 DEF Fits
<1>3. CASE Work \/ Fails
  <2>1. calls # <<>> /\ calls' = Tail(calls)
    BY <1>3, WorkIs, FailsIs
  <2>2. /\ DOMAIN calls' = 1..(Len(calls) - 1)
        /\ \A i \in DOMAIN calls' : calls'[i] = calls[i + 1]
    BY <2>1, TakenIs
  <2>3. /\ posts' = posts /\ answer'.kind # "lost"
        /\ answer'.method = "start" => answer'.kind \in Attempts
    BY <1>3, WorkIs, FailsIs
  <2> QED
    BY <1>0, <2>2, <2>3 DEF Fits
<1>4. CASE Post
  <2>1. /\ \A i \in DOMAIN posts' : posts'[i].method = "start" =>
             posts'[i].kind \in Attempts
        /\ UNCHANGED calls
    BY <1>0, <1>4, PostIs DEF Fits
  <2>2. answer'.kind = "none" /\ answer'.method = "none"
    BY <1>4, PostIs, NoAnswerIs
  <2> QED
    BY <2>1, <2>2 DEF Fits
<1>5. CASE Loss
  <2>1. /\ \A i \in DOMAIN posts' : posts'[i].method = "start" =>
             posts'[i].kind \in Attempts
        /\ UNCHANGED <<answer, calls>>
    BY <1>0, <1>5, LossIs DEF Fits
  <2> QED
    BY <2>1 DEF Fits
<1> QED
  BY <1>1, <1>2, <1>3, <1>4, <1>5, Moves

\* Nor does a step lose track of when no core ran.
LEMMA DownStep ==
  ASSUME TypeOK, Fits, DownAfter, [Next]_vars
  PROVE  DownAfter'
<1> SUFFICES ASSUME Known' PROVE  DownAfter'
  BY DEF DownAfter
<1>k. Known /\ ~Fails
  BY OrderlyStays
<1>0. /\ Len(posts) \in Nat /\ DOMAIN posts = 1..Len(posts)
      /\ Len(calls) \in Nat /\ DOMAIN calls = 1..Len(calls)
  BY Numbered
<1>1. CASE Kept
  BY <1>k, <1>1 DEF Kept, DownAfter, NoStartAfter, Down
<1>2. CASE Heard
  <2>1. ASSUME NEW i \in DOMAIN posts', Down(posts'[i]), NoStartAfter(i)'
        PROVE  /\ running = None
               /\ \A j \in DOMAIN posts' : j > i => posts'[j].kind # "lost"
    <3>0. /\ DOMAIN posts' = 1..(Len(posts) - 1) /\ UNCHANGED answer
          /\ \A j \in DOMAIN posts' : posts'[j] = posts[j + 1]
      BY <1>2, HeardIs
    <3>1. /\ i + 1 \in DOMAIN posts /\ posts'[i] = posts[i + 1]
          /\ \A j \in DOMAIN posts' : j + 1 \in DOMAIN posts /\ posts'[j] = posts[j + 1]
          /\ \A j \in DOMAIN posts : j > i + 1 =>
               j - 1 \in DOMAIN posts' /\ j - 1 > i /\ posts'[j - 1] = posts[j]
      BY <1>0, <3>0
    <3>2. NoStartAfter(i + 1)
      BY <2>1, <3>0, <3>1 DEF NoStartAfter
    <3>3. /\ running = None
          /\ \A j \in DOMAIN posts : j > i + 1 => posts[j].kind # "lost"
      BY <1>k, <2>1, <3>1, <3>2 DEF DownAfter
    <3> QED
      BY <1>0, <3>0, <3>1, <3>3
  <2> QED
    BY <1>k, <1>2, <2>1 DEF Heard, DownAfter, Down
<1>3. CASE Work
  <2>1. Down(answer)' => running' = None
    BY <1>3, WorkIs DEF Down
  <2>2. ~(answer'.method = "start") => running' = None \/ running' = running
    BY <1>3 DEF Work, Result
  <2>3. posts' = posts /\ answer.method = "none"
    BY <1>3, WorkIs, NoAnswerIs
  <2> QED
    BY <1>k, <2>1, <2>2, <2>3 DEF DownAfter, NoStartAfter, Down
<1>4. CASE Post
  <2>1. answer'.method = "none" /\ answer'.kind = "none" /\ UNCHANGED running
    BY <1>4, PostIs, NoAnswerIs
  <2>2. ASSUME NEW i \in DOMAIN posts', Down(posts'[i]), NoStartAfter(i)'
        PROVE  /\ running = None
               /\ \A j \in DOMAIN posts' : j > i => posts'[j].kind # "lost"
    <3>1. CASE i \in DOMAIN posts
      <4>1. NoStartAfter(i) /\ posts'[i] = posts[i]
        BY <1>0, <1>4, <2>2, <3>1, PostIs DEF NoStartAfter
      <4>2. /\ running = None
            /\ \A j \in DOMAIN posts : j > i => posts[j].kind # "lost"
        BY <1>k, <2>2, <3>1, <4>1 DEF DownAfter
      <4> QED
        BY <1>0, <1>4, <4>2, PostIs DEF Fits
    <3>2. CASE i = Len(posts) + 1
      BY <1>k, <1>0, <1>4, <2>2, <3>2, PostIs DEF DownAfter
    <3> QED
      BY <1>0, <1>4, <2>2, <3>1, <3>2, PostIs
  <2> QED
    BY <1>k, <2>1, <2>2 DEF DownAfter, Down
<1>5. CASE Loss
  <2>1. UNCHANGED answer /\ running' = None /\ running # None
    BY <1>5, LossIs
  <2>2. ASSUME NEW i \in DOMAIN posts', Down(posts'[i]), NoStartAfter(i)'
        PROVE  \A j \in DOMAIN posts' : j > i => posts'[j].kind # "lost"
    <3>1. CASE i \in DOMAIN posts
      <4>1. NoStartAfter(i) /\ posts'[i] = posts[i]
        BY <1>0, <1>5, <2>2, <3>1, LossIs DEF NoStartAfter
      <4> QED
        BY <1>k, <2>1, <2>2, <3>1, <4>1 DEF DownAfter
    <3>2. CASE i = Len(posts) + 1
      BY <1>0, <1>5, <3>2, LossIs
    <3> QED
      BY <1>0, <1>5, <2>2, <3>1, <3>2, LossIs
  <2> QED
    BY <1>k, <2>1, <2>2 DEF DownAfter, Down
<1> QED
  BY <1>1, <1>2, <1>3, <1>4, <1>5, <1>k, Moves

\* Nothing passes the first question.
LEMMA InitFirstStep ==
  ASSUME TypeOK, Fits, InitFirst, [Next]_vars
  PROVE  InitFirst'
<1>0. /\ Len(posts) \in Nat /\ DOMAIN posts = 1..Len(posts)
      /\ Len(calls) \in Nat /\ DOMAIN calls = 1..Len(calls)
  BY Numbered
<1>a. ASSUME MoreCalls
      PROVE  \A i \in DOMAIN calls' : calls'[i].kind = "init" =>
               i \in DOMAIN calls /\ calls[i].kind = "init"
  <2>1. CASE UNCHANGED calls
    BY <2>1
  <2>2. CASE ~UNCHANGED calls
    <3>1. PICK c \in Asked : calls' = Append(calls, c) /\ c.kind # "init"
      BY <1>a, <2>2 DEF MoreCalls
    <3>2. /\ DOMAIN calls' = 1..(Len(calls) + 1)
          /\ \A i \in DOMAIN calls : calls'[i] = calls[i]
          /\ calls'[Len(calls) + 1] = c
      BY <3>1, AskedIs
    <3> QED
      BY <1>0, <3>1, <3>2
  <2> QED
    BY <2>1, <2>2
<1>1. CASE Kept
  <2>1. /\ UNCHANGED <<answer, posts>>
        /\ \A i \in DOMAIN calls' : calls'[i].kind = "init" =>
             i \in DOMAIN calls /\ calls[i].kind = "init"
    BY <1>1, <1>a DEF Kept
  <2> QED
    BY <2>1 DEF InitFirst
<1>2. CASE Heard
  <2>1. /\ UNCHANGED answer
        /\ \A i \in DOMAIN calls' : calls'[i].kind = "init" =>
             i \in DOMAIN calls /\ calls[i].kind = "init"
    BY <1>2, <1>a DEF Heard
  <2>2. \A i \in DOMAIN posts' : i \in 1..(Len(posts) - 1) /\ i + 1 \in DOMAIN posts
                                 /\ posts'[i] = posts[i + 1]
    BY <1>0, <1>2, HeardIs
  <2>3. ASSUME NEW i \in DOMAIN posts', posts'[i].kind = "init", NEW j \in 1..(i - 1)
        PROVE  posts'[j].kind = "lost"
    <3>1. i + 1 \in DOMAIN posts /\ posts[i + 1].kind = "init" /\
            j + 1 \in 1..(i + 1 - 1)
      BY <2>2, <2>3
    <3>2. j \in DOMAIN posts'
      BY <1>0, <1>2, <2>3, HeardIs
    <3> QED
      BY <2>2, <3>1, <3>2 DEF InitFirst
  <2> QED
    BY <2>1, <2>2, <2>3 DEF InitFirst
<1>3. CASE Work \/ Fails
  <2>1. /\ calls # <<>> /\ calls' = Tail(calls) /\ posts' = posts
        /\ answer'.kind = calls[1].kind /\ 1 \in DOMAIN calls
    BY <1>3, WorkIs, FailsIs
  <2>2. \A i \in DOMAIN calls' : calls'[i].kind # "init"
    <3>1. /\ DOMAIN calls' = 1..(Len(calls) - 1)
          /\ \A i \in DOMAIN calls' : calls'[i] = calls[i + 1]
      BY <2>1, TakenIs
    <3>2. \A i \in DOMAIN calls' : i + 1 \in DOMAIN calls /\ i + 1 # 1
      BY <1>0, <3>1
    <3> QED
      BY <3>1, <3>2 DEF InitFirst
  <2> QED
    BY <2>1, <2>2 DEF InitFirst
<1>4. CASE Post
  <2>1. UNCHANGED calls /\ answer' = NoAnswer /\ answer # NoAnswer
    BY <1>4, PostIs
  <2>2. ASSUME NEW i \in DOMAIN posts', posts'[i].kind = "init", NEW j \in 1..(i - 1)
        PROVE  posts'[j].kind = "lost"
    <3>1. CASE i \in DOMAIN posts
      BY <1>0, <1>4, <2>2, <3>1, PostIs DEF InitFirst
    <3>2. CASE i = Len(posts) + 1
      BY <1>0, <1>4, <2>2, <3>2, PostIs DEF InitFirst
    <3> QED
      BY <1>0, <1>4, <2>2, <3>1, <3>2, PostIs
  <2> QED
    BY <2>1, <2>2, NoAnswerIs DEF InitFirst
<1>5. CASE Loss
  <2>1. UNCHANGED <<calls, answer>>
    BY <1>5, LossIs
  <2>2. ASSUME NEW i \in DOMAIN posts', posts'[i].kind = "init", NEW j \in 1..(i - 1)
        PROVE  posts'[j].kind = "lost"
    BY <1>0, <1>5, <2>2, LossIs DEF InitFirst
  <2>3. (\A j \in DOMAIN posts : posts[j].kind = "lost") =>
           \A j \in DOMAIN posts' : posts'[j].kind = "lost"
    BY <1>0, <1>5, LossIs
  <2> QED
    BY <2>1, <2>2, <2>3 DEF InitFirst
<1> QED
  BY <1>1, <1>2, <1>3, <1>4, <1>5, Moves

\* What each action does to what is unanswered.
LEMMA PendingMoves ==
  ASSUME TypeOK, NEW K, "none" \notin K, "lost" \notin K
  PROVE  /\ ToggleOn \/ Reconnect \/ Saved \/ Retry \/ SwitchSettles \/ Stable
              \/ Work \/ Fails \/ Post \/ Loss \/ UNCHANGED vars =>
                (Pending(K)' <=> Pending(K))
         /\ \A s \in Servers : SelectServer(s) => (Pending(K)' <=> Pending(K))
         /\ \A i \in DOMAIN payloads : Unbuilt(i) => (Pending(K)' <=> Pending(K))
         /\ ToggleOff => (Pending(K)' <=> Pending(K) \/ "disconnect" \in K)
         /\ Resume => (Pending(K)' <=> Pending(K) \/ "sync" \in K)
         /\ Tick => /\ Pending(K) => Pending(K)'
                    /\ Pending(K)' => Pending(K) \/ "tick" \in K
         /\ \A i \in DOMAIN payloads : Payload(i) =>
              (Pending(K)' <=> Pending(K) \/ payloads[i].kind \in K)
         /\ Started => IF Answered = "ok"
                       THEN /\ Pending(K)' <=> Pending(K)
                            /\ Head(posts).kind \in K => Pending(K)
                       ELSE Pending(K) <=> Head(posts).kind \in K \/ Pending(K)'
         /\ Confirmed \/ Ticked \/ Disconnected \/ Synced \/ Initialized \/
              CoreStopped =>
              (Pending(K) <=> Head(posts).kind \in K \/ Pending(K)')
<1>1. ASSUME UNCHANGED <<calls, answer, posts>>
      PROVE  Pending(K)' <=> Pending(K)
  BY <1>1 DEF Pending, Has
<1>2. ToggleOn \/ Reconnect \/ Saved \/ Retry \/ SwitchSettles \/ Stable \/
        UNCHANGED vars
        => (Pending(K)' <=> Pending(K))
  BY <1>1 DEF ToggleOn, Reconnect, Saved, Switchable, Retry, SwitchSettles, Stable,
       vars, nativeVars
<1>3. Work \/ Fails \/ Post \/ Loss => (Pending(K)' <=> Pending(K))
  BY PendingStays
<1>4. \A s \in Servers : SelectServer(s) => (Pending(K)' <=> Pending(K))
  BY <1>1 DEF SelectServer, nativeVars
<1>5. ToggleOff => (Pending(K)' <=> Pending(K) \/ "disconnect" \in K)
  <2>1. Call("disconnect", "disconnect", None) \in Asked
    BY CallFits
  <2> QED
    BY <2>1, PendingAsked DEF ToggleOff, Call
<1>6. Resume => (Pending(K)' <=> Pending(K) \/ "sync" \in K)
  <2>1. Call("sync", "status", None) \in Asked
    BY CallFits DEF Kinds
  <2> QED
    BY <2>1, PendingAsked DEF Resume, Call
<1>7. Tick => /\ Pending(K) => Pending(K)'
              /\ Pending(K)' => Pending(K) \/ "tick" \in K
  <2>1. Call("tick", "status", None) \in Asked
    BY CallFits DEF Kinds
  <2> QED
    BY <1>1, <2>1, PendingAsked DEF Tick, Call
<1>8. ASSUME NEW i \in DOMAIN payloads, Payload(i)
      PROVE  Pending(K)' <=> Pending(K) \/ payloads[i].kind \in K
  <2>1. payloads[i] \in Asked
    BY TypeParts, CallFits, ElementOfSeq DEF NativeType
  <2> QED
    BY <1>8, <2>1, PendingAsked DEF Payload
<1>9. ASSUME Started
      PROVE  IF Answered = "ok"
             THEN /\ Pending(K)' <=> Pending(K)
                  /\ Head(posts).kind \in K => Pending(K)
             ELSE Pending(K) <=> Head(posts).kind \in K \/ Pending(K)'
  <2>1. posts # <<>> /\ posts' = Tail(posts) /\ answer' = answer
    BY <1>9 DEF Started, Comes
  <2>2. CASE Answered # "ok"
    BY <1>9, <2>1, <2>2, PendingHeard DEF Started
  <2>3. CASE Answered = "ok"
    <3> DEFINE c == Call(Head(posts).kind, "status", None)
    <3>1. c \in Asked /\ c.kind = Head(posts).kind /\ calls' = Append(calls, c)
      BY <1>9, <2>3, CallFits DEF Started, Comes, Kinds, Call
    <3> HIDE DEF c
    <3>2. Has(calls', K) <=> Has(calls, K) \/ Head(posts).kind \in K
      BY <3>1, TypeParts, HasAppend DEF NativeType
    <3>3. Has(posts, K) <=> Head(posts).kind \in K \/ Has(posts', K)
      BY <2>1, TypeParts, HasTail DEF NativeType
    <3> QED
      BY <2>1, <2>3, <3>2, <3>3 DEF Pending
  <2> QED
    BY <2>2, <2>3
<1>10. Confirmed \/ Ticked \/ Disconnected \/ Synced \/ Initialized \/ CoreStopped =>
              (Pending(K) <=> Head(posts).kind \in K \/ Pending(K)')
  BY PendingHeard DEF Confirmed, Ticked, Disconnected, Synced, Initialized, CoreStopped,
     Comes
<1>11. ASSUME NEW i \in DOMAIN payloads, Unbuilt(i) PROVE Pending(K)' <=> Pending(K)
  BY <1>1, <1>11 DEF Unbuilt, nativeVars
<1> QED
  BY <1>11, <1>2, <1>3, <1>4, <1>5, <1>6, <1>7, <1>8, <1>9, <1>10

\* An answer is heard, and calls are only added.
LEMMA AnswersHeard ==
  ASSUME TypeOK, Started \/ Confirmed \/ Ticked \/ Disconnected \/ Synced \/ Initialized
                   \/ CoreStopped
  PROVE  /\ Heard
         /\ Started \/ Confirmed \/ Ticked \/ Disconnected \/ Synced \/ Initialized =>
              Head(posts).kind # "lost"
<1>1. ASSUME Started PROVE Heard
  <2>2. posts # <<>> /\ posts' = Tail(posts) /\ UNCHANGED <<answer, running>>
    BY <1>1 DEF Started, Comes
  <2>3. CASE UNCHANGED calls
    BY <2>2, <2>3 DEF Heard, MoreCalls
  <2>4. CASE calls' = Append(calls, Call(Head(posts).kind, "status", None))
    <3>1. /\ Call(Head(posts).kind, "status", None) \in Asked
          /\ Head(posts).kind # "init" /\ Head(posts).kind # "disconnect"
      BY <1>1, CallFits DEF Started, Comes, Kinds, Attempts
    <3> QED
      BY <2>2, <2>4, <3>1 DEF Heard, MoreCalls, Call
  <2> QED
    BY <1>1, <2>2, <2>3, <2>4 DEF Started
<1>2. ASSUME Confirmed PROVE Heard
  BY <1>2 DEF Confirmed, Comes, Heard, MoreCalls
<1>3. ASSUME Ticked PROVE Heard
  BY <1>3 DEF Ticked, Comes, Heard, MoreCalls
<1>4. ASSUME Disconnected PROVE Heard
  BY <1>4 DEF Disconnected, Comes, Heard, MoreCalls
<1>5. ASSUME Synced PROVE Heard
  BY <1>5 DEF Synced, Comes, Heard, MoreCalls
<1>6. ASSUME Initialized PROVE Heard
  BY <1>6 DEF Initialized, Comes, Heard, MoreCalls
<1>7. ASSUME CoreStopped PROVE Heard
  BY <1>7 DEF CoreStopped, Comes, Heard, MoreCalls
<1>8. Started \/ Confirmed \/ Ticked \/ Disconnected \/ Synced \/ Initialized =>
        Head(posts).kind # "lost"
  BY DEF Started, Confirmed, Ticked, Disconnected, Synced, Initialized, Comes, Attempts
<1> QED
  BY <1>1, <1>2, <1>3, <1>4, <1>5, <1>6, <1>7, <1>8

\* When an answer is heard the first question is over.
LEMMA InitOver ==
  ASSUME TypeOK, InitFirst, Heard, Head(posts).kind # "lost"
  PROVE  ~Pending({"init"})'
<1>1. /\ Len(posts) \in Nat /\ Len(posts) >= 1 /\ DOMAIN posts = 1..Len(posts)
      /\ DOMAIN posts' = 1..(Len(posts) - 1) /\ Head(posts) = posts[1]
      /\ \A i \in DOMAIN posts' : posts'[i] = posts[i + 1]
      /\ UNCHANGED answer /\ MoreCalls
  BY HeardIs
<1>2. 1 \in DOMAIN posts /\ posts[1].kind # "lost"
  BY <1>1
<1>3. answer.kind # "init" /\ \A i \in DOMAIN calls : calls[i].kind # "init"
  BY <1>2 DEF InitFirst
<1>4. ASSUME NEW i \in DOMAIN posts' PROVE posts'[i].kind # "init"
  <2>1. i + 1 \in DOMAIN posts /\ 1 \in 1..(i + 1 - 1)
    BY <1>1, <1>4
  <2> QED
    BY <1>1, <1>2, <1>4, <2>1 DEF InitFirst
<1>5. ~Has(calls', {"init"})
  <2>1. ~Has(calls, {"init"})
    BY <1>3 DEF Has
  <2>2. CASE ~UNCHANGED calls
    <3>1. PICK c \in Asked : calls' = Append(calls, c) /\ c.kind # "init"
      BY <1>1, <2>2 DEF MoreCalls
    <3> QED
      BY <2>1, <3>1, TypeParts, HasAppend DEF NativeType
  <2> QED
    BY <2>1, <2>2
<1> QED
  BY <1>1, <1>3, <1>4, <1>5 DEF Pending, Has

\* After the word that no core runs, and without an attempt, none does.
LEMMA HeadDown ==
  ASSUME TypeOK, Fits, Known, DownAfter, Heard, Down(Head(posts)), ~Pending(Attempts)'
  PROVE  running = None /\ ~HasLost'
<1>1. /\ Len(posts) \in Nat /\ Len(posts) >= 1 /\ DOMAIN posts = 1..Len(posts)
      /\ DOMAIN posts' = 1..(Len(posts) - 1) /\ Head(posts) = posts[1]
      /\ \A i \in DOMAIN posts' : posts'[i] = posts[i + 1]
      /\ UNCHANGED answer
  BY HeardIs
<1>2. \A j \in DOMAIN posts : j > 1 => j - 1 \in DOMAIN posts' /\
        posts[j] = posts'[j - 1]
  BY <1>1
<1>3. NoStartAfter(1)
  BY <1>1, <1>2 DEF NoStartAfter, Fits, Pending, Has
<1>4. 1 \in DOMAIN posts
  BY <1>1
<1>5. running = None /\ \A j \in DOMAIN posts : j > 1 => posts[j].kind # "lost"
  BY <1>1, <1>3, <1>4 DEF DownAfter
<1>6. \A i \in DOMAIN posts' : i + 1 \in DOMAIN posts /\ i + 1 > 1
  BY <1>1
<1> QED
  BY <1>1, <1>5, <1>6 DEF HasLost, Has

\* What is still to be heard was to be heard before.
LEMMA LostHeard ==
  ASSUME TypeOK, Heard
  PROVE  HasLost' => HasLost
BY TypeParts, HasTail DEF Heard, HasLost, NativeType

\* The posts without a loss stay so, but for a loss.
LEMMA LostKept ==
  ASSUME TypeOK, Fits, [Next]_vars, ~Loss
  PROVE  HasLost' => HasLost
<1>1. CASE Kept
  BY <1>1 DEF Kept, HasLost, Has
<1>2. CASE Work \/ Fails
  BY <1>2 DEF Work, Fails, HasLost, Has
<1>3. CASE Post
  <2>1. answer \in Posts /\ posts' = Append(posts, answer)
    BY <1>3, PostIs DEF Post
  <2>2. Has(Append(posts, answer), {"lost"}) <=> Has(posts, {"lost"}) \/
          answer.kind \in {"lost"}
    BY <2>1, TypeParts, HasAppend DEF NativeType
  <2> QED
    BY <2>1, <2>2 DEF HasLost, Fits
<1> QED
  BY <1>1, <1>2, <1>3, LostHeard, Moves

-----------------------------------------------------------------------------
(* The status, while something is on its way or nothing is.                *)

\* The first question, whether a core runs.
InitUnanswered == Pending({"init"})

\* Before the first answer there is no connection but one in the making.
InitCalm ==
  Orderly /\ InitUnanswered =>
                    /\ status # "connected"
                    /\ status = "connecting" => Attempting
                    /\ status = "disconnected" => ~Attempting

\* While the app is about to try again, no core runs.
Lonely ==
  Orderly /\ status = "connecting" /\ ~Attempting => running = None /\ ~HasLost

\* A timer that will try again has counted the attempt.
Timers == status = "connecting" => ~stable /\ (retry => attempt >= 1)

\* At most one element of these kinds.
Alone(s, K) ==
  \A i, j \in DOMAIN s : s[i].kind \in K /\ s[j].kind \in K => i = j

\* At most one attempt is on its way.
OneAttempt ==
  /\ payloads # <<>> => Len(payloads) = 1 /\ ~Pending(Attempts)
  /\ Has(calls, Attempts) => answer.kind \notin Attempts /\ ~Has(posts, Attempts)
  /\ answer.kind \in Attempts => ~Has(posts, Attempts)
  /\ Alone(calls, Attempts) /\ Alone(posts, Attempts)

\* A start that has not been worked, and those that were.
ToStart == payloads # <<>> \/ HasStart(calls)
StartsWorked ==
  /\ answer.method = "start" => answer.result = "ok"
  /\ \A i \in DOMAIN posts : posts[i].method = "start" => posts[i].result = "ok"

\* Since an automatic attempt, there is no other; while it is to be worked no
\* core runs, and one that is lost afterwards was its own.
Calm ==
  /\ ~InitUnanswered /\ OneAttempt
  /\ ToStart => running = None /\ ~HasLost
  /\ HasLost => running = None /\ StartsWorked /\ Alone(posts, {"lost"})
Unmade == \E i \in DOMAIN payloads : payloads[i].kind = "automatic"
Tried == (tries > 0 \/ Unmade) /\ Orderly => Calm

\* The attempts made, and the one whose timer runs, are counted; or the count
\* was given up, and nothing is left that could begin one.
Counted1 == tries + (IF retry /\ status = "connecting" THEN 1 ELSE 0) <= attempt
Spent ==
  /\ tries <= MaxAttempts /\ status # "connecting" /\ running = None
  /\ ~HasLost /\ ~ToStart /\ StartsWorked
Counting == Orderly => Counted1 \/ Spent

\* What each action does to the attempts under way, and to the first question.
LEMMA AttemptsMove ==
  ASSUME TypeOK
  PROVE  /\ ToggleOff \/ Resume \/ SwitchSettles \/ Stable \/ Tick \/ Work \/ Fails \/
              Post \/ Loss
              \/ (\E s \in Servers : SelectServer(s)) \/ UNCHANGED vars
              => (Attempting' <=> Attempting) /\ (InitUnanswered' <=> InitUnanswered)
         /\ ToggleOn \/ Reconnect => Attempting' /\ (InitUnanswered' <=> InitUnanswered)
         /\ Saved \/ Retry => /\ InitUnanswered' <=> InitUnanswered
                              /\ payloads' # payloads => Attempting'
                              /\ payloads' = payloads => (Attempting' <=> Attempting)
         /\ (\E i \in DOMAIN payloads : Payload(i)) =>
              Attempting /\ Attempting' /\ (InitUnanswered' <=> InitUnanswered)
         /\ (\E i \in DOMAIN payloads : Unbuilt(i)) =>
              Attempting /\ (InitUnanswered' <=> InitUnanswered)
         /\ Started => Attempting /\ (Answered = "ok" => Attempting')
         /\ Confirmed => Attempting
         /\ Started \/ Confirmed => (Attempting' => Attempting)
         /\ Ticked \/ Disconnected \/ Synced \/ CoreStopped =>
             (Attempting' <=> Attempting)
         /\ CoreStopped => (InitUnanswered' <=> InitUnanswered)
         /\ Initialized => (payloads' = payloads => (Attempting' <=> Attempting))
                           /\ (payloads' # payloads => Attempting')
<1> DEFINE A == Attempts
           I == {"init"}
<1>0. /\ "none" \notin A /\ "lost" \notin A /\ "disconnect" \notin A /\ "sync" \notin A
      /\ "tick" \notin A /\ "init" \notin A
      /\ "none" \notin I /\ "lost" \notin I /\ "disconnect" \notin I /\ "sync" \notin I
      /\ "tick" \notin I /\ \A k \in A : k \notin I
  BY DEF Attempts
<1>1. /\ Attempting <=> payloads # <<>> \/ Pending(A)
      /\ Attempting' <=> payloads' # <<>> \/ Pending(A)'
  BY AttemptingIs
<1>2. payloads \in Seq(Waiting) /\ selected \in Servers
  BY TypeParts DEF NativeType, SwitchType
<1>3. \A k \in Attempts : Append(payloads, Call(k, "start", selected)) # <<>>
  BY <1>2, CallFits, AppendIs
<1>4. \A i \in DOMAIN payloads : payloads # <<>> /\ payloads[i].kind \in A
  <2>1. ASSUME NEW i \in DOMAIN payloads
        PROVE  payloads # <<>> /\ payloads[i] \in Waiting
    BY <1>2, <2>1, RemoveAtIs, EmptySeq, ElementOfSeq
  <2> QED
    BY <2>1 DEF Waiting
<1> HIDE DEF A, I
<1>5. ToggleOff \/ Resume \/ SwitchSettles \/ Stable \/ Tick \/ Work \/ Fails
         \/ Post \/ Loss
        \/ (\E s \in Servers : SelectServer(s)) \/ UNCHANGED vars
        => (Attempting' <=> Attempting) /\ (Pending(I)' <=> Pending(I))
  <2>1. ToggleOff \/ Resume \/ SwitchSettles \/ Stable \/ Tick \/ Work \/ Fails
         \/ Post \/ Loss
          \/ (\E s \in Servers : SelectServer(s)) \/ UNCHANGED vars
          => UNCHANGED payloads
    BY DEF ToggleOff, Resume, SwitchSettles, Stable, Tick, Work, Fails, Post, Loss,
           SelectServer, vars
  <2>2. ToggleOff \/ Resume \/ SwitchSettles \/ Stable \/ Tick \/ Work \/ Fails
         \/ Post \/ Loss
          \/ (\E s \in Servers : SelectServer(s)) \/ UNCHANGED vars
          => (Pending(A)' <=> Pending(A)) /\ (Pending(I)' <=> Pending(I))
    BY <1>0, PendingMoves
  <2> QED
    BY <1>1, <2>1, <2>2
<1>6. /\ ToggleOn \/ Reconnect \/ Saved \/ Retry =>
           (Pending(A)' <=> Pending(A)) /\ (Pending(I)' <=> Pending(I))
      /\ Started => IF Answered = "ok" THEN Pending(A)' <=> Pending(A)
                    ELSE Pending(A) <=> Head(posts).kind \in A \/ Pending(A)'
      /\ Started => (Head(posts).kind \in A => Pending(A))
      /\ Confirmed \/ Ticked \/ Disconnected \/ Synced \/ Initialized \/ CoreStopped =>
           (Pending(A) <=> Head(posts).kind \in A \/ Pending(A)')
      /\ CoreStopped => (Pending(I) <=> Head(posts).kind \in I \/ Pending(I)')
  BY <1>0, PendingMoves
<1>7. ToggleOn \/ Reconnect => payloads' # <<>>
  BY <1>3 DEF ToggleOn, Reconnect, Begin, Attempts
<1>8. Saved \/ Retry \/ Initialized => payloads' = payloads \/ payloads' # <<>>
  BY <1>3 DEF Saved, Switchable, Retry, Initialized, Begin, Attempts
<1>9. ASSUME NEW i \in DOMAIN payloads, Payload(i)
      PROVE  Attempting /\ Attempting' /\ (Pending(I)' <=> Pending(I))
  BY <1>0, <1>1, <1>4, <1>9, PendingMoves
<1>10. /\ Started \/ Confirmed => Head(posts).kind \in A /\ UNCHANGED payloads
       /\ Ticked \/ Disconnected \/ Synced \/ CoreStopped => UNCHANGED payloads
       /\ CoreStopped => Head(posts).kind = "lost"
       /\ Ticked => Head(posts).kind = "tick"
       /\ Disconnected => Head(posts).kind = "disconnect"
       /\ Synced => Head(posts).kind = "sync"
       /\ Initialized => Head(posts).kind = "init"
  BY DEF Started, Confirmed, Ticked, Disconnected, Synced, CoreStopped, Initialized,
       Comes, A
<1>11. Started => Attempting /\ (Answered = "ok" => Attempting')
  BY <1>1, <1>6, <1>10
<1>12. /\ Confirmed => Attempting
       /\ Started \/ Confirmed => (Attempting' => Attempting)
       /\ Ticked \/ Disconnected \/ Synced \/ CoreStopped =>
             (Attempting' <=> Attempting)
       /\ CoreStopped => (Pending(I)' <=> Pending(I))
       /\ Initialized => (payloads' = payloads => (Attempting' <=> Attempting))
  BY <1>0, <1>1, <1>6, <1>10
<1>13. /\ ToggleOn \/ Reconnect => Attempting' /\ (Pending(I)' <=> Pending(I))
       /\ Saved \/ Retry => /\ Pending(I)' <=> Pending(I)
                            /\ payloads' # payloads => Attempting'
                            /\ payloads' = payloads => (Attempting' <=> Attempting)
       /\ Initialized => (payloads' # payloads => Attempting')
  BY <1>1, <1>6, <1>7, <1>8
<1>14. ASSUME NEW i \in DOMAIN payloads, Unbuilt(i)
       PROVE  Attempting /\ (Pending(I)' <=> Pending(I))
  BY <1>0, <1>1, <1>4, <1>14, PendingMoves
<1> QED
  BY <1>14, <1>5, <1>9, <1>11, <1>12, <1>13 DEF InitUnanswered, I

\* It stays calm until the first answer.
LEMMA InitCalmStep ==
  TypeOK /\ Fits /\ InitFirst /\ InitCalm /\ Tried /\ [Next]_vars => InitCalm'
<1> SUFFICES ASSUME TypeOK, Fits, InitFirst, InitCalm, Tried, [Next]_vars, Orderly'
             PROVE  InitCalm'
  BY DEF InitCalm
<1>k. Orderly /\ ~Fails
  BY OrderlyStays
<1> USE <1>k DEF InitCalm
<1>1. CASE ToggleOn
  BY <1>1, AttemptsMove DEF ToggleOn, Begin
<1>2. CASE ToggleOff
  BY <1>2 DEF ToggleOff
<1>3. CASE Reconnect
  BY <1>3, AttemptsMove DEF Reconnect
<1>4. CASE Resume
  BY <1>4, AttemptsMove DEF Resume
<1>5. ASSUME NEW s \in Servers, SelectServer(s) PROVE InitCalm'
  BY <1>5, AttemptsMove DEF SelectServer
<1>6. CASE Saved
  <2>1. CASE status = "connected"
    BY <1>6, <2>1, AttemptsMove
  <2>2. CASE status # "connected"
    BY <1>6, <2>2, AttemptsMove DEF Saved, Switchable
  <2> QED
    BY <2>1, <2>2
<1>7. CASE SwitchSettles
  BY <1>7, AttemptsMove DEF SwitchSettles
<1>8. CASE Retry
  <2>1. status' = status
    BY <1>8 DEF Retry
  <2>2. status # "connecting" => payloads' = payloads
    BY <1>8 DEF Retry
  <2> QED
    BY <1>8, <2>1, <2>2, AttemptsMove
<1>9. CASE Stable
  BY <1>9, AttemptsMove DEF Stable
<1>10. CASE Tick
  BY <1>10, AttemptsMove DEF Tick
<1>11. ASSUME NEW i \in DOMAIN payloads, Payload(i) PROVE InitCalm'
  BY <1>11, AttemptsMove DEF Payload
<1>12. CASE Work
  BY <1>12, AttemptsMove DEF Work
<1>13. CASE Post
  BY <1>13, AttemptsMove DEF Post
<1>14. CASE Loss
  BY <1>14, AttemptsMove DEF Loss
<1>15. CASE Started
  BY <1>15, InitOver, AnswersHeard DEF InitCalm, InitUnanswered
<1>16. CASE Confirmed
  BY <1>16, InitOver, AnswersHeard DEF InitCalm, InitUnanswered
<1>17. CASE Ticked
  BY <1>17, InitOver, AnswersHeard DEF InitCalm, InitUnanswered
<1>18. CASE Disconnected
  BY <1>18, InitOver, AnswersHeard DEF InitCalm, InitUnanswered
<1>19. CASE Synced
  BY <1>19, InitOver, AnswersHeard DEF InitCalm, InitUnanswered
<1>20. CASE Initialized
  BY <1>20, InitOver, AnswersHeard DEF InitCalm, InitUnanswered
<1>21. CASE CoreStopped
  <2>1. status' \in {status, "connecting", "error"}
          /\ (status' # status => status \in {"connected", "connecting"} /\
               status' \in {"connecting", "error"})
    BY <1>21 DEF CoreStopped, Concerned, Schedule, Shown
  <2> QED
    BY <1>21, <2>1, AttemptsMove
<1>22. CASE UNCHANGED vars
  <2>1. UNCHANGED status
    BY <1>22 DEF vars
  <2> QED
    BY <1>22, <2>1, AttemptsMove
<1>23. ASSUME NEW i \in DOMAIN payloads, Unbuilt(i) PROVE InitCalm'
  <2>1. CASE payloads[i].kind = "automatic"
    BY <1>23, <2>1, AttemptsMove DEF Tried, Unmade, Calm
  <2>2. CASE payloads[i].kind # "automatic"
    BY <1>23, <2>2 DEF Unbuilt, FailConnect, Shown
  <2> QED
    BY <2>1, <2>2
<1>24. CASE Fails
  BY <1>24
<1> QED
  BY <1>1, <1>2, <1>3, <1>4, <1>5, <1>6, <1>7, <1>8, <1>9, <1>10, <1>11, <1>12,
     <1>13, <1>14, <1>15, <1>16, <1>17, <1>18, <1>19, <1>20, <1>21, <1>22, <1>23, <1>24
     DEF Next, User, Due, Switch, Native, Reply, Payloads

\* An attempt that begins is one more.
LEMMA AppendNot ==
  ASSUME TypeOK, NEW k \in Attempts
  PROVE  Append(payloads, Call(k, "start", selected)) # payloads
<1>1. payloads \in Seq(Waiting) /\ Call(k, "start", selected) \in Waiting
  BY TypeParts, CallFits DEF NativeType, SwitchType
<1>2. /\ Len(Append(payloads, Call(k, "start", selected))) = Len(payloads) + 1
      /\ Len(payloads) \in Nat
  BY <1>1, AppendProperties, LenProperties
<1> QED
  BY <1>2

\* While the app is about to try again, no core is started.
LEMMA LonelyStep ==
  TypeOK /\ Fits /\ DownAfter /\ Lonely /\ Tried /\ [Next]_vars => Lonely'
<1> SUFFICES ASSUME TypeOK, Fits, DownAfter, Lonely, Tried, [Next]_vars, Orderly'
             PROVE  Lonely'
  BY DEF Lonely
<1>k. Orderly /\ Known /\ ~Fails
  BY OrderlyStays
<1> USE <1>k
<1>b. running' = running /\ HasLost' => HasLost
  BY LostKept DEF Loss
<1>c. ASSUME Heard, Down(Head(posts)), running' = running PROVE Lonely'
  BY <1>c, HeadDown, AttemptingIs DEF Lonely
<1> USE DEF Lonely
<1>1. CASE ToggleOn
  BY <1>1, AttemptsMove
<1>2. CASE ToggleOff
  BY <1>2 DEF ToggleOff
<1>3. CASE Reconnect
  BY <1>3, AttemptsMove
<1>4. CASE Resume
  <2>1. status' = status /\ running' = running
    BY <1>4 DEF Resume, nativeVars
  <2> QED
    BY <1>4, <2>1, <1>b, AttemptsMove
<1>5. ASSUME NEW s \in Servers, SelectServer(s) PROVE Lonely'
  <2>1. status' = status /\ running' = running
    BY <1>5 DEF SelectServer, nativeVars
  <2> QED
    BY <1>5, <2>1, <1>b, AttemptsMove
<1>6. CASE Saved
  <2>1. CASE payloads' # payloads
    BY <1>6, <2>1, AttemptsMove
  <2>2. CASE payloads' = payloads
    <3>1. Append(payloads, Call("switch", "start", selected)) # payloads
      BY AppendNot DEF Attempts
    <3>2. status' = status /\ running' = running
      BY <1>6, <2>2, <3>1 DEF Saved, Switchable, Begin, nativeVars
    <3> QED
      BY <1>6, <2>2, <3>2, <1>b, AttemptsMove
  <2> QED
    BY <2>1, <2>2
<1>7. CASE SwitchSettles
  <2>1. status' = status /\ running' = running
    BY <1>7 DEF SwitchSettles, nativeVars
  <2> QED
    BY <1>7, <2>1, <1>b, AttemptsMove
<1>8. CASE Retry
  <2>1. status' = status /\ running' = running
    BY <1>8 DEF Retry, nativeVars
  <2> QED
    BY <1>8, <2>1, <1>b, AttemptsMove, AppendNot DEF Retry, Attempts
<1>9. CASE Stable
  <2>1. status' = status /\ running' = running
    BY <1>9 DEF Stable, nativeVars
  <2> QED
    BY <1>9, <2>1, <1>b, AttemptsMove
<1>10. CASE Tick
  <2>1. (status' = "connecting" => status' = status) /\ running' = running
    BY <1>10 DEF Tick
  <2> QED
    BY <1>10, <2>1, <1>b, AttemptsMove
<1>11. ASSUME NEW i \in DOMAIN payloads, Payload(i) PROVE Lonely'
  BY <1>11, AttemptsMove
<1>12. CASE Work
  <2>1. status' = status
    BY <1>12 DEF Work
  <2>2. ASSUME ~Attempting PROVE Head(calls).method # "start"
    BY <1>12, <2>2, AttemptingIs, WorkIs DEF Pending, Has, Fits
  <2>3. ASSUME ~Attempting, running = None PROVE running' = None
    BY <1>12, <2>2, <2>3, ResultIs DEF Work
  <2>4. HasLost' => HasLost
    BY <1>12 DEF Work, HasLost, Has
  <2> QED
    BY <1>12, <2>1, <2>3, <2>4, AttemptsMove
<1>13. CASE Post
  <2>1. status' = status /\ running' = running
    BY <1>13 DEF Post, nativeVars
  <2> QED
    BY <1>13, <2>1, <1>b, AttemptsMove
<1>14. CASE Loss
  <2>1. status' = status /\ running # None
    BY <1>14 DEF Loss
  <2> QED
    BY <1>14, <2>1, AttemptsMove
<1>15. CASE Started
  <2>1. CASE Answered = "ok"
    BY <1>15, <2>1, AttemptsMove
  <2>2. CASE Answered # "ok"
    <3>1. Heard /\ Down(Head(posts)) /\ running' = running
      BY <1>15, <2>2, AnswersHeard DEF Started, Comes, Answered, Down
    <3> QED
      BY <3>1, <1>c
  <2> QED
    BY <2>1, <2>2
<1>16. CASE Confirmed
  <2>1. Heard /\ running' = running
    BY <1>16, AnswersHeard DEF Confirmed
  <2>2. CASE Answered = "ok" /\ status = "connecting"
    BY <1>16, <2>2 DEF Confirmed, MarkConnected
  <2>3. CASE Answered # "ok"
    <3>1. Down(Head(posts))
      BY <1>16, <2>3 DEF Confirmed, Comes, Answered, Down
    <3> QED
      BY <2>1, <3>1, <1>c
  <2>4. CASE status # "connecting"
    BY <1>16, <2>4 DEF Confirmed
  <2> QED
    BY <2>2, <2>3, <2>4
<1>17. CASE Ticked
  <2>1. (status' = "connecting" => status' = status) /\ running' = running
    BY <1>17 DEF Ticked, MarkConnected
  <2> QED
    BY <1>17, <2>1, <1>b, AttemptsMove
<1>18. CASE Disconnected
  <2>1. (status' = "connecting" => status' = status) /\ running' = running
    BY <1>18 DEF Disconnected
  <2> QED
    BY <1>18, <2>1, <1>b, AttemptsMove
<1>19. CASE Synced
  <2>1. (status' = "connecting" => status' = status) /\ running' = running
    BY <1>19 DEF Synced
  <2> QED
    BY <1>19, <2>1, <1>b, AttemptsMove
<1>20. CASE Initialized
  <2>1. running' = running /\ (status' = "connecting" =>
          status' = status \/ Begin("connect"))
    BY <1>20 DEF Initialized
  <2>2. CASE payloads' # payloads
    BY <1>20, <2>2, AttemptsMove
  <2>3. CASE payloads' = payloads
    <3>1. ~Begin("connect")
      BY <2>3, AppendNot DEF Begin, Attempts
    <3> QED
      BY <1>20, <2>1, <2>3, <3>1, <1>b, AttemptsMove
  <2> QED
    BY <2>2, <2>3
<1>21. CASE CoreStopped
  <2>1. Heard /\ Down(Head(posts)) /\ running' = running
    BY <1>21, AnswersHeard DEF CoreStopped, Comes, Down
  <2> QED
    BY <2>1, <1>c
<1>22. CASE UNCHANGED vars
  <2>1. status' = status /\ running' = running
    BY <1>22 DEF vars, nativeVars
  <2> QED
    BY <1>22, <2>1, <1>b, AttemptsMove
<1>23. ASSUME NEW i \in DOMAIN payloads, Unbuilt(i) PROVE Lonely'
  <2>1. payloads # <<>> /\ UNCHANGED <<posts, running>>
    BY <1>23, TypeParts, RemoveAtIs, EmptySeq DEF NativeType, Unbuilt, nativeVars
  <2>2. CASE payloads[i].kind = "automatic"
    BY <1>23, <2>1, <2>2 DEF Tried, Unmade, Calm, ToStart, HasLost, Has
  <2>3. CASE payloads[i].kind # "automatic"
    BY <1>23, <2>3 DEF Unbuilt, FailConnect, Shown
  <2> QED
    BY <2>2, <2>3
<1>24. CASE Fails
  BY <1>24
<1> QED
  BY <1>1, <1>2, <1>3, <1>4, <1>5, <1>6, <1>7, <1>8, <1>9, <1>10, <1>11, <1>12,
     <1>13, <1>14, <1>15, <1>16, <1>17, <1>18, <1>19, <1>20, <1>21, <1>22, <1>23, <1>24
     DEF Next, User, Due, Switch, Native, Reply, Payloads

\* A timer that will try again has counted, whatever happens.
LEMMA TimersStep ==
  TypeOK /\ Timers /\ [Next]_vars => Timers'
<1> SUFFICES ASSUME TypeOK, Timers,
                    [Next]_vars
             PROVE  Timers'
  OBVIOUS
<1>0. attempt \in Nat
  BY TypeParts, ProviderAssumption DEF ShownType, ProviderAssumption
<1> USE <1>0 DEF Timers
<1>1. CASE ToggleOn
  BY <1>1 DEF ToggleOn, Begin, CancelAutoReconnect, timerVars
<1>2. CASE ToggleOff
  BY <1>2 DEF ToggleOff, CancelAutoReconnect, timerVars
<1>3. CASE Reconnect
  BY <1>3 DEF Reconnect, Begin, CancelAutoReconnect, timerVars
<1>4. CASE Resume
  BY <1>4 DEF Resume, timerVars
<1>5. ASSUME NEW s \in Servers, SelectServer(s) PROVE Timers'
  BY <1>5 DEF SelectServer, StartSwitch, Change, timerVars
<1>6. CASE Saved
  BY <1>6
     DEF Saved, Switchable, Begin, CancelAutoReconnect, NextSwitch, StartSwitch, Change,
         timerVars
<1>7. CASE SwitchSettles
  BY <1>7 DEF SwitchSettles, NextSwitch, StartSwitch, Change, timerVars
<1>8. CASE Retry
  BY <1>8 DEF Retry, timerVars
<1>9. CASE Stable
  BY <1>9 DEF Stable, timerVars
<1>10. CASE Tick
  BY <1>10 DEF Tick, timerVars
<1>11. ASSUME NEW i \in DOMAIN payloads, Payload(i) PROVE Timers'
  BY <1>11 DEF Payload, timerVars
<1>12. CASE Work
  BY <1>12 DEF Work, timerVars
<1>13. CASE Post
  BY <1>13 DEF Post, timerVars
<1>14. CASE Loss
  BY <1>14 DEF Loss, timerVars
<1>15. CASE Started
  BY <1>15
     DEF Started, FailConnect, CanRetry, Schedule, Counted, CancelAutoReconnect,
         Shown, AttemptEnds, timerVars
<1>16. CASE Confirmed
  BY <1>16 DEF Confirmed, MarkConnected, KeepAttempts, AttemptEnds, timerVars
<1>17. CASE Ticked
  BY <1>17 DEF Ticked, MarkConnected, KeepAttempts, timerVars
<1>18. CASE Disconnected
  BY <1>18 DEF Disconnected, timerVars
<1>19. CASE Synced
  BY <1>19 DEF Synced, timerVars
<1>20. CASE Initialized
  BY <1>20 DEF Initialized, Begin, CancelAutoReconnect, timerVars
<1>21. CASE CoreStopped
  BY <1>21 DEF CoreStopped, CanRetry, Schedule, Counted, Shown, timerVars
<1>22. CASE UNCHANGED vars
  BY <1>22 DEF vars, timerVars
<1>23. ASSUME NEW i \in DOMAIN payloads, Unbuilt(i) PROVE Timers'
  BY <1>23 DEF Unbuilt, FailConnect, CanRetry, Schedule, Counted,
         CancelAutoReconnect, Shown, timerVars
<1>24. CASE Fails
  BY <1>24 DEF Fails, timerVars
<1> QED
  BY <1>1, <1>2, <1>3, <1>4, <1>5, <1>6, <1>7, <1>8, <1>9, <1>10, <1>11, <1>12,
     <1>13, <1>14, <1>15, <1>16, <1>17, <1>18, <1>19, <1>20, <1>21, <1>22, <1>23, <1>24
     DEF Next, User, Due, Switch, Native, Reply, Payloads

-----------------------------------------------------------------------------
(* The attempts are counted.                                               *)

\* One element of its kind stays the only one.
LEMMA AloneAppend ==
  ASSUME NEW S, NEW s \in Seq(S), NEW e \in S, NEW K, Alone(s, K),
         e.kind \notin K \/ ~Has(s, K)
  PROVE  Alone(Append(s, e), K)
<1> DEFINE t == Append(s, e)
<1>1. /\ Len(s) \in Nat /\ DOMAIN s = 1..Len(s) /\ DOMAIN t = 1..(Len(s) + 1)
      /\ \A i \in 1..Len(s) : t[i] = s[i]
      /\ t[Len(s) + 1] = e
  BY AppendIs
<1> HIDE DEF t
<1>2. Alone(t, K)
  BY <1>1 DEF Alone, Has
<1> QED
  BY <1>2 DEF t

\* So it does without the head, and is gone if it was the head.
LEMMA AloneTail ==
  ASSUME NEW S, NEW s \in Seq(S), s # <<>>, NEW K, Alone(s, K)
  PROVE  Alone(Tail(s), K) /\ (Head(s).kind \in K => ~Has(Tail(s), K))
<1> DEFINE t == Tail(s)
<1>1. /\ Len(s) \in Nat \ {0} /\ DOMAIN s = 1..Len(s) /\ DOMAIN t = 1..(Len(s) - 1)
      /\ \A i \in 1..(Len(s) - 1) : t[i] = s[i + 1]
      /\ Head(s) = s[1]
  BY TailIs
<1> HIDE DEF t
<1>2. \A i \in DOMAIN t : i + 1 \in DOMAIN s /\ i + 1 # 1 /\ t[i] = s[i + 1]
  BY <1>1
<1>3. Alone(t, K)
  <2>1. ASSUME NEW i \in DOMAIN t, NEW j \in DOMAIN t, t[i].kind \in K, t[j].kind \in K
        PROVE  i = j
    <3>1. i + 1 = j + 1
      BY <1>2, <2>1 DEF Alone
    <3> QED
      BY <1>1, <2>1, <3>1
  <2> QED
    BY <2>1 DEF Alone
<1>4. 1 \in DOMAIN s
  BY <1>1
<1>5. Head(s).kind \in K => ~Has(t, K)
  BY <1>1, <1>2, <1>4 DEF Alone, Has
<1> QED
  BY <1>3, <1>5 DEF t

\* An attempt that begins beside another one is told.
LEMMA BegunAlone ==
  ASSUME TypeOK, "doubled" \notin tangled', ToggleOn \/ Reconnect \/ Saved \/ Retry,
         payloads' # payloads
  PROVE  ~Attempting
<1>1. Met(Doubled \cup Hasty)
  BY DEF ToggleOn, Reconnect, Saved, Switchable, Retry
<1> QED
  BY <1>1 DEF Met, Doubled

\* The starts among the calls, from the payload to the work.
LEMMA StartsMove ==
  ASSUME TypeOK, Fits, [Next]_vars
  PROVE  \/ (Work \/ Fails) /\ (HasStart(calls) <=> Head(calls).method = "start" \/
              HasStart(calls'))
         \/ \E i \in DOMAIN payloads : Payload(i)
         \/ HasStart(calls') <=> HasStart(calls)
<1>0. calls \in Seq(Asked)
  BY TypeParts DEF NativeType
<1>1. ASSUME NEW c \in Asked, calls' = Append(calls, c), c.method # "start"
      PROVE  HasStart(calls') <=> HasStart(calls)
  BY <1>0, <1>1, HasAppend
<1>2. CASE Work \/ Fails
  BY <1>0, <1>2, HasTail DEF Work, Fails
<1>3. ASSUME UNCHANGED calls PROVE HasStart(calls') <=> HasStart(calls)
  BY <1>3
<1>4. /\ Call("disconnect", "disconnect", None) \in Asked
      /\ Call("sync", "status", None) \in Asked
      /\ Call("tick", "status", None) \in Asked
      /\ \A k \in Attempts : Call(k, "status", None) \in Asked
      /\ \A k : Call(k, "status", None).method # "start"
      /\ Call("disconnect", "disconnect", None).method # "start"
  BY CallFits DEF Kinds, Call
<1>5. CASE ToggleOff
  BY <1>1, <1>4, <1>5 DEF ToggleOff
<1>6. CASE Resume
  BY <1>1, <1>4, <1>6 DEF Resume
<1>7. CASE Tick
  BY <1>1, <1>3, <1>4, <1>7 DEF Tick
<1>8. CASE Started
  BY <1>1, <1>3, <1>4, <1>8 DEF Started, Comes
<1>9. CASE ToggleOn \/ Reconnect \/ (\E s \in Servers : SelectServer(s)) \/ Saved
            \/ SwitchSettles \/ Retry \/ Stable
  BY <1>3, <1>9 DEF ToggleOn, Reconnect, SelectServer, Saved, Switchable,
       SwitchSettles, Retry,
     Stable, nativeVars
<1>10. CASE Post \/ Loss \/ Confirmed \/ Ticked \/ Disconnected \/ Synced \/ Initialized
              \/ CoreStopped \/ UNCHANGED vars
  BY <1>3, <1>10 DEF Post, Loss, Confirmed, Ticked, Disconnected, Synced, Initialized,
     CoreStopped, Comes, vars, nativeVars
<1>11. ASSUME NEW i \in DOMAIN payloads, Unbuilt(i)
       PROVE  HasStart(calls') <=> HasStart(calls)
  BY <1>3, <1>11 DEF Unbuilt, nativeVars
<1> QED
  BY <1>11, <1>2, <1>5, <1>6, <1>7, <1>8, <1>9, <1>10
     DEF Next, User, Due, Switch, Native, Reply, Payloads

\* Starts that worked stay so until one fails.
LEMMA WorkedMoves ==
  ASSUME TypeOK, Fits, [Next]_vars, StartsWorked, ~Fails,
         Work => Head(calls).method # "start"
  PROVE  StartsWorked'
<1>1. CASE Kept
  BY <1>1 DEF Kept, StartsWorked
<1>2. CASE Heard
  <2>1. /\ DOMAIN posts' = 1..(Len(posts) - 1) /\ UNCHANGED answer /\ Len(posts) \in Nat
        /\ \A i \in DOMAIN posts' : posts'[i] = posts[i + 1]
        /\ DOMAIN posts = 1..Len(posts)
    BY <1>2, HeardIs
  <2>2. \A i \in DOMAIN posts' : i + 1 \in DOMAIN posts
    BY <2>1
  <2> QED
    BY <2>1, <2>2 DEF StartsWorked
<1>3. CASE Work
  BY <1>3, WorkIs DEF StartsWorked
<1>4. CASE Post
  BY <1>4, PostIs, NoAnswerIs, Numbered DEF StartsWorked
<1>5. CASE Loss
  BY <1>5, LossIs, Numbered DEF StartsWorked
<1> QED
  BY <1>1, <1>2, <1>3, <1>4, <1>5, Moves

\* A start is an attempt.
LEMMA StartIsAttempt ==
  ASSUME Fits
  PROVE  /\ HasStart(calls) => Has(calls, Attempts)
         /\ HasStart(posts) => Has(posts, Attempts)
         /\ answer.method = "start" => answer.kind \in Attempts
BY DEF Fits, HasStart, Has

\* A single attempt that moves on stays the only one.
LEMMA OneAttemptMoves ==
  ASSUME TypeOK, Fits, [Next]_vars, OneAttempt,
         payloads' = payloads \/ \E i \in DOMAIN payloads : Payload(i) \/ Unbuilt(i)
  PROVE  OneAttempt'
<1>0. /\ payloads \in Seq(Waiting) /\ calls \in Seq(Asked) /\ posts \in Seq(Posts)
      /\ "lost" \notin Attempts /\ "none" \notin Attempts
  BY TypeParts DEF NativeType, Attempts
<1>1. ASSUME NEW i \in DOMAIN payloads, Payload(i)
      PROVE  OneAttempt'
  <2>1. payloads # <<>> /\ Len(payloads) = 1 /\ ~Pending(Attempts)
    BY <1>0, <1>1, EmptySeq, RemoveAtIs DEF OneAttempt
  <2>2. Len(payloads') = 0 /\ payloads' \in Seq(Waiting)
    <3>1. payloads' = RemoveAt(payloads, i)
      BY <1>1 DEF Payload
    <3>2. /\ RemoveAt(payloads, i) \in Seq(Waiting)
          /\ Len(RemoveAt(payloads, i)) = Len(payloads) - 1
      BY <1>0, RemoveAtIs
    <3> QED
      BY <2>1, <3>1, <3>2
  <2>3. payloads' = <<>>
    BY <2>2, EmptySeq
  <2>4. payloads[i] \in Asked /\ calls' = Append(calls, payloads[i])
          /\ UNCHANGED <<answer, posts>>
    BY <1>0, <1>1, CallFits, ElementOfSeq DEF Payload
  <2>5. Alone(calls', Attempts)
    BY <1>0, <2>1, <2>4, AloneAppend DEF OneAttempt, Pending
  <2> QED
    BY <2>1, <2>3, <2>4, <2>5 DEF OneAttempt, Pending
<1>17. ASSUME NEW i \in DOMAIN payloads, Unbuilt(i)
       PROVE  OneAttempt'
  <2>1. payloads # <<>> /\ Len(payloads) = 1 /\ ~Pending(Attempts)
    BY <1>0, <1>17, EmptySeq, RemoveAtIs DEF OneAttempt
  <2>2. Len(payloads') = 0 /\ payloads' \in Seq(Waiting)
    <3>1. payloads' = RemoveAt(payloads, i)
      BY <1>17 DEF Unbuilt
    <3>2. /\ RemoveAt(payloads, i) \in Seq(Waiting)
          /\ Len(RemoveAt(payloads, i)) = Len(payloads) - 1
      BY <1>0, RemoveAtIs
    <3> QED
      BY <2>1, <3>1, <3>2
  <2>3. payloads' = <<>>
    BY <2>2, EmptySeq
  <2>4. UNCHANGED <<calls, answer, posts>>
    BY <1>17 DEF Unbuilt, nativeVars
  <2> QED
    BY <2>3, <2>4 DEF OneAttempt, Pending
<1>2. ASSUME UNCHANGED <<payloads, calls, answer, posts>>
      PROVE  OneAttempt'
  BY <1>2 DEF OneAttempt, Pending
<1>3. ASSUME NEW c \in Asked, c.kind \notin Attempts, calls' = Append(calls, c),
             UNCHANGED <<payloads, answer, posts>>
      PROVE  OneAttempt'
  <2>1. Has(calls', Attempts) <=> Has(calls, Attempts)
    BY <1>0, <1>3, HasAppend
  <2>2. Alone(calls', Attempts)
    BY <1>0, <1>3, AloneAppend DEF OneAttempt
  <2> QED
    BY <1>3, <2>1, <2>2 DEF OneAttempt, Pending
<1>4. /\ Call("disconnect", "disconnect", None) \in Asked
      /\ Call("sync", "status", None) \in Asked
      /\ Call("tick", "status", None) \in Asked
      /\ Call("disconnect", "disconnect", None).kind \notin Attempts
      /\ Call("sync", "status", None).kind \notin Attempts
      /\ Call("tick", "status", None).kind \notin Attempts
  BY CallFits DEF Kinds, Call, Attempts
<1>5. CASE ToggleOff
  BY <1>3, <1>4, <1>5 DEF ToggleOff
<1>6. CASE Resume
  BY <1>3, <1>4, <1>6 DEF Resume
<1>7. CASE Tick
  BY <1>2, <1>3, <1>4, <1>7 DEF Tick
<1>8. CASE Work \/ Fails
  <2>1. /\ Has(calls, Attempts) <=>
             Head(calls).kind \in Attempts \/ Has(calls', Attempts)
        /\ Alone(calls', Attempts)
        /\ Head(calls).kind \in Attempts => ~Has(calls', Attempts)
    BY <1>0, <1>8, HasTail, AloneTail DEF Work, Fails, OneAttempt
  <2>2. answer'.kind = Head(calls).kind /\ answer.kind = "none"
          /\ UNCHANGED <<payloads, posts>>
    BY <1>8, WorkIs, FailsIs, NoAnswerIs DEF Work, Fails
  <2> QED
    BY <1>0, <2>1, <2>2 DEF OneAttempt, Pending
<1>9. CASE Post
  <2>1. answer \in Posts /\ posts' = Append(posts, answer) /\ answer'.kind = "none"
          /\ UNCHANGED <<payloads, calls>>
    BY <1>9, PostIs, NoAnswerIs DEF Post
  <2>2. Has(posts', Attempts) <=> Has(posts, Attempts) \/ answer.kind \in Attempts
    BY <1>0, <2>1, HasAppend
  <2>3. Alone(posts', Attempts)
    BY <1>0, <2>1, AloneAppend DEF OneAttempt
  <2> QED
    BY <1>0, <2>1, <2>2, <2>3 DEF OneAttempt, Pending
<1>10. CASE Loss
  <2> DEFINE news == [kind |-> "lost", method |-> "lost", result |-> "lost"]
  <2>1. news \in Posts /\ posts' = Append(posts, news) /\ news.kind = "lost"
          /\ UNCHANGED <<payloads, calls, answer>>
    BY <1>10, ResultFits DEF Loss
  <2> HIDE DEF news
  <2>2. Has(posts', Attempts) <=> Has(posts, Attempts)
    BY <1>0, <2>1, HasAppend
  <2>3. Alone(posts', Attempts)
    BY <1>0, <2>1, AloneAppend DEF OneAttempt
  <2> QED
    BY <2>1, <2>2, <2>3 DEF OneAttempt, Pending
<1>11. ASSUME posts # <<>>, posts' = Tail(posts)
       PROVE  /\ Has(posts, Attempts) <=> Head(posts).kind \in Attempts \/
                   Has(posts', Attempts)
              /\ Alone(posts', Attempts)
              /\ Head(posts).kind \in Attempts => ~Has(posts', Attempts)
  BY <1>0, <1>11, HasTail, AloneTail DEF OneAttempt
<1>12. ASSUME posts # <<>>, posts' = Tail(posts), UNCHANGED <<payloads, calls, answer>>
       PROVE  OneAttempt'
  BY <1>11, <1>12 DEF OneAttempt, Pending
<1>13. CASE Started
  <2>1. CASE Answered # "ok"
    BY <1>12, <1>13, <2>1 DEF Started, Comes
  <2>2. CASE Answered = "ok"
    <3> DEFINE c == Call(Head(posts).kind, "status", None)
    <3>1. c \in Asked /\ c.kind = Head(posts).kind /\ calls' = Append(calls, c)
            /\ Head(posts).kind \in Attempts /\ posts # <<>> /\ posts' = Tail(posts)
            /\ UNCHANGED <<payloads, answer>>
      BY <1>13, <2>2, CallFits DEF Started, Comes, Kinds, Call
    <3> HIDE DEF c
    <3>2. Pending(Attempts) /\ ~Has(calls, Attempts) /\ answer.kind \notin Attempts
            /\ ~Has(posts', Attempts) /\ Alone(posts', Attempts)
      BY <1>11, <3>1 DEF OneAttempt, Pending
    <3>3. Alone(calls', Attempts)
      BY <1>0, <3>1, <3>2, AloneAppend DEF OneAttempt
    <3> QED
      BY <3>1, <3>2, <3>3 DEF OneAttempt, Pending
  <2> QED
    BY <2>1, <2>2
<1>14. CASE Confirmed \/ Ticked \/ Disconnected \/ Synced \/ Initialized \/ CoreStopped
  <2>1. payloads' = payloads
    <3>1. ASSUME NEW i \in DOMAIN payloads, Payload(i) \/ Unbuilt(i)
          PROVE  posts' = posts
      BY <3>1 DEF Payload, Unbuilt, nativeVars
    <3>2. posts' # posts
      <4>1. Heard
        BY <1>14, AnswersHeard
      <4>2. Len(posts) \in Nat \ {0} /\ DOMAIN posts = 1..Len(posts)
              /\ DOMAIN posts' = 1..(Len(posts) - 1)
        BY <4>1, HeardIs
      <4>3. Len(posts) \in DOMAIN posts /\ Len(posts) \notin DOMAIN posts'
        BY <4>2
      <4> QED
        BY <4>3
    <3> QED
      BY <3>1, <3>2
  <2> QED
    BY <1>12, <1>14, <2>1
       DEF Confirmed, Ticked, Disconnected, Synced, Initialized, CoreStopped, Comes
<1>15. CASE ToggleOn \/ Reconnect \/ (\E s \in Servers : SelectServer(s)) \/ Saved
              \/ SwitchSettles \/ Retry \/ Stable
  <2>1. UNCHANGED <<calls, answer, posts>>
    BY <1>15 DEF ToggleOn, Reconnect, SelectServer, Saved, Switchable, SwitchSettles,
         Retry, Stable,
       nativeVars
  <2>2. CASE payloads' = payloads
    BY <1>2, <2>1, <2>2
  <2>3. ASSUME NEW i \in DOMAIN payloads, Unbuilt(i) PROVE OneAttempt'
    BY <1>17, <2>3
  <2> QED
    BY <1>1, <2>2, <2>3
<1>16. CASE UNCHANGED vars
  BY <1>2, <1>16 DEF vars, nativeVars
<1> QED
  BY <1>1, <1>5, <1>6, <1>7, <1>8, <1>9, <1>10, <1>13, <1>14, <1>15, <1>16, <1>17
     DEF Next, User, Due, Switch, Native, Reply, Payloads

\* The first question is not asked again.
LEMMA InitGone ==
  ASSUME TypeOK, [Next]_vars
  PROVE  InitUnanswered' => InitUnanswered
<1> DEFINE I == {"init"}
<1>1. "none" \notin I /\ "lost" \notin I /\ "disconnect" \notin I /\ "sync" \notin I
        /\ "tick" \notin I /\ \A k \in Attempts : k \notin I
  BY DEF Attempts
<1>2. ASSUME NEW i \in DOMAIN payloads PROVE payloads[i].kind \notin I
  <2>1. payloads[i] \in Waiting
    BY TypeParts, RemoveAtIs, ElementOfSeq DEF NativeType
  <2> QED
    BY <1>1, <2>1 DEF Waiting
<1> HIDE DEF I
<1>3. Pending(I)' => Pending(I)
  BY <1>1, <1>2, PendingMoves DEF Next, User, Due, Switch, Native, Reply, Payloads
<1> QED
  BY <1>3 DEF InitUnanswered, I

\* A single start that is worked leaves none.
LEMMA LastStart ==
  ASSUME TypeOK, Fits, Work, OneAttempt', Head(calls).method = "start"
  PROVE  ~ToStart'
<1>1. answer'.kind \in Attempts /\ ~HasStart(calls') /\ payloads' = <<>>
  <2>1. answer'.kind \in Attempts
    BY WorkIs
  <2>2. ~Has(calls', Attempts) /\ payloads' = <<>>
    BY <2>1 DEF OneAttempt, Pending
  <2>4. ASSUME NEW i \in DOMAIN calls', calls'[i].method = "start"
        PROVE  FALSE
    <3>1. Fits'
      BY FitsStep DEF Next, Due, Native
    <3> QED
      BY <2>2, <2>4, <3>1 DEF Fits, Has
  <2> QED
    BY <2>1, <2>2, <2>4 DEF HasStart
<1> QED
  BY <1>1 DEF ToStart

\* It stays calm while no attempt begins.
LEMMA CalmStays ==
  ASSUME TypeOK, Fits, DownAfter, [Next]_vars, Known', Calm,
         payloads' = payloads \/ \E i \in DOMAIN payloads : Payload(i) \/ Unbuilt(i)
  PROVE  Calm'
<1>k. Known /\ ~Fails
  BY OrderlyStays
<1> USE <1>k
<1>1. ~InitUnanswered'
  BY InitGone DEF Calm
<1>2. OneAttempt'
  BY OneAttemptMoves DEF Calm
<1>3. ~Work => running' = running \/ (Loss /\ running # None)
  BY Moves, LossIs, PostIs DEF Kept, Heard
<1>4. Work => /\ posts' = posts /\ payloads' = payloads
              /\ running' = running \/ running' = None \/ Head(calls).method = "start"
  BY WorkIs DEF Work
<1>5. ToStart' => running' = None /\ ~HasLost'
  <2>1. CASE Work
    <3>1. CASE Head(calls).method = "start"
      BY <1>2, <2>1, <3>1, LastStart
    <3>2. CASE Head(calls).method # "start"
      <4>1. ToStart' => ToStart
        <5>1. HasStart(calls) <=> HasStart(Tail(calls))
          BY <2>1, <3>2, TypeParts, HasTail DEF NativeType, Work
        <5> QED
          BY <1>4, <2>1, <5>1 DEF ToStart, Work
      <4>2. HasLost' => HasLost
        BY <1>4, <2>1 DEF HasLost, Has
      <4> QED
        BY <1>4, <2>1, <3>2, <4>1, <4>2 DEF Calm
    <3> QED
      BY <3>1, <3>2
  <2>2. ASSUME NEW i \in DOMAIN payloads, Payload(i)
        PROVE  running' = None /\ ~HasLost'
    <3>1. payloads # <<>>
      BY <2>2, TypeParts, RemoveAtIs, EmptySeq DEF NativeType
    <3> QED
      BY <2>2, <3>1 DEF Calm, ToStart, Payload, HasLost, Has
  <2>4. ASSUME NEW i \in DOMAIN payloads, Unbuilt(i)
        PROVE  ToStart' => running' = None /\ ~HasLost'
    <3>1. payloads # <<>>
      BY <2>4, TypeParts, RemoveAtIs, EmptySeq DEF NativeType
    <3> QED
      BY <2>4, <3>1 DEF Calm, ToStart, Unbuilt, nativeVars, HasLost, Has
  <2>3. CASE ~Work /\ payloads' = payloads
    <3>1. ToStart' => ToStart
      <4>1. CASE \E i \in DOMAIN payloads : Payload(i)
        <5>1. payloads # <<>>
          BY <4>1, TypeParts, RemoveAtIs, EmptySeq DEF NativeType
        <5> QED
          BY <5>1 DEF ToStart
      <4>2. CASE HasStart(calls') <=> HasStart(calls)
        BY <2>3, <4>2 DEF ToStart
      <4> QED
        BY <2>3, <4>1, <4>2, StartsMove
    <3>2. ~Loss => (HasLost' => HasLost)
      BY LostKept
    <3>3. ToStart' => running = None /\ ~HasLost
      BY <3>1 DEF Calm
    <3>4. ToStart' => running' = running /\ ~Loss
      BY <1>3, <2>3, <3>3, LossIs
    <3> QED
      BY <3>2, <3>3, <3>4
  <2> QED
    BY <2>1, <2>2, <2>3, <2>4
<1>6. HasLost' => running' = None /\ StartsWorked' /\ Alone(posts', {"lost"})
  <2>1. CASE Loss
    <3>1. running # None /\ running' = None
      BY <2>1, LossIs
    <3>2. ~HasLost /\ ~ToStart
      BY <3>1 DEF Calm
    <3>3. StartsWorked
      <4>1. ASSUME answer.method = "start", answer.result # "ok" PROVE FALSE
        BY <3>1, <4>1 DEF DownAfter, Down
      <4>2. ASSUME NEW i \in DOMAIN posts, posts[i].method = "start",
                     posts[i].result # "ok"
            PROVE  FALSE
        <5>1. posts[i].kind \in Attempts /\ Has(posts, Attempts)
          BY <4>2 DEF Fits, Has
        <5>2. NoStartAfter(i)
          <6>1. answer.method # "start"
            BY <5>1 DEF Calm, OneAttempt, Fits
          <6>2. ASSUME NEW j \in DOMAIN posts, j > i, posts[j].method = "start"
                PROVE  FALSE
            <7>1. posts[j].kind \in Attempts
              BY <6>2 DEF Fits
            <7>2. i = j
              BY <5>1, <7>1 DEF Calm, OneAttempt, Alone
            <7>3. i \in Nat
              BY Numbered
            <7> QED
              BY <6>2, <7>2, <7>3
          <6> QED
            BY <6>1, <6>2 DEF NoStartAfter
        <5> QED
          BY <3>1, <4>2, <5>2 DEF DownAfter, Down
      <4> QED
        BY <4>1, <4>2 DEF StartsWorked
    <3>4. StartsWorked'
      <4>1. Work => Head(calls).method # "start"
        BY <3>1, <2>1, <1>4, LossIs, Numbered
      <4> QED
        BY <3>3, <4>1, WorkedMoves
    <3>5. Alone(posts', {"lost"})
      <4> DEFINE news == [kind |-> "lost", method |-> "lost", result |-> "lost"]
      <4>1. news \in Posts /\ posts' = Append(posts, news)
        BY <2>1, ResultFits DEF Loss
      <4> HIDE DEF news
      <4>2. Alone(posts, {"lost"})
        BY <3>2 DEF HasLost, Has, Alone
      <4>3. posts \in Seq(Posts) /\ ~Has(posts, {"lost"})
        BY <3>2, TypeParts DEF NativeType, HasLost
      <4> QED
        BY <4>1, <4>2, <4>3, AloneAppend
    <3> QED
      BY <3>1, <3>4, <3>5
  <2>2. CASE ~Loss /\ HasLost'
    <3>1. HasLost /\ running = None /\ StartsWorked /\ Alone(posts, {"lost"}) /\
            ~ToStart
      BY <2>2, LostKept DEF Calm
    <3>2. Work => Head(calls).method # "start"
      BY <3>1, WorkIs DEF ToStart, HasStart
    <3>3. running' = None /\ StartsWorked'
      BY <1>3, <1>4, <2>2, <3>1, <3>2, WorkedMoves
    <3>4. Alone(posts', {"lost"})
      <4>0. posts \in Seq(Posts)
        BY TypeParts DEF NativeType
      <4>1. CASE Kept \/ Work
        BY <3>1, <4>1, WorkIs DEF Kept, Alone
      <4>2. CASE Heard
        BY <3>1, <4>0, <4>2, AloneTail DEF Heard
      <4>3. CASE Post
        <5>1. answer \in Posts /\ posts' = Append(posts, answer) /\ answer.kind # "lost"
          BY <4>3, PostIs DEF Post, Fits
        <5> QED
          BY <3>1, <4>0, <5>1, AloneAppend
      <4> QED
        BY <2>2, <4>1, <4>2, <4>3, Moves
    <3> QED
      BY <3>3, <3>4
  <2> QED
    BY <2>1, <2>2
<1> QED
  BY <1>1, <1>2, <1>5, <1>6 DEF Calm

\* An automatic attempt begins when nothing is left of another.
LEMMA RetryCalm ==
  ASSUME TypeOK, Fits, InitCalm, Lonely, Retry, payloads' # payloads,
         Orderly, "doubled" \notin tangled'
  PROVE  Calm'
<1> DEFINE c == Call("automatic", "start", selected)
<1>1. status = "connecting" /\ payloads' = Append(payloads, c)
        /\ UNCHANGED <<calls, answer, posts, running>>
  BY DEF Retry, nativeVars
<1>2. ~Attempting
  BY BegunAlone
<1>3. ~InitUnanswered /\ running = None /\ ~HasLost
  BY <1>1, <1>2 DEF InitCalm, Lonely
<1>4. payloads = <<>> /\ ~Pending(Attempts)
  BY <1>2, AttemptingIs
<1>5. Len(payloads') = 1
  <2>1. payloads \in Seq(Waiting) /\ c \in Waiting
    BY TypeParts, CallFits DEF NativeType, SwitchType, Attempts
  <2> HIDE DEF c
  <2> QED
    BY <1>1, <1>4, <2>1, AppendProperties, EmptySeq
<1>6. OneAttempt'
  BY <1>1, <1>4, <1>5 DEF OneAttempt, Pending, Has, Alone
<1>7. ~InitUnanswered' /\ ~HasLost'
  BY <1>1, <1>3 DEF InitUnanswered, Pending, HasLost, Has
<1> QED
  BY <1>1, <1>3, <1>6, <1>7 DEF Calm

\* Nor does an automatic attempt meet another one that is not told.
LEMMA TriedStep ==
  TypeOK /\ Fits /\ DownAfter /\ InitCalm /\ Lonely /\ Tried /\ [Next]_vars => Tried'
<1> SUFFICES ASSUME TypeOK, Fits, DownAfter, InitCalm, Lonely, Tried, [Next]_vars,
                    Orderly'
             PROVE  Tried'
  BY DEF Tried
<1>k. Orderly /\ Known' /\ ~Fails /\ "doubled" \notin tangled'
  BY OrderlyStays
<1>0. payloads \in Seq(Waiting) /\ selected \in Servers
  BY TypeParts DEF NativeType, SwitchType
<1>a. ASSUME tries' = 0 \/ UNCHANGED tries,
             payloads' = payloads
               \/ \E i \in DOMAIN payloads : Payload(i) \/ Unbuilt(i)
      PROVE  Tried'
  <2>1. Unmade' => Unmade
    <3>1. CASE payloads' = payloads
      BY <3>1 DEF Unmade
    <3>2. ASSUME NEW i \in DOMAIN payloads, Payload(i) \/ Unbuilt(i)
          PROVE  Unmade' => Unmade
      <4>1. payloads' = RemoveAt(payloads, i)
        BY <3>2 DEF Payload, Unbuilt
      <4>2. /\ Len(payloads) \in Nat /\ DOMAIN payloads = 1..Len(payloads)
            /\ DOMAIN payloads' = 1..(Len(payloads) - 1)
            /\ \A j \in 1..(Len(payloads) - 1) :
                 payloads'[j] = IF j < i THEN payloads[j] ELSE payloads[j + 1]
        BY <1>0, <3>2, <4>1, RemoveAtIs
      <4>3. \A j \in DOMAIN payloads' : j \in DOMAIN payloads /\ j + 1 \in DOMAIN payloads
        BY <4>2
      <4> QED
        BY <4>2, <4>3 DEF Unmade
    <3> QED
      BY <1>a, <3>1, <3>2
  <2>2. (tries > 0 \/ Unmade) => Calm'
    BY <1>a, <1>k, CalmStays DEF Tried
  <2> QED
    BY <1>a, <2>1, <2>2 DEF Tried
<1>b. ASSUME NEW k \in Attempts \ {"automatic"}, tries' = 0, Begin(k),
             ToggleOn \/ Reconnect \/ Saved
      PROVE  Tried'
  <2> DEFINE c == Call(k, "start", selected)
  <2>1. payloads' = Append(payloads, c) /\ payloads' # payloads
    BY <1>b, AppendNot DEF Begin
  <2>2. payloads = <<>>
    BY <1>b, <1>k, <2>1, BegunAlone, AttemptingIs
  <2>3. c \in Waiting /\ c.kind # "automatic"
    BY <1>0, CallFits DEF Call
  <2> HIDE DEF c
  <2>4. ~Unmade'
    <3>1. Len(payloads) = 0
      BY <2>2
    <3> QED
      BY <1>0, <2>1, <2>3, <3>1, AppendIs DEF Unmade
  <2> QED
    BY <1>b, <2>4 DEF Tried
<1>1. CASE ToggleOn
  BY <1>1, <1>b DEF ToggleOn, UserActs, Attempts
<1>2. CASE ToggleOff
  BY <1>2, <1>a DEF ToggleOff, UserActs
<1>3. CASE Reconnect
  BY <1>3, <1>b DEF Reconnect, UserActs, Attempts
<1>4. CASE Resume
  BY <1>4, <1>a DEF Resume, ghosts
<1>5. ASSUME NEW s \in Servers, SelectServer(s) PROVE Tried'
  BY <1>5, <1>a DEF SelectServer, UserActs
<1>6. CASE Saved
  <2>1. CASE Switchable
    BY <1>6, <1>b, <2>1 DEF Saved, Attempts
  <2>2. CASE ~Switchable
    BY <1>6, <1>a, <2>2 DEF Saved
  <2> QED
    BY <2>1, <2>2
<1>7. CASE SwitchSettles
  BY <1>7, <1>a DEF SwitchSettles, ghosts
<1>8. CASE Retry
  <2>1. CASE payloads' = payloads
    BY <1>8, <1>a, <2>1, AppendNot DEF Retry, Attempts
  <2>2. CASE payloads' # payloads
    BY <1>8, <1>k, <2>2, RetryCalm DEF Tried
  <2> QED
    BY <2>1, <2>2
<1>9. CASE Stable
  BY <1>9, <1>a DEF Stable
<1>10. CASE Tick
  BY <1>10, <1>a DEF Tick, ghosts
<1>11. ASSUME NEW i \in DOMAIN payloads, Payload(i) PROVE Tried'
  BY <1>11, <1>a DEF Payload, ghosts
<1>12. CASE Work
  BY <1>12, <1>a DEF Work, ghosts
<1>13. CASE Post
  BY <1>13, <1>a DEF Post, ghosts
<1>14. CASE Loss
  BY <1>14, <1>a DEF Loss, ghosts
<1>15. CASE Started
  BY <1>15, <1>a DEF Started, ghosts
<1>16. CASE Confirmed
  BY <1>16, <1>a DEF Confirmed, ghosts
<1>17. CASE Ticked
  BY <1>17, <1>a DEF Ticked, ghosts
<1>18. CASE Disconnected
  BY <1>18, <1>a DEF Disconnected, ghosts
<1>19. CASE Synced
  BY <1>19, <1>a DEF Synced, ghosts
<1>20. CASE Initialized
  <2>1. UNCHANGED tries /\ Head(posts).kind = "init" /\ posts # <<>>
    BY <1>20 DEF Initialized, Comes, ghosts
  <2>2. Pending({"init"})
    BY <1>20, "none" \notin {"init"}, "lost" \notin {"init"}, <2>1, PendingMoves
  <2>3. ~(tries > 0) /\ ~Unmade
    BY <1>k, <2>2 DEF Tried, Calm, InitUnanswered
  <2>4. CASE payloads' = payloads
    BY <1>a, <2>1, <2>4
  <2>5. CASE payloads' = Append(payloads, Call("connect", "start", selected))
    <3> DEFINE c == Call("connect", "start", selected)
    <3>1. c \in Waiting /\ c.kind # "automatic"
      BY <1>0, CallFits DEF Call, Attempts
    <3> HIDE DEF c
    <3>2. ~Unmade'
      BY <1>0, <2>3, <2>5, <3>1, AppendIs DEF Unmade, c
    <3> QED
      BY <2>1, <2>3, <3>2 DEF Tried
  <2> QED
    BY <1>20, <2>4, <2>5 DEF Initialized, Begin
<1>21. CASE CoreStopped
  BY <1>21, <1>a DEF CoreStopped, ghosts
<1>22. CASE UNCHANGED vars
  BY <1>22, <1>a DEF vars, ghosts
<1>23. ASSUME NEW i \in DOMAIN payloads, Unbuilt(i) PROVE Tried'
  BY <1>23, <1>a DEF Unbuilt
<1> QED
  BY <1>1, <1>2, <1>3, <1>4, <1>5, <1>6, <1>7, <1>8, <1>9, <1>10, <1>11, <1>12,
     <1>13, <1>14, <1>15, <1>16, <1>17, <1>18, <1>19, <1>20, <1>21, <1>22, <1>23,
     <1>k
     DEF Next, User, Due, Switch, Native, Reply, Payloads

\* What is given up stays so until an attempt begins.
LEMMA SpentStays ==
  ASSUME TypeOK, Fits, [Next]_vars, ~Fails, Spent, payloads' = payloads,
         UNCHANGED tries, status' # "connecting"
  PROVE  Spent'
<1>1. payloads = <<>> /\ ~HasStart(calls) /\ running = None /\ ~HasLost /\ StartsWorked
  BY DEF Spent, ToStart
<1>2. Work => Head(calls).method # "start"
  BY <1>1, WorkIs DEF HasStart
<1>3. running' = None /\ ~Loss
  <2>1. ~Loss
    BY <1>1, LossIs
  <2>2. Work => running' = None
    BY <1>1, <1>2 DEF Work
  <2> QED
    BY <1>1, <2>1, <2>2, Moves, PostIs DEF Kept, Heard
<1>4. ~HasLost'
  BY <1>1, <1>3, LostKept
<1>5. StartsWorked'
  BY <1>1, <1>2, WorkedMoves
<1>6. ~HasStart(calls')
  <2>1. CASE \E i \in DOMAIN payloads : Payload(i)
    <3>1. payloads # <<>>
      BY <2>1, TypeParts, RemoveAtIs, EmptySeq DEF NativeType
    <3> QED
      BY <1>1, <3>1
  <2>2. CASE ~(\E i \in DOMAIN payloads : Payload(i))
    BY <1>1, <2>2, StartsMove
  <2> QED
    BY <2>1, <2>2
<1> QED
  BY <1>1, <1>3, <1>4, <1>5, <1>6 DEF Spent, ToStart

\* An attempt that fails, with nothing else under way, leaves nothing.
LEMMA FailSpends ==
  ASSUME TypeOK, Fits, Known, DownAfter, Calm, Started, Answered # "ok", status' = "error",
         tries <= MaxAttempts
  PROVE  Spent'
<1>1. /\ posts # <<>> /\ posts' = Tail(posts) /\ Head(posts).kind \in Attempts
      /\ Head(posts).method = "start"
      /\ UNCHANGED <<payloads, calls, answer, running, tries>>
  BY DEF Started, Comes, ghosts
<1>2. Heard /\ Down(Head(posts))
  BY <1>1, AnswersHeard DEF Down, Answered
<1>3. posts \in Seq(Posts)
  BY TypeParts DEF NativeType
<1>4. Has(posts, Attempts) /\ ~Has(posts', Attempts)
  <2>1. Alone(posts, Attempts)
    BY DEF Calm, OneAttempt
  <2>2. ~Has(Tail(posts), Attempts)
    BY <1>1, <1>3, <2>1, AloneTail
  <2>3. Has(posts, Attempts)
    BY <1>1, <1>3, HasTail
  <2> QED
    BY <1>1, <2>2, <2>3
<1>5. payloads = <<>> /\ ~Has(calls, Attempts) /\ answer.kind \notin Attempts
  BY <1>4 DEF Calm, OneAttempt, Pending
<1>6. ~Pending(Attempts)'
  BY <1>1, <1>4, <1>5 DEF Pending
<1>7. running = None /\ ~HasLost'
  BY <1>2, <1>6, HeadDown
<1>8. ~ToStart'
  BY <1>1, <1>5, StartIsAttempt DEF ToStart
<1>9. Fits'
  BY FitsStep DEF Next, Due, Reply
<1>10. StartsWorked'
  <2>1. answer'.method # "start"
    BY <1>6, <1>9 DEF Fits, Pending
  <2>2. \A i \in DOMAIN posts' : posts'[i].method # "start"
    BY <1>4, <1>9 DEF Fits, Has
  <2> QED
    BY <2>1, <2>2 DEF StartsWorked
<1> QED
  BY <1>1, <1>7, <1>8, <1>10 DEF Spent

\* So does a loss after which nothing is tried.
LEMMA LossSpends ==
  ASSUME TypeOK, Fits, Calm, CoreStopped, status' = "error", tries <= MaxAttempts
  PROVE  Spent'
<1>1. /\ posts # <<>> /\ posts' = Tail(posts) /\ Head(posts).kind = "lost"
      /\ UNCHANGED <<payloads, calls, answer, running, tries>>
  BY DEF CoreStopped, Comes, ghosts
<1>2. posts \in Seq(Posts)
  BY TypeParts DEF NativeType
<1>3. HasLost
  BY <1>1, <1>2, HasTail DEF HasLost
<1>4. running = None /\ StartsWorked /\ Alone(posts, {"lost"}) /\ ~ToStart
  BY <1>3 DEF Calm
<1>5. ~HasLost'
  BY <1>1, <1>2, <1>4, AloneTail DEF HasLost
<1>6. StartsWorked'
  <2>0. ~Fails
    BY <1>1, <1>2, TailNot, FailsIs
  <2>1. [Next]_vars /\ (Work => Head(calls).method # "start")
    BY <1>4, WorkIs DEF ToStart, HasStart, Next, Due, Reply
  <2> QED
    BY <1>4, <2>0, <2>1, WorkedMoves
<1> QED
  BY <1>1, <1>4, <1>5, <1>6 DEF Spent, ToStart

\* And an attempt that no payload is made for.
LEMMA UnbuiltSpends ==
  ASSUME TypeOK, Fits, Calm, NEW i \in DOMAIN payloads, Unbuilt(i), status' = "error",
         tries <= MaxAttempts
  PROVE  Spent'
<1>1. /\ payloads \in Seq(Waiting) /\ payloads # <<>>
      /\ payloads' = RemoveAt(payloads, i)
      /\ UNCHANGED <<calls, answer, posts, running, tries>>
  BY TypeParts, RemoveAtIs, EmptySeq DEF NativeType, Unbuilt, nativeVars
<1>2. Len(payloads) = 1 /\ ~Pending(Attempts) /\ running = None /\ ~HasLost
  BY <1>1 DEF Calm, OneAttempt, ToStart
<1>3. payloads' = <<>>
  BY <1>1, <1>2, RemoveAtIs, EmptySeq
<1>4. ~ToStart'
  BY <1>1, <1>2, <1>3, StartIsAttempt DEF ToStart, Pending
<1>5. StartsWorked'
  BY <1>1, <1>2, StartIsAttempt DEF StartsWorked, Pending, HasStart
<1>6. ~HasLost'
  BY <1>1, <1>2 DEF HasLost, Has
<1> QED
  BY <1>1, <1>2, <1>4, <1>5, <1>6 DEF Spent

\* The count keeps up with the attempts.
LEMMA CountingStep ==
  TypeOK /\ Fits /\ DownAfter /\ Tried /\ Timers /\ Counting /\ [Next]_vars => Counting'
<1> SUFFICES ASSUME TypeOK, Fits, DownAfter, Tried, Timers, Counting, [Next]_vars,
                    Orderly'
             PROVE  Counting'
  BY DEF Counting
<1>b. Orderly /\ Known /\ ~Fails /\ "doubled" \notin tangled'
  BY OrderlyStays
<1>0. attempt \in 0..MaxAttempts /\ attempt' \in 0..MaxAttempts /\ tries \in Nat
      /\ MaxAttempts \in Nat /\ TypeOK'
  BY TypeStep, TypeParts, ProviderAssumption
     DEF TypeOK, ShownType, GhostType, ProviderAssumption
<1>a. ASSUME tries' = 0 PROVE Counting'
  <2>1. Timers'
    BY TimersStep
  <2>2. Counted1'
    BY <1>0, <1>a, <2>1 DEF Timers, Counted1
  <2> QED
    BY <2>2 DEF Counting
<1>c. ASSUME payloads' = payloads, UNCHANGED <<tries, attempt, retry>>,
             status' = "connecting" => status = "connecting"
      PROVE  Counting'
  <2>1. CASE Counted1
    <3>1. Counted1'
      BY <1>0, <1>c, <2>1 DEF Counted1
    <3> QED
      BY <3>1 DEF Counting
  <2>2. CASE Spent
    <3>1. Spent'
      BY <1>b, <1>c, <2>2, SpentStays DEF Spent
    <3> QED
      BY <3>1 DEF Counting
  <2> QED
    BY <1>b, <2>1, <2>2 DEF Counting
<1>1. CASE ToggleOn
  BY <1>1, <1>a DEF ToggleOn, UserActs
<1>2. CASE ToggleOff
  BY <1>2, <1>a DEF ToggleOff, UserActs
<1>3. CASE Reconnect
  BY <1>3, <1>a DEF Reconnect, UserActs
<1>4. CASE Resume
  BY <1>4, <1>c DEF Resume, timerVars, ghosts
<1>5. ASSUME NEW s \in Servers, SelectServer(s) PROVE Counting'
  BY <1>5, <1>a DEF SelectServer, UserActs
<1>6. CASE Saved
  BY <1>6, <1>a, <1>c DEF Saved, Switchable, timerVars
<1>7. CASE SwitchSettles
  BY <1>7, <1>c DEF SwitchSettles, timerVars, ghosts
<1>8. CASE Retry
  <2>1. CASE status # "connecting"
    <3>1. payloads' = payloads /\ UNCHANGED <<tries, attempt, status>> /\ retry' = FALSE
      BY <1>8, <2>1 DEF Retry
    <3>2. CASE Counted1
      BY <1>0, <2>1, <3>1, <3>2 DEF Counted1, Counting
    <3>3. CASE Spent
      BY <1>b, <2>1, <3>1, <3>3, SpentStays DEF Counting
    <3> QED
      BY <1>b, <3>2, <3>3 DEF Counting
  <2>2. CASE status = "connecting"
    <3>1. tries' = tries + 1 /\ UNCHANGED <<attempt, status>> /\ retry /\ ~retry'
      BY <1>8, <2>2 DEF Retry
    <3>2. CASE Counted1
      BY <1>0, <2>2, <3>1, <3>2 DEF Counted1, Counting
    <3> QED
      BY <1>b, <2>2, <3>2 DEF Counting, Spent
  <2> QED
    BY <2>1, <2>2
<1>9. CASE Stable
  BY <1>9, <1>a DEF Stable
<1>10. CASE Tick
  BY <1>10, <1>c DEF Tick, timerVars, ghosts
<1>11. ASSUME NEW i \in DOMAIN payloads, Payload(i) PROVE Counting'
  <2>1. UNCHANGED <<tries, attempt, retry, status>>
    BY <1>11 DEF Payload, timerVars, ghosts
  <2>2. payloads # <<>>
    BY <1>11, TypeParts, RemoveAtIs, EmptySeq DEF NativeType
  <2>3. Counted1 => Counted1'
    BY <2>1 DEF Counted1
  <2> QED
    BY <1>b, <2>2, <2>3 DEF Counting, Spent, ToStart
<1>12. CASE Work
  BY <1>12, <1>c DEF Work, timerVars, ghosts
<1>13. CASE Post
  BY <1>13, <1>c DEF Post, timerVars, ghosts
<1>14. CASE Loss
  BY <1>14, <1>c DEF Loss, timerVars, ghosts
<1>15. CASE Started
  <2>0. payloads' = payloads /\ UNCHANGED tries
    BY <1>15 DEF Started, ghosts
  <2>1. CASE Answered = "ok"
    <3>1. UNCHANGED <<attempt, retry, status>>
      BY <1>15, <2>1 DEF Started, timerVars
    <3> QED
      BY <1>c, <2>0, <3>1
  <2>2. CASE Answered # "ok"
    <3>0. ~Spent
      <4>1. 1 \in DOMAIN posts /\ Head(posts) = posts[1]
        BY <1>15, AnswersHeard, HeardIs
      <4>2. Head(posts).method = "start"
        BY <1>15 DEF Started, Comes
      <4> QED
        BY <2>2, <4>1, <4>2 DEF Spent, StartsWorked, Answered
    <3>1. \/ attempt' = attempt + 1 /\ status' = "connecting"
          \/ status' = "error"
      BY <1>15, <2>2 DEF Started, FailConnect, Schedule, Counted, Shown
    <3>2. ASSUME attempt' = attempt + 1, status' = "connecting"
          PROVE  Counted1'
      <4>1. tries <= attempt
        BY <1>0, <1>b, <3>0, <3>2 DEF Counting, Counted1
      <4> QED
        BY <1>0, <2>0, <3>2, <4>1 DEF Counted1
    <3>3. ASSUME status' = "error", tries > 0
          PROVE  Spent'
      <4>1. Calm /\ tries <= MaxAttempts
        BY <1>0, <1>b, <3>0, <3>3 DEF Tried, Counting, Counted1
      <4> QED
        BY <1>15, <1>b, <2>2, <3>3, <4>1, FailSpends
    <3>4. tries > 0 \/ tries' = 0
      BY <1>0, <2>0
    <3> QED
      BY <1>a, <3>1, <3>2, <3>3, <3>4 DEF Counting
  <2> QED
    BY <2>1, <2>2
<1>16. CASE Confirmed
  BY <1>16, <1>c DEF Confirmed, MarkConnected, KeepAttempts, timerVars, ghosts
<1>17. CASE Ticked
  BY <1>17, <1>c DEF Ticked, MarkConnected, KeepAttempts, timerVars, ghosts
<1>18. CASE Disconnected
  BY <1>18, <1>c DEF Disconnected, timerVars, ghosts
<1>19. CASE Synced
  BY <1>19, <1>c DEF Synced, timerVars, ghosts
<1>20. CASE Initialized
  <2>1. UNCHANGED tries /\ Head(posts).kind = "init" /\ posts # <<>>
    BY <1>20 DEF Initialized, Comes, ghosts
  <2>2. Pending({"init"})
    BY <1>20, "none" \notin {"init"}, "lost" \notin {"init"}, <2>1, PendingMoves
  <2>3. tries > 0 \/ tries' = 0
    BY <1>0, <2>1
  <2>4. ~(tries > 0)
    BY <1>b, <2>2 DEF Tried, Calm, InitUnanswered
  <2> QED
    BY <1>a, <2>3, <2>4 DEF Counting
<1>21. CASE CoreStopped
  <2>0. payloads' = payloads /\ UNCHANGED tries
    BY <1>21 DEF CoreStopped, ghosts
  <2>1. CASE ~Concerned
    <3>1. UNCHANGED <<attempt, retry, status>>
      BY <1>21, <2>1 DEF CoreStopped, timerVars
    <3> QED
      BY <1>c, <2>0, <3>1
  <2>2. CASE Concerned
    <3>0. ~Spent
      <4>1. posts # <<>> /\ Head(posts).kind = "lost"
        BY <1>21 DEF CoreStopped, Comes
      <4> QED
        BY <4>1, TypeParts, HasTail DEF NativeType, Spent, HasLost
    <3>1. \/ attempt' = attempt + 1 /\ status' = "connecting"
          \/ status' = "error"
      BY <1>21, <2>2 DEF CoreStopped, Schedule, Counted, Shown
    <3>2. ASSUME attempt' = attempt + 1, status' = "connecting"
          PROVE  Counted1'
      <4>1. tries <= attempt
        BY <1>0, <1>b, <3>0, <3>2 DEF Counting, Counted1
      <4> QED
        BY <1>0, <2>0, <3>2, <4>1 DEF Counted1
    <3>3. ASSUME status' = "error", tries > 0
          PROVE  Spent'
      <4>1. Calm /\ tries <= MaxAttempts
        BY <1>0, <1>b, <3>0, <3>3 DEF Tried, Counting, Counted1
      <4> QED
        BY <1>21, <3>3, <4>1, LossSpends
    <3>4. tries > 0 \/ tries' = 0
      BY <1>0, <2>0
    <3> QED
      BY <1>a, <3>1, <3>2, <3>3, <3>4 DEF Counting
  <2> QED
    BY <2>1, <2>2
<1>22. CASE UNCHANGED vars
  BY <1>22, <1>c DEF vars, timerVars, ghosts
<1>23. ASSUME NEW i \in DOMAIN payloads, Unbuilt(i) PROVE Counting'
  <2>0. UNCHANGED tries /\ ~Spent
    <3>1. payloads # <<>>
      BY <1>23, TypeParts, RemoveAtIs, EmptySeq DEF NativeType
    <3> QED
      BY <1>23, <3>1 DEF Unbuilt, Spent, ToStart
  <2>1. \/ attempt' = attempt + 1 /\ status' = "connecting"
        \/ status' = "error"
    BY <1>23 DEF Unbuilt, FailConnect, Schedule, Counted, Shown
  <2>2. ASSUME attempt' = attempt + 1, status' = "connecting"
        PROVE  Counted1'
    <3>1. tries <= attempt
      BY <1>0, <1>b, <2>0 DEF Counting, Counted1
    <3> QED
      BY <1>0, <2>0, <2>2, <3>1 DEF Counted1
  <2>3. ASSUME status' = "error", tries > 0
        PROVE  Spent'
    <3>1. Calm /\ tries <= MaxAttempts
      BY <1>0, <1>b, <2>0, <2>3 DEF Tried, Counting, Counted1
    <3> QED
      BY <1>23, <2>3, <3>1, UnbuiltSpends
  <2>4. tries > 0 \/ tries' = 0
    BY <1>0, <2>0
  <2> QED
    BY <1>a, <2>1, <2>2, <2>3, <2>4 DEF Counting
<1>24. CASE Fails
  BY <1>b, <1>24
<1> QED
  BY <1>1, <1>2, <1>3, <1>4, <1>5, <1>6, <1>7, <1>8, <1>9, <1>10, <1>11, <1>12,
     <1>13, <1>14, <1>15, <1>16, <1>17, <1>18, <1>19, <1>20, <1>21, <1>22, <1>23, <1>24
     DEF Next, User, Due, Switch, Native, Reply, Payloads

-----------------------------------------------------------------------------
(* What is switched off stays off.                                         *)

\* No core is started or told of after the disconnect that is to be worked.
StopsLast ==
  \A i \in DOMAIN calls : calls[i].method = "start" \/ calls[i].kind = "init" =>
    \E j \in DOMAIN calls : j > i /\ calls[j].kind = "disconnect"

\* What neither says that a core runs nor was left by one.
Quiet(p) == p.kind \notin {"init", "lost"} /\ p.method # "start" /\ p.result # "ok"

\* No disconnect was worked since the post that is the i-th.
NoStopFrom(i) == \A j \in DOMAIN posts : j >= i => posts[j].kind # "disconnect"

\* Once the disconnect was worked, no core runs and nothing after it says so.
QuietAfter ==
  ~Has(calls, {"disconnect"}) =>
    /\ running = None
    /\ answer.kind # "disconnect" =>
         /\ Quiet(answer)
         /\ \A i \in DOMAIN posts : NoStopFrom(i) => Quiet(posts[i])

\* Until the disconnect is heard, and afterwards, the app begins nothing.
OffHolds ==
  off /\ {"overtaken", "hasty", "unstopped"} \cap tangled = {} =>
    /\ payloads = <<>> /\ StopsLast /\ QuietAfter
    /\ ~Pending({"disconnect"}) => status = "disconnected"
    /\ InitUnanswered => status = "disconnecting"

\* What is asked, but for a start that has its payload.
LEMMA Asks ==
  ASSUME TypeOK, [Next]_vars
  PROVE  \/ Work \/ Fails
         \/ UNCHANGED calls
         \/ \E c \in Asked : /\ calls' = Append(calls, c)
                             /\ c.method # "start" /\ c.kind # "init"
         \/ \E i \in DOMAIN payloads : Payload(i)
<1>1. /\ Call("disconnect", "disconnect", None) \in Asked
      /\ Call("sync", "status", None) \in Asked
      /\ Call("tick", "status", None) \in Asked
      /\ \A k \in Attempts : Call(k, "status", None) \in Asked
      /\ \A k : Call(k, "status", None).method # "start"
      /\ \A k : Call(k, "status", None).kind = k
      /\ Call("disconnect", "disconnect", None).method # "start"
      /\ Call("disconnect", "disconnect", None).kind # "init"
      /\ \A k \in Attempts : k # "init"
  BY CallFits DEF Kinds, Call, Attempts
<1>2. CASE ToggleOff
  BY <1>1, <1>2 DEF ToggleOff
<1>3. CASE Resume
  BY <1>1, <1>3 DEF Resume
<1>4. CASE Tick
  BY <1>1, <1>4 DEF Tick
<1>5. CASE Started
  BY <1>1, <1>5 DEF Started, Comes
<1>6. CASE ToggleOn \/ Reconnect \/ (\E s \in Servers : SelectServer(s)) \/ Saved
            \/ SwitchSettles \/ Retry \/ Stable
            \/ \E i \in DOMAIN payloads : Unbuilt(i)
  BY <1>6 DEF ToggleOn, Reconnect, SelectServer, Saved, Switchable, SwitchSettles,
       Retry, Stable, Unbuilt,
     nativeVars
<1>7. CASE Post \/ Loss \/ Confirmed \/ Ticked \/ Disconnected \/ Synced \/ Initialized
              \/ CoreStopped \/ UNCHANGED vars
  BY <1>7 DEF Post, Loss, Confirmed, Ticked, Disconnected, Synced, Initialized,
     CoreStopped, Comes, vars, nativeVars
<1> QED
  BY <1>2, <1>3, <1>4, <1>5, <1>6, <1>7
     DEF Next, User, Due, Switch, Native, Reply, Payloads

\* While no attempt awaits its payload, that is all.
LEMMA AskedThen ==
  ASSUME TypeOK, [Next]_vars, payloads = <<>>
  PROVE  \/ Work \/ Fails
         \/ UNCHANGED calls
         \/ \E c \in Asked : /\ calls' = Append(calls, c)
                             /\ c.method # "start" /\ c.kind # "init"
<1>1. ASSUME NEW i \in DOMAIN payloads, Payload(i) PROVE FALSE
  BY <1>1, TypeParts, RemoveAtIs, EmptySeq DEF NativeType
<1> QED
  BY <1>1, Asks

\* The disconnect stays after every start that is to be worked.
LEMMA StopsLastStep ==
  ASSUME TypeOK, Fits, [Next]_vars, payloads = <<>>, StopsLast
  PROVE  StopsLast'
<1>0. Len(calls) \in Nat /\ DOMAIN calls = 1..Len(calls)
  BY Numbered
<1>1. CASE UNCHANGED calls
  BY <1>1 DEF StopsLast
<1>2. ASSUME NEW c \in Asked, calls' = Append(calls, c), c.method # "start",
             c.kind # "init"
      PROVE  StopsLast'
  <2>1. /\ DOMAIN calls' = 1..(Len(calls) + 1)
        /\ \A i \in DOMAIN calls : calls'[i] = calls[i] /\ i \in DOMAIN calls'
        /\ calls'[Len(calls) + 1] = c
    BY <1>0, <1>2, AskedIs
  <2>2. ASSUME NEW i \in DOMAIN calls',
               calls'[i].method = "start" \/ calls'[i].kind = "init"
        PROVE  \E j \in DOMAIN calls' : j > i /\ calls'[j].kind = "disconnect"
    <3>1. i \in DOMAIN calls /\ calls'[i] = calls[i]
      BY <1>0, <1>2, <2>1, <2>2
    <3>2. PICK j \in DOMAIN calls : j > i /\ calls[j].kind = "disconnect"
      BY <2>2, <3>1 DEF StopsLast
    <3> QED
      BY <2>1, <3>2
  <2> QED
    BY <2>2 DEF StopsLast
<1>3. CASE Work \/ Fails
  <2>1. /\ DOMAIN calls' = 1..(Len(calls) - 1)
        /\ \A i \in DOMAIN calls' : calls'[i] = calls[i + 1]
    BY <1>3, WorkIs, FailsIs, TakenIs
  <2>2. ASSUME NEW i \in DOMAIN calls',
               calls'[i].method = "start" \/ calls'[i].kind = "init"
        PROVE  \E j \in DOMAIN calls' : j > i /\ calls'[j].kind = "disconnect"
    <3>1. i + 1 \in DOMAIN calls /\ calls'[i] = calls[i + 1] /\ i \in Nat
      BY <1>0, <2>1
    <3>2. PICK j \in DOMAIN calls : j > i + 1 /\ calls[j].kind = "disconnect"
      BY <2>2, <3>1 DEF StopsLast
    <3>3. j - 1 \in DOMAIN calls' /\ j - 1 > i /\ (j - 1) + 1 = j
      BY <1>0, <2>1, <3>1, <3>2
    <3>4. calls'[j - 1] = calls[j]
      BY <2>1, <3>3
    <3> QED
      BY <3>2, <3>3, <3>4
  <2> QED
    BY <2>2 DEF StopsLast
<1> QED
  BY <1>1, <1>2, <1>3, AskedThen

\* After the disconnect nothing says that a core runs.
LEMMA QuietAfterStep ==
  ASSUME TypeOK, Fits, [Next]_vars, payloads = <<>>, StopsLast, QuietAfter,
         "unstopped" \notin tangled'
  PROVE  QuietAfter'
<1>0. /\ Len(posts) \in Nat /\ DOMAIN posts = 1..Len(posts)
      /\ Len(calls) \in Nat /\ DOMAIN calls = 1..Len(calls)
  BY Numbered
<1>1. Has(calls, {"disconnect"}) => Work \/ Fails \/ Has(calls', {"disconnect"})
  <2>1. calls \in Seq(Asked)
    BY TypeParts DEF NativeType
  <2>2. \A c \in Asked : calls' = Append(calls, c) /\ Has(calls, {"disconnect"})
                           => Has(calls', {"disconnect"})
    BY <2>1, HasAppend
  <2> QED
    BY <2>2, AskedThen
<1>f. Kept => ~Fails
  BY FailsIs, NoAnswerIs DEF Kept, Posts, Kinds, Attempts
<1>2. CASE Kept
  BY <1>1, <1>2, <1>f, WorkIs, NoAnswerIs, PostIs
     DEF Kept, QuietAfter, NoStopFrom, Work, Post, Quiet, Result
<1>3. CASE Heard
  <2>1. /\ UNCHANGED <<answer, running>> /\ DOMAIN posts' = 1..(Len(posts) - 1)
        /\ \A i \in DOMAIN posts' : posts'[i] = posts[i + 1]
    BY <1>3, HeardIs
  <2>2. ASSUME Work \/ Fails PROVE FALSE
    <3>1. posts' = posts
      BY <2>2, WorkIs, FailsIs
    <3> QED
      BY <1>0, <1>3, <2>1, <3>1, HeardIs
  <2>3. ASSUME ~Has(calls, {"disconnect"}), answer.kind # "disconnect",
               NEW i \in DOMAIN posts', NoStopFrom(i)'
        PROVE  Quiet(posts'[i])
    <3>1. i + 1 \in DOMAIN posts /\ posts'[i] = posts[i + 1] /\ i \in Nat
      BY <1>0, <2>1, <2>3
    <3>2. ASSUME NEW j \in DOMAIN posts, j >= i + 1
          PROVE  posts[j].kind # "disconnect"
      <4>1. j - 1 \in DOMAIN posts' /\ j - 1 >= i /\ (j - 1) + 1 = j
        BY <1>0, <2>1, <3>1, <3>2
      <4>2. posts'[j - 1] = posts[j]
        BY <2>1, <4>1
      <4> QED
        BY <2>3, <4>1, <4>2 DEF NoStopFrom
    <3> QED
      BY <2>3, <3>1, <3>2 DEF QuietAfter, NoStopFrom
  <2> QED
    BY <1>1, <2>1, <2>2, <2>3 DEF QuietAfter, Quiet
<1>4. CASE Work \/ Fails
  <2>1. /\ calls # <<>> /\ calls' = Tail(calls) /\ posts' = posts
        /\ answer.kind = "none" /\ Head(calls) = calls[1] /\ 1 \in DOMAIN calls
        /\ answer'.kind = Head(calls).kind /\ answer'.method = Head(calls).method
        /\ answer'.kind # "lost"
    BY <1>4, WorkIs, FailsIs, NoAnswerIs
  <2>2. Has(calls, {"disconnect"}) <=> Head(calls).kind = "disconnect"
                                         \/ Has(calls', {"disconnect"})
    <3>1. calls \in Seq(Asked)
      BY TypeParts DEF NativeType
    <3> QED
      BY <2>1, <3>1, HasTail
  <2>3. CASE Head(calls).kind = "disconnect"
    <3>1. running' = None
      BY <1>4, <2>1, <2>3, WorkIs, FailsIs DEF Fits
    <3> QED
      BY <2>1, <2>3, <3>1 DEF QuietAfter
  <2>4. CASE Head(calls).method = "start" \/ Head(calls).kind = "init"
    <3>1. PICK j \in DOMAIN calls : j > 1 /\ calls[j].kind = "disconnect"
      BY <2>1, <2>4 DEF StopsLast
    <3>2. /\ DOMAIN calls' = 1..(Len(calls) - 1)
          /\ \A i \in DOMAIN calls' : calls'[i] = calls[i + 1]
      BY <2>1, TakenIs
    <3>3. j - 1 \in DOMAIN calls' /\ (j - 1) + 1 = j
      BY <1>0, <3>1, <3>2
    <3>4. calls'[j - 1].kind = "disconnect"
      BY <3>1, <3>2, <3>3
    <3>5. Has(calls', {"disconnect"})
      BY <3>3, <3>4 DEF Has
    <3> QED
      BY <3>5 DEF QuietAfter
  <2>5. CASE /\ Head(calls).kind \notin {"disconnect", "init"}
             /\ Head(calls).method # "start" /\ ~Has(calls', {"disconnect"})
    <3>1. running = None /\ \A i \in DOMAIN posts : NoStopFrom(i) => Quiet(posts[i])
      BY <2>1, <2>2, <2>5 DEF QuietAfter
    <3>2. Head(calls).method = "status"
      BY <1>4, <2>5, WorkIs, FailsIs DEF Asked, Fits
    <3>3. running' = None /\ answer'.result # "ok"
      BY <1>4, <2>1, <3>1, <3>2, WorkIs, FailsIs
    <3> QED
      BY <2>1, <2>5, <3>1, <3>3 DEF QuietAfter, Quiet, NoStopFrom
  <2> QED
    BY <2>3, <2>4, <2>5 DEF QuietAfter
<1>5. CASE Post
  <2>1. /\ answer' = NoAnswer /\ UNCHANGED <<calls, running>>
        /\ DOMAIN posts' = 1..(Len(posts) + 1)
        /\ \A i \in DOMAIN posts : posts'[i] = posts[i] /\ i \in DOMAIN posts'
        /\ posts'[Len(posts) + 1] = answer
        /\ Len(posts) + 1 \in DOMAIN posts'
    BY <1>0, <1>5, PostIs
  <2>2. Quiet(answer')
    BY <2>1, NoAnswerIs DEF Quiet
  <2>3. ASSUME ~Has(calls, {"disconnect"}), NEW i \in DOMAIN posts', NoStopFrom(i)'
        PROVE  Quiet(posts'[i])
    <3>1. i \in Nat /\ Len(posts) + 1 >= i
      BY <1>0, <2>1
    <3>2. answer.kind # "disconnect"
      BY <2>1, <2>3, <3>1 DEF NoStopFrom
    <3>3. CASE i = Len(posts) + 1
      BY <2>1, <2>3, <3>2, <3>3 DEF QuietAfter
    <3>4. CASE i \in DOMAIN posts
      <4>1. NoStopFrom(i)
        BY <2>1, <2>3 DEF NoStopFrom
      <4> QED
        BY <2>1, <2>3, <3>2, <3>4, <4>1 DEF QuietAfter
    <3> QED
      BY <1>0, <2>1, <3>3, <3>4
  <2>4. ~Has(calls', {"disconnect"}) => ~Has(calls, {"disconnect"}) /\ running' = None
    BY <2>1 DEF QuietAfter
  <2> QED
    BY <2>2, <2>3, <2>4 DEF QuietAfter, Quiet
<1>6. CASE Loss
  <2>1. running # None /\ UNCHANGED calls
    BY <1>6, LossIs
  <2> QED
    BY <2>1 DEF QuietAfter
<1> QED
  BY <1>2, <1>3, <1>4, <1>5, <1>6, Moves

\* What was switched off is not switched on again, whatever comes back late.
LEMMA OffStep ==
  TypeOK /\ Fits /\ InitFirst /\ OffHolds /\ [Next]_vars => OffHolds'
<1> SUFFICES ASSUME TypeOK, Fits, InitFirst, OffHolds,
                    [Next]_vars
             PROVE  OffHolds'
  OBVIOUS
<1>0. tangled \subseteq tangled' /\ off \in BOOLEAN
  BY TangledGrows, TypeParts DEF FlagType
<1>k. "none" \notin {"disconnect"} /\ "lost" \notin {"disconnect"}
  OBVIOUS
<1>a. ASSUME off, {"overtaken", "hasty", "unstopped"} \cap tangled' = {}
      PROVE  /\ payloads = <<>> /\ StopsLast /\ QuietAfter
             /\ StopsLast' /\ QuietAfter'
             /\ ~Pending({"disconnect"}) => status = "disconnected"
             /\ InitUnanswered => status = "disconnecting"
             /\ InitUnanswered' => InitUnanswered
  BY <1>0, <1>a, StopsLastStep, QuietAfterStep, InitGone DEF OffHolds
<1>b. ASSUME Pending({"disconnect"})' <=> Pending({"disconnect"}),
             UNCHANGED <<off, payloads>>,
             status' = status \/ status \notin {"disconnected", "disconnecting"}
      PROVE  OffHolds'
  BY <1>a, <1>b DEF OffHolds
<1>c. ASSUME "disconnect" \in Unanswered => "hasty" \in tangled',
             status \in {"connected", "connecting"}, UNCHANGED off
      PROVE  OffHolds'
  BY <1>a, <1>c, UnansweredIs DEF OffHolds
<1>d. ASSUME Heard, Head(posts).kind # "disconnect", UNCHANGED <<off, payloads>>,
             Pending({"disconnect"}) <=> Pending({"disconnect"})',
             Head(posts).kind = "lost" => (status' = status \/
               status \in {"connected", "connecting"}),
             Quiet(Head(posts)) => (status' = status \/
               status \notin {"disconnected", "disconnecting"})
      PROVE  OffHolds'
  <2>1. ASSUME off, {"overtaken", "hasty", "unstopped"} \cap tangled' = {},
               ~Pending({"disconnect"})
        PROVE  Quiet(Head(posts))
    <3>1. 1 \in DOMAIN posts /\ Head(posts) = posts[1]
      BY <1>d, HeardIs
    <3>2. ~Has(calls, {"disconnect"}) /\ answer.kind # "disconnect" /\ NoStopFrom(1)
      BY <2>1 DEF Pending, Has, NoStopFrom
    <3> QED
      BY <1>a, <2>1, <3>1, <3>2 DEF QuietAfter
  <2>2. ASSUME off, {"overtaken", "hasty", "unstopped"} \cap tangled' = {}, InitUnanswered'
        PROVE  status' = "disconnecting"
    <3>1. Head(posts).kind = "lost"
      BY <1>d, <2>2, InitOver DEF InitUnanswered
    <3> QED
      BY <1>a, <1>d, <2>2, <3>1
  <2>3. ASSUME off, {"overtaken", "hasty", "unstopped"} \cap tangled' = {},
               ~Pending({"disconnect"})'
        PROVE  status' = "disconnected"
    BY <1>a, <1>d, <2>1, <2>3
  <2> QED
    BY <1>a, <1>d, <2>2, <2>3 DEF OffHolds
<1>1. CASE ToggleOn
  BY <1>1 DEF ToggleOn, OffHolds
<1>2. CASE ToggleOff
  <2> DEFINE c == Call("disconnect", "disconnect", None)
  <2>1. c \in Asked /\ c.kind = "disconnect" /\ calls' = Append(calls, c)
          /\ status' = "disconnecting" /\ payloads' = payloads
          /\ UNCHANGED <<answer, posts>>
    BY <1>2, CallFits DEF ToggleOff, Call
  <2> HIDE DEF c
  <2>2. payloads # <<>> => "overtaken" \in tangled'
    BY <1>2 DEF ToggleOff, Met
  <2>3. /\ Len(calls) \in Nat /\ DOMAIN calls = 1..Len(calls)
        /\ DOMAIN calls' = 1..(Len(calls) + 1)
        /\ \A i \in DOMAIN calls : calls'[i] = calls[i]
        /\ calls'[Len(calls) + 1] = c
    BY <2>1, AskedIs
  <2>4. Has(calls', {"disconnect"})
    BY <2>1, <2>3 DEF Has
  <2>5. ASSUME ~(c.method = "start") PROVE StopsLast'
    BY <2>1, <2>3, <2>5 DEF StopsLast
  <2>6. c.method # "start"
    BY DEF c, Call
  <2>7. QuietAfter' /\ Pending({"disconnect"})'
    BY <2>4 DEF QuietAfter, Pending
  <2> QED
    BY <2>1, <2>2, <2>5, <2>6, <2>7 DEF OffHolds
<1>3. CASE Reconnect
  BY <1>3 DEF Reconnect, OffHolds
<1>4. CASE Resume
  BY <1>4, <1>b, <1>k, PendingMoves DEF Resume, ghosts
<1>5. ASSUME NEW s \in Servers, SelectServer(s) PROVE OffHolds'
  BY <1>5, <1>k, <1>b, PendingMoves DEF SelectServer, ghosts
<1>6. CASE Saved
  <2>1. CASE payloads' = payloads
    <3>1. UNCHANGED <<status, off>>
      BY <1>6, <2>1, AppendNot DEF Saved, Switchable, Begin, Attempts
    <3> QED
      BY <1>6, <1>k, <1>b, <2>1, <3>1, PendingMoves
  <2>2. CASE payloads' # payloads
    BY <1>6, <1>c, <2>2 DEF Saved, Switchable, Met, Hasty
  <2> QED
    BY <2>1, <2>2
<1>7. CASE SwitchSettles
  BY <1>7, <1>k, <1>b, PendingMoves DEF SwitchSettles, ghosts
<1>8. CASE Retry
  <2>1. CASE payloads' = payloads
    BY <1>8, <1>k, <1>b, <2>1, PendingMoves DEF Retry
  <2>2. CASE payloads' # payloads
    BY <1>8, <1>c, <2>2 DEF Retry, Met, Hasty
  <2> QED
    BY <2>1, <2>2
<1>9. CASE Stable
  BY <1>9, <1>k, <1>b, PendingMoves DEF Stable, ghosts
<1>10. CASE Tick
  <2>1. Pending({"disconnect"})' <=> Pending({"disconnect"})
    BY <1>10, <1>k, PendingMoves
  <2> QED
    BY <1>10, <1>b, <2>1 DEF Tick
<1>11. ASSUME NEW i \in DOMAIN payloads, Payload(i) PROVE OffHolds'
  <2>1. payloads # <<>> /\ UNCHANGED off
    BY <1>11, TypeParts, RemoveAtIs, EmptySeq DEF NativeType, Payload, ghosts
  <2> QED
    BY <1>a, <2>1 DEF OffHolds
<1>12. CASE Work
  BY <1>12, <1>k, <1>b, PendingMoves DEF Work, ghosts
<1>13. CASE Post
  BY <1>13, <1>k, <1>b, PendingMoves DEF Post, ghosts
<1>14. CASE Loss
  BY <1>14, <1>k, <1>b, PendingMoves DEF Loss, ghosts
<1>15. CASE Started
  <2>1. Heard /\ Head(posts).kind \in Attempts /\ Head(posts).method = "start"
          /\ UNCHANGED <<off, payloads>>
    BY <1>15, AnswersHeard DEF Started, Comes, ghosts
  <2>2. ~Quiet(Head(posts))
    BY <2>1 DEF Quiet
  <2>3. Head(posts).kind \notin {"lost", "disconnect"}
    BY <2>1 DEF Attempts
  <2>4. Pending({"disconnect"}) <=> Pending({"disconnect"})'
    BY <1>15, <1>k, <2>3, PendingMoves
  <2> QED
    BY <1>d, <2>1, <2>2, <2>3, <2>4
<1>16. CASE Confirmed
  <2>1. Heard /\ Head(posts).kind \in Attempts /\ UNCHANGED <<off, payloads>>
    BY <1>16, AnswersHeard DEF Confirmed, Comes, ghosts
  <2>2. Quiet(Head(posts)) =>
          status' = status \/ status \notin {"disconnected", "disconnecting"}
    BY <1>16 DEF Confirmed, Quiet, Answered, MarkConnected
  <2>3. Head(posts).kind \notin {"lost", "disconnect"}
    BY <2>1 DEF Attempts
  <2>4. Pending({"disconnect"}) <=> Pending({"disconnect"})'
    BY <1>16, <1>k, <2>3, PendingMoves
  <2> QED
    BY <1>d, <2>1, <2>2, <2>3, <2>4
<1>17. CASE Ticked
  <2>1. Heard /\ Head(posts).kind \in {"tick"} /\ UNCHANGED <<off, payloads>>
    BY <1>17, AnswersHeard DEF Ticked, Comes, ghosts
  <2>2. Quiet(Head(posts)) =>
          status' = status \/ status \notin {"disconnected", "disconnecting"}
    BY <1>17 DEF Ticked, Quiet, Answered, MarkConnected
  <2>3. Head(posts).kind \notin {"lost", "disconnect"}
    BY <2>1 DEF Attempts
  <2>4. Pending({"disconnect"}) <=> Pending({"disconnect"})'
    BY <1>17, <1>k, <2>3, PendingMoves
  <2> QED
    BY <1>d, <2>1, <2>2, <2>3, <2>4
<1>18. CASE Disconnected
  <2>1. Heard /\ Head(posts).kind # "lost" /\ UNCHANGED <<off, payloads>>
          /\ status' = "disconnected"
    BY <1>18, AnswersHeard DEF Disconnected, ghosts
  <2>2. ~InitUnanswered'
    BY <2>1, InitOver DEF InitUnanswered
  <2> QED
    BY <1>a, <2>1, <2>2 DEF OffHolds
<1>19. CASE Synced
  <2>1. Heard /\ Head(posts).kind \in {"sync"} /\ UNCHANGED <<off, payloads>>
    BY <1>19, AnswersHeard DEF Synced, Comes, ghosts
  <2>2. Quiet(Head(posts)) =>
          status' = status \/ status \notin {"disconnected", "disconnecting"}
    BY <1>19 DEF Synced, Quiet, Answered, Connected
  <2>3. Head(posts).kind \notin {"lost", "disconnect"}
    BY <2>1 DEF Attempts
  <2>4. Pending({"disconnect"}) <=> Pending({"disconnect"})'
    BY <1>19, <1>k, <2>3, PendingMoves
  <2> QED
    BY <1>d, <2>1, <2>2, <2>3, <2>4
<1>20. CASE Initialized
  <2>1. Heard /\ Head(posts).kind = "init" /\ UNCHANGED off /\ posts # <<>>
    BY <1>20, AnswersHeard DEF Initialized, Comes, ghosts
  <2>2. InitUnanswered
    <3>1. "none" \notin {"init"} /\ "lost" \notin {"init"}
      OBVIOUS
    <3> QED
      BY <1>20, <2>1, <3>1, PendingMoves DEF InitUnanswered
  <2>3. CASE status = "disconnecting"
    <3>1. UNCHANGED <<status, payloads>>
      BY <1>20, <2>3 DEF Initialized
    <3>2. Pending({"disconnect"}) <=> Pending({"disconnect"})'
      BY <1>20, <1>k, <2>1, PendingMoves
    <3> QED
      BY <1>b, <2>1, <3>1, <3>2
  <2>4. CASE status # "disconnecting"
    BY <1>a, <2>1, <2>2, <2>4 DEF OffHolds
  <2> QED
    BY <2>3, <2>4
<1>21. CASE CoreStopped
  <2>1. Heard /\ Head(posts).kind = "lost" /\ UNCHANGED <<off, payloads>>
    BY <1>21, AnswersHeard DEF CoreStopped, Comes, ghosts
  <2>2. ~Quiet(Head(posts))
    BY <2>1 DEF Quiet
  <2>3. status' = status \/ status \in {"connected", "connecting"}
    BY <1>21 DEF CoreStopped, Concerned
  <2>4. Pending({"disconnect"}) <=> Pending({"disconnect"})'
    BY <1>21, <1>k, <2>1, PendingMoves
  <2> QED
    BY <1>d, <2>1, <2>2, <2>3, <2>4
<1>22. CASE UNCHANGED vars
  BY <1>22, <1>k, <1>b, PendingMoves DEF vars, ghosts
<1>23. ASSUME NEW i \in DOMAIN payloads, Unbuilt(i) PROVE OffHolds'
  <2>1. payloads # <<>> /\ UNCHANGED off
    BY <1>23, TypeParts, RemoveAtIs, EmptySeq DEF NativeType, Unbuilt
  <2> QED
    BY <1>a, <2>1 DEF OffHolds
<1>24. CASE Fails
  BY <1>24, <1>k, <1>b, PendingMoves DEF Fails
<1> QED
  BY <1>1, <1>2, <1>3, <1>4, <1>5, <1>6, <1>7, <1>8, <1>9, <1>10, <1>11, <1>12,
     <1>13, <1>14, <1>15, <1>16, <1>17, <1>18, <1>19, <1>20, <1>21, <1>22, <1>23, <1>24
     DEF Next, User, Due, Switch, Native, Reply, Payloads

-----------------------------------------------------------------------------
(* A connection that is shown and gone is told of, in order.               *)

\* A start that failed; what says that a core runs, and that none does.
Failed(p) == p.method = "start" /\ p.result # "ok"
Up(p) == p.method = "status" /\ p.result = "ok"
Denied(p) == p.method = "status" /\ p.result # "ok"

\* What will change the status when it is heard.
Cause(p) == p.kind \in {"lost", "disconnect"} \/ Failed(p)

\* When the app shows a connection, or will hear of one, that is gone, the cause
\* is still to be heard.
Explained ==
  "late" \notin tangled =>
    /\ Up(answer) => running # None
    /\ status = "connected" /\ running = None =>
         Cause(answer) \/ \E i \in DOMAIN posts : Cause(posts[i])
    /\ \A i \in DOMAIN posts : Up(posts[i]) /\ running = None =>
         Cause(answer) \/ \E j \in DOMAIN posts : j > i /\ Cause(posts[j])

\* A question that denies it comes after that cause.
DenialExplained ==
  "late" \notin tangled /\ Known =>
    /\ status = "connected" /\ Denied(answer) => \E j \in DOMAIN posts : Cause(posts[j])
    /\ \A i \in DOMAIN posts : status = "connected" /\ Denied(posts[i]) =>
         \E j \in DOMAIN posts : j < i /\ Cause(posts[j])
    /\ \A k \in DOMAIN posts : Up(posts[k]) /\ Denied(answer) =>
         \E j \in DOMAIN posts : j > k /\ Cause(posts[j])
    /\ \A k, i \in DOMAIN posts : k < i /\ Up(posts[k]) /\ Denied(posts[i]) =>
         \E j \in DOMAIN posts : k < j /\ j < i /\ Cause(posts[j])

\* A post that is heard is there no more.
LEMMA NotHeard ==
  ASSUME TypeOK, posts' = posts \/ DOMAIN posts' = 1..(Len(posts) + 1)
  PROVE  ~Heard
<1> SUFFICES ASSUME Heard PROVE FALSE
  OBVIOUS
<1>1. Len(posts) \in Nat /\ Len(posts) >= 1 /\ DOMAIN posts = 1..Len(posts)
        /\ DOMAIN posts' = 1..(Len(posts) - 1)
  BY HeardIs
<1>2. \A n \in Nat : n >= 1 => n \in 1..n /\ n \notin 1..(n - 1) /\ n \in 1..(n + 1)
  OBVIOUS
<1>3. Len(posts) \in DOMAIN posts /\ Len(posts) \notin DOMAIN posts'
        /\ Len(posts) \in 1..(Len(posts) + 1)
  <2> DEFINE n == Len(posts)
  <2>1. n \in Nat /\ n >= 1 /\ DOMAIN posts = 1..n /\ DOMAIN posts' = 1..(n - 1)
    BY <1>1
  <2> HIDE DEF n
  <2>2. n \in DOMAIN posts /\ n \notin DOMAIN posts' /\ n \in 1..(n + 1)
    BY <1>2, <2>1
  <2> QED
    BY <2>2 DEF n
<1> QED
  BY <1>3

\* The app hears a post when it acts on it, and only then.
LEMMA HeardReplies ==
  ASSUME TypeOK, [Next]_vars
  PROVE  Heard <=> Reply
<1>1. Reply => Heard
  BY AnswersHeard DEF Reply
<1>2. Post \/ Loss => ~Heard
  BY NotHeard, PostIs, LossIs
<1>3. User => ~Heard
  BY NotHeard
     DEF User, ToggleOn, ToggleOff, Reconnect, Resume, SelectServer, nativeVars
<1>4. Switch \/ Retry \/ Stable \/ Tick \/ Payloads \/ Work \/ Fails => ~Heard
  BY NotHeard
     DEF Switch, Saved, Switchable, SwitchSettles, Retry, Stable, Tick, Payloads,
         Payload, Unbuilt, Work, Fails,
         nativeVars
<1>5. UNCHANGED vars => ~Heard
  BY NotHeard DEF vars, nativeVars
<1> QED
  BY <1>1, <1>2, <1>3, <1>4, <1>5 DEF Next, Due, Native

\* A connection is shown when it was, or when an answer says that one is up; the
\* news of its end takes it away.
LEMMA Connects ==
  ASSUME TypeOK, [Next]_vars, status' = "connected"
  PROVE  /\ ~Heard => status = "connected"
         /\ Heard => /\ ~Cause(Head(posts))
                     /\ status = "connected" \/ Up(Head(posts))
<1>1. CASE Heard
  <2>1. Reply
    BY <1>1, HeardReplies
  <2>2. CASE Started
    <3>1. Answered = "ok" /\ Head(posts).kind \in Attempts /\ UNCHANGED status
      BY <2>2 DEF Started, Comes, FailConnect, Schedule, Shown
    <3> QED
      BY <1>1, <3>1 DEF Cause, Failed, Answered, Attempts
  <2>3. CASE Confirmed
    BY <1>1, <2>3
       DEF Confirmed, Comes, MarkConnected, Cause, Failed, Up, Answered, Attempts
  <2>4. CASE Ticked
    BY <1>1, <2>4 DEF Ticked, Comes, MarkConnected, Cause, Failed, Up, Answered
  <2>5. CASE Disconnected
    BY <2>5 DEF Disconnected
  <2>6. CASE Synced
    BY <1>1, <2>6 DEF Synced, Comes, Cause, Failed, Up, Answered
  <2>7. CASE Initialized
    BY <1>1, <2>7 DEF Initialized, Comes, Begin, Cause, Failed, Up, Answered
  <2>8. CASE CoreStopped
    BY <2>8 DEF CoreStopped, Concerned, Schedule, Shown
  <2> QED
    BY <2>1, <2>2, <2>3, <2>4, <2>5, <2>6, <2>7, <2>8 DEF Reply
<1>2. CASE ~Heard
  <2>1. ~Reply
    BY <1>2, HeardReplies
  <2>2. User => status = "connected"
    BY DEF User, ToggleOn, ToggleOff, Reconnect, Resume, SelectServer, Begin
  <2>3. Switch \/ Retry \/ Stable \/ Tick => status = "connected"
    BY DEF Switch, Saved, Switchable, SwitchSettles, Retry, Stable, Tick, Begin
  <2>4. Payloads \/ Native \/ Loss \/ Fails \/ UNCHANGED vars => status = "connected"
    BY DEF Payloads, Payload, Unbuilt, FailConnect, Schedule, Shown, Native, Work,
       Post, Loss, Fails, vars
  <2> QED
    BY <1>2, <2>1, <2>2, <2>3, <2>4 DEF Next, Due
<1> QED
  BY <1>1, <1>2

\* What is gone stays explained.
LEMMA ExplainedStep ==
  ASSUME TypeOK, Fits, Explained, [Next]_vars
  PROVE  Explained'
<1>0. /\ Len(posts) \in Nat /\ DOMAIN posts = 1..Len(posts)
      /\ tangled \subseteq tangled'
  BY Numbered, TangledGrows
<1>1. CASE Kept
  <2>1. ~Heard
    BY <1>1, NotHeard DEF Kept
  <2>2. status' = "connected" => status = "connected"
    BY <2>1, Connects
  <2> QED
    BY <1>0, <1>1, <2>2 DEF Kept, Explained, Cause, Up, Failed
<1>2. CASE Work \/ Fails
  <2>1. ~Heard
    BY <1>2, NotHeard, WorkIs, FailsIs
  <2>2. status' = "connected" => status = "connected"
    BY <2>1, Connects
  <2>3. ~Cause(answer) /\ posts' = posts
    BY <1>2, WorkIs, FailsIs, NoAnswerIs DEF Cause, Failed
  <2>4. Up(answer') => running' # None
    BY <1>2, WorkIs, FailsIs DEF Up
  <2>5. running' = None => running = None \/ Cause(answer')
    <3>1. Head(calls).method \in {"start", "disconnect", "status"}
      BY <1>2, WorkIs, FailsIs DEF Asked
    <3> QED
      BY <1>2, <3>1, WorkIs, FailsIs DEF Cause, Failed
  <2> QED
    BY <1>0, <2>2, <2>3, <2>4, <2>5 DEF Explained, Cause, Up, Failed
<1>3. CASE Post
  <2>1. /\ answer' = NoAnswer /\ UNCHANGED running
        /\ DOMAIN posts' = 1..(Len(posts) + 1)
        /\ \A i \in DOMAIN posts : posts'[i] = posts[i] /\ i \in DOMAIN posts'
        /\ posts'[Len(posts) + 1] = answer
        /\ Len(posts) + 1 \in DOMAIN posts'
        /\ \A i \in DOMAIN posts : Len(posts) + 1 > i
    BY <1>0, <1>3, PostIs
  <2>2. ~Heard
    BY <2>1, NotHeard
  <2>3. status' = "connected" => status = "connected"
    BY <2>2, Connects
  <2>4. ~Up(answer')
    BY <2>1, NoAnswerIs DEF Up
  <2>5. ASSUME "late" \notin tangled, status = "connected", running = None
        PROVE  \E i \in DOMAIN posts' : Cause(posts'[i])
    BY <2>1, <2>5 DEF Explained
  <2>6. ASSUME "late" \notin tangled, running = None, NEW i \in DOMAIN posts',
                 Up(posts'[i])
        PROVE  \E j \in DOMAIN posts' : j > i /\ Cause(posts'[j])
    <3>1. i # Len(posts) + 1
      BY <2>1, <2>6 DEF Explained
    <3>2. i \in DOMAIN posts
      BY <1>0, <2>1, <3>1
    <3> QED
      BY <2>1, <2>6, <3>2 DEF Explained
  <2> QED
    BY <1>0, <2>1, <2>3, <2>4, <2>5, <2>6 DEF Explained, Cause, Up, Failed
<1>4. CASE Loss
  <2>1. /\ UNCHANGED answer /\ running' = None
        /\ DOMAIN posts' = 1..(Len(posts) + 1)
        /\ \A i \in DOMAIN posts : posts'[i] = posts[i] /\ i \in DOMAIN posts'
        /\ posts'[Len(posts) + 1].kind = "lost" /\
             posts'[Len(posts) + 1].method = "lost"
        /\ Len(posts) + 1 \in DOMAIN posts'
        /\ \A i \in DOMAIN posts : Len(posts) + 1 > i
    BY <1>0, <1>4, LossIs
  <2>2. Cause(posts'[Len(posts) + 1]) /\ ~Up(posts'[Len(posts) + 1])
    BY <2>1 DEF Cause, Up
  <2>3. "late" \notin tangled' => ~Up(answer')
    BY <1>4 DEF Loss, Met, Up
  <2>4. \A i \in DOMAIN posts' : Up(posts'[i]) => Len(posts) + 1 > i
    BY <1>0, <2>1, <2>2
  <2> QED
    BY <2>1, <2>2, <2>3, <2>4 DEF Explained, Cause, Up, Failed
<1>5. CASE Heard
  <2>1. /\ UNCHANGED <<answer, running>> /\ DOMAIN posts' = 1..(Len(posts) - 1)
        /\ \A i \in DOMAIN posts' : posts'[i] = posts[i + 1] /\ i + 1 \in DOMAIN posts
        /\ 1 \in DOMAIN posts /\ Head(posts) = posts[1]
        /\ \A j \in DOMAIN posts : j > 1 => j - 1 \in DOMAIN posts' /\
             posts'[j - 1] = posts[j]
    <3>1. /\ UNCHANGED <<answer, running>> /\ DOMAIN posts' = 1..(Len(posts) - 1)
          /\ Len(posts) >= 1 /\ Head(posts) = posts[1]
          /\ \A i \in DOMAIN posts' : posts'[i] = posts[i + 1]
      BY <1>5, HeardIs
    <3> QED
      BY <1>0, <3>1
  <2>2. ASSUME "late" \notin tangled, status' = "connected", running = None
        PROVE  Cause(answer) \/ \E i \in DOMAIN posts' : Cause(posts'[i])
    <3>1. ~Cause(posts[1]) /\ (status = "connected" \/ Up(posts[1]))
      BY <1>5, <2>1, <2>2, Connects
    <3>2. Cause(answer) \/ \E j \in DOMAIN posts : Cause(posts[j])
      BY <2>1, <2>2, <3>1 DEF Explained
    <3>3. \A j \in DOMAIN posts : j = 1 \/ j > 1
      BY <1>0
    <3> QED
      BY <2>1, <3>1, <3>2, <3>3
  <2>3. ASSUME "late" \notin tangled, running = None, NEW i \in DOMAIN posts',
                 Up(posts'[i])
        PROVE  Cause(answer) \/ \E j \in DOMAIN posts' : j > i /\ Cause(posts'[j])
    <3>1. Cause(answer) \/ \E j \in DOMAIN posts : j > i + 1 /\ Cause(posts[j])
      BY <2>1, <2>3 DEF Explained
    <3>2. \A j \in DOMAIN posts : j > i + 1 => j > 1 /\ j - 1 > i
      BY <1>0, <2>1, <2>3
    <3> QED
      BY <2>1, <3>1, <3>2
  <2> QED
    BY <1>0, <2>1, <2>2, <2>3 DEF Explained, Cause, Up, Failed
<1> QED
  BY <1>1, <1>2, <1>3, <1>4, <1>5, Moves

\* And what denies it stays behind its cause.
LEMMA DenialExplainedStep ==
  ASSUME TypeOK, Fits, Explained, DenialExplained, [Next]_vars
  PROVE  DenialExplained'
<1> SUFFICES ASSUME Known' PROVE DenialExplained'
  BY DEF DenialExplained
<1>k. Known /\ ~Fails
  BY OrderlyStays
<1> USE <1>k
<1>0. /\ Len(posts) \in Nat /\ DOMAIN posts = 1..Len(posts)
      /\ tangled \subseteq tangled'
  BY Numbered, TangledGrows
<1>1. CASE Kept
  <2>1. ~Heard
    BY <1>1, NotHeard DEF Kept
  <2>2. status' = "connected" => status = "connected"
    BY <2>1, Connects
  <2> QED
    BY <1>0, <1>1, <2>2 DEF Kept, DenialExplained, Cause, Up, Denied, Failed
<1>2. CASE Work
  <2>1. ~Heard
    BY <1>2, NotHeard, WorkIs
  <2>2. status' = "connected" => status = "connected"
    BY <2>1, Connects
  <2>3. ~Cause(answer) /\ posts' = posts
    BY <1>2, WorkIs, NoAnswerIs DEF Cause, Failed
  <2>4. Denied(answer') => running = None
    BY <1>2, WorkIs DEF Denied
  <2>5. ASSUME "late" \notin tangled, Denied(answer')
        PROVE  /\ status = "connected" => \E j \in DOMAIN posts : Cause(posts[j])
               /\ \A k \in DOMAIN posts : Up(posts[k]) =>
                    \E j \in DOMAIN posts : j > k /\ Cause(posts[j])
    BY <2>3, <2>4, <2>5 DEF Explained
  <2> QED
    BY <1>0, <2>2, <2>3, <2>5 DEF DenialExplained, Cause, Up, Denied, Failed
<1>3. CASE Post
  <2>1. /\ answer' = NoAnswer
        /\ DOMAIN posts' = 1..(Len(posts) + 1)
        /\ \A i \in DOMAIN posts : posts'[i] = posts[i] /\ i \in DOMAIN posts'
        /\ posts'[Len(posts) + 1] = answer
        /\ \A i \in DOMAIN posts : Len(posts) + 1 > i
        /\ \A i \in DOMAIN posts' : i \in DOMAIN posts \/ i = Len(posts) + 1
    BY <1>0, <1>3, PostIs
  <2>2. ~Heard
    BY <2>1, NotHeard
  <2>3. status' = "connected" => status = "connected"
    BY <2>2, Connects
  <2>4. ~Denied(answer')
    BY <2>1, NoAnswerIs DEF Denied
  <2>5. ASSUME "late" \notin tangled, status = "connected",
               NEW i \in DOMAIN posts', Denied(posts'[i])
        PROVE  \E j \in DOMAIN posts' : j < i /\ Cause(posts'[j])
    <3>1. \E j \in DOMAIN posts : j < i /\ Cause(posts[j])
      <4>1. CASE i \in DOMAIN posts
        BY <2>1, <2>5, <4>1 DEF DenialExplained
      <4>2. CASE i = Len(posts) + 1
        <5>1. \E j \in DOMAIN posts : Cause(posts[j])
          BY <2>1, <2>5, <4>2 DEF DenialExplained
        <5> QED
          BY <1>0, <4>2, <5>1
      <4> QED
        BY <2>1, <4>1, <4>2
    <3> QED
      BY <2>1, <3>1
  <2>6. ASSUME "late" \notin tangled, NEW k \in DOMAIN posts', NEW i \in DOMAIN posts',
               k < i, Up(posts'[k]), Denied(posts'[i])
        PROVE  \E j \in DOMAIN posts' : k < j /\ j < i /\ Cause(posts'[j])
    <3>0. k \in DOMAIN posts
      BY <1>0, <2>1, <2>6
    <3>1. \E j \in DOMAIN posts : k < j /\ j < i /\ Cause(posts[j])
      <4>1. CASE i \in DOMAIN posts
        BY <2>1, <2>6, <3>0, <4>1 DEF DenialExplained
      <4>2. CASE i = Len(posts) + 1
        <5>1. \E j \in DOMAIN posts : j > k /\ Cause(posts[j])
          BY <2>1, <2>6, <3>0, <4>2 DEF DenialExplained
        <5> QED
          BY <1>0, <3>0, <4>2, <5>1
      <4> QED
        BY <2>1, <4>1, <4>2
    <3> QED
      BY <2>1, <3>1
  <2> QED
    BY <1>0, <2>3, <2>4, <2>5, <2>6 DEF DenialExplained, Cause, Up, Denied, Failed
<1>4. CASE Loss
  <2>1. /\ UNCHANGED answer
        /\ DOMAIN posts' = 1..(Len(posts) + 1)
        /\ \A i \in DOMAIN posts : posts'[i] = posts[i] /\ i \in DOMAIN posts'
        /\ posts'[Len(posts) + 1].method = "lost"
        /\ \A i \in DOMAIN posts' : i \in DOMAIN posts \/ i = Len(posts) + 1
    BY <1>0, <1>4, LossIs
  <2>2. ~Heard
    BY <2>1, NotHeard
  <2>3. status' = "connected" => status = "connected"
    BY <2>2, Connects
  <2>4. "late" \notin tangled' => ~Denied(answer')
    BY <1>4 DEF Loss, Met, Denied
  <2>5. \A i \in DOMAIN posts' : Denied(posts'[i]) \/ Up(posts'[i]) =>
          i \in DOMAIN posts
    BY <2>1 DEF Denied, Up
  <2>6. ASSUME "late" \notin tangled, status = "connected",
               NEW i \in DOMAIN posts', Denied(posts'[i])
        PROVE  \E j \in DOMAIN posts' : j < i /\ Cause(posts'[j])
    BY <2>1, <2>5, <2>6 DEF DenialExplained
  <2>7. ASSUME "late" \notin tangled, NEW k \in DOMAIN posts', NEW i \in DOMAIN posts',
               k < i, Up(posts'[k]), Denied(posts'[i])
        PROVE  \E j \in DOMAIN posts' : k < j /\ j < i /\ Cause(posts'[j])
    BY <2>1, <2>5, <2>7 DEF DenialExplained
  <2> QED
    BY <1>0, <2>3, <2>4, <2>6, <2>7 DEF DenialExplained, Cause, Up, Denied, Failed
<1>5. CASE Heard
  <2>1. /\ UNCHANGED answer /\ DOMAIN posts' = 1..(Len(posts) - 1)
        /\ \A i \in DOMAIN posts' : posts'[i] = posts[i + 1] /\ i + 1 \in DOMAIN posts
        /\ 1 \in DOMAIN posts /\ Head(posts) = posts[1]
        /\ \A j \in DOMAIN posts : j > 1 => j - 1 \in DOMAIN posts' /\
             posts'[j - 1] = posts[j]
        /\ \A j \in DOMAIN posts : j = 1 \/ j > 1
    <3>1. /\ UNCHANGED <<answer, running>> /\ DOMAIN posts' = 1..(Len(posts) - 1)
          /\ Len(posts) >= 1 /\ Head(posts) = posts[1]
          /\ \A i \in DOMAIN posts' : posts'[i] = posts[i + 1]
      BY <1>5, HeardIs
    <3> QED
      BY <1>0, <3>1
  <2>2. ASSUME status' = "connected"
        PROVE  ~Cause(posts[1]) /\ (status = "connected" \/ Up(posts[1]))
    BY <1>5, <2>1, <2>2, Connects
  <2>3. ASSUME "late" \notin tangled, status' = "connected", Denied(answer)
        PROVE  \E j \in DOMAIN posts' : Cause(posts'[j])
    <3>1. \E j \in DOMAIN posts : Cause(posts[j])
      BY <2>1, <2>2, <2>3 DEF DenialExplained
    <3> QED
      BY <2>1, <2>2, <2>3, <3>1
  <2>4. ASSUME "late" \notin tangled, status' = "connected",
               NEW i \in DOMAIN posts', Denied(posts'[i])
        PROVE  \E j \in DOMAIN posts' : j < i /\ Cause(posts'[j])
    <3>1. 1 < i + 1 /\ i \in Nat
      BY <1>0, <2>1
    <3>2. \E j \in DOMAIN posts : j < i + 1 /\ Cause(posts[j])
      BY <2>1, <2>2, <2>4, <3>1 DEF DenialExplained
    <3>3. \A j \in DOMAIN posts : j < i + 1 => j - 1 < i
      BY <1>0, <3>1
    <3> QED
      BY <2>1, <2>2, <2>4, <3>2, <3>3
  <2>5. ASSUME "late" \notin tangled, NEW k \in DOMAIN posts', Up(posts'[k]),
                 Denied(answer)
        PROVE  \E j \in DOMAIN posts' : j > k /\ Cause(posts'[j])
    <3>1. \E j \in DOMAIN posts : j > k + 1 /\ Cause(posts[j])
      BY <2>1, <2>5 DEF DenialExplained
    <3>2. \A j \in DOMAIN posts : j > k + 1 => j > 1 /\ j - 1 > k
      BY <1>0, <2>1, <2>5
    <3> QED
      BY <2>1, <3>1, <3>2
  <2>6. ASSUME "late" \notin tangled, NEW k \in DOMAIN posts', NEW i \in DOMAIN posts',
               k < i, Up(posts'[k]), Denied(posts'[i])
        PROVE  \E j \in DOMAIN posts' : k < j /\ j < i /\ Cause(posts'[j])
    <3>0. k + 1 < i + 1 /\ k \in Nat /\ i \in Nat
      BY <2>1, <2>6
    <3>1. \E j \in DOMAIN posts : k + 1 < j /\ j < i + 1 /\ Cause(posts[j])
      BY <2>1, <2>6, <3>0 DEF DenialExplained
    <3>2. \A j \in DOMAIN posts : k + 1 < j /\ j < i + 1 =>
            j > 1 /\ k < j - 1 /\ j - 1 < i
      BY <1>0, <3>0
    <3> QED
      BY <2>1, <3>1, <3>2
  <2> QED
    BY <1>0, <2>1, <2>3, <2>4, <2>5, <2>6 DEF DenialExplained, Cause, Up, Denied, Failed
<1> QED
  BY <1>1, <1>2, <1>3, <1>4, <1>5, Moves

-----------------------------------------------------------------------------
(* A disconnect is the last of what was asked.                             *)

\* The app shows that it disconnects until it hears that it has.
Stopping == status = "disconnecting" => Pending({"disconnect"})

\* No start comes behind a disconnect.
NoneBehind ==
  /\ \A i, j \in DOMAIN calls :
       i < j /\ calls[i].kind = "disconnect" => calls[j].method # "start"
  /\ answer.kind = "disconnect" => ~HasStart(calls)
  /\ \A i \in DOMAIN posts : posts[i].kind = "disconnect" =>
       ~HasStart(calls) /\ NoStartAfter(i)

\* Nor is one behind it yet to be asked, and it comes after the first question
\* only when the app shows it.
DisconnectLast ==
  {"overtaken", "hasty"} \cap tangled = {} /\ Pending({"disconnect"}) =>
    /\ payloads = <<>> /\ NoneBehind
    /\ InitUnanswered => status = "disconnecting"

\* What is asked later is no start.
LEMMA NoneBehindStep ==
  ASSUME TypeOK, Fits, [Next]_vars, payloads = <<>>, NoneBehind
  PROVE  NoneBehind'
<1>0. /\ Len(posts) \in Nat /\ DOMAIN posts = 1..Len(posts)
      /\ Len(calls) \in Nat /\ DOMAIN calls = 1..Len(calls)
      /\ calls \in Seq(Asked)
  BY Numbered, TypeParts DEF NativeType
<1>1. HasStart(calls') => HasStart(calls)
  <2>1. Work \/ Fails => (HasStart(calls) <=>
          Head(calls).method = "start" \/ HasStart(calls'))
    BY <1>0, HasTail DEF Work, Fails
  <2>2. ASSUME NEW c \in Asked, calls' = Append(calls, c), c.method # "start"
        PROVE  HasStart(calls') <=> HasStart(calls)
    BY <1>0, <2>2, HasAppend
  <2> QED
    BY <2>1, <2>2, AskedThen
<1>2. \A i, j \in DOMAIN calls' :
        i < j /\ calls'[i].kind = "disconnect" => calls'[j].method # "start"
  <2>1. CASE UNCHANGED calls
    BY <2>1 DEF NoneBehind
  <2>2. ASSUME NEW c \in Asked, calls' = Append(calls, c), c.method # "start",
               NEW i \in DOMAIN calls', NEW j \in DOMAIN calls', i < j,
               calls'[i].kind = "disconnect"
        PROVE  calls'[j].method # "start"
    <3>1. /\ DOMAIN calls' = 1..(Len(calls) + 1)
          /\ \A n \in DOMAIN calls : calls'[n] = calls[n]
          /\ calls'[Len(calls) + 1] = c
      BY <2>2, AskedIs
    <3>2. CASE j = Len(calls) + 1
      BY <2>2, <3>1, <3>2
    <3>3. CASE j \in DOMAIN calls
      <4>1. i \in DOMAIN calls
        BY <1>0, <2>2, <3>1, <3>3
      <4> QED
        BY <2>2, <3>1, <3>3, <4>1 DEF NoneBehind
    <3> QED
      BY <1>0, <2>2, <3>1, <3>2, <3>3
  <2>3. ASSUME Work \/ Fails,
               NEW i \in DOMAIN calls', NEW j \in DOMAIN calls', i < j,
               calls'[i].kind = "disconnect"
        PROVE  calls'[j].method # "start"
    <3>1. /\ DOMAIN calls' = 1..(Len(calls) - 1)
          /\ \A n \in DOMAIN calls' : calls'[n] = calls[n + 1]
      BY <2>3, WorkIs, FailsIs, TakenIs
    <3>2. i + 1 \in DOMAIN calls /\ j + 1 \in DOMAIN calls /\ i + 1 < j + 1
      BY <1>0, <2>3, <3>1
    <3> QED
      BY <2>3, <3>1, <3>2 DEF NoneBehind
  <2> QED
    BY <2>1, <2>2, <2>3, AskedThen
<1>3. CASE Kept
  BY <1>1, <1>2, <1>3 DEF Kept, NoneBehind, NoStartAfter
<1>4. CASE Heard
  <2>1. /\ UNCHANGED answer /\ DOMAIN posts' = 1..(Len(posts) - 1)
        /\ \A i \in DOMAIN posts' : posts'[i] = posts[i + 1] /\ i + 1 \in DOMAIN posts
    BY <1>0, <1>4, HeardIs
  <2>2. ASSUME NEW i \in DOMAIN posts', posts'[i].kind = "disconnect"
        PROVE  ~HasStart(calls) /\ NoStartAfter(i)'
    <3>1. ~HasStart(calls) /\ NoStartAfter(i + 1)
      BY <2>1, <2>2 DEF NoneBehind
    <3>2. \A j \in DOMAIN posts' : j > i => j + 1 > i + 1
      BY <2>1
    <3> QED
      BY <2>1, <3>1, <3>2 DEF NoStartAfter
  <2> QED
    BY <1>1, <1>2, <2>1, <2>2 DEF NoneBehind
<1>5. CASE Work \/ Fails
  <2>1. /\ posts' = posts /\ answer'.kind = Head(calls).kind /\ Head(calls) = calls[1]
        /\ answer'.method = Head(calls).method /\ 1 \in DOMAIN calls
        /\ calls # <<>> /\ calls' = Tail(calls)
    BY <1>5, WorkIs, FailsIs
  <2>2. answer'.kind = "disconnect" => ~HasStart(calls')
    <3>1. /\ DOMAIN calls' = 1..(Len(calls) - 1)
          /\ \A n \in DOMAIN calls' : calls'[n] = calls[n + 1]
      BY <2>1, TakenIs
    <3>2. \A n \in DOMAIN calls' : n + 1 \in DOMAIN calls /\ 1 < n + 1
      BY <1>0, <3>1
    <3> QED
      BY <2>1, <3>1, <3>2 DEF NoneBehind, HasStart
  <2>3. ASSUME NEW i \in DOMAIN posts, posts[i].kind = "disconnect"
        PROVE  ~HasStart(calls') /\ NoStartAfter(i)'
    <3>1. ~HasStart(calls) /\ NoStartAfter(i)
      BY <2>3 DEF NoneBehind
    <3>2. answer'.method # "start"
      BY <2>1, <3>1 DEF HasStart
    <3> QED
      BY <1>1, <2>1, <3>1, <3>2 DEF NoStartAfter
  <2> QED
    BY <1>2, <2>1, <2>2, <2>3 DEF NoneBehind
<1>6. CASE Post
  <2>1. /\ answer'.kind = "none" /\ answer'.method = "none" /\ UNCHANGED calls
        /\ DOMAIN posts' = 1..(Len(posts) + 1)
        /\ \A i \in DOMAIN posts : posts'[i] = posts[i]
        /\ posts'[Len(posts) + 1] = answer
    BY <1>6, PostIs, NoAnswerIs
  <2>2. ASSUME NEW i \in DOMAIN posts', posts'[i].kind = "disconnect"
        PROVE  ~HasStart(calls) /\ NoStartAfter(i)'
    <3>1. CASE i = Len(posts) + 1
      <4>1. ~HasStart(calls)
        BY <2>1, <2>2, <3>1 DEF NoneBehind
      <4>2. \A j \in DOMAIN posts' : ~(j > i)
        BY <1>0, <2>1, <3>1
      <4> QED
        BY <2>1, <4>1, <4>2 DEF NoStartAfter
    <3>2. CASE i \in DOMAIN posts
      <4>1. ~HasStart(calls) /\ NoStartAfter(i)
        BY <2>1, <2>2, <3>2 DEF NoneBehind
      <4>2. \A j \in DOMAIN posts' : j \in DOMAIN posts \/ j = Len(posts) + 1
        BY <1>0, <2>1
      <4> QED
        BY <2>1, <4>1, <4>2 DEF NoStartAfter
    <3> QED
      BY <1>0, <2>1, <3>1, <3>2
  <2> QED
    BY <1>2, <2>1, <2>2 DEF NoneBehind
<1>7. CASE Loss
  <2>1. /\ UNCHANGED <<answer, calls>>
        /\ DOMAIN posts' = 1..(Len(posts) + 1)
        /\ \A i \in DOMAIN posts : posts'[i] = posts[i]
        /\ posts'[Len(posts) + 1].kind = "lost" /\
             posts'[Len(posts) + 1].method = "lost"
        /\ \A j \in DOMAIN posts' : j \in DOMAIN posts \/ j = Len(posts) + 1
    BY <1>0, <1>7, LossIs
  <2>2. ASSUME NEW i \in DOMAIN posts', posts'[i].kind = "disconnect"
        PROVE  ~HasStart(calls) /\ NoStartAfter(i)'
    <3>1. i \in DOMAIN posts /\ posts[i].kind = "disconnect"
      BY <2>1, <2>2
    <3>2. ~HasStart(calls) /\ NoStartAfter(i)
      BY <3>1 DEF NoneBehind
    <3> QED
      BY <2>1, <3>2 DEF NoStartAfter
  <2> QED
    BY <1>2, <2>1, <2>2 DEF NoneBehind
<1> QED
  BY <1>3, <1>4, <1>5, <1>6, <1>7, Moves

\* While the app shows that it disconnects, the disconnect is on its way.
LEMMA StoppingStep ==
  TypeOK /\ Stopping /\ [Next]_vars => Stopping'
<1> SUFFICES ASSUME TypeOK, Stopping,
                    [Next]_vars
             PROVE  Stopping'
  OBVIOUS
<1> DEFINE D == {"disconnect"}
<1>k. "none" \notin D /\ "lost" \notin D /\ "disconnect" \in D /\
        \A x \in Attempts : x \notin D
  BY DEF Attempts
<1>s. status = "disconnecting" => Pending(D)
  BY DEF Stopping
<1> HIDE DEF D
<1>a. ASSUME Pending(D) => Pending(D)',
             status' = "disconnecting" => status = "disconnecting"
      PROVE  status' = "disconnecting" => Pending(D)'
  BY <1>a, <1>s
<1> SUFFICES status' = "disconnecting" => Pending(D)'
  BY DEF Stopping, D
<1>1. CASE ToggleOn
  BY <1>1 DEF ToggleOn, Begin
<1>2. CASE ToggleOff
  BY <1>2, <1>k, PendingMoves
<1>3. CASE Reconnect
  BY <1>3 DEF Reconnect, Begin
<1>4. CASE Resume
  BY <1>4, <1>a, <1>k, PendingMoves DEF Resume
<1>5. ASSUME NEW s \in Servers, SelectServer(s)
      PROVE  status' = "disconnecting" => Pending(D)'
  BY <1>5, <1>a, <1>k, PendingMoves DEF SelectServer
<1>6. CASE Saved
  BY <1>6, <1>a, <1>k, PendingMoves DEF Saved, Switchable, Begin
<1>7. CASE SwitchSettles
  BY <1>7, <1>a, <1>k, PendingMoves DEF SwitchSettles
<1>8. CASE Retry
  BY <1>8, <1>a, <1>k, PendingMoves DEF Retry
<1>9. CASE Stable
  BY <1>9, <1>a, <1>k, PendingMoves DEF Stable
<1>10. CASE Tick
  BY <1>10, <1>a, <1>k, PendingMoves DEF Tick
<1>11. ASSUME NEW i \in DOMAIN payloads, Payload(i)
       PROVE  status' = "disconnecting" => Pending(D)'
  BY <1>11, <1>a, <1>k, PendingMoves DEF Payload
<1>12. CASE Work
  BY <1>12, <1>a, <1>k, PendingMoves DEF Work
<1>13. CASE Post
  BY <1>13, <1>a, <1>k, PendingMoves DEF Post
<1>14. CASE Loss
  BY <1>14, <1>a, <1>k, PendingMoves DEF Loss
<1>15. CASE Started
  <2>1. /\ Head(posts).kind \notin D
        /\ status' = "disconnecting" => status = "disconnecting"
    BY <1>15, <1>k DEF Started, Comes, FailConnect, Schedule, Shown
  <2> QED
    BY <1>15, <1>a, <1>k, <2>1, PendingMoves
<1>16. CASE Confirmed
  <2>1. /\ Head(posts).kind \notin D
        /\ status' = "disconnecting" => status = "disconnecting"
    BY <1>16, <1>k DEF Confirmed, Comes, MarkConnected
  <2> QED
    BY <1>16, <1>a, <1>k, <2>1, PendingMoves
<1>17. CASE Ticked
  <2>1. /\ Head(posts).kind = "tick"
        /\ status' = "disconnecting" => status = "disconnecting"
    BY <1>17 DEF Ticked, Comes, MarkConnected
  <2>2. Head(posts).kind \notin D
    BY <2>1 DEF D
  <2> QED
    BY <1>17, <1>a, <1>k, <2>1, <2>2, PendingMoves
<1>18. CASE Disconnected
  BY <1>18 DEF Disconnected
<1>19. CASE Synced
  <2>1. /\ Head(posts).kind = "sync"
        /\ status' = "disconnecting" => status = "disconnecting"
    BY <1>19 DEF Synced, Comes
  <2>2. Head(posts).kind \notin D
    BY <2>1 DEF D
  <2> QED
    BY <1>19, <1>a, <1>k, <2>1, <2>2, PendingMoves
<1>20. CASE Initialized
  <2>1. /\ Head(posts).kind = "init"
        /\ status' = "disconnecting" => status = "disconnecting"
    BY <1>20 DEF Initialized, Comes, Begin
  <2>2. Head(posts).kind \notin D
    BY <2>1 DEF D
  <2> QED
    BY <1>20, <1>a, <1>k, <2>1, <2>2, PendingMoves
<1>21. CASE CoreStopped
  <2>1. /\ Head(posts).kind = "lost"
        /\ status' = "disconnecting" => status = "disconnecting"
    BY <1>21 DEF CoreStopped, Comes, Schedule, Shown
  <2>2. Head(posts).kind \notin D
    BY <2>1 DEF D
  <2> QED
    BY <1>21, <1>a, <1>k, <2>1, <2>2, PendingMoves
<1>22. CASE UNCHANGED vars
  BY <1>22, <1>a, <1>k, PendingMoves DEF vars
<1>23. ASSUME NEW i \in DOMAIN payloads, Unbuilt(i)
       PROVE status' = "disconnecting" => Pending(D)'
  BY <1>23, <1>a, <1>k, PendingMoves DEF Unbuilt, FailConnect, Schedule, Shown
<1>24. CASE Fails
  BY <1>24, <1>a, <1>k, PendingMoves DEF Fails
<1> QED
  BY <1>1, <1>2, <1>3, <1>4, <1>5, <1>6, <1>7, <1>8, <1>9, <1>10, <1>11, <1>12,
     <1>13, <1>14, <1>15, <1>16, <1>17, <1>18, <1>19, <1>20, <1>21, <1>22, <1>23, <1>24
     DEF Next, User, Due, Switch, Native, Reply, Payloads

\* Nor is anything begun before it is answered.
LEMMA DisconnectLastStep ==
  TypeOK /\ Fits /\ InitFirst /\ DisconnectLast /\ [Next]_vars => DisconnectLast'
<1> SUFFICES ASSUME TypeOK, Fits, InitFirst, DisconnectLast,
                    [Next]_vars
             PROVE  DisconnectLast'
  OBVIOUS
<1> DEFINE D == {"disconnect"}
           Races2 == {"overtaken", "hasty"}
<1>k. "none" \notin D /\ "lost" \notin D /\ "disconnect" \in D /\
        \A x \in Attempts : x \notin D
  BY DEF Attempts
<1>0. tangled \subseteq tangled' /\ ("disconnect" \in Unanswered <=> Pending(D))
  BY TangledGrows, UnansweredIs
<1>a. ASSUME Pending(D), Races2 \cap tangled' = {}
      PROVE  /\ payloads = <<>> /\ NoneBehind /\ NoneBehind'
             /\ InitUnanswered' => status = "disconnecting"
             /\ InitUnanswered => status = "disconnecting"
  BY <1>0, <1>a, NoneBehindStep, InitGone DEF DisconnectLast
<1>g. DisconnectLast' <=>
        (Races2 \cap tangled' = {} /\ Pending(D)' =>
           /\ payloads' = <<>> /\ NoneBehind'
           /\ InitUnanswered' => status' = "disconnecting")
  BY DEF DisconnectLast
<1> HIDE DEF D
<1>b. ASSUME Pending(D)' => Pending(D), UNCHANGED payloads,
             InitUnanswered' /\ status = "disconnecting" => status' = "disconnecting"
      PROVE  DisconnectLast'
  BY <1>a, <1>b, <1>g
<1>c. ASSUME "disconnect" \in Unanswered => "hasty" \in tangled',
             Pending(D)' => Pending(D)
      PROVE  DisconnectLast'
  BY <1>0, <1>c, <1>g
<1>1. CASE ToggleOn
  BY <1>1, <1>k, <1>c, PendingMoves DEF ToggleOn, Met, Hasty
<1>2. CASE ToggleOff
  <2> DEFINE c == Call("disconnect", "disconnect", None)
  <2>1. c \in Asked /\ c.kind = "disconnect" /\ c.method # "start"
          /\ calls' = Append(calls, c) /\ status' = "disconnecting" /\
               payloads' = payloads
          /\ UNCHANGED <<answer, posts>>
    BY <1>2, CallFits DEF ToggleOff, Call
  <2> HIDE DEF c
  <2>2. payloads # <<>> => "overtaken" \in tangled'
    BY <1>2 DEF ToggleOff, Met
  <2>3. ASSUME Races2 \cap tangled' = {}, ~Pending(D) PROVE NoneBehind'
    <3>1. /\ Len(calls) \in Nat /\ DOMAIN calls = 1..Len(calls)
          /\ DOMAIN calls' = 1..(Len(calls) + 1)
          /\ \A i \in DOMAIN calls : calls'[i] = calls[i]
      BY <2>1, AskedIs
    <3>2. /\ \A i \in DOMAIN calls : calls[i].kind # "disconnect"
          /\ answer.kind # "disconnect"
          /\ \A i \in DOMAIN posts : posts[i].kind # "disconnect"
      BY <2>3, <1>k DEF Pending, Has
    <3>3. \A i, j \in DOMAIN calls' : i < j => i \in DOMAIN calls
      BY <3>1
    <3> QED
      BY <2>1, <3>1, <3>2, <3>3 DEF NoneBehind
  <2> QED
    BY <1>a, <1>g, <2>1, <2>2, <2>3
<1>3. CASE Reconnect
  BY <1>3, <1>k, <1>c, PendingMoves DEF Reconnect, Met, Hasty
<1>4. CASE Resume
  <2>1. "sync" \notin D /\ "tick" \notin D
    BY DEF D
  <2>2. Pending(D)' => Pending(D)
    BY <1>4, <1>k, <2>1, PendingMoves
  <2> QED
    BY <1>4, <1>b, <2>2 DEF Resume
<1>5. ASSUME NEW s \in Servers, SelectServer(s) PROVE DisconnectLast'
  BY <1>5, <1>b, <1>k, PendingMoves DEF SelectServer
<1>6. CASE Saved
  <2>0. Pending(D)' => Pending(D)
    BY <1>6, <1>k, PendingMoves
  <2>1. CASE payloads' = payloads
    <3>1. status' = status
      BY <1>6, <2>1, AppendNot DEF Saved, Switchable, Begin, Attempts
    <3> QED
      BY <1>b, <2>0, <2>1, <3>1
  <2>2. CASE payloads' # payloads
    BY <1>6, <1>c, <2>0, <2>2 DEF Saved, Switchable, Met, Hasty
  <2> QED
    BY <2>1, <2>2
<1>7. CASE SwitchSettles
  BY <1>7, <1>b, <1>k, PendingMoves DEF SwitchSettles
<1>8. CASE Retry
  <2>0. Pending(D)' => Pending(D)
    BY <1>8, <1>k, PendingMoves
  <2>1. CASE payloads' = payloads
    <3>1. status' = status
      BY <1>8, <2>1, AppendNot DEF Retry, Begin, Attempts
    <3> QED
      BY <1>b, <2>0, <2>1, <3>1
  <2>2. CASE payloads' # payloads
    BY <1>8, <1>c, <2>0, <2>2 DEF Retry, Met, Hasty
  <2> QED
    BY <2>1, <2>2
<1>9. CASE Stable
  BY <1>9, <1>b, <1>k, PendingMoves DEF Stable
<1>10. CASE Tick
  <2>1. "sync" \notin D /\ "tick" \notin D
    BY DEF D
  <2>2. Pending(D)' => Pending(D)
    BY <1>10, <1>k, <2>1, PendingMoves
  <2> QED
    BY <1>10, <1>b, <2>2 DEF Tick
<1>11. ASSUME NEW i \in DOMAIN payloads, Payload(i) PROVE DisconnectLast'
  <2>1. payloads # <<>> /\ payloads[i] \in Waiting
    BY <1>11, TypeParts, RemoveAtIs, EmptySeq, ElementOfSeq DEF NativeType
  <2>2. Pending(D)' => Pending(D)
    BY <1>11, <1>k, <2>1, PendingMoves DEF Waiting
  <2> QED
    BY <1>a, <1>g, <2>1, <2>2
<1>12. CASE Work
  BY <1>12, <1>b, <1>k, PendingMoves DEF Work
<1>13. CASE Post
  BY <1>13, <1>b, <1>k, PendingMoves DEF Post
<1>14. CASE Loss
  BY <1>14, <1>b, <1>k, PendingMoves DEF Loss
<1>15. CASE Started
  <2>1. Heard /\ Head(posts).kind # "lost" /\ UNCHANGED payloads
    BY <1>15, AnswersHeard DEF Started
  <2>2. ~InitUnanswered'
    BY <2>1, InitOver DEF InitUnanswered
  <2>3. Pending(D)' => Pending(D)
    BY <1>15, <1>k, PendingMoves
  <2> QED
    BY <1>b, <2>1, <2>2, <2>3
<1>16. CASE Confirmed
  <2>1. Heard /\ Head(posts).kind # "lost" /\ UNCHANGED payloads
    BY <1>16, AnswersHeard DEF Confirmed
  <2>2. ~InitUnanswered'
    BY <2>1, InitOver DEF InitUnanswered
  <2>3. Pending(D)' => Pending(D)
    BY <1>16, <1>k, PendingMoves
  <2> QED
    BY <1>b, <2>1, <2>2, <2>3
<1>17. CASE Ticked
  <2>1. Heard /\ Head(posts).kind # "lost" /\ UNCHANGED payloads
    BY <1>17, AnswersHeard DEF Ticked
  <2>2. ~InitUnanswered'
    BY <2>1, InitOver DEF InitUnanswered
  <2>3. Pending(D)' => Pending(D)
    BY <1>17, <1>k, PendingMoves
  <2> QED
    BY <1>b, <2>1, <2>2, <2>3
<1>18. CASE Disconnected
  <2>1. Heard /\ Head(posts).kind # "lost" /\ UNCHANGED payloads
    BY <1>18, AnswersHeard DEF Disconnected
  <2>2. ~InitUnanswered'
    BY <2>1, InitOver DEF InitUnanswered
  <2>3. Pending(D)' => Pending(D)
    BY <1>18, <1>k, PendingMoves
  <2> QED
    BY <1>b, <2>1, <2>2, <2>3
<1>19. CASE Synced
  <2>1. Heard /\ Head(posts).kind # "lost" /\ UNCHANGED payloads
    BY <1>19, AnswersHeard DEF Synced
  <2>2. ~InitUnanswered'
    BY <2>1, InitOver DEF InitUnanswered
  <2>3. Pending(D)' => Pending(D)
    BY <1>19, <1>k, PendingMoves
  <2> QED
    BY <1>b, <2>1, <2>2, <2>3
<1>20. CASE Initialized
  <2>1. Heard /\ Head(posts).kind = "init"
    BY <1>20, AnswersHeard DEF Initialized, Comes
  <2>2. ~InitUnanswered' /\ InitUnanswered
    <3>1. "none" \notin {"init"} /\ "lost" \notin {"init"}
      OBVIOUS
    <3> QED
      BY <1>20, <2>1, <3>1, InitOver, PendingMoves DEF InitUnanswered
  <2>3. Pending(D)' => Pending(D)
    BY <1>20, <1>k, PendingMoves
  <2>4. status = "disconnecting" => UNCHANGED payloads
    BY <1>20 DEF Initialized
  <2> QED
    BY <1>a, <1>g, <2>2, <2>3, <2>4
<1>21. CASE CoreStopped
  <2>1. status = "disconnecting" => status' = "disconnecting"
    BY <1>21 DEF CoreStopped, Concerned
  <2>2. Pending(D)' => Pending(D)
    BY <1>21, <1>k, PendingMoves
  <2> QED
    BY <1>21, <1>b, <2>1, <2>2 DEF CoreStopped
<1>22. CASE UNCHANGED vars
  BY <1>22, <1>b, <1>k, PendingMoves DEF vars
<1>23. ASSUME NEW i \in DOMAIN payloads, Unbuilt(i) PROVE DisconnectLast'
  <2>1. payloads # <<>>
    BY <1>23, TypeParts, RemoveAtIs, EmptySeq DEF NativeType
  <2>2. Pending(D)' => Pending(D)
    BY <1>23, <1>k, PendingMoves
  <2> QED
    BY <1>a, <1>g, <2>1, <2>2
<1>24. CASE Fails
  BY <1>24, <1>b, <1>k, PendingMoves DEF Fails
<1> QED
  BY <1>1, <1>2, <1>3, <1>4, <1>5, <1>6, <1>7, <1>8, <1>9, <1>10, <1>11, <1>12,
     <1>13, <1>14, <1>15, <1>16, <1>17, <1>18, <1>19, <1>20, <1>21, <1>22, <1>23, <1>24
     DEF Next, User, Due, Switch, Native, Reply, Payloads

-----------------------------------------------------------------------------
(* At most one start is under way, and the app shows it.                   *)

\* No race was met but a server that was selected in the middle of an attempt.
Untangled == tangled \subseteq {"switched"}

\* Then all is in order.
LEMMA UntangledIs ==
  Untangled => Orderly /\ Known
BY DEF Untangled, Orderly, Known, Unknown

\* And it was before; no call has failed.
LEMMA UntangledStays ==
  ASSUME TypeOK, Fits, [Next]_vars, Untangled'
  PROVE  /\ Untangled /\ Orderly /\ Known /\ Known' /\ ~Fails
         /\ "doubled" \notin tangled'
         /\ \A i \in DOMAIN payloads : Unbuilt(i) => running = None
<1>1. Untangled
  BY TangledGrows DEF Untangled
<1>2. Known' /\ "doubled" \notin tangled'
  BY DEF Untangled, Known, Unknown
<1> QED
  BY <1>1, <1>2, UntangledIs, OrderlyStays

\* A start that is to be worked, or failed and is not heard.
Starting == ToStart \/ ~StartsWorked

\* At most one start waits, is asked or has failed unheard, and after one that
\* failed there is none.
Single ==
  /\ payloads # <<>> => Len(payloads) = 1 /\ ~HasStart(calls)
  /\ \A i, j \in DOMAIN calls :
       calls[i].method = "start" /\ calls[j].method = "start" => i = j
  /\ ToStart => StartsWorked
  /\ \A i \in DOMAIN posts : Failed(posts[i]) => NoStartAfter(i)

\* So it is unless two attempts met.
OneStart == Untangled => Single

\* A start is not hidden behind an error or "disconnected".
StartShown == Untangled /\ Starting => status \notin {"error", "disconnected"}

\* An attempt begins.
Begun ==
  /\ \E k \in Attempts : payloads' = Append(payloads, Call(k, "start", selected))
  /\ UNCHANGED <<calls, answer, running>> /\ (posts' = posts \/ Heard)
  /\ status' = "connecting"
  /\ \/ Retry /\ status = "connecting"
     \/ attempt' = 0 /\ (ToggleOn \/ Reconnect \/ Saved \/ Initialized)
  /\ Initialized => status = "disconnected"

\* An attempt begins, or one has its payload, or the ones that wait for it stay.
LEMMA Begins ==
  ASSUME TypeOK, [Next]_vars
  PROVE  \/ payloads' = payloads
         \/ \E i \in DOMAIN payloads : Payload(i) \/ Unbuilt(i)
         \/ Begun
<1>1. Attempts = {"connect", "automatic", "reconnect", "switch"}
  BY DEF Attempts
<1>i. ToggleOn \/ Reconnect \/ Saved \/ Retry => ~Initialized
  <2>1. ToggleOn \/ Reconnect \/ Saved \/ Retry => posts' = posts
    BY DEF ToggleOn, Reconnect, Saved, Switchable, Retry, nativeVars
  <2> QED
    BY <2>1, NotHeard, AnswersHeard
<1>2. ToggleOn => Begun
  BY <1>1, <1>i DEF ToggleOn, Begin, CancelAutoReconnect, nativeVars, Begun
<1>3. Reconnect => Begun
  BY <1>1, <1>i DEF Reconnect, Begin, CancelAutoReconnect, nativeVars, Begun
<1>4. Saved => payloads' = payloads \/ Begun
  BY <1>1, <1>i DEF Saved, Switchable, Begin, CancelAutoReconnect, nativeVars, Begun
<1>5. Retry => payloads' = payloads \/ Begun
  BY <1>1, <1>i DEF Retry, nativeVars, Begun
<1>6. Initialized => payloads' = payloads \/ Begun
  BY <1>1, AnswersHeard DEF Initialized, Begin, CancelAutoReconnect, Begun
<1>7. ToggleOff \/ Resume \/ (\E s \in Servers : SelectServer(s)) \/ SwitchSettles
        \/ Stable \/ Tick \/ Native \/ Loss \/ Fails \/ Started \/ Confirmed \/ Ticked
        \/ Disconnected \/ Synced \/ CoreStopped \/ UNCHANGED vars =>
        payloads' = payloads
  BY DEF ToggleOff, Resume, SelectServer, SwitchSettles, Stable, Tick, Native, Work,
     Post, Loss, Fails, Started, Confirmed, Ticked, Disconnected, Synced, CoreStopped, vars
<1> QED
  BY <1>2, <1>3, <1>4, <1>5, <1>6, <1>7 DEF Next, User, Due, Switch, Reply, Payloads

\* No start comes to be but by an attempt that begins.
LEMMA ToStartStays ==
  ASSUME TypeOK, Fits, [Next]_vars, ~Begun
  PROVE  ToStart' => ToStart
<1>1. CASE \E i \in DOMAIN payloads : Payload(i) \/ Unbuilt(i)
  BY <1>1, TypeParts, RemoveAtIs, EmptySeq DEF NativeType, ToStart
<1>2. CASE payloads' = payloads
  BY <1>1, <1>2, StartsMove DEF ToStart
<1> QED
  BY <1>1, <1>2, Begins

\* Nor does one to be worked, or failed and unheard, but by such an attempt.
LEMMA StartingStays ==
  ASSUME TypeOK, Fits, [Next]_vars, ~Fails, ~Begun
  PROVE  Starting' => Starting
<1> SUFFICES ASSUME ~Starting PROVE ~Starting'
  OBVIOUS
<1>1. ~ToStart /\ StartsWorked
  BY DEF Starting
<1>2. Work => Head(calls).method # "start"
  BY <1>1, WorkIs DEF ToStart, HasStart
<1> QED
  BY <1>1, <1>2, ToStartStays, WorkedMoves DEF Starting

\* Every start belongs to an attempt under way.
LEMMA StartingIsAttempt ==
  ASSUME Fits, Starting
  PROVE  Attempting
BY AttemptingIs, StartIsAttempt DEF Starting, ToStart, StartsWorked, Pending, HasStart

\* An attempt that begins finds no other start.
LEMMA BegunClear ==
  ASSUME TypeOK, Fits, StartShown, Begun, Untangled, "doubled" \notin tangled'
  PROVE  ~Starting /\ (~Initialized => ~Attempting)
<1>1. payloads' # payloads
  BY AppendNot DEF Begun
<1>2. ASSUME ~Initialized PROVE ~Attempting
  BY <1>1, <1>2, BegunAlone DEF Begun
<1>3. CASE Initialized
  BY <1>3 DEF StartShown, Begun
<1> QED
  BY <1>2, <1>3, StartingIsAttempt

\* So a single start stays single.
LEMMA SingleBegun ==
  ASSUME TypeOK, Fits, ~Starting, Begun, [Next]_vars, ~Fails
  PROVE  Single'
<1>1. payloads = <<>> /\ ~HasStart(calls) /\ StartsWorked
  BY DEF Starting, ToStart
<1>2. Work => Head(calls).method # "start"
  BY <1>1, WorkIs DEF HasStart
<1>3. StartsWorked' /\ UNCHANGED calls
  BY <1>1, <1>2, WorkedMoves DEF Begun
<1>4. Len(payloads') = 1
  <2>1. PICK k \in Attempts : payloads' = Append(payloads, Call(k, "start", selected))
    BY DEF Begun
  <2>2. payloads \in Seq(Waiting) /\ Call(k, "start", selected) \in Waiting
    BY TypeParts, CallFits DEF NativeType, SwitchType
  <2> QED
    BY <1>1, <2>1, <2>2, AppendProperties, EmptySeq
<1>5. \A i \in DOMAIN posts' : ~Failed(posts'[i])
  BY <1>3 DEF StartsWorked, Failed
<1> QED
  BY <1>1, <1>3, <1>4, <1>5 DEF Single, HasStart, Failed

\* The work of a single start leaves none.
LEMMA SingleWorked ==
  ASSUME TypeOK, Fits, Single, Work, Head(calls).method = "start"
  PROVE  ~ToStart' /\ StartsWorked /\ (answer'.result = "ok" => ~Starting')
<1>1. /\ 1 \in DOMAIN calls /\ Head(calls) = calls[1] /\ posts' = posts
      /\ calls # <<>> /\ calls' = Tail(calls) /\ payloads' = payloads
  BY WorkIs DEF Work
<1>2. /\ DOMAIN calls' = 1..(Len(calls) - 1)
      /\ \A n \in DOMAIN calls' : calls'[n] = calls[n + 1]
      /\ Len(calls) \in Nat /\ DOMAIN calls = 1..Len(calls)
  BY <1>1, TakenIs
<1>3. \A n \in DOMAIN calls' : n + 1 \in DOMAIN calls /\ n + 1 # 1
  BY <1>2
<1>4. HasStart(calls)
  BY <1>1 DEF HasStart
<1>5. ~HasStart(calls') /\ payloads = <<>> /\ StartsWorked
  BY <1>1, <1>2, <1>3, <1>4 DEF Single, HasStart, ToStart
<1>6. ~ToStart'
  BY <1>1, <1>5 DEF ToStart
<1>7. answer'.result = "ok" => StartsWorked'
  BY <1>1, <1>5 DEF StartsWorked
<1> QED
  BY <1>5, <1>6, <1>7 DEF Starting

\* Nor does an attempt that no payload is made for.
LEMMA UnbuiltLast ==
  ASSUME TypeOK, Single, NEW i \in DOMAIN payloads, Unbuilt(i)
  PROVE  /\ payloads' = <<>> /\ UNCHANGED <<calls, answer, posts, running>>
         /\ Starting /\ ~Starting'
<1>1. payloads \in Seq(Waiting) /\ payloads # <<>>
  BY TypeParts, RemoveAtIs, EmptySeq DEF NativeType
<1>2. /\ payloads' = RemoveAt(payloads, i) /\ ToStart
      /\ UNCHANGED <<calls, answer, posts, running>>
  BY <1>1 DEF Unbuilt, nativeVars, ToStart
<1>3. Len(payloads) = 1 /\ ~HasStart(calls) /\ StartsWorked
  BY <1>1, <1>2 DEF Single
<1>4. payloads' = <<>>
  BY <1>1, <1>2, <1>3, RemoveAtIs, EmptySeq
<1> QED
  BY <1>2, <1>3, <1>4 DEF Starting, ToStart, StartsWorked, HasStart

\* And the others leave it single.
LEMMA SingleStays ==
  ASSUME TypeOK, Fits, Single, ~Begun, [Next]_vars, ~Fails
  PROVE  Single'
<1>0. /\ Len(posts) \in Nat /\ DOMAIN posts = 1..Len(posts)
      /\ Len(calls) \in Nat /\ DOMAIN calls = 1..Len(calls)
      /\ calls \in Seq(Asked) /\ payloads \in Seq(Waiting)
  BY Numbered, TypeParts DEF NativeType
<1>1. ToStart' => ToStart
  BY ToStartStays
<1>2. CASE Work /\ Head(calls).method = "start"
  <2>1. ~ToStart' /\ StartsWorked /\ posts' = posts
    BY <1>2, SingleWorked, WorkIs
  <2> QED
    BY <2>1 DEF Single, ToStart, StartsWorked, Failed, HasStart
<1>3. CASE ~(Work /\ Head(calls).method = "start")
  <2>1. ToStart' => StartsWorked'
    BY <1>1, <1>3, WorkedMoves DEF Single
  <2>2. ASSUME NEW i \in DOMAIN posts', Failed(posts'[i]) PROVE NoStartAfter(i)'
    <3>1. CASE Kept
      BY <2>2, <3>1 DEF Single, Kept, NoStartAfter, Failed
    <3>2. CASE Heard
      <4>1. /\ UNCHANGED answer /\ DOMAIN posts' = 1..(Len(posts) - 1)
            /\ \A n \in DOMAIN posts' : posts'[n] = posts[n + 1] /\
                 n + 1 \in DOMAIN posts
        BY <1>0, <3>2, HeardIs
      <4>2. NoStartAfter(i + 1)
        BY <2>2, <4>1 DEF Single, Failed
      <4>3. \A j \in DOMAIN posts' : j > i => j + 1 > i + 1
        BY <4>1
      <4> QED
        BY <4>1, <4>2, <4>3 DEF NoStartAfter
    <3>3. CASE Work
      <4>1. posts' = posts /\ answer'.method # "start"
        BY <1>3, <3>3, WorkIs
      <4> QED
        BY <2>2, <4>1 DEF Single, NoStartAfter, Failed
    <3>4. CASE Post
      <4>1. /\ answer'.method = "none" /\ DOMAIN posts' = 1..(Len(posts) + 1)
            /\ \A n \in DOMAIN posts : posts'[n] = posts[n]
            /\ posts'[Len(posts) + 1] = answer
        BY <3>4, PostIs, NoAnswerIs
      <4>2. CASE i = Len(posts) + 1
        BY <1>0, <4>1, <4>2 DEF NoStartAfter
      <4>3. CASE i \in DOMAIN posts
        <5>1. NoStartAfter(i)
          BY <2>2, <4>1, <4>3 DEF Single, Failed
        <5>2. \A j \in DOMAIN posts' : j \in DOMAIN posts \/ j = Len(posts) + 1
          BY <1>0, <4>1
        <5> QED
          BY <4>1, <5>1, <5>2 DEF NoStartAfter
      <4> QED
        BY <1>0, <4>1, <4>2, <4>3
    <3>5. CASE Loss
      <4>1. /\ UNCHANGED answer /\ DOMAIN posts' = 1..(Len(posts) + 1)
            /\ \A n \in DOMAIN posts : posts'[n] = posts[n]
            /\ posts'[Len(posts) + 1].method = "lost"
            /\ \A j \in DOMAIN posts' : j \in DOMAIN posts \/ j = Len(posts) + 1
        BY <1>0, <3>5, LossIs
      <4>2. i \in DOMAIN posts /\ Failed(posts[i])
        BY <2>2, <4>1 DEF Failed
      <4>3. NoStartAfter(i)
        BY <4>2 DEF Single
      <4> QED
        BY <4>1, <4>3 DEF NoStartAfter
    <3> QED
      BY <3>1, <3>2, <3>3, <3>4, <3>5, Moves
  <2>3. CASE \E i \in DOMAIN payloads : Payload(i)
    <3>1. PICK i \in DOMAIN payloads : Payload(i)
      BY <2>3
    <3>2. payloads # <<>> /\ payloads[i] \in Waiting /\ payloads[i] \in Asked
      BY <1>0, RemoveAtIs, EmptySeq, ElementOfSeq, CallFits
    <3>3. Len(payloads) = 1 /\ ~HasStart(calls)
      BY <3>2 DEF Single
    <3>4. payloads' = <<>>
      <4>0. payloads' = RemoveAt(payloads, i)
        BY <3>1 DEF Payload
      <4>1. payloads' \in Seq(Waiting) /\ Len(payloads') = 0
        BY <1>0, <3>3, <4>0, RemoveAtIs
      <4> QED
        BY <4>1, EmptySeq
    <3>5. /\ DOMAIN calls' = 1..(Len(calls) + 1)
          /\ \A n \in DOMAIN calls : calls'[n] = calls[n]
      BY <3>1, <3>2, AskedIs DEF Payload
    <3>6. \A n \in DOMAIN calls' : calls'[n].method = "start" => n = Len(calls) + 1
      BY <1>0, <3>3, <3>5 DEF HasStart
    <3> QED
      BY <2>1, <2>2, <3>4, <3>6 DEF Single, Failed
  <2>4. CASE payloads' = payloads /\ ~\E i \in DOMAIN payloads : Payload(i)
    <3>1. payloads' # <<>> => Len(payloads') = 1 /\ ~HasStart(calls')
      BY <2>4, StartsMove DEF Single
    <3>2. \A i, j \in DOMAIN calls' :
            calls'[i].method = "start" /\ calls'[j].method = "start" => i = j
      <4>1. CASE UNCHANGED calls
        BY <4>1 DEF Single
      <4>2. CASE Work
        <5>1. /\ DOMAIN calls' = 1..(Len(calls) - 1)
              /\ \A n \in DOMAIN calls' : calls'[n] = calls[n + 1]
          BY <4>2, WorkIs, TakenIs
        <5>2. ASSUME NEW i \in DOMAIN calls', NEW j \in DOMAIN calls',
                     calls'[i].method = "start", calls'[j].method = "start"
              PROVE  i = j
          <6>1. i + 1 \in DOMAIN calls /\ j + 1 \in DOMAIN calls /\ i \in Int /\
                  j \in Int
            BY <1>0, <5>1
          <6>2. i + 1 = j + 1
            BY <5>1, <5>2, <6>1 DEF Single
          <6> QED
            BY <6>1, <6>2
        <5> QED
          BY <5>2
      <4>3. CASE ~UNCHANGED calls /\ ~Work
        <5>1. PICK c \in Asked : calls' = Append(calls, c)
          BY <4>3, Moves, PostIs, LossIs DEF Kept, Heard, MoreCalls
        <5>2. /\ DOMAIN calls' = 1..(Len(calls) + 1)
              /\ \A n \in DOMAIN calls : calls'[n] = calls[n] /\ n \in DOMAIN calls'
              /\ \A n \in DOMAIN calls' : n \in DOMAIN calls \/ n = Len(calls) + 1
              /\ Len(calls) + 1 \in DOMAIN calls'
              /\ calls'[Len(calls) + 1] = c
          BY <1>0, <5>1, AskedIs
        <5>3. c.method # "start" \/ (HasStart(calls') /\ payloads = <<>>)
          <6>1. c.method = "start" => HasStart(calls')
            BY <5>2 DEF HasStart
          <6>2. HasStart(calls') => HasStart(calls)
            BY <2>4, <4>3, StartsMove
          <6> QED
            BY <6>1, <6>2 DEF Single
        <5>4. payloads = <<>> => c.method # "start"
          <6>1. ASSUME payloads = <<>> PROVE c.method # "start"
            <7>1. PICK d \in Asked : calls' = Append(calls, d) /\ d.method # "start"
              BY <4>3, <6>1, AskedThen
            <7>2. calls'[Len(calls) + 1] = d
              BY <7>1, AskedIs
            <7> QED
              BY <5>2, <7>1, <7>2
          <6> QED
            BY <6>1
        <5> QED
          BY <5>2, <5>3, <5>4 DEF Single
      <4> QED
        BY <4>1, <4>2, <4>3
    <3> QED
      BY <2>1, <2>2, <3>1, <3>2 DEF Single, Failed
  <2>5. CASE \E i \in DOMAIN payloads : Unbuilt(i)
    <3>1. payloads' = <<>> /\ UNCHANGED calls
      BY <2>5, UnbuiltLast
    <3> QED
      BY <2>1, <2>2, <3>1 DEF Single, Failed
  <2> QED
    BY <2>3, <2>4, <2>5, Begins
<1> QED
  BY <1>2, <1>3

\* There is one start, whatever is asked.
LEMMA OneStartStep ==
  ASSUME TypeOK, Fits, StartShown, OneStart, [Next]_vars
  PROVE  OneStart'
<1> SUFFICES ASSUME Untangled' PROVE Single'
  BY DEF OneStart
<1>0. Untangled /\ ~Fails /\ "doubled" \notin tangled'
  BY UntangledStays
<1>1. Single
  BY <1>0 DEF OneStart
<1> QED
  BY <1>0, <1>1, BegunClear, SingleBegun, SingleStays

-----------------------------------------------------------------------------
(* While a core may run, the app does not say that none does.              *)

\* At most two losses are told.
FewLost ==
  \A i, j, k \in DOMAIN posts :
    posts[i].kind = "lost" /\ posts[j].kind = "lost" /\ posts[k].kind = "lost" =>
      i = j \/ j = k \/ i = k

\* While a core runs, or will, the losses that are told find the app willing to
\* try again.
Losing ==
  Untangled =>
    /\ Starting /\ (HasLost \/ running # None) => attempt < MaxAttempts
    /\ Starting /\ HasLost => running = None /\ Alone(posts, {"lost"})
    /\ HasLost /\ (running # None \/ ~Alone(posts, {"lost"})) => attempt < MaxAttempts
    /\ ~Alone(posts, {"lost"}) => running = None
    /\ FewLost

\* It says that none runs when none does, but before the first answer.
Shut ==
  Untangled /\ status \in {"error", "disconnected"} =>
    \/ InitUnanswered /\ ~Attempting
    \/ running = None /\ Alone(posts, {"lost"})

\* How a step moves the losses that are told.
LEMMA LostMoves ==
  ASSUME TypeOK, Fits, [Next]_vars
  PROVE  /\ ~Loss => /\ HasLost' => HasLost
                     /\ Alone(posts, {"lost"}) => Alone(posts', {"lost"})
                     /\ FewLost => FewLost'
         /\ Loss => /\ ~HasLost => Alone(posts', {"lost"})
                    /\ Alone(posts, {"lost"}) => FewLost'
         /\ Heard /\ Head(posts).kind = "lost" =>
              /\ HasLost
              /\ Alone(posts, {"lost"}) => ~HasLost'
              /\ FewLost => Alone(posts', {"lost"})
         /\ ~HasLost => Alone(posts, {"lost"})
         /\ ~HasLost' => Alone(posts', {"lost"})
<1> DEFINE L == {"lost"}
<1>0. /\ Len(posts) \in Nat /\ DOMAIN posts = 1..Len(posts)
      /\ posts \in Seq(Posts)
  BY Numbered, TypeParts DEF NativeType
<1>a. ASSUME ~Loss
      PROVE  \/ /\ DOMAIN posts' \subseteq DOMAIN posts
                /\ \A n \in DOMAIN posts' : posts'[n].kind = posts[n].kind
             \/ /\ Heard /\ 1 \in DOMAIN posts
                /\ \A n \in DOMAIN posts' :
                     posts'[n].kind = posts[n + 1].kind /\ n \in Nat /\
                       n + 1 \in DOMAIN posts
             \/ /\ \A n \in DOMAIN posts' : n \in DOMAIN posts \/
                     posts'[n].kind # "lost"
                /\ \A n \in DOMAIN posts : posts'[n] = posts[n]
  <2>1. CASE Kept \/ Work \/ Fails
    BY <2>1, WorkIs, FailsIs DEF Kept
  <2>2. CASE Heard
    BY <1>0, <2>2, HeardIs
  <2>3. CASE Post
    <3>1. /\ DOMAIN posts' = 1..(Len(posts) + 1)
          /\ \A n \in DOMAIN posts : posts'[n] = posts[n]
          /\ posts'[Len(posts) + 1] = answer
      BY <2>3, PostIs
    <3>2. answer.kind # "lost"
      BY DEF Fits
    <3> QED
      BY <1>0, <3>1, <3>2
  <2> QED
    BY <1>a, <2>1, <2>2, <2>3, Moves
<1>1. ASSUME ~Loss
      PROVE  /\ HasLost' => HasLost
             /\ Alone(posts, L) => Alone(posts', L)
             /\ FewLost => FewLost'
  <2>1. CASE /\ DOMAIN posts' \subseteq DOMAIN posts
             /\ \A n \in DOMAIN posts' : posts'[n].kind = posts[n].kind
    BY <2>1 DEF HasLost, Has, Alone, FewLost
  <2>2. CASE \A n \in DOMAIN posts' :
               posts'[n].kind = posts[n + 1].kind /\ n \in Nat /\ n + 1 \in DOMAIN posts
    <3>1. HasLost' => HasLost
      BY <2>2 DEF HasLost, Has
    <3>2. ASSUME Alone(posts, L), NEW i \in DOMAIN posts', NEW j \in DOMAIN posts',
                 posts'[i].kind \in L, posts'[j].kind \in L
          PROVE  i = j
      <4>1. i + 1 = j + 1
        BY <2>2, <3>2 DEF Alone
      <4> QED
        BY <2>2, <3>2, <4>1
    <3>3. ASSUME FewLost, NEW i \in DOMAIN posts', NEW j \in DOMAIN posts',
                 NEW k \in DOMAIN posts',
                 posts'[i].kind = "lost", posts'[j].kind = "lost",
                   posts'[k].kind = "lost"
          PROVE  i = j \/ j = k \/ i = k
      <4>1. i + 1 = j + 1 \/ j + 1 = k + 1 \/ i + 1 = k + 1
        BY <2>2, <3>3 DEF FewLost
      <4> QED
        BY <2>2, <3>3, <4>1
    <3> QED
      BY <3>1, <3>2, <3>3 DEF Alone, FewLost
  <2>3. CASE /\ \A n \in DOMAIN posts' : n \in DOMAIN posts \/ posts'[n].kind # "lost"
             /\ \A n \in DOMAIN posts : posts'[n] = posts[n]
    BY <2>3 DEF HasLost, Has, Alone, FewLost
  <2> QED
    BY <1>1, <1>a, <2>1, <2>2, <2>3
<1>2. ASSUME Loss
      PROVE  /\ ~HasLost => Alone(posts', L)
             /\ Alone(posts, L) => FewLost'
  <2>1. /\ DOMAIN posts' = 1..(Len(posts) + 1)
        /\ \A n \in DOMAIN posts : posts'[n] = posts[n]
        /\ \A n \in DOMAIN posts' : n \in DOMAIN posts \/ n = Len(posts) + 1
    BY <1>0, <1>2, LossIs
  <2>2. ~HasLost => Alone(posts', L)
    BY <2>1 DEF HasLost, Has, Alone
  <2>3. Alone(posts, L) => FewLost'
    BY <2>1 DEF Alone, FewLost
  <2> QED
    BY <2>2, <2>3
<1>3. ASSUME Heard, Head(posts).kind = "lost"
      PROVE  /\ HasLost
             /\ Alone(posts, L) => ~HasLost'
             /\ FewLost => Alone(posts', L)
  <2>1. /\ 1 \in DOMAIN posts /\ posts[1].kind = "lost"
        /\ \A n \in DOMAIN posts' :
             posts'[n] = posts[n + 1] /\ n \in Nat /\ n + 1 \in DOMAIN posts /\
               n + 1 # 1
    BY <1>0, <1>3, HeardIs
  <2>2. HasLost /\ (Alone(posts, L) => ~HasLost')
    BY <2>1 DEF HasLost, Has, Alone
  <2>3. ASSUME FewLost, NEW i \in DOMAIN posts', NEW j \in DOMAIN posts',
               posts'[i].kind \in L, posts'[j].kind \in L
        PROVE  i = j
    <3>1. i + 1 = j + 1
      BY <2>1, <2>3 DEF FewLost
    <3> QED
      BY <2>1, <2>3, <3>1
  <2> QED
    BY <2>2, <2>3 DEF Alone
<1>4. (~HasLost => Alone(posts, L)) /\ (~HasLost' => Alone(posts', L))
  BY DEF HasLost, Has, Alone
<1> QED
  BY <1>1, <1>2, <1>3, <1>4

\* How a core comes to run: by a start that works.
LEMMA RunsMove ==
  ASSUME TypeOK, Fits, [Next]_vars, ~Fails, running' # None
  PROVE  \/ running # None /\ ~Loss
         \/ Work /\ Head(calls).method = "start" /\ answer'.result = "ok"
<1>1. CASE Work
  <2>1. Head(calls).method \in {"start", "disconnect", "status"} /\ ~Loss
    <3>1. Loss => running' = None
      BY LossIs
    <3> QED
      BY <1>1, <3>1, WorkIs DEF Asked
  <2> QED
    BY <1>1, <2>1, WorkIs
<1>2. CASE ~Work
  <2>1. ~Loss
    BY LossIs
  <2>2. running' = running
    BY <1>2, <2>1, Moves, PostIs DEF Kept, Heard
  <2> QED
    BY <2>1, <2>2
<1> QED
  BY <1>1, <1>2

\* The last word that no core runs is true.
LEMMA HeadLast ==
  ASSUME TypeOK, Known, DownAfter, Heard, Down(Head(posts)), NoStartAfter(1)
  PROVE  running = None /\ ~HasLost' /\ StartsWorked'
<1>1. /\ DOMAIN posts = 1..Len(posts) /\ Len(posts) >= 1 /\ Len(posts) \in Nat
      /\ DOMAIN posts' = 1..(Len(posts) - 1) /\ Head(posts) = posts[1]
      /\ \A i \in DOMAIN posts' : posts'[i] = posts[i + 1]
      /\ UNCHANGED answer
  BY HeardIs
<1>2. /\ 1 \in DOMAIN posts
      /\ \A i \in DOMAIN posts' : i + 1 \in DOMAIN posts /\ i + 1 > 1
  BY <1>1
<1>3. running = None /\ \A j \in DOMAIN posts : j > 1 => posts[j].kind # "lost"
  BY <1>1, <1>2 DEF DownAfter
<1> QED
  BY <1>1, <1>2, <1>3 DEF HasLost, Has, NoStartAfter, StartsWorked

\* Without an attempt, a loss that is told was the last.
LEMMA LostOnce ==
  ASSUME TypeOK, Fits, Known, DownAfter, ~Attempting, HasLost
  PROVE  running = None /\ Alone(posts, {"lost"})
<1>1. \A i \in DOMAIN posts : NoStartAfter(i)
  BY AttemptingIs, StartIsAttempt DEF NoStartAfter, Pending, HasStart
<1>2. \A i \in DOMAIN posts : posts[i].kind = "lost" =>
        running = None /\ \A j \in DOMAIN posts : j > i => posts[j].kind # "lost"
  BY <1>1 DEF DownAfter, Down
<1>3. DOMAIN posts = 1..Len(posts) /\ Len(posts) \in Nat
  BY Numbered
<1> QED
  BY <1>2, <1>3 DEF HasLost, Has, Alone

\* An attempt that begins finds at most one.
LEMMA BegunLost ==
  ASSUME TypeOK, Fits, DownAfter, InitCalm, Lonely, StartShown, Begun, Untangled'
  PROVE  /\ HasLost => running = None /\ Alone(posts, {"lost"})
         /\ attempt' = 0 \/ (~HasLost /\ running = None)
<1>1. [Next]_vars
  BY DEF Begun, Next, User, Due, Switch, Reply
<1>2. Untangled /\ Orderly /\ Known /\ "doubled" \notin tangled'
  BY <1>1, UntangledStays
<1>3. CASE ~Attempting
  <2>1. HasLost => running = None /\ Alone(posts, {"lost"})
    BY <1>2, <1>3, LostOnce
  <2>2. attempt' = 0 \/ status = "connecting"
    BY DEF Begun
  <2> QED
    BY <1>2, <1>3, <2>1, <2>2 DEF Lonely
<1>4. CASE Initialized /\ Attempting
  <2>1. Pending({"init"})
    <3>1. "none" \notin {"init"} /\ "lost" \notin {"init"}
      OBVIOUS
    <3>2. Head(posts).kind \in {"init"}
      BY <1>4 DEF Initialized, Comes
    <3> QED
      BY <1>4, <3>1, <3>2, PendingMoves
  <2> QED
    BY <1>2, <1>4, <2>1 DEF InitCalm, InitUnanswered, Begun
<1> QED
  BY <1>2, <1>3, <1>4, BegunClear

\* How the app comes to say that no core runs.
LEMMA Closes ==
  ASSUME TypeOK, [Next]_vars, status' \in {"error", "disconnected"},
         status \notin {"error", "disconnected"}
  PROVE  \/ Tick /\ status = "connecting" /\ (Attempting => "outpolled" \in tangled')
         \/ Started /\ Answered # "ok"
         \/ Disconnected
         \/ Synced /\ status = "connected" /\ Answered # "ok"
         \/ CoreStopped /\ ~CanRetry
         \/ \E i \in DOMAIN payloads : Unbuilt(i)
<1>1. CASE User \/ Switch \/ Retry \/ Stable
  BY <1>1
     DEF User, ToggleOn, ToggleOff, Reconnect, Resume, SelectServer, Switch, Saved,
         Switchable,
         SwitchSettles, Retry, Stable, Begin
<1>2. CASE (\E i \in DOMAIN payloads : Payload(i)) \/ Native \/ Loss \/ Fails
             \/ UNCHANGED vars
  BY <1>2 DEF Payload, Native, Work, Post, Loss, Fails, vars
<1>3. CASE Tick
  BY <1>3 DEF Tick, Met
<1>4. CASE Started
  BY <1>4 DEF Started
<1>5. CASE Confirmed \/ Ticked
  BY <1>5 DEF Confirmed, Ticked, MarkConnected
<1>6. CASE Synced
  BY <1>6 DEF Synced, Connected
<1>7. CASE Initialized
  BY <1>7 DEF Initialized, Begin
<1>8. CASE CoreStopped
  BY <1>8 DEF CoreStopped, Schedule
<1> QED
  BY <1>1, <1>2, <1>3, <1>4, <1>5, <1>6, <1>7, <1>8 DEF Next, Due, Reply, Payloads

\* A start that failed, when the app hears of it, was the last.
LEMMA FailedOver ==
  ASSUME TypeOK, DownAfter, OneStart, Untangled, Started, Answered # "ok"
  PROVE  ~Starting' /\ running' = None /\ ~HasLost'
<1>1. Heard /\ Head(posts) = posts[1] /\ 1 \in DOMAIN posts
  BY AnswersHeard, HeardIs
<1>2. Failed(posts[1]) /\ Down(Head(posts)) /\ UNCHANGED <<running, payloads, calls>>
  BY <1>1 DEF Started, Comes, Answered, Failed, Down
<1>3. ~ToStart /\ NoStartAfter(1)
  BY <1>1, <1>2 DEF OneStart, Single, StartsWorked, Failed
<1>4. running = None /\ ~HasLost' /\ StartsWorked'
  BY <1>1, <1>2, <1>3, HeadLast, UntangledIs
<1> QED
  BY <1>2, <1>3, <1>4 DEF Starting, ToStart

\* So was one that no payload is made for, when no core runs.
LEMMA UnbuiltOver ==
  ASSUME TypeOK, Fits, [Next]_vars, OneStart, Losing, Untangled',
         NEW i \in DOMAIN payloads, Unbuilt(i)
  PROVE  ~Starting' /\ running' = None /\ Alone(posts', {"lost"})
<1>1. Untangled /\ running = None /\ Single
  BY UntangledStays DEF OneStart
<1>2. ~Starting' /\ UNCHANGED <<posts, running>> /\ Starting
  BY <1>1, UnbuiltLast
<1>3. Alone(posts, {"lost"})
  BY <1>1, <1>2, LostMoves DEF Losing
<1> QED
  BY <1>1, <1>2, <1>3 DEF Alone

\* When it does, no core runs and none will by itself.
LEMMA Closed ==
  ASSUME TypeOK, Fits, DownAfter, Lonely, DenialExplained, DisconnectLast, OneStart,
         Losing, [Next]_vars, Untangled', status' \in {"error", "disconnected"},
         status \notin {"error", "disconnected"}
  PROVE  ~Starting' /\ running' = None /\ Alone(posts', {"lost"})
<1>0. /\ Untangled /\ "late" \notin tangled /\ "outpolled" \notin tangled'
      /\ {"overtaken", "hasty"} \cap tangled = {} /\ Orderly /\ Known /\ ~Fails
  BY UntangledStays DEF Untangled
<1>1. status' # "connecting" /\ ~Begun
  BY DEF Begun
<1>2. CASE Tick /\ status = "connecting" /\ (Attempting => "outpolled" \in tangled')
  <2>1. ~Attempting /\ running' = running /\ ~Loss
    <3>1. UNCHANGED <<posts, running>>
      BY <1>2 DEF Tick
    <3> QED
      BY <1>0, <1>2, <3>1, LossIs
  <2>2. ~Starting /\ running = None /\ ~HasLost
    BY <1>0, <1>2, <2>1, StartingIsAttempt DEF Lonely
  <2> QED
    BY <1>0, <1>1, <2>1, <2>2, StartingStays, LostMoves
<1>3. CASE Started /\ Answered # "ok"
  BY <1>0, <1>3, FailedOver, LostMoves
<1>4. CASE Disconnected
  <2>1. /\ Heard /\ Head(posts) = posts[1] /\ 1 \in DOMAIN posts
        /\ Head(posts).kind = "disconnect" /\ UNCHANGED <<running, payloads, calls>>
    BY <1>4, AnswersHeard, HeardIs DEF Disconnected, Comes
  <2>2. Pending({"disconnect"}) /\ Down(Head(posts))
    BY <2>1 DEF Pending, Has, Down
  <2>3. payloads = <<>> /\ ~HasStart(calls) /\ NoStartAfter(1)
    BY <1>0, <2>1, <2>2 DEF DisconnectLast, NoneBehind
  <2>4. running = None /\ ~HasLost' /\ StartsWorked'
    BY <1>0, <2>1, <2>2, <2>3, HeadLast
  <2> QED
    BY <2>1, <2>3, <2>4, LostMoves DEF Starting, ToStart
<1>5. CASE Synced /\ status = "connected" /\ Answered # "ok"
  <2>1. Head(posts) = posts[1] /\ 1 \in DOMAIN posts /\ DOMAIN posts = 1..Len(posts)
    BY <1>5, AnswersHeard, HeardIs
  <2>2. Denied(posts[1])
    BY <1>5, <2>1 DEF Synced, Comes, Answered, Denied
  <2>3. \E j \in DOMAIN posts : j < 1
    BY <1>0, <1>5, <2>1, <2>2 DEF DenialExplained
  <2>4. \A j \in DOMAIN posts : ~(j < 1)
    BY <2>1, Numbered
  <2> QED
    BY <2>3, <2>4
<1>6. CASE CoreStopped /\ ~CanRetry
  <2>1. Heard /\ Head(posts).kind = "lost" /\ running' = running
    BY <1>6, AnswersHeard DEF CoreStopped, Comes
  <2>2. HasLost /\ (Alone(posts, {"lost"}) => ~HasLost')
    BY <2>1, LostMoves
  <2>3. ~(attempt < MaxAttempts)
    BY <1>6 DEF CanRetry
  <2>4. ~Starting /\ running = None /\ Alone(posts, {"lost"})
    BY <1>0, <2>2, <2>3 DEF Losing
  <2> QED
    BY <1>0, <1>1, <2>1, <2>2, <2>4, StartingStays, LostMoves
<1>7. ASSUME NEW i \in DOMAIN payloads, Unbuilt(i)
      PROVE  ~Starting' /\ running' = None /\ Alone(posts', {"lost"})
  BY <1>7, UnbuiltOver
<1> QED
  BY <1>2, <1>3, <1>4, <1>5, <1>6, <1>7, Closes

\* A start is shown until it is over.
LEMMA StartShownStep ==
  ASSUME TypeOK, Fits, DownAfter, Lonely, DenialExplained, DisconnectLast, OneStart,
         StartShown, Losing, [Next]_vars
  PROVE  StartShown'
<1> SUFFICES ASSUME Untangled', Starting', status' \in {"error", "disconnected"}
             PROVE  FALSE
  BY DEF StartShown
<1>1. status \in {"error", "disconnected"}
  BY Closed
<1>2. ~Begun
  BY DEF Begun
<1>3. Untangled /\ ~Fails
  BY UntangledStays
<1>4. Starting
  BY <1>2, <1>3, StartingStays
<1> QED
  BY <1>1, <1>3, <1>4 DEF StartShown

\* The attempts under way are no more, but by one that begins.
LEMMA AttemptingStays ==
  ASSUME TypeOK, Fits, [Next]_vars, ~Begun
  PROVE  Attempting' => Attempting
<1>1. CASE \E i \in DOMAIN payloads : Payload(i) \/ Unbuilt(i)
  BY <1>1, AttemptsMove
<1>2. CASE payloads' = payloads
  <2>1. ~ToggleOn /\ ~Reconnect
    <3>1. ToggleOn \/ Reconnect => \E k \in Attempts :
            payloads' = Append(payloads, Call(k, "start", selected))
      BY DEF ToggleOn, Reconnect, Begin, Attempts
    <3> QED
      BY <1>2, <3>1, AppendNot
  <2> QED
    BY <1>2, <2>1, AttemptsMove
       DEF Next, User, Due, Switch, Native, Reply, Payloads
<1> QED
  BY <1>1, <1>2, Begins

\* The app goes on to say that no core runs only while that is so.
LEMMA ShutStep ==
  ASSUME TypeOK, Fits, DownAfter, InitFirst, Lonely, DenialExplained, DisconnectLast,
         OneStart, StartShown, Losing, Shut, [Next]_vars
  PROVE  Shut'
<1> SUFFICES ASSUME Untangled', status' \in {"error", "disconnected"},
                    running' # None \/ ~Alone(posts', {"lost"})
             PROVE  InitUnanswered' /\ ~Attempting'
  BY DEF Shut
<1>0. Untangled /\ Known /\ ~Fails /\ ~Begun /\ status \in {"error", "disconnected"}
  BY UntangledStays, Closed DEF Begun
<1>1. ~Starting
  BY <1>0 DEF StartShown
<1>2. running # None \/ ~Alone(posts, {"lost"})
  <2>1. ~(Work /\ Head(calls).method = "start")
    BY <1>1, WorkIs DEF Starting, ToStart, HasStart
  <2> QED
    BY <1>0, <2>1, RunsMove, LostMoves, LossIs
<1>3. InitUnanswered /\ ~Attempting
  BY <1>0, <1>2 DEF Shut
<1>4. ~Attempting'
  BY <1>0, <1>3, AttemptingStays
<1>5. CASE ~Heard \/ CoreStopped
  <2>1. InitUnanswered' <=> InitUnanswered
    <3>1. ~Reply \/ CoreStopped
      BY <1>5, HeardReplies
    <3>2. CASE CoreStopped
      BY <3>2, AttemptsMove
    <3>3. CASE User \/ Switch \/ Retry \/ Stable \/ Tick
      BY <3>3, AttemptsMove DEF User, Switch
    <3>4. CASE Payloads \/ Native \/ Loss \/ UNCHANGED vars
      BY <3>4, AttemptsMove DEF Payloads, Native
    <3> QED
      BY <1>0, <3>1, <3>2, <3>3, <3>4 DEF Next, Due
  <2> QED
    BY <1>3, <1>4, <2>1
<1>6. CASE Heard /\ ~CoreStopped
  <2>1. Reply /\ ~Started /\ ~Confirmed
    BY <1>3, <1>6, HeardReplies, AttemptsMove
  <2>2. Head(posts).kind # "lost"
    BY <1>6, <2>1, AnswersHeard DEF Reply
  <2>3. ~Pending({"init"})'
    BY <1>6, <2>2, InitOver
  <2>4. Head(posts).kind = "init"
    <3>1. "none" \notin {"init"} /\ "lost" \notin {"init"}
      OBVIOUS
    <3> QED
      BY <1>3, <1>6, <2>1, <2>3, <3>1, PendingMoves DEF Reply, InitUnanswered
  <2>5. Initialized
    BY <1>6, <2>1, <2>4 DEF Reply, Ticked, Disconnected, Synced, Comes
  <2>6. Answered # "ok" /\ UNCHANGED running
    BY <1>0, <2>5 DEF Initialized
  <2>7. Down(Head(posts))
    BY <2>5, <2>6 DEF Initialized, Comes, Down, Answered
  <2>8. running = None /\ ~HasLost'
    BY <1>0, <1>4, <1>6, <2>7, HeadDown, AttemptingIs
  <2> QED
    BY <2>6, <2>8, LostMoves
<1> QED
  BY <1>5, <1>6

\* How the losses that are told stay few.
LEMMA LossesStay ==
  ASSUME TypeOK, Fits, DownAfter, InitCalm, Lonely, StartShown, OneStart, Losing,
         [Next]_vars, Untangled'
  PROVE  /\ Starting' /\ HasLost' => running' = None /\ Alone(posts', {"lost"})
         /\ ~Alone(posts', {"lost"}) => running' = None
         /\ FewLost'
<1>0. Untangled /\ Single /\ ~Fails
  BY UntangledStays DEF OneStart
<1>1. ASSUME Starting', HasLost'
      PROVE  running' = None /\ Alone(posts', {"lost"})
  <2>1. CASE Begun
    <3>1. ~Loss /\ UNCHANGED running
      BY <2>1, LossIs DEF Begun
    <3>2. HasLost => running = None /\ Alone(posts, {"lost"})
      BY <2>1, BegunLost
    <3> QED
      BY <1>1, <3>1, <3>2, LostMoves
  <2>2. CASE ~Begun
    <3>1. HasLost => running = None /\ Alone(posts, {"lost"})
      BY <1>0, <1>1, <2>2, StartingStays DEF Losing
    <3>2. CASE Loss
      BY <3>1, <3>2, LossIs, LostMoves
    <3>3. CASE ~Loss
      <4>1. running = None /\ Alone(posts', {"lost"})
        BY <1>1, <3>1, <3>3, LostMoves
      <4>2. ~(Work /\ Head(calls).method = "start" /\ answer'.result = "ok")
        BY <1>0, <1>1, SingleWorked
      <4> QED
        BY <1>0, <4>1, <4>2, RunsMove
    <3> QED
      BY <3>2, <3>3
  <2> QED
    BY <2>1, <2>2
<1>2. ASSUME ~Alone(posts', {"lost"}), running' # None
      PROVE  FALSE
  <2>1. ~Loss /\ ~Alone(posts, {"lost"}) /\ HasLost
    BY <1>2, LossIs, LostMoves
  <2>2. running = None
    BY <1>0, <2>1 DEF Losing
  <2>3. Work /\ Head(calls).method = "start"
    BY <1>0, <1>2, <2>2, RunsMove
  <2>4. Starting
    BY <2>3, WorkIs DEF Starting, ToStart, HasStart
  <2> QED
    BY <1>0, <2>1, <2>4 DEF Losing
<1>3. FewLost'
  <2>1. Loss => Alone(posts, {"lost"})
    BY <1>0, LossIs DEF Losing
  <2> QED
    BY <1>0, <2>1, LostMoves DEF Losing
<1> QED
  BY <1>1, <1>2, <1>3

\* The attempts are counted when one fails or a loss is heard, and only then.
LEMMA AttemptMoves ==
  ASSUME TypeOK, [Next]_vars
  PROVE  \/ attempt' = attempt \/ attempt' = 0
         \/ Started /\ Answered # "ok"
         \/ CoreStopped
         \/ \E i \in DOMAIN payloads : Unbuilt(i)
<1>1. CASE User \/ Switch \/ Retry \/ Stable
  BY <1>1
     DEF User, ToggleOn, ToggleOff, Reconnect, Resume, SelectServer, Switch, Saved,
         Switchable,
         SwitchSettles, Retry, Stable, Begin, CancelAutoReconnect, timerVars
<1>2. CASE (\E i \in DOMAIN payloads : Payload(i)) \/ Native \/ Loss \/ Fails
             \/ UNCHANGED vars
  BY <1>2 DEF Payload, Native, Work, Post, Loss, Fails, vars, timerVars
<1>3. CASE Tick
  BY <1>3 DEF Tick
<1>4. CASE Started
  BY <1>4 DEF Started, timerVars
<1>5. CASE Confirmed \/ Ticked
  BY <1>5 DEF Confirmed, Ticked, MarkConnected, KeepAttempts, timerVars
<1>6. CASE Disconnected \/ Synced
  BY <1>6 DEF Disconnected, Synced
<1>7. CASE Initialized
  BY <1>7 DEF Initialized, Begin, CancelAutoReconnect, timerVars
<1> QED
  BY <1>1, <1>2, <1>3, <1>4, <1>5, <1>6, <1>7 DEF Next, Due, Reply, Payloads

\* While a core runs, or will, the app goes on being willing to try again.
LEMMA LosingStep ==
  ASSUME TypeOK, Fits, DownAfter, InitCalm, Lonely, StartShown, OneStart, Losing,
         [Next]_vars
  PROVE  Losing'
<1> SUFFICES ASSUME Untangled' PROVE Losing'
  BY DEF Losing
<1>0. Untangled /\ Single /\ ~Fails /\ MaxAttempts \in Nat \ {0}
  BY UntangledStays, ProviderAssumption DEF OneStart, ProviderAssumption
<1> DEFINE L == {"lost"}
<1>1. /\ Starting' /\ HasLost' => running' = None /\ Alone(posts', L)
      /\ ~Alone(posts', L) => running' = None
      /\ FewLost'
  BY LossesStay
<1>2. /\ Starting' /\ (HasLost' \/ running' # None) => attempt' < MaxAttempts
      /\ HasLost' /\ (running' # None \/ ~Alone(posts', L)) => attempt' < MaxAttempts
  <2>1. CASE attempt' = 0
    BY <1>0, <2>1
  <2>2. CASE attempt' = attempt /\ attempt' # 0
    <3>1. ASSUME Starting', HasLost' \/ running' # None PROVE attempt < MaxAttempts
      <4>1. ~Begun
        <5>1. ASSUME Begun PROVE FALSE
          <6>1. ~HasLost /\ running = None
            BY <2>2, <5>1, BegunLost
          <6>2. ~Loss /\ UNCHANGED running
            BY <5>1, LossIs DEF Begun
          <6> QED
            BY <3>1, <6>1, <6>2, LostMoves
        <5> QED
          BY <5>1
      <4>2. Starting
        BY <1>0, <3>1, <4>1, StartingStays
      <4>3. ~(Work /\ Head(calls).method = "start" /\ answer'.result = "ok")
        BY <1>0, <3>1, SingleWorked
      <4>4. HasLost \/ running # None
        BY <1>0, <3>1, <4>3, LossIs, LostMoves, RunsMove
      <4> QED
        BY <1>0, <4>2, <4>4 DEF Losing
    <3>2. ASSUME HasLost', running' # None PROVE attempt < MaxAttempts
      <4>1. ~Loss /\ HasLost
        BY <3>2, LossIs, LostMoves
      <4>2. running # None \/ Starting
        BY <1>0, <3>2, RunsMove, WorkIs DEF Starting, ToStart, HasStart
      <4> QED
        BY <1>0, <4>1, <4>2 DEF Losing
    <3>3. ASSUME HasLost', ~Alone(posts', L) PROVE attempt < MaxAttempts
      <4>1. HasLost /\ (running # None \/ ~Alone(posts, L))
        BY <3>3, LossIs, LostMoves
      <4> QED
        BY <1>0, <4>1 DEF Losing
    <3> HIDE DEF L
    <3> QED
      BY <2>2, <3>1, <3>2, <3>3
  <2>3. CASE Started /\ Answered # "ok"
    BY <1>0, <2>3, FailedOver
  <2>4. CASE CoreStopped
    <3>1. /\ Heard /\ Head(posts).kind = "lost"
          /\ UNCHANGED <<running, payloads>>
      BY <2>4, AnswersHeard DEF CoreStopped, Comes
    <3>2. HasLost /\ Alone(posts', L) /\ (Alone(posts, L) => ~HasLost')
      BY <1>0, <3>1, LostMoves DEF Losing
    <3>3. ~Begun
      BY <3>1, AppendNot DEF Begun
    <3>4. Starting' => running = None /\ Alone(posts, L)
      BY <1>0, <3>2, <3>3, StartingStays DEF Losing
    <3>5. running # None => Alone(posts, L)
      BY <1>0 DEF Losing
    <3> HIDE DEF L
    <3> QED
      BY <3>1, <3>2, <3>4, <3>5
  <2>5. CASE \E i \in DOMAIN payloads : Unbuilt(i)
    BY <2>5, UnbuiltOver
  <2> QED
    BY <2>1, <2>2, <2>3, <2>4, <2>5, AttemptMoves
<1> QED
  BY <1>1, <1>2 DEF Losing

-----------------------------------------------------------------------------
(* The core that runs, or will, is the one that was chosen.                *)

\* But while a new choice is stored, which a connection then follows.
Chosen ==
  tangled = {} /\ drain # "saving" =>
    /\ \A i \in DOMAIN payloads : payloads[i].server = selected
    /\ \A i \in DOMAIN calls : calls[i].method = "start" => calls[i].server = selected
    /\ running \in {None, selected} \/ ToStart

\* What is chosen changes with the queue only, and is stored then.
LEMMA ChoiceStays ==
  ASSUME TypeOK, [Next]_vars, drain' # "saving"
  PROVE  /\ drain # "saving" => selected' = selected
         /\ drain = "saving" => Saved
<1>1. CASE User
  BY <1>1
     DEF User, ToggleOn, ToggleOff, Reconnect, Resume, SelectServer, StartSwitch,
         Change, switchVars
<1>2. CASE Saved
  BY <1>2 DEF Saved, Switchable, NextSwitch, StartSwitch, Change
<1>3. CASE SwitchSettles
  BY <1>3 DEF SwitchSettles, NextSwitch, StartSwitch, Change
<1>4. CASE Retry \/ Stable \/ Tick \/ Payloads \/ Native \/ Loss \/ Fails
            \/ UNCHANGED vars
  BY <1>4
     DEF Retry, Stable, Tick, Payloads, Payload, Unbuilt, AttemptEnds, Native, Work,
         Post, Loss, Fails, vars, switchVars
<1>5. CASE Started \/ Confirmed
  BY <1>5 DEF Started, Confirmed, AttemptEnds
<1>6. CASE Ticked \/ Disconnected \/ Synced \/ Initialized \/ CoreStopped
  BY <1>6 DEF Ticked, Disconnected, Synced, Initialized, CoreStopped, switchVars
<1> QED
  BY <1>1, <1>2, <1>3, <1>4, <1>5, <1>6 DEF Next, Due, Switch, Reply

\* A start that is to be worked stays so until it is.
LEMMA ToStartHolds ==
  ASSUME TypeOK, Fits, [Next]_vars, ToStart, ~Fails,
         ~(Work /\ Head(calls).method = "start"), ~\E i \in DOMAIN payloads : Unbuilt(i)
  PROVE  ToStart'
<1>0. payloads \in Seq(Waiting) /\ calls \in Seq(Asked)
  BY TypeParts DEF NativeType
<1>1. CASE Begun
  <2>1. PICK k \in Attempts : payloads' = Append(payloads, Call(k, "start", selected))
    BY <1>1 DEF Begun
  <2>2. Call(k, "start", selected) \in Waiting
    BY TypeParts, CallFits DEF SwitchType
  <2> QED
    BY <1>0, <2>1, <2>2, AppendIs DEF ToStart
<1>2. ASSUME NEW i \in DOMAIN payloads, Payload(i) PROVE ToStart'
  <2>1. payloads[i] \in Asked /\ payloads[i].method = "start"
    <3>1. payloads[i] \in Waiting
      BY <1>0, <1>2, ElementOfSeq, RemoveAtIs
    <3> QED
      BY <3>1, CallFits DEF Waiting
  <2>2. HasStart(calls')
    BY <1>0, <1>2, <2>1, HasAppend DEF Payload
  <2> QED
    BY <2>2 DEF ToStart
<1>3. CASE payloads' = payloads /\ ~\E i \in DOMAIN payloads : Payload(i)
  BY <1>3, StartsMove DEF ToStart
<1> QED
  BY <1>1, <1>2, <1>3, Begins

\* The servers of what waits and what is asked stay the chosen one.
LEMMA ServersStay ==
  ASSUME TypeOK, Fits, [Next]_vars, selected' = selected,
         \A i \in DOMAIN payloads : payloads[i].server = selected,
         \A i \in DOMAIN calls : calls[i].method = "start" => calls[i].server = selected
  PROVE  /\ \A i \in DOMAIN payloads' : payloads'[i].server = selected
         /\ \A i \in DOMAIN calls' : calls'[i].method = "start" =>
              calls'[i].server = selected
<1>0. payloads \in Seq(Waiting) /\ calls \in Seq(Asked)
  BY TypeParts DEF NativeType
<1>1. \A i \in DOMAIN payloads' : payloads'[i].server = selected
  <2>1. CASE payloads' = payloads
    BY <2>1
  <2>2. ASSUME NEW i \in DOMAIN payloads, Payload(i) \/ Unbuilt(i)
        PROVE  \A j \in DOMAIN payloads' : payloads'[j].server = selected
    <3>1. /\ payloads' = RemoveAt(payloads, i)
          /\ DOMAIN payloads = 1..Len(payloads) /\ Len(payloads) \in Nat
          /\ DOMAIN RemoveAt(payloads, i) = 1..(Len(payloads) - 1)
          /\ \A j \in 1..(Len(payloads) - 1) : RemoveAt(payloads, i)[j] =
               IF j < i THEN payloads[j] ELSE payloads[j + 1]
      BY <1>0, <2>2, RemoveAtIs DEF Payload, Unbuilt
    <3> QED
      BY <3>1
  <2>3. CASE Begun
    <3>1. PICK k \in Attempts : payloads' = Append(payloads, Call(k, "start", selected))
      BY <2>3 DEF Begun
    <3> DEFINE c == Call(k, "start", selected)
    <3>2. c \in Waiting /\ c.server = selected
      BY TypeParts, CallFits DEF SwitchType, Call
    <3> HIDE DEF c
    <3>3. /\ DOMAIN payloads = 1..Len(payloads) /\ Len(payloads) \in Nat
          /\ DOMAIN payloads' = 1..(Len(payloads) + 1)
          /\ \A j \in 1..Len(payloads) : payloads'[j] = payloads[j]
          /\ payloads'[Len(payloads) + 1] = c
      BY <1>0, <3>1, <3>2, AppendIs DEF c
    <3> QED
      BY <3>2, <3>3
  <2> QED
    BY <2>1, <2>2, <2>3, Begins
<1>2. \A i \in DOMAIN calls' : calls'[i].method = "start" => calls'[i].server = selected
  <2>1. CASE Work \/ Fails
    <3>1. /\ DOMAIN calls' = 1..(Len(calls) - 1) /\ DOMAIN calls = 1..Len(calls)
          /\ \A i \in DOMAIN calls' : calls'[i] = calls[i + 1]
          /\ Len(calls) \in Nat
      BY <2>1, WorkIs, FailsIs, TakenIs
    <3> QED
      BY <3>1
  <2>2. CASE UNCHANGED calls
    BY <2>2
  <2>3. ASSUME NEW c \in Asked, calls' = Append(calls, c),
               c.method = "start" => c.server = selected
        PROVE  \A i \in DOMAIN calls' : calls'[i].method = "start" =>
                 calls'[i].server = selected
    <3>1. /\ DOMAIN calls = 1..Len(calls) /\ Len(calls) \in Nat
          /\ DOMAIN calls' = 1..(Len(calls) + 1)
          /\ \A i \in DOMAIN calls : calls'[i] = calls[i]
          /\ calls'[Len(calls) + 1] = c
      BY <2>3, AskedIs
    <3> QED
      BY <2>3, <3>1
  <2>4. ASSUME NEW i \in DOMAIN payloads, Payload(i)
        PROVE  \A j \in DOMAIN calls' : calls'[j].method = "start" =>
                 calls'[j].server = selected
    <3>1. payloads[i] \in Asked /\ payloads[i].server = selected
      BY <1>0, <2>4, ElementOfSeq, RemoveAtIs, CallFits
    <3> QED
      BY <2>3, <2>4, <3>1 DEF Payload
  <2> QED
    BY <2>1, <2>2, <2>3, <2>4, Asks
<1> QED
  BY <1>1, <1>2

\* What runs is what was chosen, after every step.
LEMMA ChosenStep ==
  ASSUME TypeOK, Fits, Chosen, [Next]_vars
  PROVE  Chosen'
<1> SUFFICES ASSUME tangled' = {}, drain' # "saving" PROVE Chosen'
  BY DEF Chosen
<1>u. Untangled'
  BY DEF Untangled
<1>0. /\ tangled = {} /\ ~Fails /\ "doubled" \notin tangled'
      /\ \A i \in DOMAIN payloads : Unbuilt(i) => running = None
  BY <1>u, TangledGrows, UntangledStays
<1>00. payloads \in Seq(Waiting) /\ calls \in Seq(Asked)
  BY TypeParts DEF NativeType
<1>1. CASE drain # "saving"
  <2>1. /\ selected' = selected
        /\ \A i \in DOMAIN payloads : payloads[i].server = selected
        /\ \A i \in DOMAIN calls : calls[i].method = "start" =>
             calls[i].server = selected
        /\ running \in {None, selected} \/ ToStart
    BY <1>0, <1>1, ChoiceStays DEF Chosen
  <2>2. running' \in {None, selected} \/ ToStart'
    <3>1. CASE Work /\ Head(calls).method = "start"
      BY <2>1, <3>1, WorkIs
    <3>3. CASE \E i \in DOMAIN payloads : Unbuilt(i)
      BY <1>0, <3>3 DEF Unbuilt, nativeVars
    <3>2. CASE /\ ~(Work /\ Head(calls).method = "start")
               /\ ~\E i \in DOMAIN payloads : Unbuilt(i)
      <4>1. ToStart => ToStart'
        BY <1>0, <3>2, ToStartHolds
      <4>2. running' \in {None, running}
        BY <1>0, <3>2, RunsMove, Moves, WorkIs, PostIs, LossIs DEF Kept, Heard, Asked
      <4> QED
        BY <2>1, <4>1, <4>2
    <3> QED
      BY <3>1, <3>2, <3>3
  <2> QED
    BY <2>1, <2>2, ServersStay DEF Chosen
<1>2. CASE drain = "saving"
  <2>1. Saved
    BY <1>2, ChoiceStays
  <2>2. UNCHANGED <<calls, answer, posts, running>>
    BY <2>1 DEF Saved, Switchable, nativeVars
  <2>3. CASE status = "connected"
    <3>1. /\ payloads' = Append(payloads, Call("switch", "start", selected))
          /\ selected' = selected /\ "switch" \in Attempts
      BY <1>2, <2>1, <2>3 DEF Saved, Switchable, Begin, Attempts
    <3>2. ~Attempting
      BY <1>0, <2>1, <3>1, AppendNot, BegunAlone
    <3>3. payloads = <<>> /\ ~HasStart(calls)
      BY <3>2, AttemptingIs, StartIsAttempt DEF Pending
    <3> DEFINE c == Call("switch", "start", selected)
    <3>4. c \in Waiting /\ c.server = selected
      BY <3>1, TypeParts, CallFits DEF SwitchType, Call
    <3> HIDE DEF c
    <3>5. payloads' # <<>> /\ DOMAIN payloads' = {1} /\ payloads'[1] = c
      <4>1. payloads' = Append(<<>>, c) /\ Append(<<>>, c) = <<c>>
        BY <3>1, <3>3 DEF c
      <4> QED
        BY <4>1
    <3> QED
      BY <2>2, <3>1, <3>3, <3>4, <3>5 DEF Chosen, ToStart, HasStart
  <2>4. CASE status # "connected"
    <3>1. Met(IF ~Silent \/ running # None THEN {"switched"} ELSE {})
          /\ UNCHANGED payloads
      BY <1>2, <2>1, <2>4 DEF Saved, Switchable
    <3>2. Silent /\ running = None
      BY <3>1 DEF Met
    <3>3. DOMAIN payloads' = {} /\ DOMAIN calls' = {} /\ running' = None
      BY <2>2, <3>1, <3>2 DEF Silent
    <3> QED
      BY <3>3 DEF Chosen
  <2> QED
    BY <2>3, <2>4
<1> QED
  BY <1>1, <1>2

-----------------------------------------------------------------------------
(* The theorems.                                                           *)

\* The inductive invariant: the type and the order of what is on its way (first
\* line), what the status says of it (second), the count of the attempts and what
\* is switched off (third), and what it takes for the app to show, at rest, what
\* runs (the last two).
IInv ==
  /\ TypeOK /\ Fits /\ DownAfter /\ InitFirst
  /\ InitCalm /\ Lonely /\ Timers
  /\ Tried /\ Counting /\ OffHolds
  /\ Explained /\ DenialExplained /\ Stopping /\ DisconnectLast
  /\ OneStart /\ StartShown /\ Losing /\ Shut /\ Chosen

\* It holds when the app starts.
LEMMA IInvInit == Init => IInv
<1> SUFFICES ASSUME Init PROVE IInv
  OBVIOUS
<1> DEFINE c == Call("init", "status", None)
<1>0. /\ MaxAttempts \in Nat \ {0} /\ PollLimit \in Nat /\ MaxActions \in Nat
      /\ MaxLosses \in Nat /\ Stored \in Servers /\ None \notin Servers
  BY ProviderAssumption DEF ProviderAssumption
<1>1. /\ status = "disconnected" /\ attempt = 0 /\ ~retry /\ ~stable /\ poll = Off
      /\ payloads = <<>> /\ calls = <<c>> /\ answer = NoAnswer /\ posts = <<>>
      /\ tries = 0 /\ ~off
  BY DEF Init
<1>2. c \in Asked /\ c.kind = "init" /\ c.method = "status"
  BY CallFits DEF Kinds, Call
<1> HIDE DEF c
<1>3. /\ calls \in Seq(Asked) /\ DOMAIN calls = {1} /\ calls[1] = c
      /\ posts \in Seq(Posts) /\ DOMAIN posts = {} /\ payloads \in Seq(Waiting)
  <2>1. <<c>> \in Seq(Asked) /\ DOMAIN <<c>> = {1} /\ <<c>>[1] = c
    BY <1>2
  <2>2. DOMAIN posts = {} /\ posts \in Seq(Posts) /\ payloads \in Seq(Waiting)
    BY <1>1, EmptySeq
  <2> QED
    BY <1>1, <2>1, <2>2
<1>4. TypeOK
  <2>1. ShownType
    BY <1>0, <1>1 DEF ShownType, Off
  <2>2. FlagType
    BY Zenon DEF FlagType, Init
  <2>3. SwitchType /\ GhostType
    BY <1>0 DEF SwitchType, GhostType, Init
  <2>4. NativeType
    BY <1>0, <1>1, <1>3 DEF NativeType, Init
  <2> QED
    BY <2>1, <2>2, <2>3, <2>4, TypeParts
<1>5. answer.kind = "none" /\ answer.method = "none"
  BY <1>1, NoAnswerIs
<1>6. Fits /\ InitFirst /\ DownAfter
  BY <1>1, <1>2, <1>3, <1>5 DEF Fits, InitFirst, DownAfter, Down, Attempts
<1>7. ~Pending(Attempts)
  BY <1>2, <1>3, <1>5 DEF Pending, Has, Attempts
<1>8. InitCalm
  BY <1>1, <1>7, AttemptingIs DEF InitCalm
<1>9. Lonely /\ Timers /\ Tried /\ OffHolds
  BY <1>1 DEF Lonely, Timers, Tried, Unmade, OffHolds
<1>10. Counting
  BY <1>1 DEF Counting, Counted1
<1>11. /\ answer.result = "none" /\ selected = Stored /\ running \in {None, selected}
       /\ c.kind # "disconnect" /\ c.method # "start"
  BY <1>1, <1>2, NoAnswerIs DEF Init
<1>12. ~ToStart /\ StartsWorked /\ ~HasLost /\ ~Starting /\ ~Attempting
  <2>1. ~ToStart /\ StartsWorked /\ ~HasLost
    BY <1>1, <1>3, <1>5, <1>11 DEF ToStart, HasStart, StartsWorked, HasLost, Has
  <2> QED
    BY <1>1, <1>7, <2>1, AttemptingIs DEF Starting
<1>13. Explained /\ DenialExplained
  BY <1>1, <1>3, <1>5 DEF Explained, DenialExplained, Up, Denied
<1>14. Stopping /\ DisconnectLast /\ StartShown /\ Chosen
  <2>1. ~Pending({"disconnect"})
    BY <1>3, <1>5, <1>11 DEF Pending, Has
  <2> QED
    BY <1>1, <1>3, <1>11, <1>12, <2>1
       DEF Stopping, DisconnectLast, StartShown, Chosen
<1>15. OneStart
  BY <1>1, <1>3, <1>12 DEF OneStart, Single
<1>16. Losing
  BY <1>3, <1>12 DEF Losing, FewLost, Alone
<1>17. Shut
  <2>1. InitUnanswered
    BY <1>2, <1>3 DEF InitUnanswered, Pending, Has
  <2> QED
    BY <1>12, <2>1 DEF Shut
<1> QED
  BY <1>4, <1>6, <1>8, <1>9, <1>10, <1>13, <1>14, <1>15, <1>16, <1>17 DEF IInv

\* And after every step.
LEMMA IInvStep == IInv /\ [Next]_vars => IInv'
<1> SUFFICES ASSUME IInv, [Next]_vars PROVE IInv'
  OBVIOUS
<1>1. /\ TypeOK /\ Fits /\ DownAfter /\ InitFirst
      /\ InitCalm /\ Lonely /\ Timers
      /\ Tried /\ Counting /\ OffHolds
      /\ Explained /\ DenialExplained /\ Stopping /\ DisconnectLast
      /\ OneStart /\ StartShown /\ Losing /\ Shut /\ Chosen
  BY DEF IInv
<1>2. TypeOK' /\ Fits' /\ DownAfter' /\ InitFirst'
  BY <1>1, TypeStep, FitsStep, DownStep, InitFirstStep
<1>3. InitCalm' /\ Lonely' /\ Timers'
  BY <1>1, InitCalmStep, LonelyStep, TimersStep
<1>4. Tried' /\ Counting' /\ OffHolds'
  BY <1>1, TriedStep, CountingStep, OffStep
<1>5. Explained' /\ DenialExplained' /\ Stopping' /\ DisconnectLast'
  BY <1>1, ExplainedStep, DenialExplainedStep, StoppingStep, DisconnectLastStep
<1>6. OneStart' /\ StartShown' /\ Losing' /\ Shut' /\ Chosen'
  BY <1>1, OneStartStep, StartShownStep, LosingStep, ShutStep, ChosenStep
<1> QED
  BY <1>2, <1>3, <1>4, <1>5, <1>6 DEF IInv

\* Every attempt the app makes by itself was counted, so between two acts of the
\* user, or a minute of connection, it makes no more than the list of delays
\* (_scheduleAutoReconnect, _handleCoreStopped, connect) is long.
THEOREM AttemptsAreBounded == Spec => []AttemptsBounded
<1>1. IInv => AttemptsBounded
  <2> SUFFICES ASSUME IInv PROVE AttemptsBounded
    OBVIOUS
  <2>1. TypeOK /\ Counting
    BY DEF IInv
  <2>2. attempt \in 0..MaxAttempts /\ tries \in Nat /\ MaxAttempts \in Nat
    BY <2>1, TypeParts, ProviderAssumption DEF ShownType, GhostType, ProviderAssumption
  <2> QED
    BY <2>1, <2>2 DEF AttemptsBounded, Counting, Counted1, Spent, Orderly, Known
<1> QED
  BY IInvInit, IInvStep, <1>1, PTL DEF Spec

\* Once the user has disconnected, what comes back late (an answer, a loss, a
\* tick of the poll, a retry, a server switch) finds no payload that waits and
\* no start behind the disconnect, and begins none.
THEOREM WhatIsOffStaysOff == Spec => []OffStaysOff
<1>1. IInv => OffStaysOff
  <2> SUFFICES ASSUME IInv, Rest, off,
                      {"overtaken", "hasty", "unstopped"} \cap tangled = {}
               PROVE  running = None
    BY DEF OffStaysOff
  <2>1. QuietAfter
    BY DEF IInv, OffHolds
  <2>2. ~Has(calls, {"disconnect"})
    BY DEF Rest, Silent, Has
  <2> QED
    BY <2>1, <2>2 DEF QuietAfter
<1> QED
  BY IInvInit, IInvStep, <1>1, PTL DEF Spec

\* At rest the app shows a connection exactly when a core runs, and the core is
\* that of the server the user chose: a connection that is shown and gone has its
\* cause still to be heard, and the app says that none runs only once none does.
THEOREM TheUserSeesWhatRuns == Spec => []RestAgrees
<1>1. IInv => RestAgrees
  <2> SUFFICES ASSUME IInv, Rest PROVE RestAgrees
    BY DEF RestAgrees
  <2>1. /\ TypeOK /\ Lonely /\ Explained /\ Stopping /\ Shut /\ Chosen
    BY DEF IInv
  <2>2. payloads = <<>> /\ calls = <<>> /\ answer = NoAnswer /\ posts = <<>>
        /\ drain = "idle"
    BY DEF Rest, Silent
  <2>3. /\ answer.kind = "none" /\ answer.method = "none"
        /\ DOMAIN calls = {} /\ DOMAIN posts = {}
    BY <2>2, NoAnswerIs
  <2>4. \A K : "none" \notin K => ~Pending(K)
    BY <2>3 DEF Pending, Has
  <2>5. ~Attempting /\ ~InitUnanswered /\ ~Pending({"disconnect"})
    BY <2>2, <2>4, AttemptingIs DEF Attempts, InitUnanswered
  <2>6. ~ToStart
    BY <2>2, <2>3 DEF ToStart, HasStart
  <2>7. ASSUME tangled \subseteq {"switched"} \cup Unknown, status = "connected"
        PROVE  running # None
    <3>1. ~Cause(answer)
      BY <2>3 DEF Cause, Failed
    <3>2. "late" \notin tangled
      BY <2>7 DEF Unknown
    <3> QED
      BY <2>1, <2>3, <2>7, <3>1, <3>2 DEF Explained
  <2>8. ASSUME tangled \subseteq {"switched"}, running # None PROVE status = "connected"
    <3>1. status \notin {"error", "disconnected"}
      BY <2>1, <2>5, <2>8 DEF Shut, Untangled
    <3>2. status # "connecting" /\ status # "disconnecting"
      BY <2>1, <2>5, <2>8, UntangledIs DEF Lonely, Stopping, Untangled
    <3> QED
      BY <2>1, <3>1, <3>2, TypeParts DEF ShownType
  <2>9. tangled = {} /\ running # None => running = selected
    BY <2>1, <2>2, <2>6 DEF Chosen
  <2> QED
    BY <2>7, <2>8, <2>9 DEF RestAgrees
<1> QED
  BY IInvInit, IInvStep, <1>1, PTL DEF Spec

=============================================================================
