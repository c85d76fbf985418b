------------------------- MODULE PipeServerProofs --------------------------
(***************************************************************************)
(* The safety properties of PipeServer, for any number of connections and  *)
(* every bound: the inductive invariant IInv is kept by every step, one    *)
(* lemma for each of its parts.                                            *)
(***************************************************************************)
EXTENDS PipeServer, TLAPS

\* What a write leaves alone, and its outcomes: it goes on, or the holder of the
\* mutex is done.
Elsewhere == UNCHANGED <<pipe, requests, inbox, acceptVars, targets, work, for,
                         published, hostVars>>
GoesOn == UNCHANGED <<lock, thread, todo>>
AnswerEnds(a, place) ==
  /\ lock[a] = "thread" /\ lock' = [lock EXCEPT ![a] = "free"]
  /\ thread' = [thread EXCEPT ![a] = place] /\ todo' = todo
EventEnds(a) ==
  /\ lock[a] = "cast" /\ lock' = [lock EXCEPT ![a] = "free"]
  /\ thread' = thread /\ todo' = todo \ {a}

Outcome(a) ==
  \/ GoesOn \/ EventEnds(a)
  \/ AnswerEnds(a, "reading") \/ AnswerEnds(a, "finished")

\* Every write is one of these.
LEMMA WriteChanges ==
  ASSUME TypeOK, NEW a \in Apps, Write(a)
  PROVE  Elsewhere /\ Outcome(a)
<1> USE DEF Elsewhere, Outcome, GoesOn, AnswerEnds, EventEnds
<1>1. lock[a] \in {"free", "thread", "cast"}
  BY DEF TypeOK
<1>2. CASE WritePart(a)
  BY <1>1, <1>2 DEF WritePart, SendEnds, ThreadAt
<1>3. CASE WriteFails(a)
  BY <1>1, <1>3 DEF WriteFails, SendEnds, ThreadAt, Release, appVars
<1> QED
  BY <1>2, <1>3 DEF Write

\* The first part of a frame after whole frames.
LEMMA FirstPart ==
  ASSUME NEW s \in Seq(Written), NEW m \in Messages, Paired(s), Len(s) % 2 = 0
  PROVE  LET t == Append(s, [msg |-> m, part |-> "first"])
         IN Paired(t) /\ Len(t) % 2 = 1 /\ t[Len(t)].msg = m
<1> DEFINE p == [msg |-> m, part |-> "first"]
           t == Append(s, p)
<1>1. p \in Written
  BY DEF Written, Parts
<1>2. /\ Len(s) \in Nat /\ Len(t) = Len(s) + 1 /\ t[Len(s) + 1] = p
      /\ \A i \in 1..Len(s) : t[i] = s[i]
      /\ DOMAIN s = 1..Len(s) /\ DOMAIN t = 1..(Len(s) + 1)
  BY <1>1
<1> HIDE DEF t
<1>3. (Len(s) + 1) % 2 = 1
  BY <1>2
<1>4. Paired(t)
  BY <1>2, <1>3 DEF Paired
<1> QED
  BY <1>2, <1>3, <1>4 DEF t

\* The last part of the frame whose first one was written.
LEMMA LastPart ==
  ASSUME NEW s \in Seq(Written), NEW m \in Messages, Paired(s), Len(s) % 2 = 1,
         s[Len(s)].msg = m
  PROVE  LET t == Append(s, [msg |-> m, part |-> "last"])
         IN Paired(t) /\ Len(t) % 2 = 0
<1> DEFINE p == [msg |-> m, part |-> "last"]
           t == Append(s, p)
<1>1. p \in Written
  BY DEF Written, Parts
<1>2. /\ Len(s) \in Nat /\ Len(t) = Len(s) + 1 /\ t[Len(s) + 1] = p
      /\ \A i \in 1..Len(s) : t[i] = s[i]
      /\ DOMAIN s = 1..Len(s) /\ DOMAIN t = 1..(Len(s) + 1)
  BY <1>1
<1>3. Len(s) \in 1..Len(s) /\ (Len(s) + 1) % 2 = 0
  BY <1>2
<1>4. p = [s[Len(s)] EXCEPT !.part = "last"]
  <2>1. s[Len(s)] \in Written
    BY <1>3
  <2> QED
    BY <2>1 DEF Written
<1> HIDE DEF t
<1>5. ASSUME NEW i \in 1..Len(s)
      PROVE  IF i % 2 = 1 THEN t[i].part = "first"
             ELSE t[i] = [t[i - 1] EXCEPT !.part = "last"]
  <2>1. CASE i % 2 = 1
    BY <1>2, <2>1 DEF Paired
  <2>2. CASE i % 2 # 1
    <3>1. i - 1 \in 1..Len(s)
      BY <1>2, <2>2
    <3> QED
      BY <1>2, <2>2, <3>1 DEF Paired
  <2> QED
    BY <2>1, <2>2
<1>6. t[Len(s) + 1] = [t[(Len(s) + 1) - 1] EXCEPT !.part = "last"]
  BY <1>2, <1>3, <1>4
<1>7. ASSUME NEW i \in 1..(Len(s) + 1)
      PROVE  IF i % 2 = 1 THEN t[i].part = "first"
             ELSE t[i] = [t[i - 1] EXCEPT !.part = "last"]
  <2>1. CASE i \in 1..Len(s)
    BY <1>5, <2>1
  <2>2. CASE i = Len(s) + 1
    BY <1>3, <1>6, <2>2
  <2> QED
    BY <1>2, <2>1, <2>2
<1>8. Paired(t)
  BY <1>2, <1>7 DEF Paired
<1> QED
  BY <1>2, <1>3, <1>8 DEF t

\* Every step keeps the types.
LEMMA TypeStep ==
  TypeOK /\ InboxInv /\ ArrivalInv /\ LockInv /\ [Next]_vars => TypeOK'
<1> SUFFICES ASSUME TypeOK, InboxInv, ArrivalInv, LockInv, [Next]_vars
             PROVE  TypeOK'
  OBVIOUS
<1>0. \A a \in Apps : Write(a) => Elsewhere /\ Outcome(a)
  BY WriteChanges
<1> USE PipeAssumption DEF PipeAssumption, TypeOK, InboxInv, LockInv, Parts,
       Messages, Written, Places
<1>1. ASSUME NEW a \in Apps, Connect(a) PROVE TypeOK'
  BY <1>1 DEF Connect, sendVars, castVars, hostVars
<1>2. ASSUME NEW a \in Apps, Request(a) PROVE TypeOK'
  <2>1. /\ inbox[a] \in Nat /\ requests[a] \in Nat
        /\ inbox[a] <= requests[a] /\ requests[a] < MaxRequests
    BY <1>2 DEF Request, sendVars, acceptVars, castVars, hostVars
  <2>2. requests[a] + 1 \in 0..MaxRequests /\ inbox[a] + 1 \in 0..MaxRequests
    BY <1>2, <2>1 DEF Request, sendVars, acceptVars, castVars, hostVars
  <2>3. requests' \in [Apps -> 0..MaxRequests]
    BY <1>2, <2>1, <2>2 DEF Request, sendVars, acceptVars, castVars, hostVars
  <2>4. inbox' \in [Apps -> 0..MaxRequests]
    BY <1>2, <2>1, <2>2, <2>3 DEF Request, sendVars, acceptVars, castVars,
         hostVars
  <2> QED
    BY <1>2, <2>1, <2>2, <2>3, <2>4 DEF Request, sendVars, acceptVars,
         castVars, hostVars
<1>3. ASSUME NEW a \in Apps, Receive(a) PROVE TypeOK'
  <2>1. unread' \in [Apps -> 0..Room]
    BY <1>3 DEF Receive, sendVars, acceptVars, castVars, hostVars
  <2> QED
    BY <1>3, <2>1 DEF Receive, sendVars, acceptVars, castVars, hostVars
<1>4. ASSUME NEW a \in Apps, Leave(a) PROVE TypeOK'
  BY <1>4 DEF Leave, sendVars, acceptVars, castVars, hostVars
<1>5. ASSUME NEW a \in Apps, Serve(a) PROVE TypeOK'
  <2>1. inbox[a] - 1 \in 0..MaxRequests
    BY <1>5 DEF Serve
  <2>2. inbox' \in [Apps -> 0..MaxRequests]
    BY <1>5, <2>1 DEF Serve
  <2>3. PICK place \in {"waiting", "locking"} :
             thread' = [thread EXCEPT ![a] = place]
    BY <1>5 DEF Serve, ThreadAt
  <2>4. thread' \in [Apps -> Places]
    BY <2>3
  <2> QED
    BY <1>5, <2>2, <2>4 DEF Serve, sendVars, acceptVars, castVars, hostVars
<1>6. ASSUME NEW a \in Apps, Finish(a) PROVE TypeOK'
  BY <1>6 DEF Finish, ThreadAt, appVars, sendVars, acceptVars, castVars, hostVars
<1>7. ASSUME NEW a \in Apps, LockAnswer(a) PROVE TypeOK'
  BY <1>7 DEF LockAnswer, Acquire, MutexFree, ThreadAt, appVars, acceptVars,
       castVars, hostVars
<1>8. ASSUME NEW a \in Apps, Write(a) PROVE TypeOK'
  <2> USE <1>8
  <2>1. Elsewhere /\ Outcome(a)
    BY <1>0
  <2>2. /\ lock' \in [Apps -> {"free", "thread", "cast"}]
        /\ thread' \in [Apps -> Places]
        /\ todo' \subseteq targets'
    <3> USE <2>1 DEF Elsewhere
    <3>1. CASE GoesOn
      BY <3>1 DEF GoesOn
    <3>2. CASE EventEnds(a)
      BY <3>2 DEF EventEnds
    <3>3. CASE AnswerEnds(a, "reading")
      BY <3>3 DEF AnswerEnds
    <3>4. CASE AnswerEnds(a, "finished")
      BY <3>4 DEF AnswerEnds
    <3> QED
      BY <3>1, <3>2, <3>3, <3>4 DEF Outcome
  <2>3. part' \in [Apps -> Parts]
    <3>1. CASE WritePart(a)
      BY <3>1 DEF WritePart
    <3>2. CASE WriteFails(a)
      BY <3>2 DEF WriteFails
    <3> QED
      BY <3>1, <3>2 DEF Write
  <2>4. cut' \in [Apps -> BOOLEAN]
    BY DEF Write, WritePart, WriteFails
  <2>5. unread' \in [Apps -> 0..Room]
    <3>1. CASE WritePart(a)
      <4>1. unread[a] + 1 \in 0..Room
        BY <3>1 DEF WritePart
      <4> QED
        BY <3>1, <4>1 DEF WritePart
    <3>2. CASE WriteFails(a)
      BY <3>2 DEF WriteFails, appVars
    <3> QED
      BY <3>1, <3>2 DEF Write
  <2>6. sent' \in [Apps -> Seq(Written)]
    <3>1. [msg |-> Message(a), part |-> part[a]] \in Written
      BY DEF Message, Reply
    <3>2. sent[a] \in Seq(Written)
      OBVIOUS
    <3>3. Append(sent[a], [msg |-> Message(a), part |-> part[a]])
            \in Seq(Written)
      BY <3>1, <3>2
    <3>4. CASE WritePart(a)
      BY <3>3, <3>4 DEF WritePart
    <3>5. CASE WriteFails(a)
      BY <3>5 DEF WriteFails
    <3> QED
      BY <3>4, <3>5 DEF Write
  <2> QED
    BY <2>1, <2>2, <2>3, <2>4, <2>5, <2>6 DEF Elsewhere, acceptVars, hostVars
<1>9. ASSUME NEW a \in Apps, Command(a) PROVE TypeOK'
  <2>1. published' \in 0..MaxEvents
    BY <1>9 DEF Command, Publish, Targets, appVars, sendVars, acceptVars,
         hostVars
  <2> QED
    BY <1>9, <2>1 DEF Command, Publish, Targets, appVars, sendVars,
         acceptVars, hostVars
<1>10. ASSUME NEW a \in Apps, BeyondBound(a) PROVE TypeOK'
  BY <1>10 DEF BeyondBound, ThreadAt, appVars, sendVars, acceptVars, castVars,
       hostVars
<1>11. CASE Refuse
  BY <1>11 DEF Refuse, Onward, sendVars, castVars, hostVars
<1>12. CASE Prune
  BY <1>12 DEF Prune, appVars, sendVars, castVars, hostVars
<1>13. CASE Pruned
  BY <1>13 DEF Pruned, Drop, KeptByCast, sendVars, castVars, hostVars
<1>14. CASE List
  <2>1. arriving \in Apps
    BY <1>14 DEF List, ArrivalInv
  <2>2. joined' \in [Apps -> Messages]
    BY <1>14 DEF List
  <2> QED
    BY <1>14, <2>1, <2>2 DEF List, appVars, sendVars, castVars, hostVars
<1>15. CASE Spawn
  BY <1>15 DEF Spawn, Onward, appVars, sendVars, castVars, hostVars
<1>16. CASE AcceptStops
  BY <1>16 DEF AcceptStops, appVars, sendVars, castVars, hostVars
<1>17. ASSUME NEW a \in Apps, SendEvent(a) PROVE TypeOK'
  <2>1. todo' \subseteq targets'
    BY <1>17 DEF SendEvent, Acquire, MutexFree, appVars, acceptVars, hostVars
  <2>2. part' \in [Apps -> Parts]
    BY <1>17, <2>1 DEF SendEvent, Acquire, MutexFree, appVars, acceptVars,
         hostVars
  <2>3. lock' \in [Apps -> {"free", "thread", "cast"}]
    BY <1>17, <2>1, <2>2 DEF SendEvent, Acquire, MutexFree, appVars,
         acceptVars, hostVars
  <2> QED
    BY <1>17, <2>1, <2>2, <2>3 DEF SendEvent, Acquire, MutexFree, appVars,
         acceptVars, hostVars
<1>18. CASE CastEnds
  <2>1. pipe' \in [Apps -> {"none", "open", "left", "closed"}]
    BY <1>18 DEF CastEnds, Drop
  <2>2. thread' \in [Apps -> Places]
    <3>1. CASE for = Nobody
      BY <1>18, <3>1 DEF CastEnds
    <3>2. CASE for # Nobody
      <4>1. PICK place \in {"waiting", "locking"} :
                 thread' = [thread EXCEPT ![for] = place]
        BY <1>18, <3>2 DEF CastEnds, ThreadAt
      <4> QED
        BY <4>1
    <3> QED
      BY <3>1, <3>2
  <2> QED
    BY <1>18, <2>1, <2>2 DEF CastEnds, sendVars, acceptVars, hostVars
<1>19. CASE StopServer
  BY <1>19 DEF StopServer, HostAt, Rest, sendVars, acceptVars, castVars
<1>20. CASE TakeClients
  BY <1>20 DEF TakeClients, HostAt, AcceptJoined, appVars, sendVars, castVars
<1>21. CASE JoinClients
  BY <1>21 DEF JoinClients, HostAt, Drop, KeptByCast, Rest, sendVars, acceptVars,
       castVars
<1>22. CASE Close
  BY <1>22 DEF Close, HostAt, Rest, sendVars, acceptVars, castVars
<1>23. CASE Event
  <2>1. published' \in 0..MaxEvents
    BY <1>23 DEF Event, Publish, Targets, appVars, sendVars, acceptVars,
         hostVars
  <2> QED
    BY <1>23, <2>1 DEF Event, Publish, Targets, appVars, sendVars, acceptVars,
         hostVars
<1>24. CASE StopService
  BY <1>24 DEF StopService, HostAt, Rest, sendVars, acceptVars, castVars
<1>25. CASE UNCHANGED vars
  BY <1>25 DEF vars, appVars, sendVars, acceptVars, castVars, hostVars
<1> QED
  BY <1>1, <1>2, <1>3, <1>4, <1>5, <1>6, <1>7, <1>8, <1>9, <1>10, <1>11, <1>12,
       <1>13, <1>14, <1>15, <1>16, <1>17, <1>18, <1>19, <1>20, <1>21, <1>22,
       <1>23, <1>24, <1>25 DEF Next, App, Accept, Thread, Obey, Cast, Host

\* Nobody gets hold of a connection before it is listed.
LEMMA ArrivalStep ==
  TypeOK /\ ArrivalInv /\ HeldInv /\ LockInv /\ HostInv
  /\ [Next]_vars => ArrivalInv'
<1> SUFFICES ASSUME TypeOK, ArrivalInv, HeldInv, LockInv, HostInv, [Next]_vars
             PROVE  ArrivalInv'
  OBVIOUS
<1>0. \A a \in Apps : Write(a) => Elsewhere /\ Outcome(a)
  BY WriteChanges
<1> USE PipeAssumption DEF PipeAssumption, ArrivalInv, HeldInv, LockInv,
       HostInv, TypeOK, Places, Referred
<1>1. ASSUME NEW a \in Apps, Connect(a) PROVE ArrivalInv'
  BY <1>1 DEF Connect, sendVars, castVars, hostVars
<1>2. ASSUME NEW a \in Apps, Request(a) PROVE ArrivalInv'
  BY <1>2 DEF Request, sendVars, acceptVars, castVars, hostVars
<1>3. ASSUME NEW a \in Apps, Receive(a) PROVE ArrivalInv'
  BY <1>3 DEF Receive, sendVars, acceptVars, castVars, hostVars
<1>4. ASSUME NEW a \in Apps, Leave(a) PROVE ArrivalInv'
  BY <1>4 DEF Leave, sendVars, acceptVars, castVars, hostVars
<1>5. ASSUME NEW a \in Apps, Serve(a) PROVE ArrivalInv'
  BY <1>5 DEF Serve, ThreadAt, sendVars, acceptVars, castVars, hostVars
<1>6. ASSUME NEW a \in Apps, Finish(a) PROVE ArrivalInv'
  BY <1>6 DEF Finish, ThreadAt, appVars, sendVars, acceptVars, castVars, hostVars
<1>7. ASSUME NEW a \in Apps, LockAnswer(a) PROVE ArrivalInv'
  BY <1>7 DEF LockAnswer, Acquire, MutexFree, ThreadAt, appVars, acceptVars,
       castVars, hostVars
<1>8. ASSUME NEW a \in Apps, Write(a) PROVE ArrivalInv'
  <2>1. Elsewhere /\ Outcome(a)
    BY <1>0, <1>8
  <2> USE <2>1 DEF Elsewhere, acceptVars, hostVars
  <2>2. CASE GoesOn
    BY <2>2 DEF GoesOn
  <2>3. CASE EventEnds(a)
    BY <2>3 DEF EventEnds
  <2>4. CASE AnswerEnds(a, "reading")
    BY <2>4 DEF AnswerEnds
  <2>5. CASE AnswerEnds(a, "finished")
    BY <2>5 DEF AnswerEnds
  <2> QED
    BY <2>2, <2>3, <2>4, <2>5 DEF Outcome
<1>9. ASSUME NEW a \in Apps, Command(a) PROVE ArrivalInv'
  BY <1>9 DEF Command, Publish, Targets, appVars, sendVars, acceptVars, hostVars
<1>10. ASSUME NEW a \in Apps, BeyondBound(a) PROVE ArrivalInv'
  BY <1>10 DEF BeyondBound, ThreadAt, appVars, sendVars, acceptVars, castVars,
       hostVars
<1>11. CASE Refuse
  BY <1>11 DEF Refuse, Onward, sendVars, castVars, hostVars
<1>12. CASE Prune
  BY <1>12 DEF Prune, appVars, sendVars, castVars, hostVars
<1>13. CASE Pruned
  BY <1>13 DEF Pruned, Drop, KeptByCast, sendVars, castVars, hostVars
<1>14. CASE List
  BY <1>14 DEF List, appVars, sendVars, castVars, hostVars
<1>15. CASE Spawn
  BY <1>15 DEF Spawn, Onward, appVars, sendVars, castVars, hostVars
<1>16. CASE AcceptStops
  BY <1>16 DEF AcceptStops, appVars, sendVars, castVars, hostVars
<1>17. ASSUME NEW a \in Apps, SendEvent(a) PROVE ArrivalInv'
  BY <1>17 DEF SendEvent, Acquire, MutexFree, appVars, acceptVars, hostVars
<1>18. CASE CastEnds
  BY <1>18 DEF CastEnds, Drop, ThreadAt, sendVars, acceptVars, hostVars
<1>19. CASE StopServer
  BY <1>19 DEF StopServer, HostAt, Rest, sendVars, acceptVars, castVars
<1>20. CASE TakeClients
  BY <1>20 DEF TakeClients, HostAt, AcceptJoined, appVars, sendVars, castVars
<1>21. CASE JoinClients
  BY <1>21 DEF JoinClients, HostAt, Drop, KeptByCast, Rest, sendVars, acceptVars,
       castVars
<1>22. CASE Close
  BY <1>22 DEF Close, HostAt, Rest, sendVars, acceptVars, castVars
<1>23. CASE Event
  BY <1>23 DEF Event, Publish, Targets, appVars, sendVars, acceptVars, hostVars
<1>24. CASE StopService
  BY <1>24 DEF StopService, HostAt, Rest, sendVars, acceptVars, castVars
<1>25. CASE UNCHANGED vars
  BY <1>25 DEF vars, appVars, sendVars, acceptVars, castVars, hostVars
<1> QED
  BY <1>1, <1>2, <1>3, <1>4, <1>5, <1>6, <1>7, <1>8, <1>9, <1>10, <1>11, <1>12,
       <1>13, <1>14, <1>15, <1>16, <1>17, <1>18, <1>19, <1>20, <1>21, <1>22,
       <1>23, <1>24, <1>25 DEF Next, App, Accept, Thread, Obey, Cast, Host

\* Every step reads at most what was sent.
LEMMA InboxStep ==
  TypeOK /\ InboxInv /\ [Next]_vars => InboxInv'
<1> SUFFICES ASSUME TypeOK, InboxInv, [Next]_vars PROVE InboxInv'
  OBVIOUS
<1>0. \A a \in Apps : Write(a) => Elsewhere /\ Outcome(a)
  BY WriteChanges
<1> USE DEF InboxInv, TypeOK
<1>1. ASSUME NEW a \in Apps, Connect(a) PROVE InboxInv'
  BY <1>1 DEF Connect, sendVars, castVars, hostVars
<1>2. ASSUME NEW a \in Apps, Request(a) PROVE InboxInv'
  BY <1>2 DEF Request, sendVars, acceptVars, castVars, hostVars
<1>3. ASSUME NEW a \in Apps, Receive(a) PROVE InboxInv'
  BY <1>3 DEF Receive, sendVars, acceptVars, castVars, hostVars
<1>4. ASSUME NEW a \in Apps, Leave(a) PROVE InboxInv'
  BY <1>4 DEF Leave, sendVars, acceptVars, castVars, hostVars
<1>5. ASSUME NEW a \in Apps, Serve(a) PROVE InboxInv'
  BY <1>5 DEF Serve, ThreadAt, sendVars, acceptVars, castVars, hostVars
<1>6. ASSUME NEW a \in Apps, Finish(a) PROVE InboxInv'
  BY <1>6 DEF Finish, ThreadAt, appVars, sendVars, acceptVars, castVars, hostVars
<1>7. ASSUME NEW a \in Apps, LockAnswer(a) PROVE InboxInv'
  BY <1>7 DEF LockAnswer, Acquire, MutexFree, ThreadAt, appVars, acceptVars,
       castVars, hostVars
<1>8. ASSUME NEW a \in Apps, Write(a) PROVE InboxInv'
  BY <1>0, <1>8 DEF Elsewhere, acceptVars, hostVars
<1>9. ASSUME NEW a \in Apps, Command(a) PROVE InboxInv'
  BY <1>9 DEF Command, Publish, Targets, appVars, sendVars, acceptVars, hostVars
<1>10. ASSUME NEW a \in Apps, BeyondBound(a) PROVE InboxInv'
  BY <1>10 DEF BeyondBound, ThreadAt, appVars, sendVars, acceptVars, castVars,
       hostVars
<1>11. CASE Refuse
  BY <1>11 DEF Refuse, Onward, sendVars, castVars, hostVars
<1>12. CASE Prune
  BY <1>12 DEF Prune, appVars, sendVars, castVars, hostVars
<1>13. CASE Pruned
  BY <1>13 DEF Pruned, Drop, KeptByCast, sendVars, castVars, hostVars
<1>14. CASE List
  BY <1>14 DEF List, appVars, sendVars, castVars, hostVars
<1>15. CASE Spawn
  BY <1>15 DEF Spawn, Onward, appVars, sendVars, castVars, hostVars
<1>16. CASE AcceptStops
  BY <1>16 DEF AcceptStops, appVars, sendVars, castVars, hostVars
<1>17. ASSUME NEW a \in Apps, SendEvent(a) PROVE InboxInv'
  BY <1>17 DEF SendEvent, Acquire, MutexFree, appVars, acceptVars, hostVars
<1>18. CASE CastEnds
  BY <1>18 DEF CastEnds, Drop, ThreadAt, sendVars, acceptVars, hostVars
<1>19. CASE StopServer
  BY <1>19 DEF StopServer, HostAt, Rest, sendVars, acceptVars, castVars
<1>20. CASE TakeClients
  BY <1>20 DEF TakeClients, HostAt, AcceptJoined, appVars, sendVars, castVars
<1>21. CASE JoinClients
  BY <1>21 DEF JoinClients, HostAt, Drop, KeptByCast, Rest, sendVars, acceptVars,
       castVars
<1>22. CASE Close
  BY <1>22 DEF Close, HostAt, Rest, sendVars, acceptVars, castVars
<1>23. CASE Event
  BY <1>23 DEF Event, Publish, Targets, appVars, sendVars, acceptVars, hostVars
<1>24. CASE StopService
  BY <1>24 DEF StopService, HostAt, Rest, sendVars, acceptVars, castVars
<1>25. CASE UNCHANGED vars
  BY <1>25 DEF vars, appVars, sendVars, acceptVars, castVars, hostVars
<1> QED
  BY <1>1, <1>2, <1>3, <1>4, <1>5, <1>6, <1>7, <1>8, <1>9, <1>10, <1>11, <1>12,
       <1>13, <1>14, <1>15, <1>16, <1>17, <1>18, <1>19, <1>20, <1>21, <1>22,
       <1>23, <1>24, <1>25 DEF Next, App, Accept, Thread, Obey, Cast, Host

\* A pipe is closed with its last reference, and its thread has ended by then.
LEMMA HeldStep ==
  TypeOK /\ ArrivalInv /\ HeldInv /\ LockInv /\ HostInv /\ [Next]_vars => HeldInv'
<1> SUFFICES ASSUME TypeOK, ArrivalInv, HeldInv, LockInv, HostInv, [Next]_vars
             PROVE  HeldInv'
  OBVIOUS
<1>0. \A a \in Apps : Write(a) => Elsewhere /\ Outcome(a)
  BY WriteChanges
<1> USE PipeAssumption DEF PipeAssumption, ArrivalInv, HeldInv, LockInv,
       HostInv, TypeOK, Places, Referred
<1>1. ASSUME NEW a \in Apps, Connect(a) PROVE HeldInv'
  BY <1>1 DEF Connect, sendVars, castVars, hostVars
<1>2. ASSUME NEW a \in Apps, Request(a) PROVE HeldInv'
  BY <1>2 DEF Request, sendVars, acceptVars, castVars, hostVars
<1>3. ASSUME NEW a \in Apps, Receive(a) PROVE HeldInv'
  BY <1>3 DEF Receive, sendVars, acceptVars, castVars, hostVars
<1>4. ASSUME NEW a \in Apps, Leave(a) PROVE HeldInv'
  BY <1>4 DEF Leave, sendVars, acceptVars, castVars, hostVars
<1>5. ASSUME NEW a \in Apps, Serve(a) PROVE HeldInv'
  BY <1>5 DEF Serve, ThreadAt, sendVars, acceptVars, castVars, hostVars
<1>6. ASSUME NEW a \in Apps, Finish(a) PROVE HeldInv'
  BY <1>6 DEF Finish, ThreadAt, appVars, sendVars, acceptVars, castVars, hostVars
<1>7. ASSUME NEW a \in Apps, LockAnswer(a) PROVE HeldInv'
  BY <1>7 DEF LockAnswer, Acquire, MutexFree, ThreadAt, appVars, acceptVars,
       castVars, hostVars
<1>8. ASSUME NEW a \in Apps, Write(a) PROVE HeldInv'
  <2>1. Elsewhere /\ Outcome(a)
    BY <1>0, <1>8
  <2> USE <2>1 DEF Elsewhere, acceptVars, hostVars
  <2>2. CASE GoesOn
    BY <2>2 DEF GoesOn
  <2>3. CASE EventEnds(a)
    BY <2>3 DEF EventEnds
  <2>4. CASE AnswerEnds(a, "reading")
    BY <2>4 DEF AnswerEnds
  <2>5. CASE AnswerEnds(a, "finished")
    BY <2>5 DEF AnswerEnds
  <2> QED
    BY <2>2, <2>3, <2>4, <2>5 DEF Outcome
<1>9. ASSUME NEW a \in Apps, Command(a) PROVE HeldInv'
  BY <1>9 DEF Command, Publish, Targets, appVars, sendVars, acceptVars, hostVars
<1>10. ASSUME NEW a \in Apps, BeyondBound(a) PROVE HeldInv'
  BY <1>10 DEF BeyondBound, ThreadAt, appVars, sendVars, acceptVars, castVars,
       hostVars
<1>11. CASE Refuse
  BY <1>11 DEF Refuse, Onward, sendVars, castVars, hostVars
<1>12. CASE Prune
  BY <1>12 DEF Prune, appVars, sendVars, castVars, hostVars
<1>13. CASE Pruned
  BY <1>13 DEF Pruned, Drop, KeptByCast, sendVars, castVars, hostVars
<1>14. CASE List
  BY <1>14 DEF List, appVars, sendVars, castVars, hostVars
<1>15. CASE Spawn
  BY <1>15 DEF Spawn, Onward, appVars, sendVars, castVars, hostVars
<1>16. CASE AcceptStops
  BY <1>16 DEF AcceptStops, appVars, sendVars, castVars, hostVars
<1>17. ASSUME NEW a \in Apps, SendEvent(a) PROVE HeldInv'
  BY <1>17 DEF SendEvent, Acquire, MutexFree, appVars, acceptVars, hostVars
<1>18. CASE CastEnds
  BY <1>18 DEF CastEnds, Drop, ThreadAt, sendVars, acceptVars, hostVars
<1>19. CASE StopServer
  BY <1>19 DEF StopServer, HostAt, Rest, sendVars, acceptVars, castVars
<1>20. CASE TakeClients
  BY <1>20 DEF TakeClients, HostAt, AcceptJoined, appVars, sendVars, castVars
<1>21. CASE JoinClients
  BY <1>21 DEF JoinClients, HostAt, Drop, KeptByCast, Rest, sendVars, acceptVars,
       castVars
<1>22. CASE Close
  BY <1>22 DEF Close, HostAt, Rest, sendVars, acceptVars, castVars
<1>23. CASE Event
  BY <1>23 DEF Event, Publish, Targets, appVars, sendVars, acceptVars, hostVars
<1>24. CASE StopService
  BY <1>24 DEF StopService, HostAt, Rest, sendVars, acceptVars, castVars
<1>25. CASE UNCHANGED vars
  BY <1>25 DEF vars, appVars, sendVars, acceptVars, castVars, hostVars
<1> QED
  BY <1>1, <1>2, <1>3, <1>4, <1>5, <1>6, <1>7, <1>8, <1>9, <1>10, <1>11, <1>12,
       <1>13, <1>14, <1>15, <1>16, <1>17, <1>18, <1>19, <1>20, <1>21, <1>22,
       <1>23, <1>24, <1>25 DEF Next, App, Accept, Thread, Obey, Cast, Host

\* The mutex and the broadcast go together.
LEMMA LockStep ==
  TypeOK /\ ArrivalInv /\ LockInv /\ [Next]_vars => LockInv'
<1> SUFFICES ASSUME TypeOK, ArrivalInv, LockInv, [Next]_vars PROVE LockInv'
  OBVIOUS
<1>0. \A a \in Apps : Write(a) => Elsewhere /\ Outcome(a)
  BY WriteChanges
<1> USE PipeAssumption DEF PipeAssumption, ArrivalInv, LockInv, TypeOK, Places
<1>1. ASSUME NEW a \in Apps, Connect(a) PROVE LockInv'
  BY <1>1 DEF Connect, sendVars, castVars, hostVars
<1>2. ASSUME NEW a \in Apps, Request(a) PROVE LockInv'
  BY <1>2 DEF Request, sendVars, acceptVars, castVars, hostVars
<1>3. ASSUME NEW a \in Apps, Receive(a) PROVE LockInv'
  BY <1>3 DEF Receive, sendVars, acceptVars, castVars, hostVars
<1>4. ASSUME NEW a \in Apps, Leave(a) PROVE LockInv'
  BY <1>4 DEF Leave, sendVars, acceptVars, castVars, hostVars
<1>5. ASSUME NEW a \in Apps, Serve(a) PROVE LockInv'
  BY <1>5 DEF Serve, ThreadAt, sendVars, acceptVars, castVars, hostVars
<1>6. ASSUME NEW a \in Apps, Finish(a) PROVE LockInv'
  BY <1>6 DEF Finish, ThreadAt, appVars, sendVars, acceptVars, castVars, hostVars
<1>7. ASSUME NEW a \in Apps, LockAnswer(a) PROVE LockInv'
  BY <1>7 DEF LockAnswer, Acquire, MutexFree, ThreadAt, appVars, acceptVars,
       castVars, hostVars
<1>8. ASSUME NEW a \in Apps, Write(a) PROVE LockInv'
  <2>1. Elsewhere /\ Outcome(a)
    BY <1>0, <1>8
  <2> USE <2>1 DEF Elsewhere, acceptVars, hostVars
  <2>2. CASE GoesOn
    BY <2>2 DEF GoesOn
  <2>3. CASE EventEnds(a)
    BY <2>3 DEF EventEnds
  <2>4. CASE AnswerEnds(a, "reading")
    BY <2>4 DEF AnswerEnds
  <2>5. CASE AnswerEnds(a, "finished")
    BY <2>5 DEF AnswerEnds
  <2> QED
    BY <2>2, <2>3, <2>4, <2>5 DEF Outcome
<1>9. ASSUME NEW a \in Apps, Command(a) PROVE LockInv'
  BY <1>9 DEF Command, Publish, Targets, appVars, sendVars, acceptVars, hostVars
<1>10. ASSUME NEW a \in Apps, BeyondBound(a) PROVE LockInv'
  BY <1>10 DEF BeyondBound, ThreadAt, appVars, sendVars, acceptVars, castVars,
       hostVars
<1>11. CASE Refuse
  BY <1>11 DEF Refuse, Onward, sendVars, castVars, hostVars
<1>12. CASE Prune
  BY <1>12 DEF Prune, appVars, sendVars, castVars, hostVars
<1>13. CASE Pruned
  BY <1>13 DEF Pruned, Drop, KeptByCast, sendVars, castVars, hostVars
<1>14. CASE List
  BY <1>14 DEF List, appVars, sendVars, castVars, hostVars
<1>15. CASE Spawn
  BY <1>15 DEF Spawn, Onward, appVars, sendVars, castVars, hostVars
<1>16. CASE AcceptStops
  BY <1>16 DEF AcceptStops, appVars, sendVars, castVars, hostVars
<1>17. ASSUME NEW a \in Apps, SendEvent(a) PROVE LockInv'
  BY <1>17 DEF SendEvent, Acquire, MutexFree, appVars, acceptVars, hostVars
<1>18. CASE CastEnds
  BY <1>18 DEF CastEnds, Drop, ThreadAt, sendVars, acceptVars, hostVars
<1>19. CASE StopServer
  BY <1>19 DEF StopServer, HostAt, Rest, sendVars, acceptVars, castVars
<1>20. CASE TakeClients
  BY <1>20 DEF TakeClients, HostAt, AcceptJoined, appVars, sendVars, castVars
<1>21. CASE JoinClients
  BY <1>21 DEF JoinClients, HostAt, Drop, KeptByCast, Rest, sendVars, acceptVars,
       castVars
<1>22. CASE Close
  BY <1>22 DEF Close, HostAt, Rest, sendVars, acceptVars, castVars
<1>23. CASE Event
  BY <1>23 DEF Event, Publish, Targets, appVars, sendVars, acceptVars, hostVars
<1>24. CASE StopService
  BY <1>24 DEF StopService, HostAt, Rest, sendVars, acceptVars, castVars
<1>25. CASE UNCHANGED vars
  BY <1>25 DEF vars, appVars, sendVars, acceptVars, castVars, hostVars
<1> QED
  BY <1>1, <1>2, <1>3, <1>4, <1>5, <1>6, <1>7, <1>8, <1>9, <1>10, <1>11, <1>12,
       <1>13, <1>14, <1>15, <1>16, <1>17, <1>18, <1>19, <1>20, <1>21, <1>22,
       <1>23, <1>24, <1>25 DEF Next, App, Accept, Thread, Obey, Cast, Host

\* The stop of the service goes through its stages.
LEMMA HostStep ==
  TypeOK /\ ArrivalInv /\ HeldInv /\ LockInv /\ HostInv /\ [Next]_vars => HostInv'
<1> SUFFICES ASSUME TypeOK, ArrivalInv, HeldInv, LockInv, HostInv, [Next]_vars
             PROVE  HostInv'
  OBVIOUS
<1>0. \A a \in Apps : Write(a) => Elsewhere /\ Outcome(a)
  BY WriteChanges
<1> USE DEF ArrivalInv, HeldInv, LockInv, HostInv, TypeOK, Places, Referred
<1>1. ASSUME NEW a \in Apps, Connect(a) PROVE HostInv'
  BY <1>1 DEF Connect, sendVars, castVars, hostVars
<1>2. ASSUME NEW a \in Apps, Request(a) PROVE HostInv'
  BY <1>2 DEF Request, sendVars, acceptVars, castVars, hostVars
<1>3. ASSUME NEW a \in Apps, Receive(a) PROVE HostInv'
  BY <1>3 DEF Receive, sendVars, acceptVars, castVars, hostVars
<1>4. ASSUME NEW a \in Apps, Leave(a) PROVE HostInv'
  BY <1>4 DEF Leave, sendVars, acceptVars, castVars, hostVars
<1>5. ASSUME NEW a \in Apps, Serve(a) PROVE HostInv'
  BY <1>5 DEF Serve, ThreadAt, sendVars, acceptVars, castVars, hostVars
<1>6. ASSUME NEW a \in Apps, Finish(a) PROVE HostInv'
  BY <1>6 DEF Finish, ThreadAt, appVars, sendVars, acceptVars, castVars, hostVars
<1>7. ASSUME NEW a \in Apps, LockAnswer(a) PROVE HostInv'
  BY <1>7 DEF LockAnswer, Acquire, MutexFree, ThreadAt, appVars, acceptVars,
       castVars, hostVars
<1>8. ASSUME NEW a \in Apps, Write(a) PROVE HostInv'
  BY <1>0, <1>8 DEF Elsewhere, acceptVars, hostVars
<1>9. ASSUME NEW a \in Apps, Command(a) PROVE HostInv'
  BY <1>9 DEF Command, Publish, Targets, appVars, sendVars, acceptVars, hostVars
<1>10. ASSUME NEW a \in Apps, BeyondBound(a) PROVE HostInv'
  BY <1>10 DEF BeyondBound, ThreadAt, appVars, sendVars, acceptVars, castVars,
       hostVars
<1>11. CASE Refuse
  BY <1>11 DEF Refuse, Onward, sendVars, castVars, hostVars
<1>12. CASE Prune
  BY <1>12 DEF Prune, appVars, sendVars, castVars, hostVars
<1>13. CASE Pruned
  BY <1>13 DEF Pruned, Drop, KeptByCast, sendVars, castVars, hostVars
<1>14. CASE List
  BY <1>14 DEF List, appVars, sendVars, castVars, hostVars
<1>15. CASE Spawn
  BY <1>15 DEF Spawn, Onward, appVars, sendVars, castVars, hostVars
<1>16. CASE AcceptStops
  BY <1>16 DEF AcceptStops, appVars, sendVars, castVars, hostVars
<1>17. ASSUME NEW a \in Apps, SendEvent(a) PROVE HostInv'
  BY <1>17 DEF SendEvent, Acquire, MutexFree, appVars, acceptVars, hostVars
<1>18. CASE CastEnds
  BY <1>18 DEF CastEnds, Drop, ThreadAt, sendVars, acceptVars, hostVars
<1>19. CASE StopServer
  BY <1>19 DEF StopServer, HostAt, Rest, sendVars, acceptVars, castVars
<1>20. CASE TakeClients
  BY <1>20 DEF TakeClients, HostAt, AcceptJoined, appVars, sendVars, castVars
<1>21. CASE JoinClients
  BY <1>21 DEF JoinClients, HostAt, Drop, KeptByCast, Rest, sendVars, acceptVars,
       castVars
<1>22. CASE Close
  BY <1>22 DEF Close, HostAt, Rest, sendVars, acceptVars, castVars
<1>23. CASE Event
  BY <1>23 DEF Event, Publish, Targets, appVars, sendVars, acceptVars, hostVars
<1>24. CASE StopService
  BY <1>24 DEF StopService, HostAt, Rest, sendVars, acceptVars, castVars
<1>25. CASE UNCHANGED vars
  BY <1>25 DEF vars, appVars, sendVars, acceptVars, castVars, hostVars
<1> QED
  BY <1>1, <1>2, <1>3, <1>4, <1>5, <1>6, <1>7, <1>8, <1>9, <1>10, <1>11, <1>12,
       <1>13, <1>14, <1>15, <1>16, <1>17, <1>18, <1>19, <1>20, <1>21, <1>22,
       <1>23, <1>24, <1>25 DEF Next, App, Accept, Thread, Obey, Cast, Host

\* Every write goes on where its frame was left.
LEMMA FrameStep ==
  TypeOK /\ LockInv /\ FrameInv /\ [Next]_vars => FrameInv'
<1> SUFFICES ASSUME TypeOK, LockInv, FrameInv, [Next]_vars PROVE FrameInv'
  OBVIOUS
<1>0. \A a \in Apps : Write(a) => Elsewhere /\ Outcome(a)
  BY WriteChanges
<1> USE DEF FrameInv, Halfway, Message, LockInv, TypeOK, Places
<1>1. ASSUME NEW a \in Apps, Connect(a) PROVE FrameInv'
  BY <1>1 DEF Connect, sendVars, castVars, hostVars
<1>2. ASSUME NEW a \in Apps, Request(a) PROVE FrameInv'
  BY <1>2 DEF Request, sendVars, acceptVars, castVars, hostVars
<1>3. ASSUME NEW a \in Apps, Receive(a) PROVE FrameInv'
  BY <1>3 DEF Receive, sendVars, acceptVars, castVars, hostVars
<1>4. ASSUME NEW a \in Apps, Leave(a) PROVE FrameInv'
  BY <1>4 DEF Leave, sendVars, acceptVars, castVars, hostVars
<1>5. ASSUME NEW a \in Apps, Serve(a) PROVE FrameInv'
  BY <1>5 DEF Serve, ThreadAt, sendVars, acceptVars, castVars, hostVars
<1>6. ASSUME NEW a \in Apps, Finish(a) PROVE FrameInv'
  BY <1>6 DEF Finish, ThreadAt, appVars, sendVars, acceptVars, castVars, hostVars
<1>7. ASSUME NEW a \in Apps, LockAnswer(a) PROVE FrameInv'
  BY <1>7 DEF LockAnswer, Acquire, MutexFree, ThreadAt, appVars, acceptVars,
       castVars, hostVars
<1>8. ASSUME NEW a \in Apps, Write(a) PROVE FrameInv'
  <2> SUFFICES ASSUME NEW b \in Apps, ~cut'[b]
               PROVE  /\ Paired(sent'[b])
                      /\ Len(sent'[b]) % 2 = (IF Halfway(b)' THEN 1 ELSE 0)
                      /\ Halfway(b)' => sent'[b][Len(sent'[b])].msg = Message(b)'
    OBVIOUS
  <2>1. CASE WriteFails(a)
    BY <2>1 DEF WriteFails, Release, appVars
  <2>2. CASE WritePart(a) /\ b # a
    <3>1. /\ sent'[b] = sent[b] /\ part'[b] = part[b] /\ lock'[b] = lock[b]
          /\ cut'[b] = cut[b] /\ published' = published
      BY <2>2 DEF WritePart
    <3> QED
      BY <3>1
  <2>3. CASE WritePart(a) /\ b = a
    <3>1. /\ Paired(sent[a]) /\ Len(sent[a]) % 2 = (IF Halfway(a) THEN 1 ELSE 0)
          /\ Halfway(a) => sent[a][Len(sent[a])].msg = Message(a)
      BY <2>3 DEF WritePart
    <3>2. sent[a] \in Seq(Written) /\ Message(a) \in Messages
      BY PipeAssumption DEF PipeAssumption, Messages, Reply
    <3>3. sent'[a] = Append(sent[a], [msg |-> Message(a), part |-> part[a]])
      BY <2>3 DEF WritePart
    <3>4. CASE part[a] = "first"
      <4>1. ~Halfway(a)
        BY <3>4
      <4>2. lock' = lock /\ part'[a] = "last" /\ published' = published
        BY <2>3, <3>4 DEF WritePart
      <4>3. Halfway(a)' /\ Message(a)' = Message(a)
        BY <2>3, <4>2 DEF WritePart
      <4>4. /\ Paired(sent'[a]) /\ Len(sent'[a]) % 2 = 1
            /\ sent'[a][Len(sent'[a])].msg = Message(a)
        BY <3>1, <3>2, <3>3, <3>4, <4>1, FirstPart
      <4> QED
        BY <2>3, <4>3, <4>4
    <3>5. CASE part[a] # "first"
      <4>1. Halfway(a) /\ part[a] = "last"
        BY <2>3, <3>5 DEF WritePart, Parts
      <4>2. ~Halfway(a)'
        BY <2>3, <3>5 DEF WritePart
      <4>3. Paired(sent'[a]) /\ Len(sent'[a]) % 2 = 0
        BY <3>1, <3>2, <3>3, <4>1, LastPart
      <4> QED
        BY <2>3, <4>2, <4>3
    <3> QED
      BY <3>4, <3>5
  <2> QED
    BY <1>8, <2>1, <2>2, <2>3 DEF Write
<1>9. ASSUME NEW a \in Apps, Command(a) PROVE FrameInv'
  BY <1>9 DEF Command, Publish, Targets, appVars, sendVars, acceptVars, hostVars
<1>10. ASSUME NEW a \in Apps, BeyondBound(a) PROVE FrameInv'
  BY <1>10 DEF BeyondBound, ThreadAt, appVars, sendVars, acceptVars, castVars,
       hostVars
<1>11. CASE Refuse
  BY <1>11 DEF Refuse, Onward, sendVars, castVars, hostVars
<1>12. CASE Prune
  BY <1>12 DEF Prune, appVars, sendVars, castVars, hostVars
<1>13. CASE Pruned
  BY <1>13 DEF Pruned, Drop, KeptByCast, sendVars, castVars, hostVars
<1>14. CASE List
  BY <1>14 DEF List, appVars, sendVars, castVars, hostVars
<1>15. CASE Spawn
  BY <1>15 DEF Spawn, Onward, appVars, sendVars, castVars, hostVars
<1>16. CASE AcceptStops
  BY <1>16 DEF AcceptStops, appVars, sendVars, castVars, hostVars
<1>17. ASSUME NEW a \in Apps, SendEvent(a) PROVE FrameInv'
  BY <1>17 DEF SendEvent, Acquire, MutexFree, appVars, acceptVars, hostVars
<1>18. CASE CastEnds
  BY <1>18 DEF CastEnds, Drop, ThreadAt, sendVars, acceptVars, hostVars
<1>19. CASE StopServer
  BY <1>19 DEF StopServer, HostAt, Rest, sendVars, acceptVars, castVars
<1>20. CASE TakeClients
  BY <1>20 DEF TakeClients, HostAt, AcceptJoined, appVars, sendVars, castVars
<1>21. CASE JoinClients
  BY <1>21 DEF JoinClients, HostAt, Drop, KeptByCast, Rest, sendVars, acceptVars,
       castVars
<1>22. CASE Close
  BY <1>22 DEF Close, HostAt, Rest, sendVars, acceptVars, castVars
<1>23. CASE Event
  BY <1>23 DEF Event, Publish, Targets, appVars, sendVars, acceptVars, hostVars
<1>24. CASE StopService
  BY <1>24 DEF StopService, HostAt, Rest, sendVars, acceptVars, castVars
<1>25. CASE UNCHANGED vars
  BY <1>25 DEF vars, appVars, sendVars, acceptVars, castVars, hostVars
<1> QED
  BY <1>1, <1>2, <1>3, <1>4, <1>5, <1>6, <1>7, <1>8, <1>9, <1>10, <1>11, <1>12,
       <1>13, <1>14, <1>15, <1>16, <1>17, <1>18, <1>19, <1>20, <1>21, <1>22,
       <1>23, <1>24, <1>25 DEF Next, App, Accept, Thread, Obey, Cast, Host

\* Nothing is sent to a connection before it is listed.
LEMMA FreshStep ==
  TypeOK /\ ArrivalInv /\ HeldInv /\ LockInv /\ FreshInv
  /\ [Next]_vars => FreshInv'
<1> SUFFICES ASSUME TypeOK, ArrivalInv, HeldInv, LockInv, FreshInv, [Next]_vars
             PROVE  FreshInv'
  OBVIOUS
<1>0. \A a \in Apps : Write(a) => Elsewhere /\ Outcome(a)
  BY WriteChanges
<1> USE PipeAssumption DEF PipeAssumption, ArrivalInv, HeldInv, LockInv, FreshInv,
       TypeOK, Places, Referred
<1>1. ASSUME NEW a \in Apps, Connect(a) PROVE FreshInv'
  BY <1>1 DEF Connect, sendVars, castVars, hostVars
<1>2. ASSUME NEW a \in Apps, Request(a) PROVE FreshInv'
  BY <1>2 DEF Request, sendVars, acceptVars, castVars, hostVars
<1>3. ASSUME NEW a \in Apps, Receive(a) PROVE FreshInv'
  BY <1>3 DEF Receive, sendVars, acceptVars, castVars, hostVars
<1>4. ASSUME NEW a \in Apps, Leave(a) PROVE FreshInv'
  BY <1>4 DEF Leave, sendVars, acceptVars, castVars, hostVars
<1>5. ASSUME NEW a \in Apps, Serve(a) PROVE FreshInv'
  BY <1>5 DEF Serve, ThreadAt, sendVars, acceptVars, castVars, hostVars
<1>6. ASSUME NEW a \in Apps, Finish(a) PROVE FreshInv'
  BY <1>6 DEF Finish, ThreadAt, appVars, sendVars, acceptVars, castVars, hostVars
<1>7. ASSUME NEW a \in Apps, LockAnswer(a) PROVE FreshInv'
  BY <1>7 DEF LockAnswer, Acquire, MutexFree, ThreadAt, appVars, acceptVars,
       castVars, hostVars
<1>8. ASSUME NEW a \in Apps, Write(a) PROVE FreshInv'
  <2>1. UNCHANGED <<pipe, accept, arriving>>
    BY <1>0, <1>8 DEF Elsewhere, acceptVars
  <2>2. CASE WriteFails(a)
    BY <2>1, <2>2 DEF WriteFails
  <2>3. CASE WritePart(a)
    <3>1. pipe[a] = "open" /\ a \in Referred
      BY <2>3 DEF WritePart
    <3>2. ~(a = arriving /\ accept # "spawn")
      BY <3>1
    <3>3. \A b \in Apps : b # a => sent'[b] = sent[b]
      BY <2>3 DEF WritePart
    <3> QED
      BY <2>1, <3>1, <3>2, <3>3
  <2> QED
    BY <1>8, <2>2, <2>3 DEF Write
<1>9. ASSUME NEW a \in Apps, Command(a) PROVE FreshInv'
  BY <1>9 DEF Command, Publish, Targets, appVars, sendVars, acceptVars, hostVars
<1>10. ASSUME NEW a \in Apps, BeyondBound(a) PROVE FreshInv'
  BY <1>10 DEF BeyondBound, ThreadAt, appVars, sendVars, acceptVars, castVars,
       hostVars
<1>11. CASE Refuse
  BY <1>11 DEF Refuse, Onward, sendVars, castVars, hostVars
<1>12. CASE Prune
  BY <1>12 DEF Prune, appVars, sendVars, castVars, hostVars
<1>13. CASE Pruned
  BY <1>13 DEF Pruned, Drop, KeptByCast, sendVars, castVars, hostVars
<1>14. CASE List
  BY <1>14 DEF List, appVars, sendVars, castVars, hostVars
<1>15. CASE Spawn
  BY <1>15 DEF Spawn, Onward, appVars, sendVars, castVars, hostVars
<1>16. CASE AcceptStops
  BY <1>16 DEF AcceptStops, appVars, sendVars, castVars, hostVars
<1>17. ASSUME NEW a \in Apps, SendEvent(a) PROVE FreshInv'
  BY <1>17 DEF SendEvent, Acquire, MutexFree, appVars, acceptVars, hostVars
<1>18. CASE CastEnds
  BY <1>18 DEF CastEnds, Drop, ThreadAt, sendVars, acceptVars, hostVars
<1>19. CASE StopServer
  BY <1>19 DEF StopServer, HostAt, Rest, sendVars, acceptVars, castVars
<1>20. CASE TakeClients
  BY <1>20 DEF TakeClients, HostAt, AcceptJoined, appVars, sendVars, castVars
<1>21. CASE JoinClients
  BY <1>21 DEF JoinClients, HostAt, Drop, KeptByCast, Rest, sendVars, acceptVars,
       castVars
<1>22. CASE Close
  BY <1>22 DEF Close, HostAt, Rest, sendVars, acceptVars, castVars
<1>23. CASE Event
  BY <1>23 DEF Event, Publish, Targets, appVars, sendVars, acceptVars, hostVars
<1>24. CASE StopService
  BY <1>24 DEF StopService, HostAt, Rest, sendVars, acceptVars, castVars
<1>25. CASE UNCHANGED vars
  BY <1>25 DEF vars, appVars, sendVars, acceptVars, castVars, hostVars
<1> QED
  BY <1>1, <1>2, <1>3, <1>4, <1>5, <1>6, <1>7, <1>8, <1>9, <1>10, <1>11, <1>12,
       <1>13, <1>14, <1>15, <1>16, <1>17, <1>18, <1>19, <1>20, <1>21, <1>22,
       <1>23, <1>24, <1>25 DEF Next, App, Accept, Thread, Obey, Cast, Host

\* A thread only ends when nothing more reaches its app.
LEMMA EndedStep ==
  TypeOK /\ ArrivalInv /\ HeldInv /\ LockInv /\ HostInv /\ EndedInv
  /\ [Next]_vars => EndedInv'
<1> SUFFICES ASSUME TypeOK, ArrivalInv, HeldInv, LockInv, HostInv, EndedInv, [Next]_vars
             PROVE  EndedInv'
  OBVIOUS
<1>0. \A a \in Apps : Write(a) => Elsewhere /\ Outcome(a)
  BY WriteChanges
<1> USE PipeAssumption DEF PipeAssumption, ArrivalInv, HeldInv, LockInv, HostInv,
       EndedInv, Reached, TypeOK, Places, Referred
<1>1. ASSUME NEW a \in Apps, Connect(a) PROVE EndedInv'
  BY <1>1 DEF Connect, sendVars, castVars, hostVars
<1>2. ASSUME NEW a \in Apps, Request(a) PROVE EndedInv'
  BY <1>2 DEF Request, sendVars, acceptVars, castVars, hostVars
<1>3. ASSUME NEW a \in Apps, Receive(a) PROVE EndedInv'
  BY <1>3 DEF Receive, sendVars, acceptVars, castVars, hostVars
<1>4. ASSUME NEW a \in Apps, Leave(a) PROVE EndedInv'
  BY <1>4 DEF Leave, sendVars, acceptVars, castVars, hostVars
<1>5. ASSUME NEW a \in Apps, Serve(a) PROVE EndedInv'
  BY <1>5 DEF Serve, ThreadAt, sendVars, acceptVars, castVars, hostVars
<1>6. ASSUME NEW a \in Apps, Finish(a) PROVE EndedInv'
  BY <1>6 DEF Finish, ReadEnds, ThreadAt, appVars, sendVars, acceptVars, castVars,
       hostVars
<1>7. ASSUME NEW a \in Apps, LockAnswer(a) PROVE EndedInv'
  BY <1>7 DEF LockAnswer, Acquire, MutexFree, ThreadAt, appVars, acceptVars,
       castVars, hostVars
<1>8. ASSUME NEW a \in Apps, Write(a) PROVE EndedInv'
  <2>1. UNCHANGED <<pipe, running>>
    BY <1>0, <1>8 DEF Elsewhere, hostVars
  <2>2. CASE WriteFails(a)
    BY <2>1, <2>2 DEF WriteFails, SendEnds, ThreadAt
  <2>3. CASE WritePart(a)
    BY <2>1, <2>3 DEF WritePart, SendEnds, ThreadAt
  <2> QED
    BY <1>8, <2>2, <2>3 DEF Write
<1>9. ASSUME NEW a \in Apps, Command(a) PROVE EndedInv'
  BY <1>9 DEF Command, Publish, Targets, appVars, sendVars, acceptVars, hostVars
<1>10. ASSUME NEW a \in Apps, BeyondBound(a) PROVE EndedInv'
  BY <1>10 DEF BeyondBound, ThreadAt, appVars, sendVars, acceptVars, castVars,
       hostVars
<1>11. CASE Refuse
  BY <1>11 DEF Refuse, Onward, sendVars, castVars, hostVars
<1>12. CASE Prune
  BY <1>12 DEF Prune, appVars, sendVars, castVars, hostVars
<1>13. CASE Pruned
  BY <1>13 DEF Pruned, Drop, KeptByCast, sendVars, castVars, hostVars
<1>14. CASE List
  BY <1>14 DEF List, appVars, sendVars, castVars, hostVars
<1>15. CASE Spawn
  BY <1>15 DEF Spawn, Onward, appVars, sendVars, castVars, hostVars
<1>16. CASE AcceptStops
  BY <1>16 DEF AcceptStops, appVars, sendVars, castVars, hostVars
<1>17. ASSUME NEW a \in Apps, SendEvent(a) PROVE EndedInv'
  BY <1>17 DEF SendEvent, Acquire, MutexFree, appVars, acceptVars, hostVars
<1>18. CASE CastEnds
  BY <1>18 DEF CastEnds, Drop, ThreadAt, sendVars, acceptVars, hostVars
<1>19. CASE StopServer
  BY <1>19 DEF StopServer, HostAt, Rest, sendVars, acceptVars, castVars
<1>20. CASE TakeClients
  BY <1>20 DEF TakeClients, HostAt, AcceptJoined, appVars, sendVars, castVars
<1>21. CASE JoinClients
  BY <1>21 DEF JoinClients, HostAt, Drop, KeptByCast, Rest, sendVars, acceptVars,
       castVars
<1>22. CASE Close
  BY <1>22 DEF Close, HostAt, Rest, sendVars, acceptVars, castVars
<1>23. CASE Event
  BY <1>23 DEF Event, Publish, Targets, appVars, sendVars, acceptVars, hostVars
<1>24. CASE StopService
  BY <1>24 DEF StopService, HostAt, Rest, sendVars, acceptVars, castVars
<1>25. CASE UNCHANGED vars
  BY <1>25 DEF vars, appVars, sendVars, acceptVars, castVars, hostVars
<1> QED
  BY <1>1, <1>2, <1>3, <1>4, <1>5, <1>6, <1>7, <1>8, <1>9, <1>10, <1>11, <1>12,
       <1>13, <1>14, <1>15, <1>16, <1>17, <1>18, <1>19, <1>20, <1>21, <1>22,
       <1>23, <1>24, <1>25 DEF Next, App, Accept, Thread, Obey, Cast, Host

\* What a part adds to the events that are complete.
LEMMA ToldNothing ==
  ASSUME NEW n \in Nat
  PROVE  Told(<<>>, n, n)
BY DEF Told

\* The part of an answer, or of a frame that is not complete, adds nothing.
LEMMA ToldTheSame ==
  ASSUME NEW s \in Seq(Written), NEW p \in Written, NEW m \in Nat, NEW n \in Nat,
         Told(s, m, n), p.part = "first" \/ p.msg = Reply
  PROVE  Told(Append(s, p), m, n)
<1>1. /\ DOMAIN s = 1..Len(s) /\ DOMAIN Append(s, p) = 1..(Len(s) + 1) /\ Len(s) \in Nat
      /\ \A i \in 1..Len(s) : Append(s, p)[i] = s[i]
      /\ Append(s, p)[Len(s) + 1] = p
  OBVIOUS
<1> DEFINE Whole(t) == {i \in DOMAIN t : t[i].part = "last" /\ t[i].msg # Reply}
<1>2. Whole(Append(s, p)) = Whole(s)
  BY <1>1
<1>3. \A i \in Whole(s) : Append(s, p)[i] = s[i]
  BY <1>1
<1> HIDE DEF Whole
<1>4. {Append(s, p)[i].msg : i \in Whole(s)} = {s[i].msg : i \in Whole(s)}
  BY <1>3
<1> QED
  BY <1>2, <1>3, <1>4 DEF Told, Whole

\* The end of the next event adds this one.
LEMMA ToldNext ==
  ASSUME NEW s \in Seq(Written), NEW p \in Written, NEW m \in Nat, NEW n \in Nat,
         Told(s, m, n), m <= n, p.part = "last", p.msg = n + 1
  PROVE  Told(Append(s, p), m, n + 1)
<1> DEFINE t == Append(s, p)
           Whole(q) == {i \in DOMAIN q : q[i].part = "last" /\ q[i].msg # Reply}
<1>1. /\ DOMAIN s = 1..Len(s) /\ DOMAIN t = 1..(Len(s) + 1) /\ Len(s) \in Nat
      /\ \A i \in 1..Len(s) : t[i] = s[i]
      /\ t[Len(s) + 1] = p
  OBVIOUS
<1>2. /\ {s[i].msg : i \in Whole(s)} = (m + 1)..n
      /\ \A i, j \in Whole(s) : i < j => s[i].msg < s[j].msg
  BY DEF Told
<1> HIDE DEF t
<1>3. p.msg # Reply
  BY DEF Reply
<1>4. Whole(t) = Whole(s) \cup {Len(s) + 1}
  BY <1>1, <1>3
<1>5. \A i \in Whole(s) : t[i] = s[i] /\ i \in 1..Len(s)
  BY <1>1
<1> HIDE DEF Whole
<1>6. {t[i].msg : i \in Whole(t)} = {s[i].msg : i \in Whole(s)} \cup {n + 1}
  BY <1>1, <1>4, <1>5
<1>7. (m + 1)..(n + 1) = ((m + 1)..n) \cup {n + 1}
  OBVIOUS
<1>8. \A i \in Whole(s) : s[i].msg \in (m + 1)..n
  BY <1>2
<1>9. ASSUME NEW i \in Whole(t), NEW j \in Whole(t), i < j
      PROVE  t[i].msg < t[j].msg
  <2>1. i \in Whole(s)
    BY <1>1, <1>4, <1>5, <1>9
  <2>2. CASE j \in Whole(s)
    BY <1>2, <1>5, <1>9, <2>1, <2>2
  <2>3. CASE j = Len(s) + 1
    <3>1. t[j].msg = n + 1
      BY <1>1, <2>3
    <3>2. t[i].msg \in (m + 1)..n
      BY <1>5, <1>8, <2>1
    <3> QED
      BY <3>1, <3>2
  <2> QED
    BY <1>4, <2>2, <2>3
<1> QED
  BY <1>2, <1>6, <1>7, <1>9 DEF Told, Whole, t

\* A new event is the due of whoever is a client, when the last one has been sent.
LEMMA Publication ==
  ASSUME TypeOK, LockInv, EventsInv, NEW by, Publish(by),
         UNCHANGED <<pipe, running, cut, sent, clients, joined>>
  PROVE  EventsInv'
<1>1. todo = {} /\ todo' = clients /\ published' = published + 1 /\ published \in Nat
  BY DEF Publish, Targets, LockInv, TypeOK, Messages
<1>2. \A a \in clients : LastSent(a)' = LastSent(a)
  BY <1>1 DEF LastSent
<1> QED
  BY <1>2 DEF EventsInv, Reached

\* Every client is sent what is its due.
LEMMA EventsStep ==
  TypeOK /\ ArrivalInv /\ HeldInv /\ LockInv /\ HostInv /\ FreshInv /\ EndedInv
  /\ EventsInv /\ [Next]_vars => EventsInv'
<1> SUFFICES ASSUME TypeOK, ArrivalInv, HeldInv, LockInv, HostInv, FreshInv,
                    EndedInv, EventsInv, [Next]_vars
             PROVE  EventsInv'
  OBVIOUS
<1>0. \A a \in Apps : Write(a) => Elsewhere /\ Outcome(a)
  BY WriteChanges
<1> USE PipeAssumption DEF PipeAssumption, ArrivalInv, HeldInv, LockInv, HostInv,
       EventsInv, LastSent, Reached, TypeOK, Places, Referred
<1>1. ASSUME NEW a \in Apps, Connect(a) PROVE EventsInv'
  BY <1>1 DEF Connect, sendVars, castVars, hostVars
<1>2. ASSUME NEW a \in Apps, Request(a) PROVE EventsInv'
  BY <1>2 DEF Request, sendVars, acceptVars, castVars, hostVars
<1>3. ASSUME NEW a \in Apps, Receive(a) PROVE EventsInv'
  BY <1>3 DEF Receive, sendVars, acceptVars, castVars, hostVars
<1>4. ASSUME NEW a \in Apps, Leave(a) PROVE EventsInv'
  BY <1>4 DEF Leave, sendVars, acceptVars, castVars, hostVars
<1>5. ASSUME NEW a \in Apps, Serve(a) PROVE EventsInv'
  BY <1>5 DEF Serve, ThreadAt, sendVars, acceptVars, castVars, hostVars
<1>6. ASSUME NEW a \in Apps, Finish(a) PROVE EventsInv'
  BY <1>6 DEF Finish, ThreadAt, appVars, sendVars, acceptVars, castVars, hostVars
<1>7. ASSUME NEW a \in Apps, LockAnswer(a) PROVE EventsInv'
  BY <1>7 DEF LockAnswer, Acquire, MutexFree, ThreadAt, appVars, acceptVars,
       castVars, hostVars
<1>8. ASSUME NEW a \in Apps, Write(a) PROVE EventsInv'
  <2>1. UNCHANGED <<pipe, running, clients, joined, published>>
    BY <1>0, <1>8 DEF Elsewhere, hostVars, acceptVars
  <2>2. ASSUME NEW b \in Apps, b # a
        PROVE  sent'[b] = sent[b] /\ cut'[b] = cut[b] /\ (b \in todo' <=> b \in todo)
    <3>1. CASE WritePart(a)
      BY <2>2, <3>1 DEF WritePart, SendEnds
    <3>2. CASE WriteFails(a)
      BY <2>2, <3>2 DEF WriteFails, SendEnds
    <3> QED
      BY <1>8, <3>1, <3>2 DEF Write
  <2>3. ASSUME NEW b \in clients, b # a, Reached(b)'
        PROVE  joined[b] <= LastSent(b)' /\ Told(sent'[b], joined[b], LastSent(b)')
    BY <2>1, <2>2, <2>3
  <2>4. ASSUME a \in clients, Reached(a)'
        PROVE  joined[a] <= LastSent(a)' /\ Told(sent'[a], joined[a], LastSent(a)')
    <3> DEFINE p == [msg |-> Message(a), part |-> part[a]]
    <3>0. WritePart(a)
      BY <1>8, <2>4 DEF Write, WriteFails
    <3>1. Message(a) \in Messages /\ part[a] \in Parts
      BY DEF Message, Reply, Messages
    <3>6. p \in Written
      BY <3>1 DEF Written
    <3>7. sent'[a] = Append(sent[a], p) /\ sent[a] \in Seq(Written) /\ Reached(a)
      BY <2>1, <2>4, <3>0 DEF WritePart
    <3>2. /\ joined[a] \in Nat /\ LastSent(a) \in Nat /\ joined[a] <= LastSent(a)
          /\ Told(sent[a], joined[a], LastSent(a))
      BY <2>4, <3>7 DEF Messages
    <3>3. CASE part[a] = "first" \/ lock[a] = "thread"
      <4>1. LastSent(a)' = LastSent(a)
        BY <2>1, <3>0, <3>3 DEF WritePart, SendEnds
      <4>2. p.part = "first" \/ p.msg = Reply
        BY <3>3 DEF Message
      <4> QED
        BY <3>6, <3>7, <3>2, <4>1, <4>2, ToldTheSame
    <3>4. CASE part[a] # "first" /\ lock[a] = "cast"
      <4>1. a \in todo /\ a \notin todo'
        BY <3>0, <3>4 DEF WritePart, SendEnds
      <4>2. LastSent(a) = published - 1 /\ LastSent(a)' = published
        BY <2>1, <4>1
      <4>3. LastSent(a)' = LastSent(a) + 1
        BY <4>2 DEF Messages
      <4>4. p.part = "last" /\ p.msg = LastSent(a) + 1
        BY <3>4, <4>2 DEF Message, Parts, Messages
      <4>5. Told(Append(sent[a], p), joined[a], LastSent(a) + 1)
        BY <3>6, <3>7, <3>2, <4>4, ToldNext
      <4> QED
        BY <3>7, <3>2, <4>3, <4>5
    <3>5. lock[a] \in {"thread", "cast"}
      BY <3>0 DEF WritePart
    <3> QED
      BY <3>3, <3>4, <3>5
  <2> HIDE DEF LastSent, Reached
  <2>5. \A b \in clients : Reached(b)' =>
          joined[b] <= LastSent(b)' /\ Told(sent'[b], joined[b], LastSent(b)')
    BY <2>3, <2>4
  <2> QED
    BY <2>1, <2>5
<1>9. ASSUME NEW a \in Apps, Command(a) PROVE EventsInv'
  BY <1>9, Publication DEF Command, appVars, sendVars, acceptVars, hostVars
<1>10. ASSUME NEW a \in Apps, BeyondBound(a) PROVE EventsInv'
  BY <1>10 DEF BeyondBound, ThreadAt, appVars, sendVars, acceptVars, castVars,
       hostVars
<1>11. CASE Refuse
  BY <1>11 DEF Refuse, Onward, sendVars, castVars, hostVars
<1>12. CASE Prune
  BY <1>12 DEF Prune, appVars, sendVars, castVars, hostVars
<1>13. CASE Pruned
  BY <1>13 DEF Pruned, Drop, KeptByCast, sendVars, castVars, hostVars
<1>14. CASE List
  <2>1. /\ arriving \in Apps /\ arriving \notin clients /\ arriving \notin todo
        /\ sent[arriving] = <<>>
    BY <1>14 DEF List, FreshInv
  <2>2. Told(sent[arriving], published, published) /\ published \in Nat
    BY <2>1, ToldNothing DEF Messages
  <2> QED
    BY <1>14, <2>1, <2>2 DEF List, appVars, sendVars, castVars, hostVars
<1>15. CASE Spawn
  BY <1>15 DEF Spawn, Onward, appVars, sendVars, castVars, hostVars
<1>16. CASE AcceptStops
  BY <1>16 DEF AcceptStops, appVars, sendVars, castVars, hostVars
<1>17. ASSUME NEW a \in Apps, SendEvent(a) PROVE EventsInv'
  <2>1. CASE thread[a] = "finished"
    BY <1>17, <2>1 DEF SendEvent, EndedInv, appVars, acceptVars, hostVars
  <2>2. CASE thread[a] # "finished"
    BY <1>17, <2>2 DEF SendEvent, Acquire, MutexFree, appVars, acceptVars, hostVars
  <2> QED
    BY <2>1, <2>2
<1>18. CASE CastEnds
  BY <1>18 DEF CastEnds, Drop, ThreadAt, sendVars, acceptVars, hostVars
<1>19. CASE StopServer
  BY <1>19 DEF StopServer, HostAt, Rest, sendVars, acceptVars, castVars
<1>20. CASE TakeClients
  BY <1>20 DEF TakeClients, HostAt, AcceptJoined, appVars, sendVars, castVars
<1>21. CASE JoinClients
  BY <1>21 DEF JoinClients, HostAt, Drop, KeptByCast, Rest, sendVars, acceptVars,
       castVars
<1>22. CASE Close
  BY <1>22 DEF Close, HostAt, Rest, sendVars, acceptVars, castVars
<1>23. CASE Event
  BY <1>23, Publication DEF Event, appVars, sendVars, acceptVars, hostVars
<1>24. CASE StopService
  BY <1>24 DEF StopService, HostAt, Rest, sendVars, acceptVars, castVars
<1>25. CASE UNCHANGED vars
  BY <1>25 DEF vars, appVars, sendVars, acceptVars, castVars, hostVars
<1> QED
  BY <1>1, <1>2, <1>3, <1>4, <1>5, <1>6, <1>7, <1>8, <1>9, <1>10, <1>11, <1>12,
       <1>13, <1>14, <1>15, <1>16, <1>17, <1>18, <1>19, <1>20, <1>21, <1>22,
       <1>23, <1>24, <1>25 DEF Next, App, Accept, Thread, Obey, Cast, Host

\* The invariant holds at the start, ...
LEMMA InitInv ==
  Init => IInv
<1> SUFFICES ASSUME Init PROVE IInv
  OBVIOUS
<1> USE PipeAssumption DEF PipeAssumption, Init
<1>1. TypeOK /\ InboxInv /\ HostInv
  BY DEF TypeOK, InboxInv, HostInv, Messages, Written, Parts, Places
<1>2. ArrivalInv /\ HeldInv /\ LockInv
  BY DEF ArrivalInv, HeldInv, LockInv, Referred
<1>3. FrameInv
  BY DEF FrameInv, Paired, Halfway
<1>4. FreshInv /\ EndedInv /\ EventsInv
  BY DEF FreshInv, EndedInv, EventsInv
<1> QED
  BY <1>1, <1>2, <1>3, <1>4 DEF IInv

\* ... and every step keeps it.
LEMMA InvHolds ==
  Spec => []IInv
<1>1. IInv /\ [Next]_vars => IInv'
  BY TypeStep, InboxStep, ArrivalStep, HeldStep, LockStep, HostStep, FrameStep,
     FreshStep, EndedStep, EventsStep DEF IInv
<1> QED
  BY InitInv, <1>1, PTL DEF Spec

\* The answers of a connection's thread and the broadcasts share its pipe, and
\* every frame is whole, but for one that was given up: pipe_server.cpp:54-57.
THEOREM FramesStayIntact == Spec => []FramesIntact
<1>1. IInv => FramesIntact
  BY DEF IInv, FrameInv, FramesIntact
<1> QED
  BY InvHolds, <1>1, PTL

\* Whatever the threads and the broadcasts do to each other, a client is sent every
\* event since it was listed, in order, each once, until a write to it is given up:
\* pipe_server.cpp:131-144.
THEOREM ClientsAreTold == Spec => []EventsReachClients
<1>1. IInv => EventsReachClients
  BY DEF IInv, EventsInv, EventsReachClients
<1> QED
  BY InvHolds, <1>1, PTL

\* Nobody uses the handle of a pipe after the last reference to its client has
\* closed it: pipe_server.cpp:26-30 and 131-158.
THEOREM HandlesStayOpen == Spec => []HandleInUse
<1>1. IInv => HandleInUse
  BY DEF IInv, TypeOK, HeldInv, LockInv, Referred, HandleInUse
<1> QED
  BY InvHolds, <1>1, PTL

\* The service that has stopped has neither a thread nor an open pipe, whoever
\* came while it stopped: pipe_server.cpp:115-129, service_main.cpp:154-160.
THEOREM StopLeavesNothing == Spec => []StoppedIsClean
<1>1. IInv => StoppedIsClean
  <2> SUFFICES ASSUME IInv, host = "stopped", NEW a \in Apps
               PROVE  thread[a] \in {"none", "finished"} /\ pipe[a] # "open"
    BY DEF StoppedIsClean
  <2>1. clients = {} /\ stopped = {} /\ accept = "ended" /\ targets = {}
    BY DEF IInv, HostInv, LockInv
  <2>2. pruned = {} /\ arriving \notin Apps
    BY <2>1 DEF IInv, ArrivalInv
  <2> QED
    BY <2>1, <2>2 DEF IInv, HeldInv, Referred
<1> QED
  BY InvHolds, <1>1, PTL
=============================================================================
