----------------------------- MODULE PipeServer ------------------------------
(***************************************************************************)
(* The service's end of the pipe (pipe_server.cpp, pipe_protocol.cpp) and  *)
(* the order in which the service takes it down (service_main.cpp): the    *)
(* accept thread, one thread per connection, the controller's worker that  *)
(* broadcasts, and the service's main thread.  A frame is written in two   *)
(* parts, its first bytes and its rest; a write whose reader does not read *)
(* is given up after a while, wherever it has got to.                      *)
(*                                                                         *)
(* A Client lives as long as somebody refers to it: the list of clients,   *)
(* the accept thread while it prunes, a broadcast with its copy of the     *)
(* list, Stop.  Who drops the last reference joins the thread and closes   *)
(* the pipe.                                                               *)
(***************************************************************************)
EXTENDS Naturals, Sequences

CONSTANTS
  Apps,         \* connections of apps, each made at most once
  Nobody,       \* no connection
  MaxRequests,  \* bound on the requests of a connection
  MaxEvents,    \* bound on the broadcasts
  Room          \* parts the buffer of the pipe holds

ASSUME PipeAssumption ==
  /\ Nobody \notin Apps
  /\ MaxRequests \in Nat /\ MaxEvents \in Nat /\ Room \in Nat \ {0}

VARIABLES
  pipe,       \* none, open, left (by the app), closed (by the service)
  requests,   \* requests the app has sent, inbox: those not yet read
  inbox,
  sent,       \* parts written to the app, unread: those it has not read
  unread,
  cut,        \* history: a write to it was given up
  joined,     \* history: the events published before it was listed
  thread,     \* none, reading, waiting, locking, writing, finished
  lock,       \* holder of write_mutex_: free, thread, cast
  part,       \* which part the holder writes next
  running,    \* running_, and stop_event_ is not set
  accept,     \* place of the accept thread
  arriving,   \* the connection it is admitting
  clients,    \* clients_
  pruned,     \* local of PruneFinishedClients
  targets,    \* local of Broadcast, todo: targets not yet sent to
  todo,
  work,       \* what the controller's worker does: idle, cast
  for,        \* the connection whose command it is, or Nobody
  published,  \* events broadcast so far
  stopped,    \* local of Stop
  host        \* the service: up, controller, server, accept, clients, closing, stopped

appVars == <<pipe, requests, inbox, unread>>
sendVars == <<sent, cut, lock, part>>
acceptVars == <<accept, arriving, clients, pruned, joined>>
castVars == <<targets, todo, work, for, published>>
hostVars == <<running, stopped, host>>
vars == <<appVars, sendVars, thread, acceptVars, castVars, hostVars>>

-----------------------------------------------------------------------------
(* References to a client.                                                 *)

\* Mutation: the copy of a broadcast does not keep its clients alive.
NotKept == {}
KeptByCast == targets

\* ~Client for those nobody else refers to, which waits for their threads.
Drop(own, others) ==
  LET last == own \ others
  IN /\ \A a \in last : thread[a] = "finished"
     /\ pipe' = [a \in Apps |-> IF a \in last THEN "closed" ELSE pipe[a]]

-----------------------------------------------------------------------------
(* The apps.                                                               *)

\* CreateFile finds the instance the accept thread listens on.
Connect(a) ==
  /\ pipe[a] = "none" /\ accept = "listen"
  /\ pipe' = [pipe EXCEPT ![a] = "open"]
  /\ accept' = "admit" /\ arriving' = a
  /\ UNCHANGED <<requests, inbox, unread, sendVars, thread, clients, pruned, joined,
                 castVars, hostVars>>

Request(a) ==
  /\ pipe[a] = "open" /\ requests[a] < MaxRequests
  /\ requests' = [requests EXCEPT ![a] = @ + 1]
  /\ inbox' = [inbox EXCEPT ![a] = @ + 1]
  /\ UNCHANGED <<pipe, unread, sendVars, thread, acceptVars, castVars, hostVars>>

Receive(a) ==
  /\ pipe[a] = "open" /\ unread[a] > 0
  /\ unread' = [unread EXCEPT ![a] = @ - 1]
  /\ UNCHANGED <<pipe, requests, inbox, sendVars, thread, acceptVars, castVars,
                 hostVars>>

\* The app closes its end, or dies.
Leave(a) ==
  /\ pipe[a] = "open"
  /\ pipe' = [pipe EXCEPT ![a] = "left"]
  /\ UNCHANGED <<requests, inbox, unread, sendVars, thread, acceptVars, castVars,
                 hostVars>>

-----------------------------------------------------------------------------
(* AcceptLoop.                                                             *)

Onward == IF running THEN "listen" ELSE "ended"

\* IsClientAllowed says no.
Refuse ==
  /\ accept = "admit"
  /\ pipe' = [pipe EXCEPT ![arriving] = "closed"]
  /\ accept' = Onward /\ arriving' = Nobody
  /\ UNCHANGED <<requests, inbox, unread, sendVars, thread, clients, pruned, joined,
                 castVars, hostVars>>

\* PruneFinishedClients, under the lock.
Prune ==
  /\ accept = "admit"
  /\ pruned' = {a \in clients : thread[a] = "finished"}
  /\ clients' = clients \ pruned'
  /\ accept' = "prune"
  /\ UNCHANGED <<appVars, sendVars, thread, arriving, joined, castVars, hostVars>>

\* finished.clear(), outside of it.
Pruned ==
  /\ accept = "prune"
  /\ Drop(pruned, clients \cup stopped \cup KeptByCast) /\ pruned' = {}
  /\ accept' = "list"
  /\ UNCHANGED <<requests, inbox, unread, sendVars, thread, arriving, clients, joined,
                 castVars, hostVars>>

List ==
  /\ accept = "list"
  /\ clients' = clients \cup {arriving}
  /\ joined' = [joined EXCEPT ![arriving] = published]
  /\ accept' = "spawn"
  /\ UNCHANGED <<appVars, sendVars, thread, arriving, pruned, castVars, hostVars>>

Spawn ==
  /\ accept = "spawn"
  /\ thread' = [thread EXCEPT ![arriving] = "reading"]
  /\ accept' = Onward /\ arriving' = Nobody
  /\ UNCHANGED <<appVars, sendVars, clients, pruned, joined, castVars, hostVars>>

\* The wait for a client ends with stop_event_.
AcceptStops ==
  /\ accept = "listen" /\ ~running
  /\ accept' = "ended"
  /\ UNCHANGED <<appVars, sendVars, thread, arriving, clients, pruned, joined,
                 castVars, hostVars>>

-----------------------------------------------------------------------------
(* Client::Run, the thread of a connection.                                *)

ThreadAt(a, place) == thread' = [thread EXCEPT ![a] = place]

\* HandleRequest: start and stop wait for the controller, the others read.
Serve(a) ==
  /\ thread[a] = "reading" /\ inbox[a] > 0
  /\ inbox' = [inbox EXCEPT ![a] = @ - 1]
  /\ \E place \in {"waiting", "locking"} : ThreadAt(a, place)
  /\ UNCHANGED <<pipe, requests, unread, sendVars, acceptVars, castVars, hostVars>>

\* Mutation: the read is not woken by stop_event_.
UntilLeft(a) == pipe[a] = "left"
\* The app is gone, or the service stops.
ReadEnds(a) == pipe[a] = "left" \/ ~running

Finish(a) ==
  /\ thread[a] = "reading" /\ ReadEnds(a)
  /\ ThreadAt(a, "finished")
  /\ UNCHANGED <<appVars, sendVars, acceptVars, castVars, hostVars>>

-----------------------------------------------------------------------------
(* Client::Send, by that thread or by a broadcast.                         *)

\* Mutation: a writer does not wait for the other.
NoMutex(a) == TRUE
MutexFree(a) == lock[a] = "free"

Acquire(a, who) ==
  /\ MutexFree(a)
  /\ lock' = [lock EXCEPT ![a] = who] /\ part' = [part EXCEPT ![a] = "first"]

LockAnswer(a) ==
  /\ thread[a] = "locking"
  /\ Acquire(a, "thread") /\ ThreadAt(a, "writing")
  /\ UNCHANGED <<appVars, sent, cut, acceptVars, castVars, hostVars>>

\* Events are numbered from 1.
Reply == 0
Message(a) == IF lock[a] = "thread" THEN Reply ELSE published

\* Mutation: a failing broadcast leaves the mutex locked.
KeepMutex(a) == IF lock[a] = "cast" THEN UNCHANGED lock
                ELSE lock' = [lock EXCEPT ![a] = "free"]
Release(a) == lock' = [lock EXCEPT ![a] = "free"]

\* The thread ends when its answer cannot be sent; a broadcast goes on.
SendEnds(a, ok) ==
  IF lock[a] = "thread"
  THEN ThreadAt(a, IF ok THEN "reading" ELSE "finished") /\ UNCHANGED todo
  ELSE todo' = todo \ {a} /\ UNCHANGED thread

\* WriteMessage: as much as the buffer takes, again and again.
WritePart(a) ==
  /\ lock[a] # "free" /\ pipe[a] = "open" /\ unread[a] < Room
  /\ sent' = [sent EXCEPT ![a] = Append(@, [msg |-> Message(a), part |-> part[a]])]
  /\ unread' = [unread EXCEPT ![a] = @ + 1]
  /\ IF part[a] = "first"
     THEN part' = [part EXCEPT ![a] = "last"] /\ UNCHANGED <<thread, lock, todo>>
     ELSE SendEnds(a, TRUE) /\ lock' = [lock EXCEPT ![a] = "free"] /\ UNCHANGED part
  /\ UNCHANGED <<pipe, requests, inbox, cut, acceptVars, targets, work, for,
                 published, hostVars>>

\* The app is gone, does not read for five seconds, or Stop cancels the write.
WriteFails(a) ==
  /\ lock[a] # "free"
  /\ pipe[a] # "open" \/ unread[a] >= Room
  /\ cut' = [cut EXCEPT ![a] = TRUE]
  /\ SendEnds(a, FALSE) /\ Release(a)
  /\ UNCHANGED <<appVars, sent, part, acceptVars, targets, work, for, published,
                 hostVars>>

-----------------------------------------------------------------------------
(* The controller's worker: a command, or an event of its own, changes the *)
(* status, which is broadcast.                                             *)

\* Mutation: a client that is being written to is left out.
IdleClients == {a \in clients : lock[a] = "free"}
Targets == clients

Publish(by) ==
  /\ work = "idle" /\ published < MaxEvents
  /\ work' = "cast" /\ for' = by /\ published' = published + 1
  /\ targets' = clients /\ todo' = Targets

Command(a) ==
  /\ thread[a] = "waiting" /\ Publish(a)
  /\ UNCHANGED <<appVars, sendVars, thread, acceptVars, hostVars>>

\* Beyond the bound on the broadcasts a command is carried out without them.
BeyondBound(a) ==
  /\ thread[a] = "waiting" /\ work = "idle" /\ published = MaxEvents
  /\ ThreadAt(a, "locking")
  /\ UNCHANGED <<appVars, sendVars, acceptVars, castVars, hostVars>>

\* The core exits, or the network changes.
Event ==
  /\ host # "stopped" /\ Publish(Nobody)
  /\ UNCHANGED <<appVars, sendVars, thread, acceptVars, hostVars>>

\* One after the other; who has finished by then is left out.
SendEvent(a) ==
  /\ work = "cast" /\ a \in todo /\ ~\E b \in Apps : lock[b] = "cast"
  /\ IF thread[a] = "finished"
     THEN todo' = todo \ {a} /\ UNCHANGED <<lock, part>>
     ELSE Acquire(a, "cast") /\ UNCHANGED todo
  /\ UNCHANGED <<appVars, sent, cut, thread, acceptVars, targets, work, for,
                 published, hostVars>>

\* The copy of the list goes; the command goes on to its next status, or is
\* done.
CastEnds ==
  /\ work = "cast" /\ todo = {}
  /\ Drop(targets, clients \cup pruned \cup stopped) /\ targets' = {}
  /\ work' = "idle" /\ for' = Nobody
  /\ IF for = Nobody THEN UNCHANGED thread
     ELSE \E place \in {"waiting", "locking"} : ThreadAt(for, place)
  /\ UNCHANGED <<requests, inbox, unread, sendVars, acceptVars, todo, published,
                 hostVars>>

-----------------------------------------------------------------------------
(* ServiceRuntime::Stop.                                                   *)

HostAt(place) == host' = place
Rest == <<requests, inbox, unread, sendVars, thread, acceptVars, castVars>>

\* controller_->Stop(), like any other command.
StopService ==
  /\ host = "up" /\ HostAt("controller")
  /\ UNCHANGED <<Rest, pipe, running, stopped>>

\* PipeServer::Stop.
StopServer ==
  /\ host = "controller" /\ work = "idle"
  /\ running' = FALSE /\ HostAt("accept")
  /\ UNCHANGED <<Rest, pipe, stopped>>

\* Mutation: the list is taken without waiting for the accept thread.
AtOnce == TRUE
AcceptJoined == accept = "ended"

TakeClients ==
  /\ host = "accept" /\ AcceptJoined
  /\ stopped' = clients /\ clients' = {}
  /\ HostAt("clients")
  /\ UNCHANGED <<appVars, sendVars, thread, accept, arriving, pruned, joined,
                 castVars, running>>

JoinClients ==
  /\ host = "clients" /\ \A a \in stopped : thread[a] = "finished"
  /\ Drop(stopped, clients \cup pruned \cup KeptByCast) /\ stopped' = {}
  /\ HostAt("closing")
  /\ UNCHANGED <<Rest, running>>

\* controller_.reset() waits for the worker, then server_.reset().
Close ==
  /\ host = "closing" /\ work = "idle" /\ accept = "ended"
  /\ HostAt("stopped")
  /\ UNCHANGED <<Rest, pipe, running, stopped>>

-----------------------------------------------------------------------------
(* The specification.                                                      *)

Init ==
  /\ pipe = [a \in Apps |-> "none"] /\ requests = [a \in Apps |-> 0]
  /\ inbox = [a \in Apps |-> 0] /\ unread = [a \in Apps |-> 0]
  /\ sent = [a \in Apps |-> <<>>] /\ cut = [a \in Apps |-> FALSE]
  /\ lock = [a \in Apps |-> "free"] /\ part = [a \in Apps |-> "first"]
  /\ thread = [a \in Apps |-> "none"] /\ joined = [a \in Apps |-> 0]
  /\ accept = "listen" /\ arriving = Nobody /\ clients = {} /\ pruned = {}
  /\ targets = {} /\ todo = {} /\ work = "idle" /\ for = Nobody /\ published = 0
  /\ running = TRUE /\ stopped = {} /\ host = "up"

App(a) == Connect(a) \/ Request(a) \/ Receive(a) \/ Leave(a)
Accept == Refuse \/ Prune \/ Pruned \/ List \/ Spawn \/ AcceptStops
Thread(a) == Serve(a) \/ Finish(a) \/ LockAnswer(a)
Write(a) == WritePart(a) \/ WriteFails(a)
Obey(a) == Command(a) \/ BeyondBound(a)
Cast == (\E a \in Apps : SendEvent(a)) \/ CastEnds
Host == StopServer \/ TakeClients \/ JoinClients \/ Close

Next == \/ \E a \in Apps : App(a) \/ Thread(a) \/ Write(a) \/ Obey(a)
        \/ Accept \/ Cast \/ Host \/ Event \/ StopService

\* Every thread runs, a waiting command is obeyed, a write ends.  The apps
\* need not read.
Fairness ==
  /\ WF_vars(Accept) /\ WF_vars(Cast) /\ WF_vars(Host)
  /\ \A a \in Apps : WF_vars(Thread(a)) /\ WF_vars(Write(a)) /\ WF_vars(Obey(a))

Spec == Init /\ [][Next]_vars /\ Fairness

-----------------------------------------------------------------------------
(* Properties.                                                             *)

Parts == {"first", "last"}
Messages == 0..MaxEvents
Written == [msg : Messages, part : Parts]
Places == {"none", "reading", "waiting", "locking", "writing", "finished"}

\* The type of the state: every thread is at one of its places, and only
\* connections that were admitted are on the list of clients.
TypeOK ==
  /\ pipe \in [Apps -> {"none", "open", "left", "closed"}]
  /\ requests \in [Apps -> 0..MaxRequests] /\ inbox \in [Apps -> 0..MaxRequests]
  /\ unread \in [Apps -> 0..Room] /\ sent \in [Apps -> Seq(Written)]
  /\ cut \in [Apps -> BOOLEAN] /\ joined \in [Apps -> Messages]
  /\ thread \in [Apps -> Places]
  /\ lock \in [Apps -> {"free", "thread", "cast"}] /\ part \in [Apps -> Parts]
  /\ accept \in {"listen", "admit", "prune", "list", "spawn", "ended"}
  /\ arriving \in Apps \cup {Nobody} /\ for \in Apps \cup {Nobody}
  /\ clients \subseteq Apps /\ pruned \subseteq Apps /\ stopped \subseteq Apps
  /\ targets \subseteq Apps /\ todo \subseteq targets
  /\ work \in {"idle", "cast"} /\ published \in Messages /\ running \in BOOLEAN
  /\ host \in {"up", "controller", "accept", "clients", "closing", "stopped"}

\* The first part of every frame is followed by the rest of the same frame.
Paired(parts) ==
  \A i \in DOMAIN parts :
    IF i % 2 = 1 THEN parts[i].part = "first"
    ELSE parts[i] = [parts[i - 1] EXCEPT !.part = "last"]

\* The answers of the connection's thread and the events of the controller's
\* worker share the pipe, and yet the app reads whole frames: the parts of
\* two frames do not mix.  A write that was given up leaves half a frame.
FramesIntact == TypeOK /\ \A a \in Apps : ~cut[a] => Paired(sent[a])

\* The events whose frames are complete are those after `from' up to `to', in
\* order, each once.
Told(parts, from, to) ==
  LET whole == {i \in DOMAIN parts : parts[i].part = "last" /\ parts[i].msg # Reply}
  IN /\ {parts[i].msg : i \in whole} = (from + 1)..to
     /\ \A i, j \in whole : i < j => parts[i].msg < parts[j].msg

\* The last event sent to a client; a broadcast may be on its way to it.
LastSent(a) == IF a \in todo THEN published - 1 ELSE published
Reached(a) == running /\ pipe[a] = "open" /\ ~cut[a]

\* While the server runs, a connected app gets every change of the status from
\* the moment it was listed, in order, whatever its thread is doing meanwhile;
\* only a write that was given up ends that.
EventsReachClients ==
  \A a \in clients : Reached(a) => Told(sent[a], joined[a], LastSent(a))

\* Nobody uses a pipe whose handle is closed, neither its thread nor a
\* broadcast that still has it in its copy of the list.
HandleInUse ==
  \A a \in Apps : pipe[a] = "closed" =>
    lock[a] = "free" /\ thread[a] \in {"none", "finished"}

\* The service that has stopped leaves no thread and no open pipe behind, also
\* when a client came while it stopped.
StoppedIsClean ==
  host = "stopped" =>
    \A a \in Apps : thread[a] \in {"none", "finished"} /\ pipe[a] # "open"

\* A command is answered, or its app is gone or cut off: threads, broadcasts
\* and commands do not wait for each other in a circle.
CommandsEnd == []<>(\A a \in Apps : thread[a] # "waiting")

\* A stop that was begun ends, whatever the clients do.
StopEnds == host = "controller" ~> host = "stopped"

(* The inductive invariant behind the theorems of PipeServerProofs.         *)

\* Nothing is read that was not sent.
InboxInv == \A a \in Apps : inbox[a] <= requests[a]

\* The connection being admitted is in nobody's hands yet and has no thread,
\* until it is listed and its thread started.
Referred == clients \cup pruned \cup targets \cup stopped
ArrivalInv ==
  /\ arriving \in Apps <=> accept \in {"admit", "prune", "list", "spawn"}
  /\ arriving \in Apps => thread[arriving] = "none"
  /\ accept \in {"admit", "prune", "list"} => arriving \notin Referred
  /\ accept = "spawn" => arriving \in clients
  /\ pruned # {} => accept = "prune"

\* The pipes that are not closed are those somebody refers to, and a thread
\* that has not ended is one Stop will wait for.
HeldInv ==
  \A a \in Apps :
    /\ pipe[a] \in {"open", "left"} <=> a \in Referred \cup {arriving}
    /\ pipe[a] = "none" => thread[a] = "none"
    /\ thread[a] \notin {"none", "finished"} => a \in clients \cup stopped
    /\ a \in pruned => thread[a] = "finished"

\* Who holds a mutex is at work: the thread that writes, or a broadcast for
\* one of its targets; a command that broadcasts has its thread waiting.
LockInv ==
  /\ \A a \in Apps : /\ (lock[a] = "thread") <=> (thread[a] = "writing")
                     /\ lock[a] = "cast" => a \in todo
  /\ todo \subseteq targets
  /\ work = "idle" => targets = {} /\ for = Nobody
  /\ for # Nobody => thread[for] = "waiting"

\* How far the stop of the service has come.
HostInv ==
  /\ running <=> host \in {"up", "controller"}
  /\ accept = "ended" => ~running
  /\ host \in {"clients", "closing", "stopped"} =>
       accept = "ended" /\ clients = {}
  /\ host # "clients" => stopped = {}
  /\ host = "stopped" => work = "idle"

\* The parts in the pipe pair up, but for the first part of the frame that is
\* being written.
Halfway(a) == lock[a] # "free" /\ part[a] = "last"
FrameInv ==
  \A a \in Apps : ~cut[a] =>
    /\ Paired(sent[a])
    /\ Len(sent[a]) % 2 = (IF Halfway(a) THEN 1 ELSE 0)
    /\ Halfway(a) => sent[a][Len(sent[a])].msg = Message(a)

\* Nothing was sent to a connection before it is listed; a thread only ends when
\* nothing more reaches its app; and no client was listed after the events that
\* are its due.
FreshInv ==
  \A a \in Apps : pipe[a] = "none" \/ (a = arriving /\ accept # "spawn")
                  => sent[a] = <<>>
EndedInv == \A a \in Apps : thread[a] = "finished" => ~Reached(a)
EventsInv ==
  \A a \in clients :
    Reached(a) => joined[a] <= LastSent(a) /\ Told(sent[a], joined[a], LastSent(a))

IInv == /\ TypeOK /\ InboxInv /\ ArrivalInv /\ HeldInv /\ LockInv /\ HostInv
        /\ FrameInv /\ FreshInv /\ EndedInv /\ EventsInv
=============================================================================
