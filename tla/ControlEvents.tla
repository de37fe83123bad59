--------------------------- MODULE ControlEvents ---------------------------
(***************************************************************************)
(* LocalControlServer's event stream: how lifecycle events and the metrics *)
(* of every second reach the browsers subscribed over a WebSocket.         *)
(*                                                                         *)
(* Three kinds of threads publish: the control thread, which serves one    *)
(* request after the other, the metrics thread and each runtime's worker.  *)
(* They share clients_ under clients_mutex_, and write to a subscriber's   *)
(* socket under that subscriber's own mutex.  A step is one critical       *)
(* section, or one frame written; sendAll() may take its time over it.     *)
(* Of a runtime only its states are kept: module ManagedRuntime has the    *)
(* rest, and module Supervisor what both have in common.                   *)
(***************************************************************************)
EXTENDS Naturals, Sequences, Functions

CONSTANTS
    Runtimes,       \* what can be started, each with a worker thread of its name
    Clients,        \* WebSocket connections; a browser that reconnects is another one
    Buffer,         \* frames a socket holds before send() blocks
    MaxVersions     \* bound: a runtime that changed its state so often is no more started or stopped

Control == "control"
Metrics == "metrics"
Free == "free"
Threads == Runtimes \cup {Control, Metrics}

ASSUME EventsAssumption ==
    /\ Control \notin Runtimes /\ Metrics \notin Runtimes /\ Free \notin Runtimes
    /\ Buffer \in Nat \ {0} /\ MaxVersions \in Nat

VARIABLES
    state,          \* snapshot.state of each runtime
    version,        \* history: how often a change of it was published
    work,           \* where its worker thread is
    clients,        \* clients_
    lock,           \* WebSocketClient::mutex: who holds it
    conn,           \* the connection of each client, as its browser sees it
    channel,        \* frames in each socket, not yet read
    bpc,            \* where each thread is in broadcastEvent(), "off" when in none
    event,          \* the event it sends
    todo,           \* its copy of clients_, as far as not yet served
    failed,         \* the clients that it could not write to
    cpc,            \* where the control thread is
    about,          \* the runtime or client its request is about
    toSend,         \* snapshots the control or the metrics thread has still to send
    snapAt, since,  \* history: versions when a client's snapshots were taken, when it was registered
    there,          \* history: the runtimes there were when its snapshots were taken
    got,            \* history: lifecycle events written to each client
    view            \* the state of each runtime a browser shows

runtimeVars == <<state, version, work>>
threadVars == <<bpc, event, todo, failed>>
historyVars == <<snapAt, since, there>>
subscribeVars == <<cpc, about, historyVars>>
clientVars == <<conn, channel, view>>
vars == <<runtimeVars, clients, lock, clientVars, threadVars, subscribeVars, toSend, got>>

States == {"absent", "starting", "running", "stopping", "stopped"}
Active == {"starting", "running", "stopping"}

\* What is published: metrics only of active runtimes.
Event == [kind : {"lifecycle", "current"}, runtime : Runtimes, state : States, version : Nat]
    \cup [kind : {"metrics"}, runtime : Runtimes, state : Active, version : Nat]
EventOf(kind, r) == [kind |-> kind, runtime |-> r, state |-> state[r], version |-> version[r]]

\* runtime_.snapshots(), as events to be sent one by one.
Snapshots(kind, which) == {EventOf(kind, r) : r \in {x \in Runtimes : state[x] \in which}}

Nothing == "nothing"
NoEvent == [kind |-> "none"]
Never == [r \in Runtimes |-> 0]
Blank == [r \in Runtimes |-> "absent"]

Init ==
    /\ state = [r \in Runtimes |-> "absent"] /\ version = [r \in Runtimes |-> 0]
    /\ work = [r \in Runtimes |-> "over"]
    /\ clients = <<>> /\ lock = [c \in Clients |-> Free]
    /\ conn = [c \in Clients |-> "none"] /\ channel = [c \in Clients |-> <<>>]
    /\ bpc = [t \in Threads |-> "off"] /\ todo = [t \in Threads |-> <<>>]
    /\ event = [t \in Threads |-> NoEvent]
    /\ failed = [t \in Threads |-> {}]
    /\ cpc = "idle" /\ about = Nothing
    /\ toSend = [t \in {Control, Metrics} |-> {}]
    /\ snapAt = [c \in Clients |-> Never] /\ since = [c \in Clients |-> Never]
    /\ there = [c \in Clients |-> {}]
    /\ got = [c \in Clients |-> {}] /\ view = [c \in Clients |-> Blank]

-----------------------------------------------------------------------------
(* broadcastEvent() *)

\* publish(): thread t begins to send e to all.
Broadcast(t, e) ==
    /\ bpc' = [bpc EXCEPT ![t] = "copy"]
    /\ event' = [event EXCEPT ![t] = e]
    /\ UNCHANGED <<todo, failed>>

CopyClients(t) ==
    /\ bpc[t] = "copy"
    /\ bpc' = [bpc EXCEPT ![t] = "send"]
    /\ todo' = [todo EXCEPT ![t] = clients]
    /\ failed' = [failed EXCEPT ![t] = {}]
    /\ UNCHANGED <<runtimeVars, clients, lock, clientVars, event, subscribeVars, toSend, got>>

\* Mutant: nobody waits for the mutex.
Unlocked(c) == TRUE
Takeable(c) == lock[c] = Free

TakeLock(t) ==
    /\ bpc[t] = "send" /\ todo[t] # <<>>
    /\ Takeable(Head(todo[t]))
    /\ lock' = [lock EXCEPT ![Head(todo[t])] = t]
    /\ bpc' = [bpc EXCEPT ![t] = "write"]
    /\ UNCHANGED <<runtimeVars, clients, clientVars, event, todo, failed, subscribeVars,
                   toSend, got>>

\* Mutant: a client that cannot be written to ends the loop.
RestAfterFailureNone(t) == <<>>
RestAfterFailure(t) == Tail(todo[t])

\* Mutant: the mutex is kept when send() fails.
KeepLock(c) == lock' = lock
ReleaseLock(c) == lock' = [lock EXCEPT ![c] = Free]

\* send() blocks while the socket has no room ...
Write(t) ==
    LET c == Head(todo[t]) IN
    /\ bpc[t] = "write" /\ conn[c] = "open" /\ Len(channel[c]) < Buffer
    /\ channel' = [channel EXCEPT ![c] = Append(@, event[t])]
    /\ got' = [got EXCEPT ![c] = IF event[t].kind = "lifecycle"
                                 THEN @ \cup {<<event[t].runtime, event[t].version>>} ELSE @]
    /\ lock' = [lock EXCEPT ![c] = Free]
    /\ todo' = [todo EXCEPT ![t] = Tail(@)]
    /\ bpc' = [bpc EXCEPT ![t] = "send"]
    /\ UNCHANGED <<runtimeVars, clients, conn, view, event, failed, subscribeVars, toSend>>

\* ... and fails once the browser is gone.  (That a text is too long for a frame
\* does not happen: aliases have 64 characters at most, and errors 512.)
WriteFails(t) ==
    LET c == Head(todo[t]) IN
    /\ bpc[t] = "write" /\ conn[c] = "closed"
    /\ failed' = [failed EXCEPT ![t] = @ \cup {c}]
    /\ ReleaseLock(c)
    /\ todo' = [todo EXCEPT ![t] = RestAfterFailure(t)]
    /\ bpc' = [bpc EXCEPT ![t] = "send"]
    /\ UNCHANGED <<runtimeVars, clients, clientVars, event, subscribeVars, toSend, got>>

\* s without the members of F, in its order: the only sequence in this set, as
\* long as nobody is in s twice
Without(s, F) ==
    {rest \in UNION {[1..n -> Range(s) \ F] : n \in 0..Len(s)} :
        /\ IsInjective(rest) /\ Range(rest) = Range(s) \ F
        /\ \A i, j \in DOMAIN rest, k, l \in DOMAIN s :
               rest[i] = s[k] /\ rest[j] = s[l] /\ i < j => k < l}

\* Clients that failed leave clients_, if they are still there.
DropFailed(t) ==
    /\ bpc[t] = "send" /\ todo[t] = <<>>
    /\ clients' \in Without(clients, failed[t])
    /\ bpc' = [bpc EXCEPT ![t] = "off"]
    /\ event' = [event EXCEPT ![t] = NoEvent]
    /\ failed' = [failed EXCEPT ![t] = {}]
    /\ UNCHANGED <<runtimeVars, lock, clientVars, todo, subscribeVars, toSend, got>>

BroadcastStep(t) ==
    CopyClients(t) \/ TakeLock(t) \/ Write(t) \/ WriteFails(t) \/ DropFailed(t)

-----------------------------------------------------------------------------
(* Runtimes *)

\* The control thread can take the next request.
Idle == cpc = "idle" /\ bpc[Control] = "off"

\* The new state, under the runtime's mutex; the event follows outside of it.
Changes(r, s, t) ==
    /\ bpc[t] = "off"
    /\ state' = [state EXCEPT ![r] = s]
    /\ version' = [version EXCEPT ![r] = @ + 1]
    /\ Broadcast(t, [kind |-> "lifecycle", runtime |-> r, state |-> s, version |-> version[r] + 1])
    /\ UNCHANGED <<clients, lock, clientVars, toSend, got>>

\* workers_.erase(): the runtime is no more, and nobody is told.
Vanishes(r) == state' = [state EXCEPT ![r] = "absent"] /\ UNCHANGED <<version, work>>

\* The request goes on; all but the runtimes is as it was.
Proceeds(where, what) ==
    /\ cpc' = where /\ about' = what
    /\ UNCHANGED <<clients, lock, clientVars, threadVars, toSend, historyVars, got>>

\* POST .../start: refused while the runtime is active.  A worker that is over
\* leaves its slot, and is joined ...
Start(r) ==
    /\ Idle /\ version[r] < MaxVersions /\ state[r] \notin Active
    /\ Vanishes(r)
    /\ Proceeds("join", r)

\* Mutant: a worker's last publication is not waited for.
JoinedEarly(r) == work[r] = "over"
Joined(r) == work[r] = "over" /\ bpc[r] = "off"

\* ... then there is a new one ...
Create ==
    /\ cpc = "join" /\ Joined(about)
    /\ Changes(about, "starting", Control)
    /\ cpc' = "spawn"
    /\ UNCHANGED <<work, about, historyVars>>

\* ... whose thread is created once the event has been sent, or cannot be: then
\* what has been announced is gone.
Announced == cpc = "spawn" /\ bpc[Control] = "off"

Spawn ==
    /\ Announced
    /\ work' = [work EXCEPT ![about] = "entry"]
    /\ UNCHANGED <<state, version>>
    /\ Proceeds("idle", Nothing)

SpawnFails ==
    /\ Announced
    /\ Vanishes(about)
    /\ Proceeds("idle", Nothing)

\* POST .../restart: a stop, of which nothing is told if it is over already ...
Restart(r) ==
    /\ Idle /\ version[r] < MaxVersions
    /\ cpc' = "remove" /\ about' = r
    /\ \/ state[r] \in Active /\ Changes(r, "stopping", Control)
       \/ state[r] = "stopped"
          /\ UNCHANGED <<state, version, clients, lock, clientVars, threadVars, toSend, got>>
    /\ UNCHANGED <<work, historyVars>>

\* ... then the worker is joined and leaves its slot, and a start follows, unless
\* the configuration has no such tunnel any more.
Remove ==
    /\ cpc = "remove" /\ bpc[Control] = "off" /\ Joined(about)
    /\ Vanishes(about)
    /\ Proceeds("join", about) \/ Proceeds("idle", Nothing)

\* POST .../stop.
Stop(r) ==
    /\ Idle /\ state[r] \in Active /\ version[r] < MaxVersions
    /\ Changes(r, "stopping", Control)
    /\ UNCHANGED <<work, subscribeVars>>

\* The worker reports that it runs, or is connected ...
Run(r) ==
    /\ work[r] = "entry" /\ Changes(r, "running", r)
    /\ work' = [work EXCEPT ![r] = "running"]
    /\ UNCHANGED subscribeVars

\* ... and that it is over, by itself, by an error or by request.
End(r) ==
    /\ work[r] # "over" /\ Changes(r, "stopped", r)
    /\ work' = [work EXCEPT ![r] = "over"]
    /\ UNCHANGED subscribeVars

-----------------------------------------------------------------------------
(* broadcastMetricSnapshots() *)

Reported == Active

\* Every second, while there are clients: a snapshot of all runtimes at once ...
MetricsTick ==
    /\ bpc[Metrics] = "off" /\ toSend[Metrics] = {} /\ clients # <<>>
    /\ toSend' = [toSend EXCEPT ![Metrics] = Snapshots("metrics", Reported)]
    /\ UNCHANGED <<runtimeVars, clients, lock, clientVars, threadVars, subscribeVars, got>>

\* ... of which those of active runtimes are sent, one after the other.
MetricsSend ==
    /\ bpc[Metrics] = "off"
    /\ \E e \in toSend[Metrics] :
        /\ Broadcast(Metrics, e)
        /\ toSend' = [toSend EXCEPT ![Metrics] = @ \ {e}]
    /\ UNCHANGED <<runtimeVars, clients, lock, clientVars, subscribeVars, got>>

-----------------------------------------------------------------------------
(* GET /api/v1/events *)

\* The connection is upgraded.
Subscribe(c) ==
    /\ Idle /\ conn[c] = "none"
    /\ conn' = [conn EXCEPT ![c] = "open"]
    /\ cpc' = "snapshots" /\ about' = c
    /\ UNCHANGED <<runtimeVars, clients, lock, channel, view, threadVars, toSend, historyVars, got>>

\* Mutant: a client is registered before it is sent the snapshots.
TakeSnapshotsRegistered ==
    /\ cpc = "snapshots"
    /\ toSend' = [toSend EXCEPT ![Control] = Snapshots("current", States \ {"absent"})]
    /\ clients' = Append(clients, about)
    /\ snapAt' = [snapAt EXCEPT ![about] = version] /\ since' = [since EXCEPT ![about] = version]
    /\ there' = [there EXCEPT ![about] = {r \in Runtimes : state[r] # "absent"}]
    /\ cpc' = "sending"
    /\ UNCHANGED <<runtimeVars, lock, clientVars, threadVars, about, got>>
TakeSnapshots ==
    /\ cpc = "snapshots"
    /\ toSend' = [toSend EXCEPT ![Control] = Snapshots("current", States \ {"absent"})]
    /\ snapAt' = [snapAt EXCEPT ![about] = version]
    /\ there' = [there EXCEPT ![about] = {r \in Runtimes : state[r] # "absent"}]
    /\ cpc' = "sending"
    /\ UNCHANGED <<runtimeVars, clients, lock, clientVars, threadVars, about, since, got>>

SendSnapshot ==
    /\ cpc = "sending" /\ conn[about] = "open" /\ Len(channel[about]) < Buffer
    /\ \E e \in toSend[Control] :
        /\ channel' = [channel EXCEPT ![about] = Append(@, e)]
        /\ toSend' = [toSend EXCEPT ![Control] = @ \ {e}]
    /\ UNCHANGED <<runtimeVars, clients, lock, conn, view, threadVars, subscribeVars, got>>

SendSnapshotFails ==
    /\ cpc = "sending" /\ conn[about] = "closed" /\ toSend[Control] # {}
    /\ toSend' = [toSend EXCEPT ![Control] = {}]
    /\ cpc' = "idle" /\ about' = Nothing
    /\ UNCHANGED <<runtimeVars, clients, lock, clientVars, threadVars, historyVars, got>>

Register ==
    /\ cpc = "sending" /\ toSend[Control] = {}
    /\ clients' = Append(clients, about)
    /\ since' = [since EXCEPT ![about] = version]
    /\ cpc' = "idle" /\ about' = Nothing
    /\ UNCHANGED <<runtimeVars, lock, clientVars, threadVars, toSend, snapAt, there, got>>

-----------------------------------------------------------------------------
(* Browsers *)

\* A page shows the state of the last frame that it read about a runtime.
Read(c) ==
    /\ channel[c] # <<>> /\ conn[c] = "open"
    /\ channel' = [channel EXCEPT ![c] = Tail(@)]
    /\ view' = [view EXCEPT ![c][Head(channel[c]).runtime] = Head(channel[c]).state]
    /\ UNCHANGED <<runtimeVars, clients, lock, conn, threadVars, subscribeVars, toSend, got>>

CloseConnection(c) ==
    /\ conn[c] = "open"
    /\ conn' = [conn EXCEPT ![c] = "closed"]
    /\ channel' = [channel EXCEPT ![c] = <<>>] /\ view' = [view EXCEPT ![c] = Blank]
    /\ got' = [got EXCEPT ![c] = {}]
    /\ UNCHANGED <<runtimeVars, clients, lock, threadVars, subscribeVars, toSend>>

-----------------------------------------------------------------------------
ControlStep ==
    Create \/ Spawn \/ SpawnFails \/ Remove \/ TakeSnapshots \/ SendSnapshot \/ SendSnapshotFails \/ Register

Next ==
    \/ \E r \in Runtimes : Start(r) \/ Restart(r) \/ Stop(r) \/ Run(r) \/ End(r)
    \/ MetricsTick \/ MetricsSend
    \/ ControlStep
    \/ \E t \in Threads : BroadcastStep(t)
    \/ \E c \in Clients : Subscribe(c) \/ Read(c) \/ CloseConnection(c)

Safety == Init /\ [][Next]_vars

\* Threads go on, and a page that is open reads.  A mutex that is free again
\* and again is taken: the metrics thread, the only one to come back to it of
\* itself, sleeps for a second in between.
Fairness ==
    /\ WF_vars(ControlStep)
    /\ \A t \in Threads : WF_vars(BroadcastStep(t)) /\ SF_vars(TakeLock(t))
    /\ \A c \in Clients : WF_vars(Read(c))

Spec == Safety /\ Fairness

-----------------------------------------------------------------------------
(* Properties *)

\* Every variable has its type.
TypeOK ==
    /\ state \in [Runtimes -> States] /\ version \in [Runtimes -> Nat]
    /\ work \in [Runtimes -> {"entry", "running", "over"}]
    /\ clients \in Seq(Clients) /\ lock \in [Clients -> Threads \cup {Free}]
    /\ conn \in [Clients -> {"none", "open", "closed"}]
    /\ channel \in [Clients -> Seq(Event)] /\ \A c \in Clients : Len(channel[c]) <= Buffer
    /\ bpc \in [Threads -> {"off", "copy", "send", "write"}]
    /\ event \in [Threads -> Event \cup {NoEvent}]
    /\ todo \in [Threads -> Seq(Clients)] /\ failed \in [Threads -> SUBSET Clients]
    /\ cpc \in {"idle", "remove", "join", "spawn", "snapshots", "sending"}
    /\ about \in Runtimes \cup Clients \cup {Nothing}
    /\ toSend \in [{Control, Metrics} -> SUBSET Event]
    /\ view \in [Clients -> [Runtimes -> States]]
    /\ there \in [Clients -> SUBSET Runtimes]
    /\ snapAt \in [Clients -> [Runtimes -> Nat]] /\ since \in [Clients -> [Runtimes -> Nat]]
    /\ got \in [Clients -> SUBSET (Runtimes \X Nat)]

Subscribing(c) == cpc \in {"snapshots", "sending"} /\ about = c
Registered(c) == conn[c] = "open" /\ ~Subscribing(c)
WritesTo(t, c) == bpc[t] = "write" /\ Head(todo[t]) = c

\* Frames are whole: no two threads are inside of sendAll() for one socket,
\* the control thread included, which sends the snapshots without the mutex.
OneWriter ==
    \A c \in Clients :
        /\ \A s, t \in Threads : WritesTo(s, c) /\ WritesTo(t, c) => s = t
        /\ Subscribing(c) => \A t \in Threads : ~WritesTo(t, c)

\* A page that is registered has been sent the state of every runtime that was
\* there, and no such frame comes after an event, which it would undo.
SnapshotsFirst ==
    \A c \in Clients : conn[c] = "open" =>
        /\ \A i, j \in 1..Len(channel[c]) :
               i < j /\ channel[c][j].kind = "current" => channel[c][i].kind = "current"
        /\ Registered(c) => \A r \in there[c] :
               \/ view[c][r] # "absent"
               \/ \E i \in 1..Len(channel[c]) : channel[c][i].runtime = r

\* Thread t has not got to c yet with the change of r to version v.
WillTell(t, c, r, v) ==
    /\ event[t].kind = "lifecycle" /\ event[t].runtime = r /\ event[t].version = v
    /\ bpc[t] = "copy" \/ \E i \in 1..Len(todo[t]) : todo[t][i] = c

Told(c, r, v) == <<r, v>> \in got[c] \/ \E t \in Threads : WillTell(t, c, r, v)

\* A page that stays is told of every change that was published since it was
\* registered, whatever becomes of the connections of others.  (That a runtime
\* has vanished is not published.)
NothingLost ==
    \A c \in Clients : Registered(c) =>
        \A r \in Runtimes : \A v \in since[c][r] + 1 .. version[r] : Told(c, r, v)

\* Whoever publishes gets through: nobody waits for ever for a socket's mutex.
PublicationsEnd == \A t \in Threads : bpc[t] = "copy" ~> bpc[t] = "off"

\* "A new connection receives a complete runtime snapshot before subsequent
\* events": together they leave out no change.
SnapshotIsComplete ==
    \A c \in Clients : Registered(c) =>
        \A r \in Runtimes : \A v \in snapAt[c][r] + 1 .. version[r] : Told(c, r, v)

\* What module Supervisor sees, as in ManagedRuntime.
Shown == [r \in Runtimes |-> IF state[r] = "stopped" THEN "over" ELSE state[r]]
Thread == [r \in Runtimes |->
    CASE work[r] = "entry" -> "entered"
      [] work[r] = "running" -> "running"
      [] work[r] = "over" -> IF bpc[r] = "off" THEN "none" ELSE "leaving"]

Supervised == INSTANCE Supervisor WITH Names <- Runtimes, shown <- Shown, thread <- Thread

\* The events tell of runtimes that behave as a supervisor's do: nothing is told
\* here that the runtime behind the sink could not do.
SupervisorSafety == Supervised!Safety

\* No request is served, no runtime is active, and all that was published has
\* been read.
Settled ==
    /\ cpc = "idle" /\ \A r \in Runtimes : state[r] \notin Active
    /\ \A t \in Threads : bpc[t] = "off"
    /\ toSend[Metrics] = {}
    /\ \A c \in Clients : channel[c] = <<>>

\* A page that missed nothing while it subscribed.
MissedNothing(c) == Registered(c) /\ snapAt[c] = since[c]

\* "A tunnel deck showing each configured client and server route, its
\* direction, and its current state": once all is at rest, of runtimes that are there.
\* (Those that vanished are shown as they were last told of.)
DeckShowsCurrentState ==
    Settled => \A c \in Clients : MissedNothing(c) =>
        \A r \in Runtimes : state[r] # "absent" => view[c][r] = state[r]
=============================================================================
