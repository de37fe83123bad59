--------------------------- MODULE ManagedRuntime ---------------------------
(***************************************************************************)
(* ManagedTunnelRuntime: the supervisor of named tunnels and producers.    *)
(* One control thread serves start, stop, restart and configuration        *)
(* requests, one after the other; every runtime is a worker thread of its  *)
(* own.  They share the map of workers and the workers' snapshots, under a *)
(* mutex: a step here is one critical section, one publication to the      *)
(* event sink (always outside the mutex), one join or one thread creation. *)
(* What a worker does meanwhile is left to modules TunnelSession and       *)
(* TunnelStream: here it works, and ends of itself, by error or once a     *)
(* stop is requested.                                                      *)
(***************************************************************************)
EXTENDS Naturals

CONSTANTS
    Aliases,    \* the names of tunnels
    Workers,    \* the Worker objects; one is reused once it is destroyed
    NoWorker

ASSUME RuntimeAssumption == NoWorker \notin Workers

Kinds == {"tunnel", "producer"}
Keys == Kinds \X Aliases
Modes == {"none", "client", "server"}

Active == {"starting", "connecting", "connected", "running", "stopping"}
Final == {"stopped", "failed"}

VARIABLES
    mode,       \* ControlService: the definition of each alias, "none" if it has none
    slots,      \* workers_, by key
    state,      \* snapshot.state of each worker; "free" when there is no such object
    owner,      \* Worker.key
    role,       \* what its thread runs: "client", "server" or "producer"
    pc,         \* where the thread is; "unborn" before it is created, "done" when it can be joined
    next,       \* where it goes on once it has published
    stop,       \* its stop token
    told,       \* history: how many of its events the sink was given, up to EnoughEvents
    cpc,        \* where the control thread is
    op,         \* the request it serves: "start", "stop" or "restart"
    key,        \* the key this is about
    held        \* the worker its local variables refer to

workerVars == <<state, owner, role, pc, next, stop, told>>
vars == <<mode, slots, workerVars, cpc, op, key, held>>

\* What the unit test counts to; a bound of told.
EnoughEvents == 3

Count(n) == IF n < EnoughEvents THEN n + 1 ELSE n

Init ==
    /\ mode \in [Aliases -> Modes]
    /\ slots = [k \in Keys |-> NoWorker]
    /\ state = [w \in Workers |-> "free"]
    /\ key \in Keys /\ owner = [w \in Workers |-> key]
    /\ role = [w \in Workers |-> "client"]
    /\ pc = [w \in Workers |-> "unborn"]
    /\ next = [w \in Workers |-> "done"]
    /\ stop = [w \in Workers |-> FALSE]
    /\ told = [w \in Workers |-> 0]
    /\ cpc = "idle" /\ op = "start" /\ held = NoWorker

\* A thread that has been created and has not yet returned.
Alive(w) == pc[w] \notin {"unborn", "done"}

-----------------------------------------------------------------------------
(* Control thread *)

\* publish(): the sink is given the snapshot of w.
Tell(w) == told' = [told EXCEPT ![w] = Count(@)]

Goes(where) == cpc' = where /\ UNCHANGED <<mode, op, key>>

\* POST .../start, /stop or /restart of a tunnel or a producer.
Request(o, k) ==
    /\ cpc = "idle"
    /\ cpc' = IF o = "start" THEN "lookup" ELSE "request"
    /\ op' = o /\ key' = k
    /\ UNCHANGED <<mode, slots, workerVars, held>>

\* PUT /config: aliases appear, disappear or change their mode.
ReplaceConfiguration ==
    /\ cpc = "idle"
    /\ mode' \in [Aliases -> Modes]
    /\ UNCHANGED <<slots, workerVars, cpc, op, key, held>>

\* control_service_.tunnel(alias) throws for an unknown alias, and a producer
\* wants that of a client.
Startable(k) == IF k[1] = "producer" THEN mode[k[2]] = "client" ELSE mode[k[2]] # "none"

Lookup ==
    /\ cpc = "lookup"
    /\ Goes(IF Startable(key) THEN "release" ELSE "idle")
    /\ UNCHANGED <<slots, workerVars, held>>

\* Mutant: a worker that has not started yet is not in the way.
BusyOnceRunning(w) == state[w] \in {"connected", "running", "stopping"}
Busy(w) == state[w] \in Active

\* releaseFinishedSlot: "already active", or the finished worker leaves its
\* slot and is joined.
Release ==
    /\ cpc = "release"
    /\ IF slots[key] = NoWorker THEN Goes("create") /\ UNCHANGED <<slots, held>>
       ELSE IF Busy(slots[key]) THEN Goes("idle") /\ UNCHANGED <<slots, held>>
       ELSE /\ held' = slots[key]
            /\ slots' = [slots EXCEPT ![key] = NoWorker]
            /\ Goes("releaseJoin")
    /\ UNCHANGED workerVars

\* Mutant: the finished worker's thread is left to itself.
JoinedNot(w) == TRUE
\* thread.join() returns.
Joined(w) == pc[w] = "done"

\* The control thread lets go of w.  The object is destroyed unless a slot or
\* the closure of its own thread still refers to it.
Drop(w) ==
    /\ held' = NoWorker
    /\ IF Alive(w) \/ \E k \in Keys : slots'[k] = w THEN UNCHANGED <<state, pc>>
       ELSE state' = [state EXCEPT ![w] = "free"] /\ pc' = [pc EXCEPT ![w] = "unborn"]
    /\ UNCHANGED <<owner, role, next, stop, told>>

ReleaseJoin ==
    /\ cpc = "releaseJoin" /\ Joined(held)
    /\ UNCHANGED slots
    /\ Drop(held)
    /\ Goes("create")

\* The new worker, in its slot.
Create(w) ==
    /\ cpc = "create" /\ state[w] = "free"
    /\ held' = w
    /\ slots' = [slots EXCEPT ![key] = w]
    /\ owner' = [owner EXCEPT ![w] = key]
    /\ role' = [role EXCEPT ![w] = IF key[1] = "producer" THEN "producer" ELSE mode[key[2]]]
    /\ state' = [state EXCEPT ![w] = IF role'[w] = "client" THEN "connecting" ELSE "starting"]
    /\ stop' = [stop EXCEPT ![w] = FALSE]
    /\ told' = [told EXCEPT ![w] = 0]
    /\ Goes("announce")
    /\ UNCHANGED <<pc, next>>

Announce ==
    /\ cpc = "announce"
    /\ Tell(held)
    /\ Goes("spawn")
    /\ UNCHANGED <<slots, state, owner, role, pc, next, stop, held>>

\* Mutant: a slot whose thread could not be created stays.
EraseNot == slots' = slots
Erase == slots' = [slots EXCEPT ![key] = NoWorker]

\* std::jthread is created, or throws and the slot is erased.
Spawn ==
    /\ cpc = "spawn"
    /\ pc' = [pc EXCEPT ![held] = "entry"]
    /\ held' = NoWorker
    /\ Goes("idle")
    /\ UNCHANGED <<slots, state, owner, role, next, stop, told>>

SpawnFails ==
    /\ cpc = "spawn"
    /\ Erase
    /\ Drop(held)
    /\ Goes("idle")

\* Mutant: a stop request does not look at the worker's state first.
StoppableAlways(w) == TRUE
Stoppable(w) == state[w] \notin Final

AfterStop == IF op = "stop" THEN "idle" ELSE "remove"

\* requestStop: "not managed", already over, or asked to stop.
RequestStop ==
    /\ cpc = "request"
    /\ LET w == slots[key] IN
       IF w = NoWorker THEN Goes("idle") /\ UNCHANGED <<state, stop, held>>
       ELSE IF ~Stoppable(w) THEN Goes(AfterStop) /\ UNCHANGED <<state, stop, held>>
       ELSE /\ state' = [state EXCEPT ![w] = "stopping"]
            /\ stop' = [stop EXCEPT ![w] = TRUE]
            /\ held' = w
            /\ Goes("announceStop")
    /\ UNCHANGED <<slots, owner, role, pc, next, told>>

AnnounceStop ==
    /\ cpc = "announceStop"
    /\ Tell(held)
    /\ held' = NoWorker
    /\ Goes(AfterStop)
    /\ UNCHANGED <<slots, state, owner, role, pc, next, stop>>

\* joinAndRemove, the second part of a restart.
Remove ==
    /\ cpc = "remove"
    /\ IF slots[key] = NoWorker THEN Goes("idle") /\ UNCHANGED <<stop, held>>
       ELSE /\ held' = slots[key]
            /\ stop' = [stop EXCEPT ![held'] = TRUE]
            /\ Goes("removeJoin")
    /\ UNCHANGED <<slots, state, owner, role, pc, next, told>>

\* ... after which the restart goes on as a start.
RemoveJoin ==
    /\ cpc = "removeJoin" /\ Joined(held)
    /\ Erase
    /\ Drop(held)
    /\ Goes("lookup")

\* ~ManagedTunnelRuntime: every worker is asked to stop, then joined.
Close ==
    /\ cpc = "idle"
    /\ stop' = [w \in Workers |-> stop[w] \/ \E k \in Keys : slots[k] = w]
    /\ Goes("closing")
    /\ UNCHANGED <<slots, state, owner, role, pc, next, told, held>>

CloseJoins ==
    /\ cpc = "closing" /\ \A k \in Keys : slots[k] # NoWorker => Joined(slots[k])
    /\ slots' = [k \in Keys |-> NoWorker]
    /\ state' = [w \in Workers |-> "free"]
    /\ pc' = [w \in Workers |-> "unborn"]
    /\ Goes("closed")
    /\ UNCHANGED <<owner, role, next, stop, told, held>>

ControlStep ==
    \/ Lookup \/ Release \/ ReleaseJoin \/ (\E w \in Workers : Create(w)) \/ Announce
    \/ Spawn \/ SpawnFails \/ RequestStop \/ AnnounceStop \/ Remove \/ RemoveJoin
    \/ CloseJoins

-----------------------------------------------------------------------------
(* Worker threads *)

WorkerOnly == UNCHANGED <<mode, slots, owner, role, stop, cpc, op, key, held>>

\* transition(): the new state under the mutex; publish() comes later.
Transition(w, s, where) ==
    /\ state' = [state EXCEPT ![w] = s]
    /\ pc' = [pc EXCEPT ![w] = "publish"]
    /\ next' = [next EXCEPT ![w] = where]
    /\ UNCHANGED told
    /\ WorkerOnly

\* The thread function begins: a client starts to connect without a word.
Begin(w) ==
    /\ pc[w] = "entry"
    /\ IF role[w] = "client"
       THEN pc' = [pc EXCEPT ![w] = "connecting"] /\ UNCHANGED <<state, next, told>> /\ WorkerOnly
       ELSE Transition(w, "running", "working")

\* on_client_connection_state.
Connect(w) == pc[w] = "connecting" /\ Transition(w, "connected", "working")

\* Mutant: a run that ends by itself tells nobody.
FinishUntold(w) ==
    /\ pc[w] = "working"
    /\ state' = [state EXCEPT ![w] = "stopped"] /\ pc' = [pc EXCEPT ![w] = "done"]
    /\ UNCHANGED <<next, told>> /\ WorkerOnly
\* run() returns: nobody connected or produces any more, or a stop was requested.
Finish(w) == pc[w] = "working" /\ Transition(w, "stopped", "done")
\* Mutant: connecting does not look at the stop token.
StopWorking(w) == pc[w] = "working" /\ stop[w] /\ Transition(w, "stopped", "done")
Stop(w) == pc[w] \in {"connecting", "working"} /\ stop[w] /\ Transition(w, "stopped", "done")

\* run(), or the constructor before it, throws.
Fail(w) == pc[w] \in {"connecting", "working"} /\ Transition(w, "failed", "done")

Publish(w) ==
    /\ pc[w] = "publish"
    /\ Tell(w)
    /\ pc' = [pc EXCEPT ![w] = next[w]]
    /\ UNCHANGED <<state, next>>
    /\ WorkerOnly

WorkerStep(w) == Begin(w) \/ Connect(w) \/ Finish(w) \/ Stop(w) \/ Fail(w) \/ Publish(w)

-----------------------------------------------------------------------------
Next ==
    \/ \E o \in {"start", "stop", "restart"}, k \in Keys : Request(o, k)
    \/ ReplaceConfiguration
    \/ Close
    \/ ControlStep
    \/ \E w \in Workers : WorkerStep(w)

Safety == Init /\ [][Next]_vars

\* Threads run, the sink takes what it is given, and a worker heeds a stop
\* request (TunnelSession!StopHeeded).  No request need ever come, and nothing
\* else need end a worker.
Fairness ==
    /\ WF_vars(ControlStep)
    /\ \A w \in Workers : WF_vars(Begin(w)) /\ WF_vars(Publish(w)) /\ WF_vars(Stop(w))

Spec == Safety /\ Fairness

-----------------------------------------------------------------------------
(* Properties *)

ControlPlaces == {"idle", "lookup", "release", "releaseJoin", "create", "announce", "spawn",
                  "request", "announceStop", "remove", "removeJoin", "closing", "closed"}

\* Every variable has its type.
TypeOK ==
    /\ mode \in [Aliases -> Modes]
    /\ slots \in [Keys -> Workers \cup {NoWorker}]
    /\ state \in [Workers -> Active \cup Final \cup {"free"}]
    /\ owner \in [Workers -> Keys]
    /\ role \in [Workers -> {"client", "server", "producer"}]
    /\ pc \in [Workers -> {"unborn", "entry", "connecting", "working", "publish", "done"}]
    /\ next \in [Workers -> {"working", "done"}]
    /\ stop \in [Workers -> BOOLEAN]
    /\ told \in [Workers -> 0..EnoughEvents]
    /\ cpc \in ControlPlaces /\ op \in {"start", "stop", "restart"}
    /\ key \in Keys /\ held \in Workers \cup {NoWorker}

\* A thread that runs is in the map, where a stop finds it, or is being waited
\* for: none is ever forgotten, and none outlives its object.
NoOrphan ==
    \A w \in Workers : Alive(w) =>
        /\ state[w] # "free"
        /\ slots[owner[w]] = w \/ (cpc = "releaseJoin" /\ held = w)

\* No two threads ever run for one key, not even while a restart or a new
\* start takes the place of a worker that is over.
OneThreadPerKey ==
    \A v, w \in Workers : Alive(v) /\ Alive(w) /\ owner[v] = owner[w] => v = w

\* "already active" is true: a slot in an active state has a thread that is
\* going to change it, or is about to get one.
ActiveMeansAlive ==
    \A k \in Keys : slots[k] # NoWorker /\ state[slots[k]] \in Active =>
        \/ Alive(slots[k]) /\ ~(pc[slots[k]] = "publish" /\ next[slots[k]] = "done")
        \/ cpc \in {"announce", "spawn"} /\ held = slots[k]

\* "managed producer must publish lifecycle events", however short the worker's
\* life and whoever stops it when: a thread that can be joined has told its
\* beginning, that it runs unless it is a client that never connected, and its
\* end.  These are the least it tells: the events of a stop, and of a client that
\* did connect, come on top of them, and are counted up to EnoughEvents only.
\* (Before it is joined its state is Stopped an event too early.)
EventsTold ==
    \A w \in Workers : pc[w] = "done" =>
        told[w] >= IF role[w] = "client" THEN EnoughEvents - 1 ELSE EnoughEvents

\* Nothing follows Stopped or Failed: neither a stop request that comes too
\* late nor the worker itself changes the state of a worker that is over.
FinalStays ==
    [][\A w \in Workers : state[w] \in Final => state'[w] \in {state[w], "free"}]_vars

\* What module Supervisor sees: the states by their meaning, and of each key the
\* thread that has not returned, by what it has still to make known.
Meaning(w) ==
    CASE state[w] \in {"starting", "connecting"} -> "starting"
      [] state[w] \in {"connected", "running"} -> "running"
      [] state[w] = "stopping" -> "stopping"
      [] OTHER -> "over"
Place(w) ==
    CASE pc[w] \in {"entry", "connecting"} -> "entered"
      [] pc[w] = "working" \/ (pc[w] = "publish" /\ next[w] = "working") -> "running"
      [] OTHER -> "leaving"
Serves(w, k) == Alive(w) /\ owner[w] = k

Shown == [k \in Keys |-> IF slots[k] = NoWorker THEN "absent" ELSE Meaning(slots[k])]
Thread == [k \in Keys |-> IF \E w \in Workers : Serves(w, k)
                          THEN Place(CHOOSE w \in Workers : Serves(w, k)) ELSE "none"]

Supervised == INSTANCE Supervisor WITH Names <- Keys, shown <- Shown, thread <- Thread

\* The runtime is a supervisor: a worker is started only after the one before it
\* has returned, a stop is asked only of one that will heed it, and of each name
\* the states come in a legal order, whoever changes them.
SupervisorSafety == Supervised!Safety

\* Every request is answered, those that wait for a worker too.
RequestsEnd == cpc \notin {"idle", "closed"} ~> cpc \in {"idle", "closed"}

\* A worker asked to stop is over in the end, and its object is not kept alive.
StopsEnd == \A w \in Workers : stop[w] /\ Alive(w) ~> ~Alive(w)
=============================================================================
