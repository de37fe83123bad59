----------------------- MODULE ManagedRuntime_proofs -----------------------
(***************************************************************************)
(* Proofs about module ManagedRuntime, for any number of aliases and       *)
(* workers: its types, that no thread is ever forgotten, that no two       *)
(* threads run for one key, that a slot in an active state has a thread    *)
(* that will change it, that nothing follows a final state, and that it    *)
(* implements module Supervisor.                                           *)
(***************************************************************************)
EXTENDS ManagedRuntime, TLAPS

\* The inductive invariant, in named parts.

\* A slot holds a worker of its own key.
SlotsOwned ==
    \A k \in Keys : slots[k] # NoWorker => owner[slots[k]] = k /\ state[slots[k]] # "free"

\* A worker is in the slot of its key, unless releaseFinishedSlot has taken it
\* out and joins it.
WorkersKept ==
    \A w \in Workers : state[w] # "free" =>
        slots[owner[w]] = w \/ (cpc = "releaseJoin" /\ held = w)

\* What the thread has still to do agrees with the state it has made known.
StateOfThread ==
    \A w \in Workers :
        /\ state[w] = "free" => pc[w] = "unborn"
        /\ pc[w] \in {"entry", "connecting", "working"} => state[w] \in Active
        /\ pc[w] = "publish" /\ next[w] = "working" => state[w] \in Active
        /\ pc[w] = "publish" /\ next[w] = "done" => state[w] \in Final
        /\ pc[w] = "done" => state[w] \in Final

\* Only the worker being started has no thread yet.
UnbornIsNew ==
    \A w \in Workers : pc[w] = "unborn" /\ state[w] # "free" =>
        cpc \in {"announce", "spawn"} /\ held = w

\* What the control thread holds where.
HeldIsFor ==
    /\ cpc \in {"release", "releaseJoin", "create"} => Startable(key)
    /\ cpc = "create" => slots[key] = NoWorker
    /\ cpc \in {"announce", "spawn"} =>
        held \in Workers /\ slots[key] = held /\ pc[held] = "unborn" /\ state[held] \in Active
    /\ cpc = "releaseJoin" =>
        held \in Workers /\ slots[key] = NoWorker /\ owner[held] = key /\ state[held] \in Final
    /\ cpc \in {"announceStop", "removeJoin"} => held \in Workers /\ slots[key] = held

IInv == TypeOK /\ SlotsOwned /\ WorkersKept /\ StateOfThread /\ UnbornIsNew /\ HeldIsFor

-----------------------------------------------------------------------------
USE RuntimeAssumption

LEMMA CountBounds == \A n \in 0..EnoughEvents : Count(n) \in 0..EnoughEvents
BY DEF Count, EnoughEvents

\* A worker that is over, or never began, and in no slot is destroyed when the
\* control thread lets go of it.
LEMMA DropDestroys ==
    ASSUME NEW w, Drop(w), ~Alive(w), \A k \in Keys : slots'[k] # w
    PROVE  /\ state' = [state EXCEPT ![w] = "free"] /\ pc' = [pc EXCEPT ![w] = "unborn"]
           /\ held' = NoWorker /\ UNCHANGED <<owner, role, next, stop, told>>
BY DEF Drop

\* Every step keeps the types.
LEMMA TypeStep ==
    ASSUME IInv, [Next]_vars
    PROVE  TypeOK'
<1> USE DEF vars, workerVars, Active, Final, ControlPlaces
<1>1. ASSUME NEW o \in {"start", "stop", "restart"}, NEW k \in Keys, Request(o, k) PROVE TypeOK'
  BY <1>1 DEF IInv, TypeOK, HeldIsFor, Request
<1>2. CASE ReplaceConfiguration
  BY <1>2 DEF IInv, TypeOK, HeldIsFor, ReplaceConfiguration
<1>3. CASE Close
  BY <1>3 DEF IInv, TypeOK, HeldIsFor, Close, Goes
<1>4. CASE Lookup
  BY <1>4 DEF IInv, TypeOK, HeldIsFor, Lookup, Goes
<1>5. CASE Release
  BY <1>5 DEF IInv, TypeOK, HeldIsFor, Release, Busy, Goes
<1>6. CASE ReleaseJoin
  BY <1>6 DEF IInv, TypeOK, HeldIsFor, ReleaseJoin, Joined, Drop, Goes
<1>7. ASSUME NEW w \in Workers, Create(w) PROVE TypeOK'
  <2>1. (mode[key[2]] # "none" /\ mode[key[2]] \in Modes) \/ key[1] = "producer"
    BY <1>7 DEF IInv, TypeOK, HeldIsFor, Create, Startable, Keys, Kinds
  <2>2. role' \in [Workers -> {"client", "server", "producer"}] /\ role'[w] \in {"client", "server", "producer"}
    BY <1>7, <2>1 DEF Create, IInv, TypeOK, Modes
  <2>3. /\ slots' \in [Keys -> Workers \cup {NoWorker}]
        /\ owner' \in [Workers -> Keys] /\ stop' \in [Workers -> BOOLEAN]
    BY <1>7 DEF Create, IInv, TypeOK
  <2>4. told' \in [Workers -> 0..EnoughEvents]
    BY <1>7 DEF Create, IInv, TypeOK, EnoughEvents
  <2>5. state' \in [Workers -> Active \cup Final \cup {"free"}]
    BY <1>7 DEF Create, IInv, TypeOK
  <2> QED BY <1>7, <2>2, <2>3, <2>4, <2>5 DEF Create, Goes, IInv, TypeOK
<1>8. CASE Announce
  <2>1. held \in Workers /\ told' = [told EXCEPT ![held] = Count(told[held])]
    BY <1>8 DEF IInv, HeldIsFor, Announce, Tell
  <2>2. told' \in [Workers -> 0..EnoughEvents]
    BY <2>1, CountBounds DEF IInv, TypeOK
  <2> QED BY <1>8, <2>2 DEF IInv, TypeOK, Announce, Goes
<1>9. CASE Spawn
  BY <1>9 DEF IInv, TypeOK, HeldIsFor, Spawn, Goes
<1>10. CASE SpawnFails
  BY <1>10 DEF IInv, TypeOK, HeldIsFor, SpawnFails, Erase, Drop, Goes
<1>11. CASE RequestStop
  <2>1. CASE slots[key] = NoWorker \/ ~Stoppable(slots[key])
    BY <1>11, <2>1 DEF RequestStop, AfterStop, Goes, IInv, TypeOK
  <2>2. CASE slots[key] # NoWorker /\ Stoppable(slots[key])
    <3>1. slots[key] \in Workers
      BY <2>2 DEF IInv, TypeOK
    <3> QED BY <1>11, <2>2, <3>1 DEF RequestStop, Goes, IInv, TypeOK
  <2> QED BY <2>1, <2>2
<1>12. CASE AnnounceStop
  <2>1. held \in Workers /\ told' = [told EXCEPT ![held] = Count(told[held])]
    BY <1>12 DEF IInv, HeldIsFor, AnnounceStop, Tell
  <2>2. told' \in [Workers -> 0..EnoughEvents]
    BY <2>1, CountBounds DEF IInv, TypeOK
  <2> QED BY <1>12, <2>2 DEF IInv, TypeOK, AnnounceStop, Goes, AfterStop
<1>13. CASE Remove
  <2>1. CASE slots[key] = NoWorker
    BY <1>13, <2>1 DEF Remove, Goes, IInv, TypeOK
  <2>2. CASE slots[key] # NoWorker
    <3>1. slots[key] \in Workers
      BY <2>2 DEF IInv, TypeOK
    <3> QED BY <1>13, <2>2, <3>1 DEF Remove, Goes, IInv, TypeOK
  <2> QED BY <2>1, <2>2
<1>14. CASE RemoveJoin
  BY <1>14 DEF IInv, TypeOK, HeldIsFor, RemoveJoin, Joined, Erase, Drop, Goes
<1>15. CASE CloseJoins
  BY <1>15 DEF IInv, TypeOK, HeldIsFor, CloseJoins, Joined, Goes
<1>16. ASSUME NEW w \in Workers, Begin(w) PROVE TypeOK'
  BY <1>16 DEF IInv, TypeOK, HeldIsFor, Begin, Transition, WorkerOnly
<1>17. ASSUME NEW w \in Workers, Connect(w) PROVE TypeOK'
  BY <1>17 DEF IInv, TypeOK, HeldIsFor, Connect, Transition, WorkerOnly
<1>18. ASSUME NEW w \in Workers, Finish(w) PROVE TypeOK'
  BY <1>18 DEF IInv, TypeOK, HeldIsFor, Finish, Transition, WorkerOnly
<1>19. ASSUME NEW w \in Workers, Stop(w) PROVE TypeOK'
  BY <1>19 DEF IInv, TypeOK, HeldIsFor, Stop, Transition, WorkerOnly
<1>20. ASSUME NEW w \in Workers, Fail(w) PROVE TypeOK'
  BY <1>20 DEF IInv, TypeOK, HeldIsFor, Fail, Transition, WorkerOnly
<1>21. ASSUME NEW w \in Workers, Publish(w) PROVE TypeOK'
  <2>1. told' = [told EXCEPT ![w] = Count(told[w])]
    BY <1>21 DEF Publish, Tell
  <2>2. told' \in [Workers -> 0..EnoughEvents]
    BY <2>1, CountBounds DEF IInv, TypeOK
  <2> QED BY <1>21, <2>2 DEF IInv, TypeOK, Publish, WorkerOnly
<1>22. CASE UNCHANGED vars
  BY <1>22 DEF IInv, TypeOK, HeldIsFor
<1> QED
  BY <1>1, <1>2, <1>3, <1>4, <1>5, <1>6, <1>7, <1>8, <1>9, <1>10, <1>11, <1>12, <1>13,
     <1>14, <1>15, <1>16, <1>17, <1>18, <1>19, <1>20, <1>21, <1>22
     DEF Next, ControlStep, WorkerStep

\* A slot keeps a worker of its key.
LEMMA SlotsOwnedStep ==
    ASSUME IInv, [Next]_vars
    PROVE  SlotsOwned'
<1> USE DEF vars, workerVars
<1>1. ASSUME NEW o \in {"start", "stop", "restart"}, NEW k \in Keys, Request(o, k) PROVE SlotsOwned'
  BY <1>1 DEF IInv, TypeOK, SlotsOwned, HeldIsFor, Request
<1>2. CASE ReplaceConfiguration
  BY <1>2 DEF IInv, TypeOK, SlotsOwned, HeldIsFor, ReplaceConfiguration
<1>3. CASE Close
  BY <1>3 DEF IInv, TypeOK, SlotsOwned, HeldIsFor, Close, Goes
<1>4. CASE Lookup
  BY <1>4 DEF IInv, TypeOK, SlotsOwned, HeldIsFor, Lookup, Goes
<1>5. CASE Release
  BY <1>5 DEF IInv, TypeOK, SlotsOwned, HeldIsFor, Release, Busy, Goes
<1>6. CASE ReleaseJoin
  BY <1>6 DEF IInv, TypeOK, SlotsOwned, HeldIsFor, ReleaseJoin, Joined, Drop, Goes
<1>7. ASSUME NEW w \in Workers, Create(w) PROVE SlotsOwned'
  BY <1>7 DEF IInv, TypeOK, SlotsOwned, HeldIsFor, Create, Goes
<1>8. CASE Announce
  BY <1>8 DEF IInv, TypeOK, SlotsOwned, HeldIsFor, Announce, Tell, Goes
<1>9. CASE Spawn
  BY <1>9 DEF IInv, TypeOK, SlotsOwned, HeldIsFor, Spawn, Goes
<1>10. CASE SpawnFails
  BY <1>10 DEF IInv, TypeOK, SlotsOwned, HeldIsFor, SpawnFails, Erase, Drop, Goes
<1>11. CASE RequestStop
  BY <1>11 DEF IInv, TypeOK, SlotsOwned, HeldIsFor, RequestStop, Stoppable, AfterStop, Goes
<1>12. CASE AnnounceStop
  BY <1>12 DEF IInv, TypeOK, SlotsOwned, HeldIsFor, AnnounceStop, Tell, AfterStop, Goes
<1>13. CASE Remove
  BY <1>13 DEF IInv, TypeOK, SlotsOwned, HeldIsFor, Remove, Goes
<1>14. CASE RemoveJoin
  BY <1>14 DEF IInv, TypeOK, SlotsOwned, HeldIsFor, RemoveJoin, Joined, Erase, Drop, Goes
<1>15. CASE CloseJoins
  BY <1>15 DEF IInv, TypeOK, SlotsOwned, HeldIsFor, CloseJoins, Joined, Goes
<1>16. ASSUME NEW w \in Workers, Begin(w) PROVE SlotsOwned'
  BY <1>16 DEF IInv, TypeOK, SlotsOwned, HeldIsFor, Begin, Transition, WorkerOnly
<1>17. ASSUME NEW w \in Workers, Connect(w) PROVE SlotsOwned'
  BY <1>17 DEF IInv, TypeOK, SlotsOwned, HeldIsFor, Connect, Transition, WorkerOnly
<1>18. ASSUME NEW w \in Workers, Finish(w) PROVE SlotsOwned'
  BY <1>18 DEF IInv, TypeOK, SlotsOwned, HeldIsFor, Finish, Transition, WorkerOnly
<1>19. ASSUME NEW w \in Workers, Stop(w) PROVE SlotsOwned'
  BY <1>19 DEF IInv, TypeOK, SlotsOwned, HeldIsFor, Stop, Transition, WorkerOnly
<1>20. ASSUME NEW w \in Workers, Fail(w) PROVE SlotsOwned'
  BY <1>20 DEF IInv, TypeOK, SlotsOwned, HeldIsFor, Fail, Transition, WorkerOnly
<1>21. ASSUME NEW w \in Workers, Publish(w) PROVE SlotsOwned'
  BY <1>21 DEF IInv, TypeOK, SlotsOwned, HeldIsFor, Publish, Tell, WorkerOnly
<1>22. CASE UNCHANGED vars
  BY <1>22 DEF IInv, TypeOK, SlotsOwned, HeldIsFor
<1> QED
  BY <1>1, <1>2, <1>3, <1>4, <1>5, <1>6, <1>7, <1>8, <1>9, <1>10, <1>11, <1>12, <1>13,
     <1>14, <1>15, <1>16, <1>17, <1>18, <1>19, <1>20, <1>21, <1>22
     DEF Next, ControlStep, WorkerStep

\* No worker gets lost.
LEMMA WorkersKeptStep ==
    ASSUME IInv, [Next]_vars
    PROVE  WorkersKept'
<1> USE DEF vars, workerVars
<1>1. ASSUME NEW o \in {"start", "stop", "restart"}, NEW k \in Keys, Request(o, k) PROVE WorkersKept'
  BY <1>1 DEF IInv, TypeOK, SlotsOwned, WorkersKept, StateOfThread, HeldIsFor, Request
<1>2. CASE ReplaceConfiguration
  BY <1>2 DEF IInv, TypeOK, SlotsOwned, WorkersKept, StateOfThread, HeldIsFor, ReplaceConfiguration
<1>3. CASE Close
  BY <1>3 DEF IInv, TypeOK, SlotsOwned, WorkersKept, StateOfThread, HeldIsFor, Close, Goes
<1>4. CASE Lookup
  BY <1>4 DEF IInv, TypeOK, SlotsOwned, WorkersKept, StateOfThread, HeldIsFor, Lookup, Goes
<1>5. CASE Release
  BY <1>5 DEF IInv, TypeOK, SlotsOwned, WorkersKept, StateOfThread, HeldIsFor, Release, Busy, Goes
<1>6. CASE ReleaseJoin
  <2>1. /\ held \in Workers /\ ~Alive(held) /\ Drop(held)
    BY <1>6 DEF ReleaseJoin, Joined, Alive, IInv, HeldIsFor
  <2>2. \A k \in Keys : slots'[k] # held
    BY <1>6 DEF ReleaseJoin, Erase, IInv, TypeOK, SlotsOwned, HeldIsFor
  <2>3. /\ state' = [state EXCEPT ![held] = "free"] /\ pc' = [pc EXCEPT ![held] = "unborn"]
        /\ held' = NoWorker /\ UNCHANGED <<owner, role, next, stop, told>>
    BY <2>1, <2>2, DropDestroys
  <2> QED BY <1>6, <2>1, <2>2, <2>3 DEF IInv, TypeOK, SlotsOwned, WorkersKept, StateOfThread,
       HeldIsFor, ReleaseJoin, Erase, Goes
<1>7. ASSUME NEW w \in Workers, Create(w) PROVE WorkersKept'
  BY <1>7 DEF IInv, TypeOK, SlotsOwned, WorkersKept, StateOfThread, HeldIsFor, Create, Goes
<1>8. CASE Announce
  BY <1>8 DEF IInv, TypeOK, SlotsOwned, WorkersKept, StateOfThread, HeldIsFor, Announce, Tell, Goes
<1>9. CASE Spawn
  BY <1>9 DEF IInv, TypeOK, SlotsOwned, WorkersKept, StateOfThread, HeldIsFor, Spawn, Goes
<1>10. CASE SpawnFails
  <2>1. /\ held \in Workers /\ ~Alive(held) /\ Drop(held)
    BY <1>10 DEF SpawnFails, Joined, Alive, IInv, HeldIsFor
  <2>2. \A k \in Keys : slots'[k] # held
    BY <1>10 DEF SpawnFails, Erase, IInv, TypeOK, SlotsOwned, HeldIsFor
  <2>3. /\ state' = [state EXCEPT ![held] = "free"] /\ pc' = [pc EXCEPT ![held] = "unborn"]
        /\ held' = NoWorker /\ UNCHANGED <<owner, role, next, stop, told>>
    BY <2>1, <2>2, DropDestroys
  <2> QED BY <1>10, <2>1, <2>2, <2>3 DEF IInv, TypeOK, SlotsOwned, WorkersKept, StateOfThread,
       HeldIsFor, SpawnFails, Erase, Goes
<1>11. CASE RequestStop
  BY <1>11 DEF IInv, TypeOK, SlotsOwned, WorkersKept, StateOfThread, HeldIsFor, RequestStop,
       Stoppable, AfterStop, Goes
<1>12. CASE AnnounceStop
  BY <1>12 DEF IInv, TypeOK, SlotsOwned, WorkersKept, StateOfThread, HeldIsFor, AnnounceStop,
       Tell, AfterStop, Goes
<1>13. CASE Remove
  BY <1>13 DEF IInv, TypeOK, SlotsOwned, WorkersKept, StateOfThread, HeldIsFor, Remove, Goes
<1>14. CASE RemoveJoin
  <2>1. /\ held \in Workers /\ ~Alive(held) /\ Drop(held)
    BY <1>14 DEF RemoveJoin, Joined, Alive, IInv, HeldIsFor
  <2>2. \A k \in Keys : slots'[k] # held
    BY <1>14 DEF RemoveJoin, Erase, IInv, TypeOK, SlotsOwned, HeldIsFor
  <2>3. /\ state' = [state EXCEPT ![held] = "free"] /\ pc' = [pc EXCEPT ![held] = "unborn"]
        /\ held' = NoWorker /\ UNCHANGED <<owner, role, next, stop, told>>
    BY <2>1, <2>2, DropDestroys
  <2> QED BY <1>14, <2>1, <2>2, <2>3 DEF IInv, TypeOK, SlotsOwned, WorkersKept, StateOfThread,
       HeldIsFor, RemoveJoin, Erase, Goes
<1>15. CASE CloseJoins
  BY <1>15 DEF IInv, TypeOK, SlotsOwned, WorkersKept, StateOfThread, HeldIsFor, CloseJoins,
       Joined, Goes
<1>16. ASSUME NEW w \in Workers, Begin(w) PROVE WorkersKept'
  BY <1>16 DEF IInv, TypeOK, SlotsOwned, WorkersKept, StateOfThread, HeldIsFor, Begin,
       Transition, WorkerOnly
<1>17. ASSUME NEW w \in Workers, Connect(w) PROVE WorkersKept'
  BY <1>17 DEF IInv, TypeOK, SlotsOwned, WorkersKept, StateOfThread, HeldIsFor, Connect,
       Transition, WorkerOnly
<1>18. ASSUME NEW w \in Workers, Finish(w) PROVE WorkersKept'
  BY <1>18 DEF IInv, TypeOK, SlotsOwned, WorkersKept, StateOfThread, HeldIsFor, Finish,
       Transition, WorkerOnly
<1>19. ASSUME NEW w \in Workers, Stop(w) PROVE WorkersKept'
  BY <1>19 DEF IInv, TypeOK, SlotsOwned, WorkersKept, StateOfThread, HeldIsFor, Stop,
       Transition, WorkerOnly
<1>20. ASSUME NEW w \in Workers, Fail(w) PROVE WorkersKept'
  BY <1>20 DEF IInv, TypeOK, SlotsOwned, WorkersKept, StateOfThread, HeldIsFor, Fail,
       Transition, WorkerOnly
<1>21. ASSUME NEW w \in Workers, Publish(w) PROVE WorkersKept'
  BY <1>21 DEF IInv, TypeOK, SlotsOwned, WorkersKept, StateOfThread, HeldIsFor, Publish, Tell,
       WorkerOnly
<1>22. CASE UNCHANGED vars
  BY <1>22 DEF IInv, TypeOK, SlotsOwned, WorkersKept, StateOfThread, HeldIsFor
<1> QED
  BY <1>1, <1>2, <1>3, <1>4, <1>5, <1>6, <1>7, <1>8, <1>9, <1>10, <1>11, <1>12, <1>13,
     <1>14, <1>15, <1>16, <1>17, <1>18, <1>19, <1>20, <1>21, <1>22
     DEF Next, ControlStep, WorkerStep

\* Threads and states go together.
LEMMA StateOfThreadStep ==
    ASSUME IInv, [Next]_vars
    PROVE  StateOfThread'
<1> USE DEF vars, workerVars, Active, Final
<1>1. ASSUME NEW o \in {"start", "stop", "restart"}, NEW k \in Keys, Request(o, k) PROVE StateOfThread'
  BY <1>1 DEF IInv, TypeOK, StateOfThread, HeldIsFor, Request
<1>2. CASE ReplaceConfiguration
  BY <1>2 DEF IInv, TypeOK, StateOfThread, HeldIsFor, ReplaceConfiguration
<1>3. CASE Close
  BY <1>3 DEF IInv, TypeOK, StateOfThread, HeldIsFor, Close, Goes
<1>4. CASE Lookup
  BY <1>4 DEF IInv, TypeOK, StateOfThread, HeldIsFor, Lookup, Goes
<1>5. CASE Release
  BY <1>5 DEF IInv, TypeOK, StateOfThread, HeldIsFor, Release, Busy, Goes
<1>6. CASE ReleaseJoin
  BY <1>6 DEF IInv, TypeOK, StateOfThread, HeldIsFor, ReleaseJoin, Joined, Drop, Goes
<1>7. ASSUME NEW w \in Workers, Create(w) PROVE StateOfThread'
  BY <1>7 DEF IInv, TypeOK, StateOfThread, HeldIsFor, Create, Goes
<1>8. CASE Announce
  BY <1>8 DEF IInv, TypeOK, StateOfThread, HeldIsFor, Announce, Tell, Goes
<1>9. CASE Spawn
  BY <1>9 DEF IInv, TypeOK, StateOfThread, HeldIsFor, Spawn, Goes
<1>10. CASE SpawnFails
  BY <1>10 DEF IInv, TypeOK, StateOfThread, HeldIsFor, SpawnFails, Erase, Drop, Goes
<1>11. CASE RequestStop
  BY <1>11 DEF IInv, TypeOK, StateOfThread, HeldIsFor, RequestStop, Stoppable, AfterStop, Goes
<1>12. CASE AnnounceStop
  BY <1>12 DEF IInv, TypeOK, StateOfThread, HeldIsFor, AnnounceStop, Tell, AfterStop, Goes
<1>13. CASE Remove
  BY <1>13 DEF IInv, TypeOK, StateOfThread, HeldIsFor, Remove, Goes
<1>14. CASE RemoveJoin
  BY <1>14 DEF IInv, TypeOK, StateOfThread, HeldIsFor, RemoveJoin, Joined, Erase, Drop, Goes
<1>15. CASE CloseJoins
  BY <1>15 DEF IInv, TypeOK, StateOfThread, HeldIsFor, CloseJoins, Joined, Goes
<1>16. ASSUME NEW w \in Workers, Begin(w) PROVE StateOfThread'
  BY <1>16 DEF IInv, TypeOK, StateOfThread, HeldIsFor, Begin, Transition, WorkerOnly
<1>17. ASSUME NEW w \in Workers, Connect(w) PROVE StateOfThread'
  BY <1>17 DEF IInv, TypeOK, StateOfThread, HeldIsFor, Connect, Transition, WorkerOnly
<1>18. ASSUME NEW w \in Workers, Finish(w) PROVE StateOfThread'
  BY <1>18 DEF IInv, TypeOK, StateOfThread, HeldIsFor, Finish, Transition, WorkerOnly
<1>19. ASSUME NEW w \in Workers, Stop(w) PROVE StateOfThread'
  BY <1>19 DEF IInv, TypeOK, StateOfThread, HeldIsFor, Stop, Transition, WorkerOnly
<1>20. ASSUME NEW w \in Workers, Fail(w) PROVE StateOfThread'
  BY <1>20 DEF IInv, TypeOK, StateOfThread, HeldIsFor, Fail, Transition, WorkerOnly
<1>21. ASSUME NEW w \in Workers, Publish(w) PROVE StateOfThread'
  BY <1>21 DEF IInv, TypeOK, StateOfThread, HeldIsFor, Publish, Tell, WorkerOnly
<1>22. CASE UNCHANGED vars
  BY <1>22 DEF IInv, TypeOK, StateOfThread, HeldIsFor
<1> QED
  BY <1>1, <1>2, <1>3, <1>4, <1>5, <1>6, <1>7, <1>8, <1>9, <1>10, <1>11, <1>12, <1>13,
     <1>14, <1>15, <1>16, <1>17, <1>18, <1>19, <1>20, <1>21, <1>22
     DEF Next, ControlStep, WorkerStep

\* Only a new worker has no thread.
LEMMA UnbornIsNewStep ==
    ASSUME IInv, [Next]_vars
    PROVE  UnbornIsNew'
<1> USE DEF vars, workerVars
<1>1. ASSUME NEW o \in {"start", "stop", "restart"}, NEW k \in Keys, Request(o, k) PROVE UnbornIsNew'
  BY <1>1 DEF IInv, TypeOK, StateOfThread, UnbornIsNew, HeldIsFor, Request
<1>2. CASE ReplaceConfiguration
  BY <1>2 DEF IInv, TypeOK, StateOfThread, UnbornIsNew, HeldIsFor, ReplaceConfiguration
<1>3. CASE Close
  BY <1>3 DEF IInv, TypeOK, StateOfThread, UnbornIsNew, HeldIsFor, Close, Goes
<1>4. CASE Lookup
  BY <1>4 DEF IInv, TypeOK, StateOfThread, UnbornIsNew, HeldIsFor, Lookup, Goes
<1>5. CASE Release
  BY <1>5 DEF IInv, TypeOK, StateOfThread, UnbornIsNew, HeldIsFor, Release, Busy, Goes
<1>6. CASE ReleaseJoin
  <2>1. /\ held \in Workers /\ ~Alive(held) /\ Drop(held)
    BY <1>6 DEF ReleaseJoin, Joined, Alive, IInv, HeldIsFor
  <2>2. \A k \in Keys : slots'[k] # held
    BY <1>6 DEF ReleaseJoin, Erase, IInv, TypeOK, SlotsOwned, HeldIsFor
  <2>3. /\ state' = [state EXCEPT ![held] = "free"] /\ pc' = [pc EXCEPT ![held] = "unborn"]
        /\ held' = NoWorker /\ UNCHANGED <<owner, role, next, stop, told>>
    BY <2>1, <2>2, DropDestroys
  <2> QED BY <1>6, <2>1, <2>2, <2>3 DEF IInv, TypeOK, UnbornIsNew, HeldIsFor, ReleaseJoin,
       Erase, Goes
<1>7. ASSUME NEW w \in Workers, Create(w) PROVE UnbornIsNew'
  BY <1>7 DEF IInv, TypeOK, StateOfThread, UnbornIsNew, HeldIsFor, Create, Goes
<1>8. CASE Announce
  BY <1>8 DEF IInv, TypeOK, StateOfThread, UnbornIsNew, HeldIsFor, Announce, Tell, Goes
<1>9. CASE Spawn
  BY <1>9 DEF IInv, TypeOK, StateOfThread, UnbornIsNew, HeldIsFor, Spawn, Goes
<1>10. CASE SpawnFails
  <2>1. /\ held \in Workers /\ ~Alive(held) /\ Drop(held)
    BY <1>10 DEF SpawnFails, Joined, Alive, IInv, HeldIsFor
  <2>2. \A k \in Keys : slots'[k] # held
    BY <1>10 DEF SpawnFails, Erase, IInv, TypeOK, SlotsOwned, HeldIsFor
  <2>3. /\ state' = [state EXCEPT ![held] = "free"] /\ pc' = [pc EXCEPT ![held] = "unborn"]
        /\ held' = NoWorker /\ UNCHANGED <<owner, role, next, stop, told>>
    BY <2>1, <2>2, DropDestroys
  <2> QED BY <1>10, <2>1, <2>2, <2>3 DEF IInv, TypeOK, UnbornIsNew, HeldIsFor, SpawnFails,
       Erase, Goes
<1>11. CASE RequestStop
  <2>1. CASE slots[key] = NoWorker \/ ~Stoppable(slots[key])
    BY <1>11, <2>1 DEF RequestStop, IInv, UnbornIsNew
  <2>2. CASE slots[key] # NoWorker /\ Stoppable(slots[key])
    <3>1. /\ slots[key] \in Workers /\ state[slots[key]] # "free" /\ pc' = pc /\ cpc = "request"
          /\ state' = [state EXCEPT ![slots[key]] = "stopping"]
      BY <1>11, <2>2 DEF RequestStop, IInv, TypeOK, SlotsOwned
    <3>2. \A w \in Workers : state'[w] # "free" => state[w] # "free"
      BY <3>1 DEF IInv, TypeOK
    <3> QED BY <3>1, <3>2 DEF IInv, UnbornIsNew
  <2> QED BY <2>1, <2>2
<1>12. CASE AnnounceStop
  BY <1>12 DEF IInv, TypeOK, StateOfThread, UnbornIsNew, HeldIsFor, AnnounceStop, Tell,
       AfterStop, Goes
<1>13. CASE Remove
  BY <1>13 DEF IInv, TypeOK, StateOfThread, UnbornIsNew, HeldIsFor, Remove, Goes
<1>14. CASE RemoveJoin
  <2>1. /\ held \in Workers /\ ~Alive(held) /\ Drop(held)
    BY <1>14 DEF RemoveJoin, Joined, Alive, IInv, HeldIsFor
  <2>2. \A k \in Keys : slots'[k] # held
    BY <1>14 DEF RemoveJoin, Erase, IInv, TypeOK, SlotsOwned, HeldIsFor
  <2>3. /\ state' = [state EXCEPT ![held] = "free"] /\ pc' = [pc EXCEPT ![held] = "unborn"]
        /\ held' = NoWorker /\ UNCHANGED <<owner, role, next, stop, told>>
    BY <2>1, <2>2, DropDestroys
  <2> QED BY <1>14, <2>1, <2>2, <2>3 DEF IInv, TypeOK, UnbornIsNew, HeldIsFor, RemoveJoin,
       Erase, Goes
<1>15. CASE CloseJoins
  BY <1>15 DEF IInv, TypeOK, StateOfThread, UnbornIsNew, HeldIsFor, CloseJoins, Joined, Goes
<1>16. ASSUME NEW w \in Workers, Begin(w) PROVE UnbornIsNew'
  BY <1>16 DEF IInv, TypeOK, StateOfThread, UnbornIsNew, HeldIsFor, Begin, Transition, WorkerOnly
<1>17. ASSUME NEW w \in Workers, Connect(w) PROVE UnbornIsNew'
  BY <1>17 DEF IInv, TypeOK, StateOfThread, UnbornIsNew, HeldIsFor, Connect, Transition, WorkerOnly
<1>18. ASSUME NEW w \in Workers, Finish(w) PROVE UnbornIsNew'
  BY <1>18 DEF IInv, TypeOK, StateOfThread, UnbornIsNew, HeldIsFor, Finish, Transition, WorkerOnly
<1>19. ASSUME NEW w \in Workers, Stop(w) PROVE UnbornIsNew'
  BY <1>19 DEF IInv, TypeOK, StateOfThread, UnbornIsNew, HeldIsFor, Stop, Transition, WorkerOnly
<1>20. ASSUME NEW w \in Workers, Fail(w) PROVE UnbornIsNew'
  BY <1>20 DEF IInv, TypeOK, StateOfThread, UnbornIsNew, HeldIsFor, Fail, Transition, WorkerOnly
<1>21. ASSUME NEW w \in Workers, Publish(w) PROVE UnbornIsNew'
  BY <1>21 DEF IInv, TypeOK, StateOfThread, UnbornIsNew, HeldIsFor, Publish, Tell, WorkerOnly
<1>22. CASE UNCHANGED vars
  BY <1>22 DEF IInv, TypeOK, StateOfThread, UnbornIsNew, HeldIsFor
<1> QED
  BY <1>1, <1>2, <1>3, <1>4, <1>5, <1>6, <1>7, <1>8, <1>9, <1>10, <1>11, <1>12, <1>13,
     <1>14, <1>15, <1>16, <1>17, <1>18, <1>19, <1>20, <1>21, <1>22
     DEF Next, ControlStep, WorkerStep

\* The control thread holds what it deals with.
LEMMA HeldIsForStep ==
    ASSUME IInv, [Next]_vars
    PROVE  HeldIsFor'
<1> USE DEF vars, workerVars, Active, Final
<1>1. ASSUME NEW o \in {"start", "stop", "restart"}, NEW k \in Keys, Request(o, k) PROVE HeldIsFor'
  BY <1>1 DEF IInv, TypeOK, SlotsOwned, StateOfThread, HeldIsFor, Startable, Request
<1>2. CASE ReplaceConfiguration
  BY <1>2 DEF IInv, TypeOK, SlotsOwned, StateOfThread, HeldIsFor, Startable, ReplaceConfiguration
<1>3. CASE Close
  BY <1>3 DEF IInv, TypeOK, SlotsOwned, StateOfThread, HeldIsFor, Startable, Close, Goes
<1>4. CASE Lookup
  BY <1>4 DEF IInv, TypeOK, SlotsOwned, StateOfThread, HeldIsFor, Startable, Lookup, Goes
<1>5. CASE Release
  BY <1>5 DEF IInv, TypeOK, SlotsOwned, StateOfThread, HeldIsFor, Startable, Release, Busy, Goes
<1>6. CASE ReleaseJoin
  BY <1>6 DEF IInv, TypeOK, SlotsOwned, StateOfThread, HeldIsFor, Startable, ReleaseJoin,
       Joined, Drop, Goes
<1>7. ASSUME NEW w \in Workers, Create(w) PROVE HeldIsFor'
  BY <1>7 DEF IInv, TypeOK, SlotsOwned, StateOfThread, HeldIsFor, Startable, Create, Goes
<1>8. CASE Announce
  BY <1>8 DEF IInv, TypeOK, SlotsOwned, StateOfThread, HeldIsFor, Startable, Announce, Tell, Goes
<1>9. CASE Spawn
  BY <1>9 DEF IInv, TypeOK, SlotsOwned, StateOfThread, HeldIsFor, Startable, Spawn, Goes
<1>10. CASE SpawnFails
  BY <1>10 DEF IInv, TypeOK, SlotsOwned, StateOfThread, HeldIsFor, Startable, SpawnFails, Erase,
       Drop, Goes
<1>11. CASE RequestStop
  BY <1>11 DEF IInv, TypeOK, SlotsOwned, StateOfThread, HeldIsFor, Startable, RequestStop,
       Stoppable, AfterStop, Goes
<1>12. CASE AnnounceStop
  BY <1>12 DEF IInv, TypeOK, SlotsOwned, StateOfThread, HeldIsFor, Startable, AnnounceStop,
       Tell, AfterStop, Goes
<1>13. CASE Remove
  BY <1>13 DEF IInv, TypeOK, SlotsOwned, StateOfThread, HeldIsFor, Startable, Remove, Goes
<1>14. CASE RemoveJoin
  BY <1>14 DEF IInv, TypeOK, SlotsOwned, StateOfThread, HeldIsFor, Startable, RemoveJoin,
       Joined, Erase, Drop, Goes
<1>15. CASE CloseJoins
  BY <1>15 DEF IInv, TypeOK, SlotsOwned, StateOfThread, HeldIsFor, Startable, CloseJoins,
       Joined, Goes
<1>16. ASSUME NEW w \in Workers, Begin(w) PROVE HeldIsFor'
  BY <1>16 DEF IInv, TypeOK, SlotsOwned, StateOfThread, HeldIsFor, Startable, Begin, Transition,
       WorkerOnly
<1>17. ASSUME NEW w \in Workers, Connect(w) PROVE HeldIsFor'
  BY <1>17 DEF IInv, TypeOK, SlotsOwned, StateOfThread, HeldIsFor, Startable, Connect,
       Transition, WorkerOnly
<1>18. ASSUME NEW w \in Workers, Finish(w) PROVE HeldIsFor'
  BY <1>18 DEF IInv, TypeOK, SlotsOwned, StateOfThread, HeldIsFor, Startable, Finish,
       Transition, WorkerOnly
<1>19. ASSUME NEW w \in Workers, Stop(w) PROVE HeldIsFor'
  BY <1>19 DEF IInv, TypeOK, SlotsOwned, StateOfThread, HeldIsFor, Startable, Stop, Transition,
       WorkerOnly
<1>20. ASSUME NEW w \in Workers, Fail(w) PROVE HeldIsFor'
  BY <1>20 DEF IInv, TypeOK, SlotsOwned, StateOfThread, HeldIsFor, Startable, Fail, Transition,
       WorkerOnly
<1>21. ASSUME NEW w \in Workers, Publish(w) PROVE HeldIsFor'
  BY <1>21 DEF IInv, TypeOK, SlotsOwned, StateOfThread, HeldIsFor, Startable, Publish, Tell,
       WorkerOnly
<1>22. CASE UNCHANGED vars
  BY <1>22 DEF IInv, TypeOK, SlotsOwned, StateOfThread, HeldIsFor, Startable
<1> QED
  BY <1>1, <1>2, <1>3, <1>4, <1>5, <1>6, <1>7, <1>8, <1>9, <1>10, <1>11, <1>12, <1>13,
     <1>14, <1>15, <1>16, <1>17, <1>18, <1>19, <1>20, <1>21, <1>22
     DEF Next, ControlStep, WorkerStep

-----------------------------------------------------------------------------
\* The invariant holds in every reachable state.
THEOREM Invariance == Spec => []IInv
<1>1. Init => IInv
  <2> SUFFICES ASSUME Init PROVE IInv
    OBVIOUS
  <2>1. /\ mode \in [Aliases -> Modes] /\ slots \in [Keys -> Workers \cup {NoWorker}]
        /\ state \in [Workers -> Active \cup Final \cup {"free"}]
        /\ owner \in [Workers -> Keys]
    BY DEF Init
  <2>2. /\ role \in [Workers -> {"client", "server", "producer"}]
        /\ pc \in [Workers -> {"unborn", "entry", "connecting", "working", "publish", "done"}]
        /\ next \in [Workers -> {"working", "done"}] /\ stop \in [Workers -> BOOLEAN]
        /\ told \in [Workers -> 0..EnoughEvents]
    BY DEF Init, EnoughEvents
  <2>3. TypeOK
    BY <2>1, <2>2 DEF Init, TypeOK, ControlPlaces
  <2>4. SlotsOwned /\ WorkersKept /\ StateOfThread /\ UnbornIsNew /\ HeldIsFor
    BY DEF Init, SlotsOwned, WorkersKept, StateOfThread, UnbornIsNew, HeldIsFor
  <2> QED BY <2>3, <2>4 DEF IInv
<1>2. IInv /\ [Next]_vars => IInv'
  BY TypeStep, SlotsOwnedStep, WorkersKeptStep, StateOfThreadStep, UnbornIsNewStep, HeldIsForStep
     DEF IInv
<1> QED BY <1>1, <1>2, PTL DEF Spec, Safety

\* Every variable keeps its type; in particular, no worker is made from an
\* alias without a definition.
THEOREM TypeCorrect == Spec => []TypeOK
<1>1. IInv => TypeOK
  BY DEF IInv
<1> QED BY <1>1, Invariance, PTL

\* Every thread that runs can be found: the map of workers never loses one.
THEOREM NoOrphans == Spec => []NoOrphan
<1>1. IInv => NoOrphan
  BY DEF IInv, NoOrphan, Alive, WorkersKept, StateOfThread
<1> QED BY <1>1, Invariance, PTL

\* A key has one thread at a time, whatever the order of starts, stops,
\* restarts, failures and configuration changes.
THEOREM OneThread == Spec => []OneThreadPerKey
<1>1. IInv => OneThreadPerKey
  <2> SUFFICES ASSUME IInv, NEW v \in Workers, NEW w \in Workers, Alive(v), Alive(w), owner[v] = owner[w]
               PROVE  v = w
    BY DEF OneThreadPerKey
  <2>1. /\ slots[owner[v]] = v \/ (cpc = "releaseJoin" /\ held = v)
        /\ slots[owner[w]] = w \/ (cpc = "releaseJoin" /\ held = w)
    BY DEF IInv, Alive, WorkersKept, StateOfThread
  <2>2. cpc = "releaseJoin" => slots[owner[held]] = NoWorker
    BY DEF IInv, HeldIsFor
  <2> QED BY <2>1, <2>2
<1> QED BY <1>1, Invariance, PTL

\* "already active" is never reported of a worker whose thread is over.
THEOREM ActiveIsAlive == Spec => []ActiveMeansAlive
<1>1. IInv => ActiveMeansAlive
  <2> SUFFICES ASSUME IInv, NEW k \in Keys, slots[k] # NoWorker, state[slots[k]] \in Active
               PROVE  \/ Alive(slots[k]) /\ ~(pc[slots[k]] = "publish" /\ next[slots[k]] = "done")
                      \/ cpc \in {"announce", "spawn"} /\ held = slots[k]
    BY DEF ActiveMeansAlive
  <2>1. slots[k] \in Workers
    BY DEF IInv, TypeOK
  <2>2. state[slots[k]] # "free" /\ state[slots[k]] \notin Final
    BY DEF Active, Final
  <2> QED BY <2>1, <2>2 DEF IInv, StateOfThread, UnbornIsNew, Alive
<1> QED BY <1>1, Invariance, PTL

\* A step of the supervisor or of a worker leaves what is final alone.
LEMMA FinalStep ==
    ASSUME IInv, [Next]_vars, NEW w \in Workers, state[w] \in Final
    PROVE  state'[w] \in {state[w], "free"}
<1> USE DEF vars, workerVars, IInv, TypeOK
<1>1. CASE UNCHANGED state
  BY <1>1
<1>2. CASE RequestStop
  BY <1>2 DEF RequestStop, Stoppable
<1>3. CASE ReleaseJoin \/ SpawnFails \/ RemoveJoin
  BY <1>3 DEF ReleaseJoin, SpawnFails, RemoveJoin, Drop
<1>4. ASSUME NEW v \in Workers, Create(v) PROVE state'[w] \in {state[w], "free"}
  BY <1>4 DEF Create, Final
<1>5. CASE CloseJoins
  BY <1>5 DEF CloseJoins
<1>6. ASSUME NEW v \in Workers, pc[v] \in {"entry", "connecting", "working"},
             NEW s, NEW where, Transition(v, s, where)
      PROVE  state'[w] \in {state[w], "free"}
  <2>1. v # w
    BY <1>6 DEF StateOfThread, Active, Final
  <2> QED BY <1>6, <2>1 DEF Transition
<1>7. ASSUME NEW v \in Workers, WorkerStep(v) PROVE state'[w] \in {state[w], "free"}
  <2>1. CASE Publish(v)
    BY <1>1, <2>1 DEF Publish
  <2>2. CASE Begin(v)
    BY <1>1, <1>6, <2>2 DEF Begin
  <2>3. CASE Connect(v)
    BY <1>6, <2>3 DEF Connect
  <2>4. CASE Finish(v)
    BY <1>6, <2>4 DEF Finish
  <2>5. CASE Stop(v)
    BY <1>6, <2>5 DEF Stop
  <2>6. CASE Fail(v)
    BY <1>6, <2>6 DEF Fail
  <2> QED BY <1>7, <2>1, <2>2, <2>3, <2>4, <2>5, <2>6 DEF WorkerStep
<1>8. CASE (\E o \in {"start", "stop", "restart"}, k \in Keys : Request(o, k)) \/ ReplaceConfiguration \/ Close
           \/ Lookup \/ Release \/ Announce \/ Spawn \/ AnnounceStop \/ Remove
  BY <1>1, <1>8 DEF Request, ReplaceConfiguration, Close, Lookup, Release, Announce, Spawn, AnnounceStop, Remove
<1> QED BY <1>1, <1>2, <1>3, <1>4, <1>5, <1>7, <1>8 DEF Next, ControlStep

\* Stopped and Failed are final: a stop request that loses the race against
\* the end of its worker does not bring the slot back into an active state.
THEOREM FinalIsFinal == Spec => FinalStays
<1>1. IInv /\ [Next]_vars => [\A w \in Workers : state[w] \in Final => state'[w] \in {state[w], "free"}]_vars
  BY FinalStep
<1> QED BY <1>1, Invariance, PTL DEF Spec, Safety, FinalStays

-----------------------------------------------------------------------------
\* How many events are out at each place of a thread, and before it is created.
ToldOnTheWay ==
    /\ cpc = "spawn" => told[held] >= 1
    /\ \A w \in Workers :
        /\ pc[w] \in {"entry", "connecting", "publish", "done"} => told[w] >= 1
        /\ pc[w] = "working" => told[w] >= 2
        /\ pc[w] = "connecting" => role[w] = "client"
        /\ pc[w] = "publish" /\ next[w] = "done" /\ role[w] # "client" => told[w] >= 2

ToldInv == ToldOnTheWay /\ EventsTold

\* Each event told counts, up to the bound.
LEMMA TellCounts ==
    ASSUME IInv, NEW w \in Workers, Tell(w)
    PROVE  /\ \A v \in Workers : v # w => told'[v] = told[v]
           /\ told'[w] = Count(told[w]) /\ told'[w] >= told[w] /\ told'[w] >= 1
           /\ told[w] >= 1 => told'[w] >= 2
           /\ told[w] >= 2 => told'[w] >= 3
<1>1. told \in [Workers -> 0..EnoughEvents]
  BY DEF IInv, TypeOK
<1> QED BY <1>1 DEF Tell, Count, EnoughEvents

\* What a thread that goes on from "publish" finds told.
LEMMA ToldTransition ==
    ASSUME IInv, ToldInv, NEW w \in Workers, NEW s, NEW where \in {"working", "done"},
           Transition(w, s, where), told[w] >= 1,
           where = "done" /\ role[w] # "client" => told[w] >= 2
    PROVE  ToldInv'
<1> USE DEF ToldInv, ToldOnTheWay, EventsTold, EnoughEvents, IInv, TypeOK, Transition, WorkerOnly
<1>1. ToldOnTheWay'
  OBVIOUS
<1>2. EventsTold'
  OBVIOUS
<1> QED BY <1>1, <1>2

LEMMA ToldStep ==
    ASSUME IInv, ToldInv, [Next]_vars
    PROVE  ToldInv'
<1> USE DEF vars, workerVars, ToldInv, ToldOnTheWay, EventsTold, EnoughEvents, Goes
<1>0. TypeOK
  BY DEF IInv
<1>1. CASE UNCHANGED <<told, pc, role, next>> /\ cpc' # "spawn"
  BY <1>1
<1>2. CASE \E o \in {"start", "stop", "restart"}, k \in Keys : Request(o, k)
  BY <1>1, <1>2 DEF Request
<1>3. CASE ReplaceConfiguration \/ Close \/ Lookup \/ Release \/ RequestStop \/ Remove
  BY <1>1, <1>3 DEF ReplaceConfiguration, Close, Lookup, Release, RequestStop, Remove, AfterStop
<1>4. CASE ReleaseJoin \/ RemoveJoin
  BY <1>0, <1>4 DEF ReleaseJoin, RemoveJoin, Drop, TypeOK
<1>5. ASSUME NEW v \in Workers, Create(v) PROVE ToldInv'
  <2>1. pc[v] = "unborn"
    BY <1>5 DEF Create, IInv, StateOfThread
  <2> QED BY <1>0, <1>5, <2>1 DEF Create, TypeOK
<1>6. CASE Announce
  <2>1. held \in Workers /\ held' = held /\ pc[held] = "unborn"
    BY <1>6 DEF Announce, IInv, HeldIsFor
  <2>2. /\ \A v \in Workers : v # held => told'[v] = told[v]
        /\ told'[held] >= told[held] /\ told'[held] >= 1
    BY <1>6, <2>1, TellCounts DEF Announce
  <2> QED BY <1>6, <2>1, <2>2 DEF Announce
<1>7. CASE Spawn
  <2>1. held \in Workers
    BY <1>7 DEF Spawn, IInv, HeldIsFor
  <2> QED BY <1>0, <1>7, <2>1 DEF Spawn, TypeOK
<1>8. CASE SpawnFails
  BY <1>0, <1>8 DEF SpawnFails, Drop, TypeOK
<1>9. CASE AnnounceStop
  <2>1. held \in Workers
    BY <1>9 DEF AnnounceStop, IInv, HeldIsFor
  <2>2. /\ \A v \in Workers : v # held => told'[v] = told[v]
        /\ told'[held] >= told[held]
    BY <1>9, <2>1, TellCounts DEF AnnounceStop
  <2>3. \A v \in Workers : told'[v] >= told[v] /\ told[v] \in Nat /\ told'[v] \in Nat
    <3>1. told \in [Workers -> 0..EnoughEvents] /\ told'[held] \in 0..EnoughEvents
      BY <1>0, <1>9, <2>1, TellCounts, CountBounds DEF AnnounceStop, TypeOK
    <3> QED BY <2>2, <3>1
  <2> QED BY <1>9, <2>3 DEF AnnounceStop, AfterStop
<1>10. CASE CloseJoins
  BY <1>10 DEF CloseJoins
<1>11. ASSUME NEW w \in Workers, WorkerStep(w) PROVE ToldInv'
  <2>1. CASE Begin(w)
    <3>1. CASE role[w] = "client"
      BY <1>0, <2>1, <3>1 DEF Begin, WorkerOnly, TypeOK
    <3>2. CASE role[w] # "client"
      BY <2>1, <3>2, ToldTransition DEF Begin
    <3> QED BY <3>1, <3>2
  <2>2. CASE Connect(w)
    BY <2>2, ToldTransition DEF Connect
  <2>3. told[w] \in Nat
    BY <1>0 DEF TypeOK
  <2>4. CASE Finish(w)
    BY <2>3, <2>4, ToldTransition DEF Finish
  <2>5. CASE Stop(w)
    BY <2>3, <2>5, ToldTransition DEF Stop
  <2>6. CASE Fail(w)
    BY <2>3, <2>6, ToldTransition DEF Fail
  <2>7. CASE Publish(w)
    <3>1. /\ \A v \in Workers : v # w => told'[v] = told[v]
          /\ told[w] >= 1 => told'[w] >= 2
          /\ told[w] >= 2 => told'[w] >= 3
      BY <2>7, TellCounts DEF Publish
    <3>2. next[w] \in {"working", "done"} /\ told[w] >= 1 /\ told'[w] >= 2 /\ told'[w] \in Nat
      <4>1. told'[w] \in 0..EnoughEvents
        BY <1>0, <2>7, TellCounts, CountBounds DEF Publish, TypeOK
      <4> QED BY <1>0, <2>7, <3>1, <4>1 DEF Publish, TypeOK
    <3>3. /\ \A v \in Workers : v # w => pc'[v] = pc[v]
          /\ pc'[w] = next[w] /\ pc[w] = "publish"
      BY <1>0, <2>7 DEF Publish, TypeOK
    <3>4. ToldOnTheWay'
      <4>1. cpc = "spawn" => held \in Workers
        BY DEF IInv, HeldIsFor
      <4> QED BY <2>7, <3>1, <3>2, <3>3, <4>1 DEF Publish, WorkerOnly
    <3>5. EventsTold'
      BY <2>7, <3>1, <3>2, <3>3 DEF Publish, WorkerOnly
    <3> QED BY <3>4, <3>5
  <2> QED BY <1>11, <2>1, <2>2, <2>4, <2>5, <2>6, <2>7 DEF WorkerStep
<1>12. CASE UNCHANGED vars
  BY <1>12
<1> QED BY <1>2, <1>3, <1>4, <1>5, <1>6, <1>7, <1>8, <1>9, <1>10, <1>11, <1>12 DEF Next, ControlStep

\* A thread that can be joined has told its events, however its life went.
THEOREM EventsAreTold == Spec => []EventsTold
<1>1. Init => ToldInv
  BY DEF Init, ToldInv, ToldOnTheWay, EventsTold
<1>2. IInv /\ ToldInv /\ [Next]_vars => ToldInv'
  BY ToldStep
<1>3. ToldInv => EventsTold
  BY DEF ToldInv
<1> QED BY <1>1, <1>2, <1>3, Invariance, PTL DEF Spec, Safety

-----------------------------------------------------------------------------
(* The runtime is a supervisor *)

\* The thread that module Supervisor sees is the only one there is.
ThreadsSeen ==
    \A k \in Keys :
        /\ \A w \in Workers : Serves(w, k) => Thread[k] = Place(w)
        /\ (\A w \in Workers : ~Serves(w, k)) => Thread[k] = "none"

LEMMA ThreadsAreSeen == OneThreadPerKey => ThreadsSeen
<1> SUFFICES ASSUME OneThreadPerKey, NEW k \in Keys
             PROVE  /\ \A w \in Workers : Serves(w, k) => Thread[k] = Place(w)
                    /\ (\A w \in Workers : ~Serves(w, k)) => Thread[k] = "none"
  BY DEF ThreadsSeen
<1>1. ASSUME NEW w \in Workers, Serves(w, k) PROVE Thread[k] = Place(w)
  <2>1. \A v \in Workers : Serves(v, k) => v = w
    BY <1>1 DEF Serves, OneThreadPerKey
  <2>2. (CHOOSE v \in Workers : Serves(v, k)) = w
    BY <1>1, <2>1
  <2> QED
    BY <1>1, <2>2 DEF Thread
<1>2. (\A w \in Workers : ~Serves(w, k)) => Thread[k] = "none"
  BY DEF Thread
<1> QED
  BY <1>1, <1>2

\* Between its creation and its thread's, a worker is shown as starting.
NewIsStarting == cpc \in {"announce", "spawn"} => state[held] \in {"starting", "connecting"}

LEMMA NewIsStartingStep ==
    ASSUME IInv, NewIsStarting, [Next]_vars
    PROVE  NewIsStarting'
<1> USE DEF vars, workerVars, IInv, TypeOK, NewIsStarting
<1>1. ASSUME NEW w \in Workers, Create(w) PROVE NewIsStarting'
  BY <1>1 DEF Create, Goes
<1>2. CASE Announce
  BY <1>2 DEF Announce, Goes
<1>3. ASSUME NEW w \in Workers, WorkerStep(w) PROVE NewIsStarting'
  <2>1. pc[w] # "unborn" /\ UNCHANGED <<cpc, held>> /\ \A v \in Workers : v # w => state'[v] = state[v]
    BY <1>3 DEF WorkerStep, Begin, Connect, Finish, Stop, Fail, Publish, Transition, WorkerOnly
  <2> QED
    BY <2>1 DEF HeldIsFor
<1>4. CASE (\E o \in {"start", "stop", "restart"}, k \in Keys : Request(o, k)) \/ ReplaceConfiguration \/ Close
           \/ Lookup \/ Release \/ ReleaseJoin \/ Spawn \/ SpawnFails \/ RequestStop \/ AnnounceStop
           \/ Remove \/ RemoveJoin \/ CloseJoins
  BY <1>4 DEF Request, ReplaceConfiguration, Close, Lookup, Release, ReleaseJoin, Spawn, SpawnFails,
              RequestStop, AfterStop, AnnounceStop, Remove, RemoveJoin, CloseJoins, Goes
<1>5. CASE UNCHANGED vars
  BY <1>5
<1> QED
  BY <1>1, <1>2, <1>3, <1>4, <1>5 DEF Next, ControlStep

\* All that is known of a state.
Known == IInv /\ NewIsStarting /\ ThreadsSeen /\ OneThreadPerKey /\ ActiveMeansAlive /\ NoOrphan

LEMMA KnownAlways == Spec => []Known
<1>1. Init => NewIsStarting
  BY DEF Init, NewIsStarting
<1>2. Spec => []NewIsStarting
  BY <1>1, NewIsStartingStep, Invariance, PTL DEF Spec, Safety
<1>3. IInv /\ NewIsStarting /\ OneThreadPerKey /\ ActiveMeansAlive /\ NoOrphan => Known
  BY ThreadsAreSeen DEF Known
<1> QED
  BY <1>2, <1>3, Invariance, OneThread, ActiveIsAlive, NoOrphans, PTL

\* What a step leaves alone of what is seen.
LEMMA SameThread ==
    ASSUME ThreadsSeen, ThreadsSeen', NEW k \in Keys,
           \A w \in Workers : Serves(w, k)' = Serves(w, k) /\ (Serves(w, k) => Place(w)' = Place(w))
    PROVE  Thread'[k] = Thread[k]
BY DEF ThreadsSeen

LEMMA SameThreads ==
    ASSUME \A k \in Keys : Thread'[k] = Thread[k]
    PROVE  UNCHANGED Thread
BY DEF Thread

\* Both are functions on the keys, whatever they are there.
LEMMA OneChanges ==
    ASSUME NEW k \in Keys
    PROVE  /\ (\A j \in Keys : j # k => Thread'[j] = Thread[j]) => Thread' = [Thread EXCEPT ![k] = Thread'[k]]
           /\ (\A j \in Keys : j # k => Shown'[j] = Shown[j]) => Shown' = [Shown EXCEPT ![k] = Shown'[k]]
<1>1. Thread = [j \in Keys |-> Thread[j]] /\ Shown = [j \in Keys |-> Shown[j]]
  BY DEF Thread, Shown
<1>2. Thread' = [j \in Keys |-> Thread'[j]] /\ Shown' = [j \in Keys |-> Shown'[j]]
  BY DEF Thread, Shown
<1> QED
  BY <1>1, <1>2

\* A step that nobody sees: of the control thread ...
LEMMA ControlUnseen ==
    ASSUME UNCHANGED <<slots, state, owner, pc, next>>
    PROVE  UNCHANGED Supervised!vars
BY DEF Supervised!vars, Shown, Meaning, Thread, Place, Serves, Alive

\* ... or that destroys a worker which is in no slot and has no thread.
LEMMA WorkerDestroyed ==
    ASSUME Known, Known', NEW w \in Workers, ~Alive(w), UNCHANGED <<owner, next>>,
           state' = [state EXCEPT ![w] = "free"], pc' = [pc EXCEPT ![w] = "unborn"]
    PROVE  /\ UNCHANGED Thread
           /\ \A k \in Keys : slots'[k] = slots[k] /\ slots[k] # w => Shown'[k] = Shown[k]
<1> USE DEF Known, IInv, TypeOK
<1>1. \A v \in Workers : v # w => state'[v] = state[v] /\ pc'[v] = pc[v]
  OBVIOUS
<1>2. ~Alive(w)'
  BY DEF Alive
<1>3. ASSUME NEW k \in Keys PROVE Thread'[k] = Thread[k]
  <2>1. ASSUME NEW v \in Workers PROVE Serves(v, k)' = Serves(v, k) /\ (Serves(v, k) => Place(v)' = Place(v))
    BY <1>1, <1>2 DEF Serves, Place, Alive
  <2> QED
    BY <2>1, SameThread
<1>4. ASSUME NEW k \in Keys, slots'[k] = slots[k], slots[k] # w PROVE Shown'[k] = Shown[k]
  BY <1>1, <1>4 DEF Shown, Meaning
<1> QED
  BY <1>3, <1>4, SameThreads

\* A step of the thread of w moves that of its key.
LEMMA WorkerMoves ==
    ASSUME Known, Known', NEW w \in Workers, Alive(w), UNCHANGED <<slots, owner>>,
           NEW k \in Keys, owner[w] = k,
           \A v \in Workers : v # w => state'[v] = state[v] /\ pc'[v] = pc[v] /\ next'[v] = next[v]
    PROVE  /\ Thread[k] = Place(w)
           /\ Alive(w)' => Thread' = [Thread EXCEPT ![k] = Place(w)']
           /\ ~Alive(w)' => Thread' = [Thread EXCEPT ![k] = "none"]
           /\ state'[w] = state[w] => UNCHANGED Shown
           /\ slots[k] = w =>
                Shown[k] = Meaning(w) /\ Shown' = [Shown EXCEPT ![k] = Meaning(w)']
<1> USE DEF Known, IInv, TypeOK
<1>1. Serves(w, k)
  BY DEF Serves
<1>2. Thread[k] = Place(w)
  BY <1>1 DEF ThreadsSeen
<1>3. ASSUME NEW j \in Keys, j # k PROVE Thread'[j] = Thread[j]
  <2>1. ASSUME NEW v \in Workers PROVE Serves(v, j)' = Serves(v, j) /\ (Serves(v, j) => Place(v)' = Place(v))
    BY <1>3 DEF Serves, Place, Alive
  <2> QED
    BY <2>1, SameThread
<1>4. \A v \in Workers : v # w => ~Serves(v, k)'
  BY DEF Serves, Alive, OneThreadPerKey
<1>5. Alive(w)' => Thread'[k] = Place(w)'
  BY <1>1 DEF ThreadsSeen, Serves
<1>6. ~Alive(w)' => Thread'[k] = "none"
  BY <1>1, <1>4 DEF ThreadsSeen, Serves
<1>7. Thread' = [Thread EXCEPT ![k] = Thread'[k]]
  BY <1>3, OneChanges
<1>9. ASSUME state'[w] = state[w] PROVE UNCHANGED Shown
  BY <1>9 DEF Shown, Meaning
<1>10. ASSUME slots[k] = w PROVE Shown[k] = Meaning(w) /\ Shown' = [Shown EXCEPT ![k] = Meaning(w)']
  <2>1. \A j \in Keys : j # k => slots[j] # w
    BY DEF SlotsOwned
  <2>2. \A j \in Keys : j # k => Shown'[j] = Shown[j]
    BY <2>1 DEF Shown, Meaning
  <2>3. Shown[k] = Meaning(w) /\ Shown'[k] = Meaning(w)'
    BY <1>10, RuntimeAssumption DEF Shown
  <2>4. Shown' = [Shown EXCEPT ![k] = Shown'[k]]
    BY <2>2, OneChanges
  <2> QED
    BY <2>3, <2>4
<1> QED
  BY <1>2, <1>5, <1>6, <1>7, <1>9, <1>10

\* Each step of the control thread that is seen.
LEMMA ReleaseSeen ==
    ASSUME Known, Known', NEW k \in Keys, key = k, Release
    PROVE  Supervised!Forget({k}) \/ UNCHANGED Supervised!vars
<1> USE DEF Known, IInv, TypeOK, workerVars
<1>1. CASE slots[k] = NoWorker \/ Busy(slots[k])
  BY <1>1, ControlUnseen DEF Release
<1>2. CASE slots[k] # NoWorker /\ ~Busy(slots[k])
  <2>1. state[slots[k]] \in Final /\ slots' = [slots EXCEPT ![k] = NoWorker] /\ UNCHANGED workerVars
    BY <1>2 DEF Release, Busy, SlotsOwned
  <2>2. Shown[k] = "over"
    BY <1>2, <2>1 DEF Shown, Meaning, Final
  <2>3. Shown' = [j \in Keys |-> IF j \in {k} THEN "absent" ELSE Shown[j]]
    BY <2>1 DEF Shown, Meaning
  <2>4. UNCHANGED Thread
    BY <2>1 DEF Thread, Place, Serves, Alive
  <2> QED
    BY <2>2, <2>3, <2>4 DEF Supervised!Forget
<1> QED
  BY <1>1, <1>2

LEMMA ReleaseJoinUnseen ==
    ASSUME Known, Known', ReleaseJoin
    PROVE  UNCHANGED Supervised!vars
<1> USE DEF Known, IInv, TypeOK
<1>1. PICK w \in Workers : held = w
  BY DEF ReleaseJoin, HeldIsFor
<1>2. ~Alive(w) /\ (\A k \in Keys : slots[k] # w) /\ UNCHANGED slots /\ Drop(w)
  BY <1>1 DEF ReleaseJoin, Joined, Alive, HeldIsFor, SlotsOwned
<1>3. UNCHANGED Thread /\ \A k \in Keys : Shown'[k] = Shown[k]
  BY <1>2, DropDestroys, WorkerDestroyed
<1>4. UNCHANGED Shown
  BY <1>3 DEF Shown
<1> QED
  BY <1>3, <1>4 DEF Supervised!vars

LEMMA CreateSeen ==
    ASSUME Known, Known', NEW k \in Keys, key = k, NEW w \in Workers, Create(w)
    PROVE  Supervised!New(k)
<1> USE DEF Known, IInv, TypeOK
<1>1. /\ state[w] = "free" /\ pc[w] = "unborn" /\ cpc = "create" /\ slots[k] = NoWorker
      /\ UNCHANGED <<pc, next>> /\ slots' = [slots EXCEPT ![k] = w] /\ owner' = [owner EXCEPT ![w] = k]
      /\ \A v \in Workers : v # w => state'[v] = state[v]
      /\ state'[w] \in {"starting", "connecting"}
  BY DEF Create, StateOfThread, HeldIsFor
<1>2. \A v \in Workers : ~Serves(v, k)
  BY <1>1 DEF Serves, NoOrphan
<1>3. ASSUME NEW j \in Keys PROVE Thread'[j] = Thread[j]
  <2>1. ASSUME NEW v \in Workers PROVE Serves(v, j)' = Serves(v, j) /\ (Serves(v, j) => Place(v)' = Place(v))
    BY <1>1 DEF Serves, Place, Alive
  <2> QED
    BY <2>1, SameThread
<1>4. ASSUME NEW j \in Keys, j # k PROVE Shown'[j] = Shown[j]
  <2>1. slots'[j] = slots[j] /\ slots[j] # w
    BY <1>1, <1>4 DEF SlotsOwned
  <2> QED
    BY <1>1, <2>1 DEF Shown, Meaning
<1>5. Shown[k] = "absent" /\ Shown'[k] = "starting"
  BY <1>1, RuntimeAssumption DEF Shown, Meaning
<1>6. Shown' = [Shown EXCEPT ![k] = "starting"] /\ UNCHANGED Thread /\ Thread[k] = "none"
  BY <1>2, <1>3, <1>4, <1>5, OneChanges, SameThreads DEF ThreadsSeen
<1> QED
  BY <1>5, <1>6 DEF Supervised!New, Supervised!Shows

\* The worker that is to have a thread.
LEMMA SpawnKnows ==
    ASSUME Known, NEW k \in Keys, key = k, cpc = "spawn", NEW w \in Workers, held = w
    PROVE  /\ slots[k] = w /\ owner[w] = k /\ ~Alive(w) /\ \A j \in Keys : slots[j] = w => j = k
           /\ Shown[k] = "starting" /\ Thread[k] = "none"
<1> USE DEF Known, IInv, TypeOK
<1>1. slots[k] = w /\ owner[w] = k /\ ~Alive(w) /\ \A j \in Keys : slots[j] = w => j = k
  BY RuntimeAssumption DEF HeldIsFor, SlotsOwned, Alive
<1>2. \A v \in Workers : ~Serves(v, k)
  BY <1>1 DEF Serves, NoOrphan
<1>3. Shown[k] = "starting"
  BY <1>1, RuntimeAssumption DEF Shown, Meaning, NewIsStarting
<1> QED
  BY <1>1, <1>2, <1>3 DEF ThreadsSeen

LEMMA SpawnSeen ==
    ASSUME Known, Known', NEW k \in Keys, key = k, Spawn
    PROVE  Supervised!Enter(k)
<1> USE DEF Known, IInv, TypeOK
<1>1. PICK w \in Workers : held = w
  BY DEF Spawn, HeldIsFor
<1>2. cpc = "spawn" /\ pc' = [pc EXCEPT ![w] = "entry"] /\ UNCHANGED <<slots, state, owner, next>>
  BY <1>1 DEF Spawn
<1>3. /\ slots[k] = w /\ owner[w] = k /\ ~Alive(w)
      /\ Shown[k] = "starting" /\ Thread[k] = "none"
  BY <1>1, <1>2, SpawnKnows
<1>4. ASSUME NEW j \in Keys, j # k PROVE Thread'[j] = Thread[j]
  <2>1. ASSUME NEW v \in Workers PROVE Serves(v, j)' = Serves(v, j) /\ (Serves(v, j) => Place(v)' = Place(v))
    BY <1>2, <1>3, <1>4 DEF Serves, Place, Alive
  <2> QED
    BY <2>1, SameThread
<1>5. Thread'[k] = "entered"
  <2>1. Serves(w, k)' /\ Place(w)' = "entered"
    BY <1>2, <1>3 DEF Serves, Place, Alive
  <2> QED
    BY <2>1 DEF ThreadsSeen
<1>6. UNCHANGED Shown
  BY <1>2 DEF Shown, Meaning
<1> QED
  BY <1>3, <1>4, <1>5, <1>6, OneChanges DEF Supervised!Enter, Supervised!Moves

LEMMA SpawnFailsSeen ==
    ASSUME Known, Known', NEW k \in Keys, key = k, SpawnFails
    PROVE  Supervised!GiveUp(k)
<1> USE DEF Known, IInv, TypeOK
<1>1. PICK w \in Workers : held = w
  BY DEF SpawnFails, HeldIsFor
<1>2. cpc = "spawn" /\ slots' = [slots EXCEPT ![k] = NoWorker] /\ Drop(w)
  BY <1>1 DEF SpawnFails, Erase
<1>3. /\ slots[k] = w /\ ~Alive(w) /\ \A j \in Keys : slots[j] = w => j = k
      /\ Shown[k] = "starting" /\ Thread[k] = "none"
  BY <1>1, <1>2, SpawnKnows
<1>4. \A j \in Keys : slots'[j] # w
  BY <1>2, <1>3, RuntimeAssumption
<1>5. UNCHANGED Thread /\ \A j \in Keys : j # k => Shown'[j] = Shown[j]
  BY <1>2, <1>3, <1>4, DropDestroys, WorkerDestroyed
<1>6. Shown'[k] = "absent"
  BY <1>2 DEF Shown
<1> QED
  BY <1>3, <1>5, <1>6, OneChanges DEF Supervised!GiveUp, Supervised!Shows

LEMMA RequestStopSeen ==
    ASSUME Known, Known', NEW k \in Keys, key = k, RequestStop
    PROVE  Supervised!AskStop(k) \/ UNCHANGED Supervised!vars
<1> USE DEF Known, IInv, TypeOK
<1>1. CASE slots[k] = NoWorker \/ ~Stoppable(slots[k])
  BY <1>1, ControlUnseen DEF RequestStop
<1>2. CASE slots[k] # NoWorker /\ Stoppable(slots[k])
  <2>1. PICK w \in Workers : slots[k] = w
    BY <1>2
  <2>2. /\ cpc = "request" /\ state[w] \in Active /\ owner[w] = k
        /\ state' = [state EXCEPT ![w] = "stopping"] /\ UNCHANGED <<slots, owner, pc, next>>
    BY <1>2, <2>1 DEF RequestStop, Stoppable, SlotsOwned
  <2>3. Alive(w) /\ Place(w) \in {"entered", "running"}
    BY <1>2, <2>1, <2>2 DEF ActiveMeansAlive, Place, Alive
  <2>4. Thread[k] \in {"entered", "running"}
    BY <2>2, <2>3 DEF ThreadsSeen, Serves
  <2>5. UNCHANGED Thread
    BY <2>2 DEF Thread, Serves, Place, Alive
  <2>6. ASSUME NEW j \in Keys, j # k PROVE Shown'[j] = Shown[j]
    <3>1. slots[j] # w
      BY <2>1, <2>2, <2>6, RuntimeAssumption DEF SlotsOwned
    <3> QED
      BY <2>2, <3>1 DEF Shown, Meaning
  <2>7. Shown'[k] = "stopping"
    BY <2>1, <2>2, RuntimeAssumption DEF Shown, Meaning
  <2> QED
    BY <2>4, <2>5, <2>6, <2>7, OneChanges DEF Supervised!AskStop, Supervised!Shows, Supervised!Alive
<1> QED
  BY <1>1, <1>2

LEMMA RemoveJoinSeen ==
    ASSUME Known, Known', NEW k \in Keys, key = k, RemoveJoin
    PROVE  Supervised!Forget({k})
<1> USE DEF Known, IInv, TypeOK
<1>1. PICK w \in Workers : held = w /\ slots[k] = w
  BY DEF RemoveJoin, HeldIsFor
<1>2. ~Alive(w) /\ state[w] \in Final /\ slots' = [slots EXCEPT ![k] = NoWorker] /\ Drop(w)
  BY <1>1 DEF RemoveJoin, Joined, Erase, Alive, StateOfThread
<1>3. \A j \in Keys : slots'[j] # w /\ (j # k => slots[j] # w)
  BY <1>1, <1>2, RuntimeAssumption DEF SlotsOwned
<1>4. UNCHANGED Thread /\ \A j \in Keys : j # k => Shown'[j] = Shown[j]
  BY <1>2, <1>3, DropDestroys, WorkerDestroyed
<1>5. Shown[k] = "over" /\ Shown'[k] = "absent"
  BY <1>1, <1>2, RuntimeAssumption DEF Shown, Meaning, Final
<1>6. Shown' = [j \in Keys |-> IF j \in {k} THEN "absent" ELSE Shown[j]]
  <2>1. Shown' = [j \in Keys |-> Shown'[j]]
    BY DEF Shown
  <2> QED
    BY <1>4, <1>5, <2>1
<1> QED
  BY <1>4, <1>5, <1>6 DEF Supervised!Forget

LEMMA CloseJoinsSeen ==
    ASSUME Known, Known', NEW some \in SUBSET Keys, some = {k \in Keys : slots[k] # NoWorker}, CloseJoins
    PROVE  Supervised!Forget(some)
<1> USE DEF Known, IInv, TypeOK
<1>1. /\ cpc = "closing" /\ \A k \in Keys : slots[k] # NoWorker => pc[slots[k]] = "done"
      /\ slots' = [k \in Keys |-> NoWorker] /\ pc' = [w \in Workers |-> "unborn"]
  BY DEF CloseJoins, Joined
<1>2. \A w \in Workers : ~Alive(w) /\ ~Alive(w)'
  BY <1>1, RuntimeAssumption DEF NoOrphan, Alive
<1>3. UNCHANGED Thread
  BY <1>2 DEF Thread, Serves
<1>4. ASSUME NEW k \in some PROVE Shown[k] = "over"
  <2>1. slots[k] \in Workers /\ state[slots[k]] \in Final
    BY <1>1, <1>4 DEF StateOfThread
  <2> QED
    BY <1>4, <2>1 DEF Shown, Meaning, Final
<1>5. Shown' = [j \in Keys |-> IF j \in some THEN "absent" ELSE Shown[j]]
  BY <1>1 DEF Shown
<1> QED
  BY <1>3, <1>4, <1>5 DEF Supervised!Forget

\* A worker whose thread goes on is in its slot, where its state is shown.
LEMMA TransitionSeen ==
    ASSUME Known, Known', NEW w \in Workers, NEW k \in Keys, owner[w] = k,
           pc[w] \in {"entry", "connecting", "working"}, NEW s, NEW where, Transition(w, s, where)
    PROVE  /\ Thread[k] = Place(w) /\ Thread' = [Thread EXCEPT ![k] = Place(w)']
           /\ Shown' = [Shown EXCEPT ![k] = Meaning(w)']
           /\ pc'[w] = "publish" /\ next'[w] = where /\ state'[w] = s
<1> USE DEF Known, IInv, TypeOK
<1>1. /\ UNCHANGED <<slots, owner>> /\ pc'[w] = "publish" /\ next'[w] = where /\ state'[w] = s
      /\ \A v \in Workers : v # w => state'[v] = state[v] /\ pc'[v] = pc[v] /\ next'[v] = next[v]
  BY DEF Transition, WorkerOnly
<1>2. Alive(w) /\ Alive(w)'
  BY <1>1 DEF Alive
<1>3. slots[k] = w
  BY <1>2 DEF NoOrphan, HeldIsFor, StateOfThread, Active, Final
<1> QED
  BY <1>1, <1>2, <1>3, WorkerMoves

LEMMA RunSeen ==
    ASSUME Known, Known', NEW w \in Workers, NEW k \in Keys, owner[w] = k,
           pc[w] \in {"entry", "connecting"}, NEW s \in {"running", "connected"}, Transition(w, s, "working")
    PROVE  Supervised!Run(k)
<1>1. /\ Thread[k] = Place(w) /\ Thread' = [Thread EXCEPT ![k] = Place(w)']
      /\ Shown' = [Shown EXCEPT ![k] = Meaning(w)']
      /\ pc'[w] = "publish" /\ next'[w] = "working" /\ state'[w] = s
  BY TransitionSeen
<1>2. Place(w) = "entered" /\ Place(w)' = "running" /\ Meaning(w)' = "running"
  BY <1>1 DEF Place, Meaning
<1> QED
  BY <1>1, <1>2 DEF Supervised!Run, Supervised!Shows, Supervised!Moves

LEMMA EndSeen ==
    ASSUME Known, Known', NEW w \in Workers, NEW k \in Keys, owner[w] = k,
           pc[w] \in {"connecting", "working"}, NEW s \in Final, Transition(w, s, "done")
    PROVE  Supervised!End(k)
<1>1. /\ Thread[k] = Place(w) /\ Thread' = [Thread EXCEPT ![k] = Place(w)']
      /\ Shown' = [Shown EXCEPT ![k] = Meaning(w)']
      /\ pc'[w] = "publish" /\ next'[w] = "done" /\ state'[w] = s
  BY TransitionSeen
<1>2. Place(w) \in {"entered", "running"} /\ Place(w)' = "leaving" /\ Meaning(w)' = "over"
  BY <1>1 DEF Place, Meaning, Final
<1> QED
  BY <1>1, <1>2 DEF Supervised!End, Supervised!Shows, Supervised!Moves, Supervised!Alive

LEMMA PublishSeen ==
    ASSUME Known, Known', NEW w \in Workers, NEW k \in Keys, owner[w] = k, Publish(w)
    PROVE  Supervised!Leave(k) \/ UNCHANGED Supervised!vars
<1> USE DEF Known, IInv, TypeOK
<1>1. /\ UNCHANGED <<slots, owner, state, next>> /\ pc[w] = "publish" /\ pc'[w] = next[w]
      /\ \A v \in Workers : v # w => state'[v] = state[v] /\ pc'[v] = pc[v] /\ next'[v] = next[v]
  BY DEF Publish, WorkerOnly
<1>2. Alive(w)
  BY <1>1 DEF Alive
<1>3. /\ Thread[k] = Place(w) /\ UNCHANGED Shown
      /\ Alive(w)' => Thread' = [Thread EXCEPT ![k] = Place(w)']
      /\ ~Alive(w)' => Thread' = [Thread EXCEPT ![k] = "none"]
  BY <1>1, <1>2, WorkerMoves
<1>4. CASE next[w] = "done"
  <2>1. Place(w) = "leaving" /\ ~Alive(w)'
    BY <1>1, <1>4 DEF Place, Alive
  <2> QED
    BY <1>3, <2>1 DEF Supervised!Leave, Supervised!Moves
<1>5. CASE next[w] = "working"
  <2>1. Alive(w)' /\ Place(w)' = Place(w)
    BY <1>1, <1>5 DEF Place, Alive
  <2>2. Thread' = [Thread EXCEPT ![k] = Thread[k]]
    BY <1>3, <2>1
  <2>3. UNCHANGED Thread
    BY <2>2, SameThreads
  <2> QED
    BY <1>3, <2>3 DEF Supervised!vars
<1> QED
  BY <1>4, <1>5

LEMMA WorkerSeen ==
    ASSUME Known, Known', NEW w \in Workers, NEW k \in Keys, owner[w] = k, WorkerStep(w)
    PROVE  Supervised!Run(k) \/ Supervised!End(k) \/ Supervised!Leave(k) \/ UNCHANGED Supervised!vars
<1> USE DEF Known, IInv, TypeOK
<1>1. CASE Begin(w) /\ role[w] = "client"
  <2>1. /\ UNCHANGED <<slots, owner, state, next>> /\ pc[w] = "entry" /\ pc'[w] = "connecting"
        /\ \A v \in Workers : v # w => state'[v] = state[v] /\ pc'[v] = pc[v] /\ next'[v] = next[v]
    BY <1>1 DEF Begin, WorkerOnly
  <2>2. Alive(w) /\ Alive(w)' /\ Place(w)' = Place(w)
    BY <2>1 DEF Alive, Place
  <2>3. Thread[k] = Place(w) /\ UNCHANGED Shown /\ Thread' = [Thread EXCEPT ![k] = Place(w)']
    BY <2>1, <2>2, WorkerMoves
  <2>4. UNCHANGED Thread
    BY <2>2, <2>3, SameThreads
  <2> QED
    BY <2>3, <2>4 DEF Supervised!vars
<1>2. CASE Begin(w) /\ role[w] # "client"
  BY <1>2, RunSeen DEF Begin
<1>3. CASE Connect(w)
  BY <1>3, RunSeen DEF Connect
<1>4. CASE Finish(w)
  BY <1>4, EndSeen DEF Finish, Final
<1>5. CASE Stop(w)
  BY <1>5, EndSeen DEF Stop, Final
<1>6. CASE Fail(w)
  BY <1>6, EndSeen DEF Fail, Final
<1>7. CASE Publish(w)
  BY <1>7, PublishSeen
<1> QED
  BY <1>1, <1>2, <1>3, <1>4, <1>5, <1>6, <1>7 DEF WorkerStep

\* The supervisor of slots, worker objects, joins and publications outside of the
\* mutex does nothing that Supervisor does not allow.
THEOREM RuntimeIsSupervised == Spec => SupervisorSafety
<1>1. Init => Supervised!Init
  BY DEF Init, Supervised!Init, Shown, Thread, Serves, Alive
<1>2. Known /\ Known' /\ [Next]_vars => [Supervised!Next]_(Supervised!vars)
  <2> SUFFICES ASSUME Known, Known', Next PROVE Supervised!Next \/ UNCHANGED Supervised!vars
    BY ControlUnseen DEF vars, workerVars
  <2>1. PICK k \in Keys : key = k
    BY DEF Known, IInv, TypeOK
  <2>2. CASE (\E o \in {"start", "stop", "restart"}, j \in Keys : Request(o, j)) \/ ReplaceConfiguration \/ Close
             \/ Lookup \/ Announce \/ AnnounceStop \/ Remove
    BY <2>2, ControlUnseen DEF Request, ReplaceConfiguration, Close, Lookup, Announce, AnnounceStop, Remove,
                               workerVars
  <2>3. CASE Release \/ RemoveJoin \/ CloseJoins
    <3>1. PICK some \in SUBSET Keys : some = {j \in Keys : slots[j] # NoWorker}
      OBVIOUS
    <3>2. {k} \in SUBSET Keys
      OBVIOUS
    <3> QED
      BY <2>1, <2>3, <3>1, <3>2, ReleaseSeen, RemoveJoinSeen, CloseJoinsSeen DEF Supervised!Next
  <2>4. CASE ReleaseJoin
    BY <2>4, ReleaseJoinUnseen
  <2>5. CASE (\E w \in Workers : Create(w)) \/ Spawn \/ SpawnFails \/ RequestStop
    BY <2>1, <2>5, CreateSeen, SpawnSeen, SpawnFailsSeen, RequestStopSeen DEF Supervised!Next
  <2>6. ASSUME NEW w \in Workers, WorkerStep(w) PROVE Supervised!Next \/ UNCHANGED Supervised!vars
    <3>1. PICK j \in Keys : owner[w] = j
      BY DEF Known, IInv, TypeOK
    <3> QED
      BY <2>6, <3>1, WorkerSeen DEF Supervised!Next
  <2> QED
    BY <2>2, <2>3, <2>4, <2>5, <2>6 DEF Next, ControlStep
<1> QED
  BY <1>1, <1>2, KnownAlways, PTL DEF Spec, Safety, SupervisorSafety, Supervised!Safety

\* "Running" and "stopping" are said of threads that live, and nothing else is said
\* of those but that they are starting.
THEOREM StatesAreTrue == Spec => []Supervised!ShownIsTrue
<1>1. Known => Supervised!ShownIsTrue
  <2> SUFFICES ASSUME Known, NEW k \in Keys
               PROVE  /\ Shown[k] \in {"running", "stopping"} => Thread[k] \in {"entered", "running"}
                      /\ Thread[k] \in {"entered", "running"} => Shown[k] \in {"starting", "running", "stopping"}
    BY DEF Supervised!ShownIsTrue, Supervised!Alive
  <2> USE DEF Known, IInv, TypeOK
  <2>1. ASSUME Shown[k] \in {"running", "stopping"} PROVE Thread[k] \in {"entered", "running"}
    <3>1. PICK w \in Workers : slots[k] = w /\ Meaning(w) \in {"running", "stopping"}
      BY <2>1 DEF Shown
    <3>2. state[w] \in {"connected", "running", "stopping"} /\ owner[w] = k
      BY <3>1, RuntimeAssumption DEF Meaning, SlotsOwned
    <3>3. Alive(w) /\ Place(w) \in {"entered", "running"}
      BY <3>1, <3>2, RuntimeAssumption DEF ActiveMeansAlive, NewIsStarting, Place, Alive, Active
    <3> QED
      BY <3>2, <3>3 DEF ThreadsSeen, Serves
  <2>2. ASSUME Thread[k] \in {"entered", "running"} PROVE Shown[k] \in {"starting", "running", "stopping"}
    <3>1. PICK w \in Workers : Serves(w, k)
      BY <2>2 DEF ThreadsSeen
    <3>2. Thread[k] = Place(w)
      BY <3>1 DEF ThreadsSeen
    <3>3. pc[w] \in {"entry", "connecting", "working"} \/ (pc[w] = "publish" /\ next[w] = "working")
      BY <2>2, <3>2 DEF Place
    <3>4. state[w] \in Active /\ slots[k] = w
      BY <3>1, <3>3 DEF StateOfThread, Serves, Alive, NoOrphan, HeldIsFor, Active, Final
    <3> QED
      BY <3>4, RuntimeAssumption DEF Shown, Meaning, Active
  <2> QED
    BY <2>1, <2>2
<1> QED
  BY <1>1, KnownAlways, PTL
=============================================================================
