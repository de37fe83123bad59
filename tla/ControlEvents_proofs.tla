------------------------ MODULE ControlEvents_proofs ------------------------
(***************************************************************************)
(* Proofs about module ControlEvents, for any number of runtimes and       *)
(* browsers and any size of a socket: its types, that a socket has one     *)
(* writer, that the snapshots come first, that a registered browser is     *)
(* told of every change published, and that it implements Supervisor.      *)
(***************************************************************************)
EXTENDS ControlEvents, TLAPS

\* What the request is about, and that the control thread is the only one to
\* send snapshots.
RequestsInOrder ==
    /\ cpc \in {"remove", "join", "spawn"} => about \in Runtimes
    /\ cpc \in {"snapshots", "sending"} => about \in Clients /\ conn[about] # "none"
    /\ \A e \in toSend[Control] : e.kind = "current" /\ e.state # "absent"
    /\ \A e \in toSend[Metrics] : e.kind = "metrics"

\* A thread in no publication has nothing to send, one that writes has the mutex,
\* and only those that have closed are found to have failed.
PublishersInOrder ==
    \A t \in Threads :
        /\ bpc[t] = "off" <=> event[t] = NoEvent
        /\ event[t] # NoEvent => event[t].kind # "current" /\ event[t].state # "absent"
        /\ bpc[t] = "write" => todo[t] # <<>> /\ lock[Head(todo[t])] = t
        /\ \A c \in failed[t] : conn[c] = "closed"

\* clients_ has every page that is registered, and nobody sends to one before that.
SubscribersInOrder ==
    \A c \in Clients :
        /\ Registered(c) => c \in Range(clients)
        /\ conn[c] = "none" \/ Subscribing(c) =>
               c \notin Range(clients) /\ \A t \in Threads : c \notin Range(todo[t])

\* A subscriber's socket, before it is registered: the snapshots.
SocketsInOrder ==
    \A c \in Clients :
        /\ conn[c] # "open" => channel[c] = <<>>
        /\ \A i \in 1..Len(channel[c]) :
               /\ channel[c][i].state # "absent"
               /\ Subscribing(c) => channel[c][i].kind = "current"
        /\ Subscribing(c) /\ cpc = "sending" /\ conn[c] = "open" =>
               \A r \in there[c] :
                   \/ view[c][r] # "absent"
                   \/ \E i \in 1..Len(channel[c]) : channel[c][i].runtime = r
                   \/ \E e \in toSend[Control] : e.runtime = r

\* The inductive invariant.
IInv ==
    /\ TypeOK /\ RequestsInOrder /\ PublishersInOrder /\ SubscribersInOrder /\ SocketsInOrder
    /\ SnapshotsFirst /\ NothingLost

-----------------------------------------------------------------------------
USE EventsAssumption

(* Sequences and events *)

\* What is in the rest of a sequence is in the sequence, and so is its head.
LEMMA TailRange ==
    ASSUME NEW S, NEW s \in Seq(S), s # <<>>
    PROVE  /\ Head(s) \in S /\ Head(s) \in Range(s)
           /\ Tail(s) \in Seq(S) /\ \A x \in Range(Tail(s)) : x \in Range(s)
BY DEF Range

LEMMA AppendRange ==
    ASSUME NEW S, NEW s \in Seq(S), NEW x \in S
    PROVE  Append(s, x) \in Seq(S) /\ Range(Append(s, x)) = Range(s) \cup {x}
<1>1. Append(s, x) \in Seq(S) /\ Len(Append(s, x)) = Len(s) + 1
  OBVIOUS
<1>2. \A i \in 1..Len(s) : Append(s, x)[i] = s[i]
  OBVIOUS
<1>3. Append(s, x)[Len(s) + 1] = x
  OBVIOUS
<1>4. DOMAIN Append(s, x) = 1..(Len(s) + 1) /\ DOMAIN s = 1..Len(s) /\ Len(s) \in Nat
  OBVIOUS
<1>5. ASSUME NEW y \in Range(Append(s, x)) PROVE y \in Range(s) \cup {x}
  <2>1. PICK i \in 1..(Len(s) + 1) : Append(s, x)[i] = y
    BY <1>4, <1>5 DEF Range
  <2> QED
    BY <2>1, <1>2, <1>3, <1>4 DEF Range
<1>6. ASSUME NEW y \in Range(s) \cup {x} PROVE y \in Range(Append(s, x))
  <2>1. CASE y = x
    BY <2>1, <1>3, <1>4 DEF Range
  <2>2. CASE y \in Range(s)
    BY <2>2, <1>2, <1>4 DEF Range
  <2> QED
    BY <1>6, <2>1, <2>2
<1> QED
  BY <1>1, <1>5, <1>6

LEMMA WithoutRange ==
    ASSUME NEW S, NEW s \in Seq(S), NEW F, NEW rest \in Without(s, F)
    PROVE  rest \in Seq(S) /\ Range(rest) = Range(s) \ F
BY DEF Without, Range

LEMMA EventFields ==
    ASSUME NEW e \in Event
    PROVE  /\ e.kind \in {"lifecycle", "current", "metrics"} /\ e.runtime \in Runtimes
           /\ e.state \in States /\ e.version \in Nat /\ e # NoEvent
           /\ e.kind = "metrics" => e.state # "absent"
BY DEF Event, NoEvent, States, Active

LEMMA ChangeIsEvent ==
    ASSUME NEW r \in Runtimes, NEW s \in States, NEW v \in Nat
    PROVE  [kind |-> "lifecycle", runtime |-> r, state |-> s, version |-> v + 1] \in Event
BY DEF Event

LEMMA SnapshotsAreEvents ==
    ASSUME TypeOK
    PROVE  /\ Snapshots("metrics", Reported) \in SUBSET Event
           /\ Snapshots("current", States \ {"absent"}) \in SUBSET Event
           /\ \A e \in Snapshots("metrics", Reported) : e.kind = "metrics" /\ e.state # "absent"
           /\ \A e \in Snapshots("current",
                States \ {"absent"}) : e.kind = "current" /\ e.state # "absent"
           /\ \A r \in Runtimes : state[r] # "absent" =>
                  \E e \in Snapshots("current", States \ {"absent"}) : e.runtime = r
<1>1. ASSUME NEW kind \in {"lifecycle", "current"}, NEW r \in Runtimes
      PROVE  EventOf(kind, r) \in Event
  BY <1>1 DEF TypeOK, EventOf, Event
<1>2. ASSUME NEW r \in Runtimes, state[r] \in Active PROVE EventOf("metrics", r) \in Event
  BY <1>2 DEF TypeOK, EventOf, Event
<1>3. ASSUME NEW kind, NEW r \in Runtimes
      PROVE  /\ EventOf(kind, r).kind = kind /\ EventOf(kind, r).runtime = r
             /\ EventOf(kind, r).state = state[r]
  BY DEF EventOf
<1>4. "absent" \notin Active /\ "absent" \in States
  BY DEF Active, States
<1> HIDE DEF EventOf
<1> QED
  BY <1>1, <1>2, <1>3, <1>4 DEF Snapshots, Reported, TypeOK


\* Every step keeps the types.
LEMMA TypeStep ==
    ASSUME IInv, [Next]_vars
    PROVE  TypeOK'
<1> USE DEF vars, runtimeVars, threadVars, subscribeVars, historyVars, clientVars, IInv, TypeOK, RequestsInOrder
<1>1. ASSUME NEW r \in Runtimes, Start(r) PROVE TypeOK'
  BY <1>1 DEF Start, Vanishes, Proceeds, Idle, Nothing, States
<1>2. ASSUME NEW r \in Runtimes, Stop(r) PROVE TypeOK'
  BY <1>2, ChangeIsEvent, SMTT(60) DEF Stop, Idle, Changes, Broadcast, States, Threads
<1>2a. ASSUME NEW r \in Runtimes, Restart(r) PROVE TypeOK'
  <2>1. CASE Changes(r, "stopping", Control)
    BY <1>2a, <2>1, ChangeIsEvent, SMTT(60) DEF Restart, Changes, Broadcast, States, Threads
  <2>2. CASE UNCHANGED <<state, version, clients, lock, clientVars, threadVars, toSend, got>>
    BY <1>2a, <2>2 DEF Restart
  <2> QED
    BY <1>2a, <2>1, <2>2 DEF Restart
<1>3. ASSUME NEW r \in Runtimes, Run(r) PROVE TypeOK'
  BY <1>3, ChangeIsEvent, SMTT(60) DEF Run, Changes, Broadcast, States, Threads
<1>4. ASSUME NEW r \in Runtimes, End(r) PROVE TypeOK'
  BY <1>4, ChangeIsEvent, SMTT(60) DEF End, Changes, Broadcast, States, Threads
<1>5. CASE Create
  BY <1>5, ChangeIsEvent DEF Create, Changes, Broadcast, States, Threads
<1>6. CASE Spawn
  BY <1>6 DEF Spawn, Announced, Proceeds, Nothing, Threads
<1>6a. CASE SpawnFails
  BY <1>6a DEF SpawnFails, Announced, Vanishes, Proceeds, Nothing, States, Threads
<1>6b. CASE Remove
  BY <1>6b DEF Remove, Vanishes, Proceeds, Nothing, States, Threads
<1>7. CASE MetricsTick
  BY <1>7, SnapshotsAreEvents DEF MetricsTick, Snapshots, EventOf, Reported
<1>8. CASE MetricsSend
  BY <1>8 DEF MetricsSend, Broadcast, Threads
<1>9. ASSUME NEW c \in Clients, Subscribe(c) PROVE TypeOK'
  BY <1>9 DEF Subscribe, Idle
<1>10. CASE TakeSnapshots
  BY <1>10, SnapshotsAreEvents DEF TakeSnapshots, Snapshots, EventOf
<1>11. CASE SendSnapshot
  <2>1. PICK e \in toSend[Control] :
          /\ channel' = [channel EXCEPT ![about] = Append(@, e)]
          /\ toSend' = [toSend EXCEPT ![Control] = @ \ {e}]
    BY <1>11 DEF SendSnapshot
  <2>2. about \in Clients /\ e \in Event /\ Len(channel[about]) < Buffer
    BY <1>11, <2>1 DEF SendSnapshot
  <2>3. /\ channel' \in [Clients -> Seq(Event)]
        /\ \A c \in Clients : Len(channel'[c]) <= Buffer
    BY <2>1, <2>2, EventsAssumption
  <2>4. toSend' \in [{Control, Metrics} -> SUBSET Event]
    BY <2>1
  <2> QED BY <1>11, <2>3, <2>4 DEF SendSnapshot
<1>12. CASE SendSnapshotFails
  BY <1>12 DEF SendSnapshotFails, Nothing
<1>13. CASE Register
  BY <1>13, AppendRange DEF Register, Nothing
<1>14. ASSUME NEW t \in Threads, CopyClients(t) PROVE TypeOK'
  BY <1>14 DEF CopyClients
<1>15. ASSUME NEW t \in Threads, TakeLock(t) PROVE TypeOK'
  BY <1>15, TailRange DEF TakeLock, Takeable
<1>16. ASSUME NEW t \in Threads, Write(t) PROVE TypeOK'
  <2> DEFINE c == Head(todo[t])
  <2>1. c \in Clients /\ Tail(todo[t]) \in Seq(Clients) /\ event[t] \in Event
    <3>1. todo[t] \in Seq(Clients) /\ todo[t] # <<>> /\ event[t] # NoEvent
      BY <1>16 DEF PublishersInOrder, Write
    <3> QED
      BY <3>1, TailRange
  <2>2. Append(channel[c], event[t]) \in Seq(Event) /\ Len(Append(channel[c], event[t])) <= Buffer
    BY <1>16, <2>1 DEF Write
  <2>3. <<event[t].runtime, event[t].version>> \in Runtimes \X Nat
    BY <2>1, EventFields
  <2> HIDE DEF c
  <2>4. channel' = [channel EXCEPT ![c] = Append(@, event[t])]
    BY <1>16 DEF Write, c
  <2>5. channel' \in [Clients -> Seq(Event)] /\ \A d \in Clients : Len(channel'[d]) <= Buffer
    BY <2>1, <2>2, <2>4
  <2>6. got' \in [Clients -> SUBSET (Runtimes \X Nat)]
    BY <1>16, <2>1, <2>3 DEF Write, c
  <2>7. lock' \in [Clients -> Threads \cup {Free}] /\ todo' \in [Threads -> Seq(Clients)]
    BY <1>16, <2>1 DEF Write, c
  <2>8. bpc' \in [Threads -> {"off", "copy", "send", "write"}]
    BY <1>16 DEF Write
  <2> QED
    BY <1>16, <2>5, <2>6, <2>7, <2>8 DEF Write
<1>17. ASSUME NEW t \in Threads, WriteFails(t) PROVE TypeOK'
  <2>1. Head(todo[t]) \in Clients /\ Tail(todo[t]) \in Seq(Clients)
    BY <1>17, TailRange DEF PublishersInOrder, WriteFails
  <2>2. failed' \in [Threads -> SUBSET Clients] /\ todo' \in [Threads -> Seq(Clients)]
    BY <1>17, <2>1 DEF WriteFails, RestAfterFailure
  <2>3. lock' \in [Clients -> Threads \cup {Free}]
    BY <1>17 DEF WriteFails, ReleaseLock
  <2> QED
    BY <1>17, <2>2, <2>3 DEF WriteFails
<1>18. ASSUME NEW t \in Threads, DropFailed(t) PROVE TypeOK'
  BY <1>18, WithoutRange DEF DropFailed
<1>19. ASSUME NEW c \in Clients, Read(c) PROVE TypeOK'
  BY <1>19, TailRange, EventFields DEF Read
<1>20. ASSUME NEW c \in Clients, CloseConnection(c) PROVE TypeOK'
  BY <1>20 DEF CloseConnection, Blank, States
<1>21. CASE UNCHANGED vars
  BY <1>21
<1> QED
  BY <1>1, <1>2, <1>2a, <1>3, <1>4, <1>5, <1>6, <1>6a, <1>6b, <1>7, <1>8, <1>9, <1>10, <1>11, <1>12,
      <1>13, <1>14, <1>15, <1>16, <1>17, <1>18, <1>19, <1>20, <1>21 DEF Next, ControlStep, BroadcastStep
\* What begins to publish has something to publish.
LEMMA PublisherBegins ==
    ASSUME TypeOK, PublishersInOrder, UNCHANGED <<lock, conn>>,
           NEW t \in Threads, NEW e \in Event, e.kind # "current", e.state # "absent",
               Broadcast(t, e)
    PROVE  PublishersInOrder'
<1>1. e # NoEvent
  BY EventFields
<1> QED
  BY <1>1 DEF TypeOK, PublishersInOrder, Broadcast

\* A runtime's new state is something to publish.
LEMMA ChangePublished ==
    ASSUME TypeOK, PublishersInOrder, NEW t \in Threads, NEW r \in Runtimes,
           NEW s \in States \ {"absent"}, Changes(r, s, t)
    PROVE  PublishersInOrder'
<1>1. [kind |-> "lifecycle", runtime |-> r, state |-> s, version |-> version[r] + 1] \in Event
  BY ChangeIsEvent DEF TypeOK
<1> QED
  BY <1>1, PublisherBegins DEF Changes, clientVars

\* ... and what the control thread is at.
LEMMA RequestsStep ==
    ASSUME IInv, [Next]_vars
    PROVE  RequestsInOrder'
<1> USE DEF vars, runtimeVars, threadVars, subscribeVars, historyVars, clientVars, IInv, RequestsInOrder, TypeOK
<1>1. ASSUME NEW r \in Runtimes, Start(r) PROVE RequestsInOrder'
  BY <1>1 DEF Start, Vanishes, Proceeds, Idle
<1>2. ASSUME NEW r \in Runtimes, Stop(r) PROVE RequestsInOrder'
  BY <1>2 DEF Stop, Idle, Changes, Broadcast, Active
<1>2a. ASSUME NEW r \in Runtimes, Restart(r) PROVE RequestsInOrder'
  BY <1>2a DEF Restart, Idle, Changes, Broadcast, Active
<1>3. ASSUME NEW r \in Runtimes, Run(r) PROVE RequestsInOrder'
  BY <1>3 DEF Run, Changes, Broadcast, States
<1>4. ASSUME NEW r \in Runtimes, End(r) PROVE RequestsInOrder'
  BY <1>4 DEF End, Changes, Broadcast, States
<1>5. CASE Create
  BY <1>5 DEF Create, Changes, Broadcast, States
<1>6. CASE Spawn
  BY <1>6 DEF Spawn, Announced, Proceeds
<1>6a. CASE SpawnFails
  BY <1>6a DEF SpawnFails, Announced, Vanishes, Proceeds
<1>6b. CASE Remove
  BY <1>6b DEF Remove, Vanishes, Proceeds
<1>7. CASE MetricsTick
  BY <1>7, SnapshotsAreEvents DEF MetricsTick, Control, Metrics
<1>8. CASE MetricsSend
  BY <1>8 DEF MetricsSend, Broadcast
<1>9. ASSUME NEW c \in Clients, Subscribe(c) PROVE RequestsInOrder'
  BY <1>9 DEF Subscribe, Idle
<1>10. CASE TakeSnapshots
  BY <1>10, SnapshotsAreEvents DEF TakeSnapshots, Control, Metrics
<1>11. CASE SendSnapshot
  BY <1>11 DEF SendSnapshot
<1>12. CASE SendSnapshotFails
  BY <1>12 DEF SendSnapshotFails
<1>13. CASE Register
  BY <1>13 DEF Register
<1>14. ASSUME NEW t \in Threads, CopyClients(t) PROVE RequestsInOrder'
  BY <1>14 DEF CopyClients
<1>15. ASSUME NEW t \in Threads, TakeLock(t) PROVE RequestsInOrder'
  BY <1>15 DEF TakeLock, Takeable
<1>16. ASSUME NEW t \in Threads, Write(t) PROVE RequestsInOrder'
  BY <1>16 DEF Write
<1>17. ASSUME NEW t \in Threads, WriteFails(t) PROVE RequestsInOrder'
  BY <1>17 DEF WriteFails, ReleaseLock, RestAfterFailure
<1>18. ASSUME NEW t \in Threads, DropFailed(t) PROVE RequestsInOrder'
  BY <1>18 DEF DropFailed
<1>19. ASSUME NEW c \in Clients, Read(c) PROVE RequestsInOrder'
  BY <1>19 DEF Read
<1>20. ASSUME NEW c \in Clients, CloseConnection(c) PROVE RequestsInOrder'
  BY <1>20 DEF CloseConnection
<1>21. CASE UNCHANGED vars
  BY <1>21
<1> QED
  BY <1>1, <1>2, <1>2a, <1>3, <1>4, <1>5, <1>6, <1>6a, <1>6b, <1>7, <1>8, <1>9, <1>10, <1>11, <1>12,
      <1>13, <1>14, <1>15, <1>16, <1>17, <1>18, <1>19, <1>20, <1>21 DEF Next, ControlStep, BroadcastStep

\* ... and what threads that publish are at.
LEMMA PublishersStep ==
    ASSUME IInv, [Next]_vars
    PROVE  PublishersInOrder'
<1> USE DEF vars, runtimeVars, threadVars, subscribeVars, historyVars, clientVars, IInv
<1>1. ASSUME NEW r \in Runtimes, Start(r) PROVE PublishersInOrder'
  BY <1>1 DEF Start, Vanishes, Proceeds, Idle, PublishersInOrder, TypeOK
<1>2. ASSUME NEW r \in Runtimes, Stop(r) PROVE PublishersInOrder'
  BY <1>2, ChangePublished DEF Stop, States, Threads, TypeOK, RequestsInOrder
<1>2a. ASSUME NEW r \in Runtimes, Restart(r) PROVE PublishersInOrder'
  <2>1. CASE Changes(r, "stopping", Control)
    BY <2>1, ChangePublished DEF States, Threads
  <2>2. CASE UNCHANGED <<lock, clientVars, threadVars>>
    BY <2>2 DEF PublishersInOrder, TypeOK
  <2> QED
    BY <1>2a, <2>1, <2>2 DEF Restart
<1>3. ASSUME NEW r \in Runtimes, Run(r) PROVE PublishersInOrder'
  BY <1>3, ChangePublished DEF Run, States, Threads, TypeOK, RequestsInOrder
<1>4. ASSUME NEW r \in Runtimes, End(r) PROVE PublishersInOrder'
  BY <1>4, ChangePublished DEF End, States, Threads, TypeOK, RequestsInOrder
<1>5. CASE Create
  BY <1>5, ChangePublished DEF Create, States, Threads, TypeOK, RequestsInOrder
<1>6. CASE Spawn
  BY <1>6 DEF Spawn, Announced, Proceeds, PublishersInOrder, TypeOK
<1>6a. CASE SpawnFails
  BY <1>6a DEF SpawnFails, Announced, Vanishes, Proceeds, PublishersInOrder, TypeOK
<1>6b. CASE Remove
  BY <1>6b DEF Remove, Vanishes, Proceeds, PublishersInOrder, TypeOK
<1>7. CASE MetricsTick
  BY <1>7 DEF MetricsTick, Snapshots, EventOf, Reported, PublishersInOrder, TypeOK
<1>8. CASE MetricsSend
  <2>1. PICK e \in toSend[Metrics] : Broadcast(Metrics, e)
    BY <1>8 DEF MetricsSend
  <2>2. e \in Event /\ e.kind # "current" /\ e.state # "absent" /\ Metrics \in Threads
    BY <2>1, EventFields DEF TypeOK, RequestsInOrder, Threads, Metrics
  <2> QED
    BY <1>8, <2>1, <2>2, PublisherBegins DEF MetricsSend
<1>9. ASSUME NEW c \in Clients, Subscribe(c) PROVE PublishersInOrder'
  BY <1>9 DEF Subscribe, Idle, PublishersInOrder, TypeOK
<1>10. CASE TakeSnapshots
  BY <1>10 DEF TakeSnapshots, Snapshots, EventOf, PublishersInOrder, TypeOK
<1>11. CASE SendSnapshot
  BY <1>11 DEF SendSnapshot, PublishersInOrder, TypeOK
<1>12. CASE SendSnapshotFails
  BY <1>12 DEF SendSnapshotFails, PublishersInOrder, TypeOK
<1>13. CASE Register
  BY <1>13 DEF Register, PublishersInOrder, TypeOK
<1>14. ASSUME NEW t \in Threads, CopyClients(t) PROVE PublishersInOrder'
  BY <1>14 DEF CopyClients, PublishersInOrder, TypeOK
<1>15. ASSUME NEW t \in Threads, TakeLock(t) PROVE PublishersInOrder'
  <2>1. \A s \in Threads : s # Free
    BY DEF Threads, Control, Metrics, Free
  <2> QED
    BY <1>15, <2>1 DEF TakeLock, Takeable, PublishersInOrder, TypeOK
<1>16. ASSUME NEW t \in Threads, Write(t) PROVE PublishersInOrder'
  <2>1. Head(todo[t]) \in Clients /\ \A s \in Threads : bpc[s] = "write" => Head(todo[s]) \in Clients
    BY <1>16, TailRange DEF Write, PublishersInOrder, TypeOK
  <2>2. /\ bpc' = [bpc EXCEPT ![t] = "send"] /\ event' = event /\ failed' = failed /\ conn' = conn
        /\ todo' = [todo EXCEPT ![t] = Tail(@)] /\ lock' = [lock EXCEPT ![Head(todo[t])] = Free]
        /\ bpc[t] = "write" /\ lock[Head(todo[t])] = t
    BY <1>16 DEF Write, PublishersInOrder
  <2>3. bpc \in [Threads -> {"off", "copy", "send", "write"}] /\ DOMAIN todo = Threads /\ DOMAIN lock = Clients
    BY DEF TypeOK
  <2>4. bpc'[t] = "send" /\ \A s \in Threads \ {t} : bpc'[s] = bpc[s] /\ todo'[s] = todo[s]
    BY <2>2, <2>3
  <2>5. \A s \in Threads \ {t} : bpc[s] = "write" => lock'[Head(todo[s])] = s
    BY <2>1, <2>2, <2>3 DEF PublishersInOrder
  <2> QED
    BY <2>2, <2>4, <2>5 DEF PublishersInOrder
<1>17. ASSUME NEW t \in Threads, WriteFails(t) PROVE PublishersInOrder'
  <2>1. Head(todo[t]) \in Clients /\ \A s \in Threads : bpc[s] = "write" => Head(todo[s]) \in Clients
    BY <1>17, TailRange DEF WriteFails, PublishersInOrder, TypeOK
  <2> QED
    BY <1>17, <2>1, SMTT(60) DEF WriteFails, ReleaseLock, RestAfterFailure, PublishersInOrder, TypeOK
<1>18. ASSUME NEW t \in Threads, DropFailed(t) PROVE PublishersInOrder'
  BY <1>18 DEF DropFailed, PublishersInOrder, TypeOK
<1>19. ASSUME NEW c \in Clients, Read(c) PROVE PublishersInOrder'
  BY <1>19, SMTT(60) DEF Read, PublishersInOrder, TypeOK
<1>20. ASSUME NEW c \in Clients, CloseConnection(c) PROVE PublishersInOrder'
  BY <1>20 DEF CloseConnection, PublishersInOrder, TypeOK
<1>21. CASE UNCHANGED vars
  BY <1>21 DEF PublishersInOrder, TypeOK
<1> QED
  BY <1>1, <1>2, <1>2a, <1>3, <1>4, <1>5, <1>6, <1>6a, <1>6b, <1>7, <1>8, <1>9, <1>10, <1>11, <1>12,
      <1>13, <1>14, <1>15, <1>16, <1>17, <1>18, <1>19, <1>20, <1>21 DEF Next, ControlStep, BroadcastStep

\* ... and who is in clients_.
LEMMA SubscribersStep ==
    ASSUME IInv, [Next]_vars
    PROVE  SubscribersInOrder'
<1> USE DEF vars, runtimeVars, threadVars, subscribeVars, historyVars, clientVars, IInv, SubscribersInOrder,
      PublishersInOrder, RequestsInOrder, TypeOK, Registered, Subscribing
<1>1. ASSUME NEW r \in Runtimes, Start(r) PROVE SubscribersInOrder'
  BY <1>1 DEF Start, Vanishes, Proceeds, Idle
<1>2. ASSUME NEW r \in Runtimes, Stop(r) PROVE SubscribersInOrder'
  BY <1>2 DEF Stop, Idle, Changes, Broadcast
<1>2a. ASSUME NEW r \in Runtimes, Restart(r) PROVE SubscribersInOrder'
  BY <1>2a DEF Restart, Idle, Changes, Broadcast
<1>3. ASSUME NEW r \in Runtimes, Run(r) PROVE SubscribersInOrder'
  BY <1>3 DEF Run, Changes, Broadcast
<1>4. ASSUME NEW r \in Runtimes, End(r) PROVE SubscribersInOrder'
  BY <1>4 DEF End, Changes, Broadcast
<1>5. CASE Create
  BY <1>5 DEF Create, Changes, Broadcast
<1>6. CASE Spawn
  BY <1>6 DEF Spawn, Announced, Proceeds
<1>6a. CASE SpawnFails
  BY <1>6a DEF SpawnFails, Announced, Vanishes, Proceeds
<1>6b. CASE Remove
  BY <1>6b DEF Remove, Vanishes, Proceeds
<1>7. CASE MetricsTick
  BY <1>7 DEF MetricsTick, Snapshots, EventOf, Reported
<1>8. CASE MetricsSend
  BY <1>8 DEF MetricsSend, Broadcast
<1>9. ASSUME NEW c \in Clients, Subscribe(c) PROVE SubscribersInOrder'
  BY <1>9 DEF Subscribe, Idle
<1>10. CASE TakeSnapshots
  BY <1>10 DEF TakeSnapshots, Snapshots, EventOf
<1>11. CASE SendSnapshot
  BY <1>11 DEF SendSnapshot
<1>12. CASE SendSnapshotFails
  BY <1>12 DEF SendSnapshotFails
<1>13. CASE Register
  BY <1>13, AppendRange DEF Register
<1>14. ASSUME NEW t \in Threads, CopyClients(t) PROVE SubscribersInOrder'
  BY <1>14, TailRange DEF CopyClients
<1>15. ASSUME NEW t \in Threads, TakeLock(t) PROVE SubscribersInOrder'
  BY <1>15 DEF TakeLock, Takeable
<1>16. ASSUME NEW t \in Threads, Write(t) PROVE SubscribersInOrder'
  BY <1>16, TailRange DEF Write
<1>17. ASSUME NEW t \in Threads, WriteFails(t) PROVE SubscribersInOrder'
  BY <1>17, TailRange DEF WriteFails, ReleaseLock, RestAfterFailure
<1>18. ASSUME NEW t \in Threads, DropFailed(t) PROVE SubscribersInOrder'
  BY <1>18, WithoutRange DEF DropFailed
<1>19. ASSUME NEW c \in Clients, Read(c) PROVE SubscribersInOrder'
  BY <1>19 DEF Read
<1>20. ASSUME NEW c \in Clients, CloseConnection(c) PROVE SubscribersInOrder'
  BY <1>20 DEF CloseConnection
<1>21. CASE UNCHANGED vars
  BY <1>21
<1> QED
  BY <1>1, <1>2, <1>2a, <1>3, <1>4, <1>5, <1>6, <1>6a, <1>6b, <1>7, <1>8, <1>9, <1>10, <1>11, <1>12,
      <1>13, <1>14, <1>15, <1>16, <1>17, <1>18, <1>19, <1>20, <1>21 DEF Next, ControlStep, BroadcastStep

\* A step that opens no socket, sends nothing and reads nothing.
LEMMA SocketsKept ==
    ASSUME SocketsInOrder, UNCHANGED <<conn, channel, view, there>>,
           toSend'[Control] = toSend[Control] \/ cpc' = "idle",
           \A c \in Clients : Subscribing(c)' => Subscribing(c) /\ cpc' = cpc
    PROVE  SocketsInOrder'
<1>1. \A c \in Clients : (conn[c] # "open" => channel[c] = <<>>)'
  BY DEF SocketsInOrder
<1>2. ASSUME NEW c \in Clients, NEW i \in 1..Len(channel[c])
      PROVE  channel[c][i].state # "absent" /\ (Subscribing(c)' => channel[c][i].kind = "current")
  BY <1>2 DEF SocketsInOrder
<1>3. ASSUME NEW c \in Clients, Subscribing(c)', cpc' = "sending", conn[c] = "open",
             NEW r \in there[c]
      PROVE  \/ view[c][r] # "absent"
             \/ \E i \in 1..Len(channel[c]) : channel[c][i].runtime = r
             \/ \E e \in toSend'[Control] : e.runtime = r
  BY <1>3 DEF SocketsInOrder, Subscribing
<1> QED
  BY <1>1, <1>2, <1>3 DEF SocketsInOrder

\* ... and what is in the sockets of new subscribers.
LEMMA SocketsStep ==
    ASSUME IInv, [Next]_vars
    PROVE  SocketsInOrder'
<1> USE DEF vars, runtimeVars, threadVars, subscribeVars, historyVars, clientVars, IInv
<1>1. ASSUME NEW r \in Runtimes, Start(r) PROVE SocketsInOrder'
  BY <1>1, SocketsKept DEF Start, Vanishes, Proceeds, Idle, Subscribing
<1>2. ASSUME NEW r \in Runtimes, Stop(r) PROVE SocketsInOrder'
  BY <1>2, SocketsKept DEF Stop, Idle, Changes, Broadcast, Subscribing
<1>2a. ASSUME NEW r \in Runtimes, Restart(r) PROVE SocketsInOrder'
  BY <1>2a, SocketsKept DEF Restart, Idle, Changes, Broadcast, Subscribing
<1>3. ASSUME NEW r \in Runtimes, Run(r) PROVE SocketsInOrder'
  BY <1>3, SocketsKept DEF Run, Changes, Broadcast, Subscribing
<1>4. ASSUME NEW r \in Runtimes, End(r) PROVE SocketsInOrder'
  BY <1>4, SocketsKept DEF End, Changes, Broadcast, Subscribing
<1>5. CASE Create
  BY <1>5, SocketsKept DEF Create, Changes, Broadcast, Subscribing
<1>6. CASE Spawn
  BY <1>6, SocketsKept DEF Spawn, Announced, Proceeds, Subscribing
<1>6a. CASE SpawnFails
  BY <1>6a, SocketsKept DEF SpawnFails, Announced, Vanishes, Proceeds, Subscribing
<1>6b. CASE Remove
  BY <1>6b, SocketsKept DEF Remove, Vanishes, Proceeds, Subscribing
<1>7. CASE MetricsTick
  BY <1>7, SocketsKept DEF MetricsTick, Snapshots, EventOf, Reported, Subscribing, Control,
      Metrics, TypeOK
<1>8. CASE MetricsSend
  BY <1>8, SocketsKept DEF MetricsSend, Broadcast, Subscribing, Control, Metrics, TypeOK
<1>9. ASSUME NEW c \in Clients, Subscribe(c) PROVE SocketsInOrder'
  <2>1. ASSUME NEW d \in Clients, Subscribing(d)' PROVE d = c /\ channel[c] = <<>>
    BY <1>9, <2>1 DEF Subscribe, Subscribing, SocketsInOrder, TypeOK
  <2>2. \A d \in Clients : conn'[d] # "open" => conn[d] # "open"
    BY <1>9 DEF Subscribe, TypeOK
  <2>3. cpc' # "sending" /\ channel' = channel
    BY <1>9 DEF Subscribe
  <2> QED
    BY <2>1, <2>2, <2>3 DEF SocketsInOrder
<1>10. CASE TakeSnapshots
  <2>1. about \in Clients /\ \A d \in Clients : Subscribing(d)' <=> d = about /\ Subscribing(d)
    BY <1>10 DEF TakeSnapshots, Subscribing, RequestsInOrder
  <2>2. \A r \in there'[about] : \E e \in toSend'[Control] : e.runtime = r
    BY <1>10, <2>1, SnapshotsAreEvents DEF TakeSnapshots, TypeOK, RequestsInOrder, Control, Metrics
  <2>3. UNCHANGED <<conn, channel, view>>
    BY <1>10 DEF TakeSnapshots, clientVars
  <2>4. Subscribing(about)
    BY <1>10 DEF TakeSnapshots, Subscribing
  <2> QED
    BY <2>1, <2>2, <2>3, <2>4 DEF SocketsInOrder
<1>11. CASE SendSnapshot
  <2>1. PICK e \in toSend[Control] :
            /\ channel' = [channel EXCEPT ![about] = Append(@, e)]
            /\ toSend' = [toSend EXCEPT ![Control] = @ \ {e}]
    BY <1>11 DEF SendSnapshot
  <2>2. about \in Clients /\ Subscribing(about) /\ conn[about] = "open" /\ conn' = conn /\ view' = view
        /\ there' = there /\ cpc = "sending" /\ cpc' = cpc /\ about' = about
    BY <1>11 DEF SendSnapshot, Subscribing, RequestsInOrder, subscribeVars
  <2>3. e \in Event /\ e.kind = "current" /\ e.state # "absent" /\ channel[about] \in Seq(Event)
    BY <2>2 DEF TypeOK, RequestsInOrder, Control
  <2>4. toSend'[Control] = toSend[Control] \ {e}
    BY <2>1 DEF TypeOK
  <2>5. /\ channel'[about] = Append(channel[about], e)
        /\ \A d \in Clients : d # about => channel'[d] = channel[d]
    BY <2>1, <2>2 DEF TypeOK
  <2>6. /\ Len(channel'[about]) = Len(channel[about]) + 1 /\ Len(channel[about]) \in Nat
        /\ \A i \in 1..Len(channel[about]) : channel'[about][i] = channel[about][i]
        /\ channel'[about][Len(channel[about]) + 1] = e
    BY <2>3, <2>5
  <2>7. ASSUME NEW i \in 1..Len(channel'[about])
        PROVE  channel'[about][i].state # "absent" /\ channel'[about][i].kind = "current"
    BY <2>2, <2>3, <2>6, <2>7, SMTT(60) DEF SocketsInOrder
  <2>8. ASSUME NEW r \in there[about]
        PROVE  \/ view[about][r] # "absent"
               \/ \E i \in 1..Len(channel'[about]) : channel'[about][i].runtime = r
               \/ \E x \in toSend'[Control] : x.runtime = r
    <3>1. CASE e.runtime = r
      BY <2>6, <3>1
    <3>2. CASE e.runtime # r
      BY <2>2, <2>4, <2>6, <2>8, <3>2 DEF SocketsInOrder
    <3> QED
      BY <3>1, <3>2
  <2>9. ASSUME NEW d \in Clients, d # about PROVE ~Subscribing(d)'
    BY <2>2, <2>9 DEF Subscribing
  <2> QED
    BY <2>2, <2>5, <2>7, <2>8, <2>9, SMTT(60) DEF SocketsInOrder
<1>12. CASE SendSnapshotFails
  BY <1>12, SocketsKept DEF SendSnapshotFails, Subscribing, RequestsInOrder
<1>13. CASE Register
  BY <1>13, SocketsKept DEF Register, Subscribing
<1>14. ASSUME NEW t \in Threads, CopyClients(t) PROVE SocketsInOrder'
  BY <1>14, SocketsKept DEF CopyClients, Subscribing
<1>15. ASSUME NEW t \in Threads, TakeLock(t) PROVE SocketsInOrder'
  BY <1>15, SocketsKept DEF TakeLock, Takeable, Subscribing
<1>16. ASSUME NEW t \in Threads, Write(t) PROVE SocketsInOrder'
  <2> DEFINE c == Head(todo[t])
  <2>1. todo[t] \in Seq(Clients) /\ todo[t] # <<>> /\ event[t] # NoEvent
    BY <1>16 DEF PublishersInOrder, Write, TypeOK, Threads
  <2>2. c \in Clients /\ c \in Range(todo[t]) /\ event[t].state # "absent" /\ event[t] \in Event
    BY <2>1, TailRange DEF PublishersInOrder, TypeOK
  <2>3. ~Subscribing(c) /\ conn[c] = "open" /\ conn' = conn /\ view' = view /\ there' = there
        /\ cpc' = cpc /\ about' = about /\ toSend' = toSend
    BY <1>16, <2>2 DEF Write, SubscribersInOrder, subscribeVars
  <2>4. channel' = [channel EXCEPT ![c] = Append(channel[c], event[t])]
    BY <1>16 DEF Write
  <2> HIDE DEF c
  <2>5. /\ channel'[c] = Append(channel[c], event[t]) /\ channel[c] \in Seq(Event)
        /\ \A d \in Clients : d # c => channel'[d] = channel[d]
    BY <2>2, <2>4 DEF TypeOK
  <2>6. ASSUME NEW i \in 1..Len(channel'[c]) PROVE channel'[c][i].state # "absent"
    <3>1. CASE i \in 1..Len(channel[c])
      BY <2>2, <2>5, <3>1 DEF SocketsInOrder
    <3>2. CASE i = Len(channel[c]) + 1
      BY <2>2, <2>5, <3>2
    <3> QED
      BY <2>2, <2>5, <2>6, <3>1, <3>2
  <2>7. \A d \in Clients : Subscribing(d)' <=> Subscribing(d)
    BY <2>3 DEF Subscribing
  <2> QED
    <3>1. \A d \in Clients : conn'[d] # "open" => channel'[d] = <<>>
      BY <2>3, <2>5 DEF SocketsInOrder
    <3>2. ASSUME NEW d \in Clients, d # c
          PROVE  \A i \in 1..Len(channel'[d]) :
                    channel'[d][i].state # "absent" /\ (Subscribing(d) => channel'[d][i].kind = "current")
      BY <2>5, <3>2 DEF SocketsInOrder
    <3>3. ASSUME NEW d \in Clients, d # c, Subscribing(d), cpc = "sending", conn[d] = "open",
                 NEW r \in there[d]
          PROVE  \/ view[d][r] # "absent"
                 \/ \E i \in 1..Len(channel'[d]) : channel'[d][i].runtime = r
                 \/ \E x \in toSend[Control] : x.runtime = r
      BY <2>5, <3>3 DEF SocketsInOrder
    <3> QED
      BY <2>3, <2>6, <2>7, <3>1, <3>2, <3>3 DEF SocketsInOrder
<1>17. ASSUME NEW t \in Threads, WriteFails(t) PROVE SocketsInOrder'
  BY <1>17, SocketsKept DEF WriteFails, ReleaseLock, RestAfterFailure, Subscribing
<1>18. ASSUME NEW t \in Threads, DropFailed(t) PROVE SocketsInOrder'
  BY <1>18, SocketsKept DEF DropFailed, Subscribing
<1>19. ASSUME NEW c \in Clients, Read(c) PROVE SocketsInOrder'
  <2> DEFINE e == Head(channel[c])
  <2>1. channel[c] \in Seq(Event) /\ channel[c] # <<>> /\ e = channel[c][1] /\ 1 \in 1..Len(channel[c])
    BY <1>19 DEF Read, TypeOK
  <2>2. e \in Event /\ e.runtime \in Runtimes /\ e.state # "absent"
    BY <2>1, EventFields DEF SocketsInOrder
  <2>3. /\ channel' = [channel EXCEPT ![c] = Tail(@)] /\ view' = [view EXCEPT ![c][e.runtime] = e.state]
        /\ conn' = conn /\ there' = there /\ toSend' = toSend /\ cpc' = cpc /\ about' = about
        /\ conn[c] = "open"
    BY <1>19 DEF Read, subscribeVars
  <2> HIDE DEF e
  <2>4. /\ channel'[c] = Tail(channel[c])
        /\ \A d \in Clients : d # c => channel'[d] = channel[d] /\ view'[d] = view[d]
        /\ \A r \in Runtimes : view'[c][r] = IF r = e.runtime THEN e.state ELSE view[c][r]
    BY <2>2, <2>3 DEF TypeOK
  <2>5. /\ Len(channel'[c]) = Len(channel[c]) - 1 /\ Len(channel[c]) \in Nat
        /\ \A i \in 1..Len(channel'[c]) : channel'[c][i] = channel[c][i + 1]
    BY <2>1, <2>4
  <2>6. ASSUME NEW i \in 1..Len(channel'[c])
        PROVE  channel'[c][i].state # "absent" /\ (Subscribing(c) => channel'[c][i].kind = "current")
    <3>1. i + 1 \in 1..Len(channel[c]) /\ channel'[c][i] = channel[c][i + 1]
      BY <2>5, <2>6
    <3> QED
      BY <3>1 DEF SocketsInOrder
  <2>7. ASSUME Subscribing(c), cpc = "sending", NEW r \in there[c]
        PROVE  \/ view'[c][r] # "absent"
               \/ \E i \in 1..Len(channel'[c]) : channel'[c][i].runtime = r
               \/ \E x \in toSend[Control] : x.runtime = r
    <3>1. CASE r = e.runtime
      BY <2>2, <2>4, <3>1
    <3>2. CASE view[c][r] # "absent" \/ \E x \in toSend[Control] : x.runtime = r
      BY <2>2, <2>4, <3>2 DEF TypeOK
    <3>3. ASSUME r # e.runtime, NEW i \in 1..Len(channel[c]), channel[c][i].runtime = r
          PROVE  \E j \in 1..Len(channel'[c]) : channel'[c][j].runtime = r
      <4>1. i # 1
        BY <2>1, <3>3
      <4>2. i - 1 \in 1..Len(channel'[c]) /\ channel'[c][i - 1] = channel[c][i]
        BY <4>1, <2>5
      <4> QED
        BY <4>2, <3>3
    <3> QED
      BY <2>3, <2>7, <3>1, <3>2, <3>3 DEF SocketsInOrder
  <2>8. \A d \in Clients : Subscribing(d)' <=> Subscribing(d)
    BY <2>3 DEF Subscribing
  <2> QED
    BY <2>3, <2>4, <2>6, <2>7, <2>8 DEF SocketsInOrder
<1>20. ASSUME NEW c \in Clients, CloseConnection(c) PROVE SocketsInOrder'
  <2>1. /\ conn' = [conn EXCEPT ![c] = "closed"] /\ channel' = [channel EXCEPT ![c] = <<>>]
        /\ view' = [view EXCEPT ![c] = Blank]
        /\ UNCHANGED <<cpc, about, there, toSend>>
    BY <1>20 DEF CloseConnection
  <2>2. /\ conn'[c] = "closed" /\ channel'[c] = <<>>
        /\ \A d \in Clients : d # c => conn'[d] = conn[d] /\ channel'[d] = channel[d] /\ view'[d] = view[d]
    BY <2>1 DEF TypeOK
  <2>3. \A d \in Clients : Subscribing(d)' <=> Subscribing(d)
    BY <2>1 DEF Subscribing
  <2>4. 1..Len(channel'[c]) = {}
    BY <2>2
  <2> QED
    BY <2>1, <2>2, <2>3, <2>4 DEF SocketsInOrder
<1>21. CASE UNCHANGED vars
  BY <1>21, SocketsKept DEF Subscribing
<1> QED
  BY <1>1, <1>2, <1>2a, <1>3, <1>4, <1>5, <1>6, <1>6a, <1>6b, <1>7, <1>8, <1>9, <1>10, <1>11, <1>12,
      <1>13, <1>14, <1>15, <1>16, <1>17, <1>18, <1>19, <1>20, <1>21 DEF Next, ControlStep, BroadcastStep

\* A step that sends nothing, reads nothing and registers nobody.
LEMMA SnapshotsKept ==
    ASSUME SnapshotsFirst, UNCHANGED <<conn, channel, view, there>>,
           \A c \in Clients : Registered(c)' => Registered(c)
    PROVE  SnapshotsFirst'
<1>1. ASSUME NEW c \in Clients, conn[c] = "open"
      PROVE  \A i, j \in 1..Len(channel[c]) :
                 i < j /\ channel[c][j].kind = "current" => channel[c][i].kind = "current"
  BY <1>1 DEF SnapshotsFirst
<1>2. ASSUME NEW c \in Clients, conn[c] = "open", Registered(c)', NEW r \in there[c]
      PROVE  view[c][r] # "absent" \/ \E i \in 1..Len(channel[c]) : channel[c][i].runtime = r
  BY <1>2 DEF SnapshotsFirst
<1> QED
  BY <1>1, <1>2 DEF SnapshotsFirst

\* ... and of those that are registered.
LEMMA SnapshotsStep ==
    ASSUME IInv, [Next]_vars
    PROVE  SnapshotsFirst'
<1> USE DEF vars, runtimeVars, threadVars, subscribeVars, historyVars, clientVars, IInv
<1>1. ASSUME NEW r \in Runtimes, Start(r) PROVE SnapshotsFirst'
  BY <1>1, SnapshotsKept DEF Start, Vanishes, Proceeds, Idle, Registered, Subscribing
<1>2. ASSUME NEW r \in Runtimes, Stop(r) PROVE SnapshotsFirst'
  BY <1>2, SnapshotsKept DEF Stop, Idle, Changes, Broadcast, Registered, Subscribing
<1>2a. ASSUME NEW r \in Runtimes, Restart(r) PROVE SnapshotsFirst'
  BY <1>2a, SnapshotsKept DEF Restart, Idle, Changes, Broadcast, Registered, Subscribing
<1>3. ASSUME NEW r \in Runtimes, Run(r) PROVE SnapshotsFirst'
  BY <1>3, SnapshotsKept DEF Run, Changes, Broadcast, Registered, Subscribing
<1>4. ASSUME NEW r \in Runtimes, End(r) PROVE SnapshotsFirst'
  BY <1>4, SnapshotsKept DEF End, Changes, Broadcast, Registered, Subscribing
<1>5. CASE Create
  BY <1>5, SnapshotsKept DEF Create, Changes, Broadcast, Registered, Subscribing
<1>6. CASE Spawn
  BY <1>6, SnapshotsKept DEF Spawn, Announced, Proceeds, Registered, Subscribing
<1>6a. CASE SpawnFails
  BY <1>6a, SnapshotsKept DEF SpawnFails, Announced, Vanishes, Proceeds, Registered, Subscribing
<1>6b. CASE Remove
  BY <1>6b, SnapshotsKept DEF Remove, Vanishes, Proceeds, Registered, Subscribing
<1>7. CASE MetricsTick
  BY <1>7, SnapshotsKept DEF MetricsTick, Snapshots, EventOf, Reported, Registered, Subscribing
<1>8. CASE MetricsSend
  BY <1>8, SnapshotsKept DEF MetricsSend, Broadcast, Registered, Subscribing
<1>9. ASSUME NEW c \in Clients, Subscribe(c) PROVE SnapshotsFirst'
  BY <1>9 DEF Subscribe, Idle, SnapshotsFirst, SocketsInOrder, SubscribersInOrder,
      RequestsInOrder, TypeOK, Registered, Subscribing
<1>10. CASE TakeSnapshots
  BY <1>10 DEF TakeSnapshots, Snapshots, EventOf, SnapshotsFirst, SocketsInOrder,
      SubscribersInOrder, RequestsInOrder, TypeOK, Registered, Subscribing
<1>11. CASE SendSnapshot
  <2>1. SocketsInOrder'
    BY SocketsStep
  <2>2. /\ UNCHANGED <<conn, view, there, cpc, about>> /\ about \in Clients /\ Subscribing(about)
        /\ \A d \in Clients : d # about => channel'[d] = channel[d]
    BY <1>11 DEF SendSnapshot, subscribeVars, Subscribing, RequestsInOrder, TypeOK
  <2>3. \A d \in Clients : Registered(d)' <=> Registered(d) /\ d # about
    BY <2>2 DEF Registered, Subscribing
  <2>4. \A i \in 1..Len(channel'[about]) : channel'[about][i].kind = "current"
    BY <2>1, <2>2 DEF SocketsInOrder, Subscribing
  <2> QED
    BY <2>2, <2>3, <2>4 DEF SnapshotsFirst
<1>12. CASE SendSnapshotFails
  BY <1>12, SnapshotsKept DEF SendSnapshotFails, Registered, Subscribing
<1>13. CASE Register
  <2>1. /\ UNCHANGED <<conn, channel, view, there>> /\ about \in Clients /\ toSend[Control] = {}
        /\ cpc = "sending" /\ cpc' = "idle"
    BY <1>13 DEF Register, RequestsInOrder
  <2>2. ASSUME NEW c \in Clients, conn[c] = "open", NEW r \in there[c]
        PROVE  view[c][r] # "absent" \/ \E i \in 1..Len(channel[c]) : channel[c][i].runtime = r
    <3>1. CASE c = about
      BY <2>1, <2>2, <3>1 DEF SocketsInOrder, Subscribing
    <3>2. CASE c # about
      BY <2>2, <3>2 DEF SnapshotsFirst, Registered, Subscribing
    <3> QED
      BY <3>1, <3>2
  <2>3. ASSUME NEW c \in Clients, conn[c] = "open"
        PROVE  \A i, j \in 1..Len(channel[c]) :
                   i < j /\ channel[c][j].kind = "current" => channel[c][i].kind = "current"
    BY <2>3 DEF SnapshotsFirst
  <2> QED
    BY <2>1, <2>2, <2>3 DEF SnapshotsFirst
<1>14. ASSUME NEW t \in Threads, CopyClients(t) PROVE SnapshotsFirst'
  BY <1>14, SnapshotsKept DEF CopyClients, Registered, Subscribing
<1>15. ASSUME NEW t \in Threads, TakeLock(t) PROVE SnapshotsFirst'
  BY <1>15, SnapshotsKept DEF TakeLock, Takeable, Registered, Subscribing
<1>16. ASSUME NEW t \in Threads, Write(t) PROVE SnapshotsFirst'
  <2> DEFINE c == Head(todo[t])
  <2>1. todo[t] \in Seq(Clients) /\ todo[t] # <<>> /\ event[t] # NoEvent
    BY <1>16 DEF PublishersInOrder, Write, TypeOK, Threads
  <2>2. c \in Clients /\ c \in Range(todo[t]) /\ event[t].kind # "current" /\ event[t] \in Event
    BY <2>1, TailRange DEF PublishersInOrder, TypeOK
  <2>3. /\ conn[c] = "open" /\ UNCHANGED <<conn, view, there, cpc, about>>
        /\ channel' = [channel EXCEPT ![c] = Append(channel[c], event[t])]
    BY <1>16 DEF Write, subscribeVars
  <2>4. \A d \in Clients : Registered(d)' <=> Registered(d)
    BY <2>3 DEF Registered, Subscribing
  <2> HIDE DEF c
  <2>5. /\ channel'[c] = Append(channel[c], event[t]) /\ channel[c] \in Seq(Event)
        /\ \A d \in Clients : d # c => channel'[d] = channel[d]
    BY <2>2, <2>3 DEF TypeOK
  <2>6. /\ Len(channel'[c]) = Len(channel[c]) + 1 /\ Len(channel[c]) \in Nat
        /\ \A i \in 1..Len(channel[c]) : channel'[c][i] = channel[c][i]
        /\ channel'[c][Len(channel[c]) + 1] = event[t]
    BY <2>2, <2>5
  <2>7. ASSUME NEW i \in 1..Len(channel'[c]), NEW j \in 1..Len(channel'[c]), i < j,
               channel'[c][j].kind = "current"
        PROVE  channel'[c][i].kind = "current"
    <3>1. i \in 1..Len(channel[c]) /\ j \in 1..Len(channel[c])
      BY <2>2, <2>6, <2>7
    <3> QED
      BY <2>2, <2>3, <2>6, <2>7, <3>1 DEF SnapshotsFirst
  <2>8. ASSUME Registered(c), NEW r \in there[c]
        PROVE  view[c][r] # "absent" \/ \E i \in 1..Len(channel'[c]) : channel'[c][i].runtime = r
    BY <2>2, <2>3, <2>6, <2>8 DEF SnapshotsFirst
  <2> QED
    BY <2>2, <2>3, <2>4, <2>5, <2>7, <2>8 DEF SnapshotsFirst
<1>17. ASSUME NEW t \in Threads, WriteFails(t) PROVE SnapshotsFirst'
  BY <1>17, SnapshotsKept DEF WriteFails, ReleaseLock, RestAfterFailure, Registered, Subscribing
<1>18. ASSUME NEW t \in Threads, DropFailed(t) PROVE SnapshotsFirst'
  BY <1>18, SnapshotsKept DEF DropFailed, Registered, Subscribing
<1>19. ASSUME NEW c \in Clients, Read(c) PROVE SnapshotsFirst'
  <2> DEFINE e == Head(channel[c])
  <2>1. channel[c] \in Seq(Event) /\ channel[c] # <<>> /\ e = channel[c][1] /\ 1 \in 1..Len(channel[c])
    BY <1>19 DEF Read, TypeOK
  <2>2. e \in Event /\ e.runtime \in Runtimes /\ e.state # "absent"
    BY <2>1, EventFields DEF SocketsInOrder
  <2>3. /\ channel' = [channel EXCEPT ![c] = Tail(@)] /\ view' = [view EXCEPT ![c][e.runtime] = e.state]
        /\ UNCHANGED <<conn, there, cpc, about>> /\ conn[c] = "open"
    BY <1>19 DEF Read, subscribeVars
  <2> HIDE DEF e
  <2>4. /\ channel'[c] = Tail(channel[c])
        /\ \A d \in Clients : d # c => channel'[d] = channel[d] /\ view'[d] = view[d]
        /\ \A r \in Runtimes : view'[c][r] = IF r = e.runtime THEN e.state ELSE view[c][r]
    BY <2>2, <2>3 DEF TypeOK
  <2>5. /\ Len(channel'[c]) = Len(channel[c]) - 1 /\ Len(channel[c]) \in Nat
        /\ \A i \in 1..Len(channel'[c]) : channel'[c][i] = channel[c][i + 1]
    BY <2>1, <2>4
  <2>6. ASSUME NEW i \in 1..Len(channel'[c]), NEW j \in 1..Len(channel'[c]), i < j,
               channel'[c][j].kind = "current"
        PROVE  channel'[c][i].kind = "current"
    <3>1. /\ i + 1 \in 1..Len(channel[c]) /\ channel'[c][i] = channel[c][i + 1]
          /\ j + 1 \in 1..Len(channel[c]) /\ channel'[c][j] = channel[c][j + 1] /\ i + 1 < j + 1
      BY <2>5, <2>6
    <3> QED
      BY <2>3, <2>6, <3>1 DEF SnapshotsFirst
  <2>7. ASSUME Registered(c), NEW r \in there[c]
        PROVE  view'[c][r] # "absent" \/ \E i \in 1..Len(channel'[c]) : channel'[c][i].runtime = r
    <3>1. CASE r = e.runtime \/ view[c][r] # "absent"
      BY <2>2, <2>4, <3>1 DEF TypeOK
    <3>2. ASSUME r # e.runtime, NEW i \in 1..Len(channel[c]), channel[c][i].runtime = r
          PROVE  \E j \in 1..Len(channel'[c]) : channel'[c][j].runtime = r
      <4>1. i # 1
        BY <2>1, <3>2
      <4>2. i - 1 \in 1..Len(channel'[c]) /\ channel'[c][i - 1] = channel[c][i]
        BY <4>1, <2>5
      <4> QED
        BY <4>2, <3>2
    <3> QED
      BY <2>3, <2>7, <3>1, <3>2 DEF SnapshotsFirst
  <2>8. \A d \in Clients : Registered(d)' <=> Registered(d)
    BY <2>3 DEF Registered, Subscribing
  <2> QED
    BY <2>3, <2>4, <2>6, <2>7, <2>8 DEF SnapshotsFirst
<1>20. ASSUME NEW c \in Clients, CloseConnection(c) PROVE SnapshotsFirst'
  <2>1. /\ conn'[c] = "closed" /\ UNCHANGED <<there, cpc, about>>
        /\ \A d \in Clients : d # c => conn'[d] = conn[d] /\ channel'[d] = channel[d] /\ view'[d] = view[d]
    BY <1>20 DEF CloseConnection, TypeOK
  <2>2. \A d \in Clients : d # c => (Registered(d)' <=> Registered(d))
    BY <2>1 DEF Registered, Subscribing
  <2> QED
    BY <2>1, <2>2 DEF SnapshotsFirst
<1>21. CASE UNCHANGED vars
  BY <1>21, SnapshotsKept DEF Registered, Subscribing
<1> QED
  BY <1>1, <1>2, <1>2a, <1>3, <1>4, <1>5, <1>6, <1>6a, <1>6b, <1>7, <1>8, <1>9, <1>10, <1>11, <1>12,
      <1>13, <1>14, <1>15, <1>16, <1>17, <1>18, <1>19, <1>20, <1>21 DEF Next, ControlStep, BroadcastStep

\* Who has still to be told, or has been, is so after a step that publishes and
\* writes nothing ...
LEMMA ToldKept ==
    ASSUME NEW c \in Clients, NEW r \in Runtimes, NEW v \in Nat, Told(c, r, v),
           UNCHANGED <<got, event, todo>>, \A t \in Threads : bpc[t] = "copy" => bpc'[t] = "copy"
    PROVE  Told(c, r, v)'
BY DEF Told, WillTell

\* ... and after one in which a thread begins to publish something else.
LEMMA ToldWhileOneBegins ==
    ASSUME TypeOK, PublishersInOrder, NEW t \in Threads, NEW e \in Event, bpc[t] = "off",
        Broadcast(t, e),
           got' = got, NEW c \in Clients, NEW r \in Runtimes, NEW v \in Nat, Told(c, r, v)
    PROVE  Told(c, r, v)'
<1>1. CASE <<r, v>> \in got[c]
  BY <1>1 DEF Told
<1>2. ASSUME NEW s \in Threads, WillTell(s, c, r, v) PROVE WillTell(s, c, r, v)'
  <2>1. s # t
    BY <1>2 DEF WillTell, PublishersInOrder, NoEvent
  <2>2. event'[s] = event[s] /\ todo' = todo /\ bpc'[s] = bpc[s]
    BY <2>1 DEF Broadcast, TypeOK
  <2> QED
    BY <1>2, <2>2 DEF WillTell
<1> QED
  BY <1>1, <1>2 DEF Told

\* What the invariant needs of a step after which nobody else is registered, and
\* that changes no state.
LEMMA NothingLostKept ==
    ASSUME TypeOK, NothingLost, UNCHANGED <<since, version>>,
           \A c \in Clients : Registered(c)' => Registered(c),
           \A c \in Clients, r \in Runtimes, v \in Nat :
               Registered(c)' /\ Registered(c) /\ Told(c, r, v) => Told(c, r, v)'
    PROVE  NothingLost'
<1> SUFFICES ASSUME NEW c \in Clients, Registered(c)', NEW r \in Runtimes,
                    NEW v \in since[c][r] + 1 .. version[r]
             PROVE  Told(c, r, v)'
  BY DEF NothingLost
<1>1. v \in Nat
  BY DEF TypeOK
<1> QED
  BY <1>1 DEF NothingLost

\* The same of a step that changes the state of a runtime, and begins to tell of it.
LEMMA ChangeTold ==
    ASSUME TypeOK, PublishersInOrder, NothingLost, NEW t \in Threads, NEW r \in Runtimes,
           NEW s \in States, Changes(r, s, t), UNCHANGED since,
           \A c \in Clients : Registered(c)' => Registered(c)
    PROVE  NothingLost'
<1> DEFINE e == [kind |-> "lifecycle", runtime |-> r, state |-> s, version |-> version[r] + 1]
<1>1. /\ e \in Event /\ bpc[t] = "off" /\ Broadcast(t, e) /\ got' = got
      /\ version' = [version EXCEPT ![r] = @ + 1]
  BY ChangeIsEvent DEF Changes, TypeOK
<1>2. bpc'[t] = "copy" /\ event'[t] = e
  BY <1>1 DEF Broadcast, TypeOK
<1>3. \A x \in Runtimes : version[x] \in Nat /\ version'[x] = IF x = r THEN version[x] + 1 ELSE version[x]
  BY <1>1 DEF TypeOK
<1>4. e.kind = "lifecycle" /\ e.runtime = r /\ e.version = version[r] + 1
  OBVIOUS
<1> HIDE DEF e
<1> SUFFICES ASSUME NEW c \in Clients, Registered(c)', NEW x \in Runtimes,
                    NEW v \in since[c][x] + 1 .. version'[x]
             PROVE  Told(c, x, v)'
  BY DEF NothingLost
<1>5. since[c][x] \in Nat /\ v \in Nat
  BY <1>3 DEF TypeOK
<1>6. CASE x = r /\ v = version[r] + 1
  BY <1>2, <1>4, <1>6 DEF Told, WillTell
<1>7. CASE v \in since[c][x] + 1 .. version[x]
  <2>1. Told(c, x, v)
    BY <1>7 DEF NothingLost
  <2> QED
    BY <1>1, <1>5, <2>1, ToldWhileOneBegins
<1> QED
  BY <1>3, <1>5, <1>6, <1>7

\* ... and what each has been told.
LEMMA NothingLostStep ==
    ASSUME IInv, [Next]_vars
    PROVE  NothingLost'
<1> USE DEF vars, runtimeVars, threadVars, subscribeVars, historyVars, clientVars, IInv
<1>1. ASSUME NEW r \in Runtimes, Start(r) PROVE NothingLost'
  BY <1>1, ToldKept, NothingLostKept DEF Start, Vanishes, Proceeds, Idle, Registered, Subscribing
<1>2. ASSUME NEW r \in Runtimes, Stop(r) PROVE NothingLost'
  <2>1. Changes(r, "stopping",
          Control) /\ r \in Runtimes /\ Control \in Threads /\ "stopping" \in States /\ UNCHANGED since
    BY <1>2 DEF Stop, States, Threads, RequestsInOrder, subscribeVars
  <2>2. \A d \in Clients : Registered(d)' => Registered(d)
    BY <1>2 DEF Stop, Changes, clientVars, subscribeVars, Registered, Subscribing
  <2> QED
    BY <2>1, <2>2, ChangeTold
<1>2a. ASSUME NEW r \in Runtimes, Restart(r) PROVE NothingLost'
  <2>1. \A d \in Clients : Registered(d)' => Registered(d)
    BY <1>2a DEF Restart, Idle, Changes, Registered, Subscribing
  <2>2. CASE Changes(r, "stopping", Control)
    <3>1. Control \in Threads /\ "stopping" \in States /\ UNCHANGED since
      BY <1>2a DEF Restart, States, Threads
    <3> QED
      BY <2>1, <2>2, <3>1, ChangeTold
  <2>3. CASE UNCHANGED <<version, clientVars, threadVars, got>>
    BY <1>2a, <2>1, <2>3, ToldKept, NothingLostKept DEF Restart
  <2> QED
    BY <1>2a, <2>2, <2>3 DEF Restart
<1>3. ASSUME NEW r \in Runtimes, Run(r) PROVE NothingLost'
  <2>1. Changes(r, "running",
          r) /\ r \in Runtimes /\ r \in Threads /\ "running" \in States /\ UNCHANGED since
    BY <1>3 DEF Run, States, Threads, RequestsInOrder, subscribeVars
  <2>2. \A d \in Clients : Registered(d)' => Registered(d)
    BY <1>3 DEF Run, Changes, clientVars, subscribeVars, Registered, Subscribing
  <2> QED
    BY <2>1, <2>2, ChangeTold
<1>4. ASSUME NEW r \in Runtimes, End(r) PROVE NothingLost'
  <2>1. Changes(r, "stopped",
          r) /\ r \in Runtimes /\ r \in Threads /\ "stopped" \in States /\ UNCHANGED since
    BY <1>4 DEF End, States, Threads, RequestsInOrder, subscribeVars
  <2>2. \A d \in Clients : Registered(d)' => Registered(d)
    BY <1>4 DEF End, Changes, clientVars, subscribeVars, Registered, Subscribing
  <2> QED
    BY <2>1, <2>2, ChangeTold
<1>5. CASE Create
  <2>1. Changes(about, "starting",
          Control) /\ about \in Runtimes /\ Control \in Threads /\ "starting" \in States /\ UNCHANGED since
    BY <1>5 DEF Create, States, Threads, RequestsInOrder, subscribeVars
  <2>2. \A d \in Clients : Registered(d)' => Registered(d)
    BY <1>5 DEF Create, Changes, clientVars, subscribeVars, Registered, Subscribing
  <2> QED
    BY <2>1, <2>2, ChangeTold
<1>6. CASE Spawn
  BY <1>6, ToldKept, NothingLostKept DEF Spawn, Announced, Proceeds, Registered, Subscribing
<1>6a. CASE SpawnFails
  BY <1>6a, ToldKept, NothingLostKept DEF SpawnFails, Announced, Vanishes, Proceeds, Registered, Subscribing
<1>6b. CASE Remove
  BY <1>6b, ToldKept, NothingLostKept DEF Remove, Vanishes, Proceeds, Registered, Subscribing
<1>7. CASE MetricsTick
  BY <1>7, ToldKept, NothingLostKept DEF MetricsTick, Snapshots, EventOf, Reported, Registered,
      Subscribing
<1>8. CASE MetricsSend
  <2>1. PICK e \in toSend[Metrics] : Broadcast(Metrics, e)
    BY <1>8 DEF MetricsSend
  <2>2. e \in Event /\ Metrics \in Threads /\ bpc[Metrics] = "off"
    BY <1>8 DEF MetricsSend, TypeOK, Threads, Metrics
  <2>3. UNCHANGED <<got, conn, cpc, about, since, version>>
    BY <1>8 DEF MetricsSend
  <2> QED
    BY <2>1, <2>2, <2>3, ToldWhileOneBegins, NothingLostKept DEF Registered, Subscribing
<1>9. ASSUME NEW c \in Clients, Subscribe(c) PROVE NothingLost'
  BY <1>9, ToldKept, NothingLostKept DEF Subscribe, Idle, Registered, Subscribing, TypeOK
<1>10. CASE TakeSnapshots
  BY <1>10, ToldKept, NothingLostKept DEF TakeSnapshots, Snapshots, EventOf, Registered, Subscribing
<1>11. CASE SendSnapshot
  BY <1>11, ToldKept, NothingLostKept DEF SendSnapshot, Registered, Subscribing
<1>12. CASE SendSnapshotFails
  BY <1>12, ToldKept, NothingLostKept DEF SendSnapshotFails, Registered, Subscribing,
      RequestsInOrder
<1>13. CASE Register
  <2>1. /\ UNCHANGED <<got, event, todo, bpc, version, conn>> /\ about \in Clients
        /\ since' = [since EXCEPT ![about] = version] /\ cpc' = "idle" /\ cpc = "sending"
    BY <1>13 DEF Register, RequestsInOrder
  <2> SUFFICES ASSUME NEW c \in Clients, Registered(c)', NEW r \in Runtimes,
                      NEW v \in since'[c][r] + 1 .. version[r]
               PROVE  Told(c, r, v)'
    BY <2>1 DEF NothingLost
  <2>2. c # about /\ since'[c] = since[c] /\ v \in Nat
    BY <2>1 DEF TypeOK
  <2>3. Registered(c)
    BY <2>1, <2>2 DEF Registered, Subscribing
  <2> QED
    BY <2>1, <2>2, <2>3, ToldKept DEF NothingLost
<1>14. ASSUME NEW t \in Threads, CopyClients(t) PROVE NothingLost'
  <2>1. UNCHANGED <<got, event, conn, cpc, about, since, version>>
    BY <1>14 DEF CopyClients
  <2>2. todo'[t] = clients /\ \A s \in Threads : s # t => todo'[s] = todo[s] /\ bpc'[s] = bpc[s]
    BY <1>14 DEF CopyClients, TypeOK
  <2>3. ASSUME NEW c \in Clients, NEW r \in Runtimes, NEW v \in Nat, Registered(c), Told(c, r, v)
        PROVE  Told(c, r, v)'
    <3>1. \E i \in 1..Len(clients) : clients[i] = c
      BY <2>3 DEF SubscribersInOrder, Range, TypeOK
    <3> QED
      BY <2>1, <2>2, <2>3, <3>1 DEF Told, WillTell
  <2> QED
    BY <2>1, <2>3, NothingLostKept DEF Registered, Subscribing
<1>15. ASSUME NEW t \in Threads, TakeLock(t) PROVE NothingLost'
  BY <1>15, ToldKept, NothingLostKept DEF TakeLock, Takeable, Registered, Subscribing, TypeOK
<1>16. ASSUME NEW t \in Threads, Write(t) PROVE NothingLost'
  <2>1. /\ UNCHANGED <<event, conn, cpc, about, since, version>>
        /\ todo[t] \in Seq(Clients) /\ todo[t] # <<>> /\ Head(todo[t]) \in Clients
    BY <1>16, TailRange DEF Write, subscribeVars, runtimeVars, TypeOK, PublishersInOrder
  <2>2. /\ todo'[t] = Tail(todo[t]) /\ bpc[t] = "write"
        /\ \A s \in Threads : s # t => todo'[s] = todo[s] /\ bpc'[s] = bpc[s]
    BY <1>16 DEF Write, TypeOK
  <2>3. /\ \A d \in Clients : got[d] \subseteq got'[d]
        /\ event[t].kind = "lifecycle" => <<event[t].runtime,
             event[t].version>> \in got'[Head(todo[t])]
    BY <1>16, <2>1 DEF Write, TypeOK
  <2>4. ASSUME NEW i \in 1..Len(todo[t]), i # 1
        PROVE  i - 1 \in 1..Len(Tail(todo[t])) /\ Tail(todo[t])[i - 1] = todo[t][i]
    BY <2>1, <2>4
  <2>5. Head(todo[t]) = todo[t][1]
    BY <2>1
  <2>6. ASSUME NEW c \in Clients, NEW r \in Runtimes, NEW v \in Nat, NEW s \in Threads,
          WillTell(s, c, r, v)
        PROVE  Told(c, r, v)'
    <3>1. CASE s # t
      BY <2>1, <2>2, <2>6, <3>1 DEF Told, WillTell
    <3>2. CASE s = t
      <4>1. PICK i \in 1..Len(todo[t]) : todo[t][i] = c
        BY <2>2, <2>6, <3>2 DEF WillTell
      <4>2. event[t].kind = "lifecycle" /\ event[t].runtime = r /\ event[t].version = v
        BY <2>6, <3>2 DEF WillTell
      <4>3. CASE i = 1
        BY <2>3, <2>5, <4>1, <4>2, <4>3 DEF Told
      <4>4. CASE i # 1
        <5>1. \E j \in 1..Len(todo'[t]) : todo'[t][j] = c
          BY <2>2, <2>4, <4>1, <4>4
        <5> QED
          BY <2>1, <4>2, <5>1 DEF Told, WillTell
      <4> QED
        BY <4>3, <4>4
    <3> QED
      BY <3>1, <3>2
  <2>7. ASSUME NEW c \in Clients, NEW r \in Runtimes, NEW v \in Nat, Told(c, r, v) PROVE Told(c,
          r, v)'
    BY <2>3, <2>6, <2>7 DEF Told
  <2> QED
    BY <2>1, <2>7, NothingLostKept DEF Registered, Subscribing
<1>17. ASSUME NEW t \in Threads, WriteFails(t) PROVE NothingLost'
  <2>1. /\ UNCHANGED <<got, event, conn, cpc, about, since,
          version>> /\ conn[Head(todo[t])] = "closed"
        /\ todo[t] \in Seq(Clients) /\ todo[t] # <<>>
    BY <1>17 DEF WriteFails, clientVars, subscribeVars, runtimeVars, TypeOK, PublishersInOrder
  <2>2. /\ todo'[t] = Tail(todo[t]) /\ bpc[t] = "write"
        /\ \A s \in Threads : s # t => todo'[s] = todo[s] /\ bpc'[s] = bpc[s]
    BY <1>17 DEF WriteFails, RestAfterFailure, TypeOK
  <2>3. ASSUME NEW i \in 1..Len(todo[t]), i # 1
        PROVE  i - 1 \in 1..Len(Tail(todo[t])) /\ Tail(todo[t])[i - 1] = todo[t][i]
    BY <2>1, <2>3
  <2>4. Head(todo[t]) = todo[t][1]
    BY <2>1
  <2>5. ASSUME NEW c \in Clients, Registered(c), NEW r \in Runtimes, NEW v \in Nat,
          NEW s \in Threads,
               WillTell(s, c, r, v)
        PROVE  WillTell(s, c, r, v)'
    <3>1. CASE s # t
      BY <2>1, <2>2, <2>5, <3>1 DEF WillTell
    <3>2. CASE s = t
      <4>1. PICK i \in 1..Len(todo[t]) : todo[t][i] = c
        BY <2>2, <2>5, <3>2 DEF WillTell
      <4>2. i # 1
        BY <2>1, <2>4, <2>5, <4>1 DEF Registered
      <4>3. \E j \in 1..Len(todo'[t]) : todo'[t][j] = c
        BY <2>2, <2>3, <4>1, <4>2
      <4> QED
        BY <2>1, <2>5, <3>2, <4>3 DEF WillTell
    <3> QED
      BY <3>1, <3>2
  <2>6. ASSUME NEW c \in Clients, Registered(c), NEW r \in Runtimes, NEW v \in Nat, Told(c, r, v)
        PROVE  Told(c, r, v)'
    BY <2>1, <2>5, <2>6 DEF Told
  <2> QED
    BY <2>1, <2>6, NothingLostKept DEF Registered, Subscribing
<1>18. ASSUME NEW t \in Threads, DropFailed(t) PROVE NothingLost'
  <2>1. /\ UNCHANGED <<got, todo, conn, cpc, about, since,
          version>> /\ bpc[t] = "send" /\ todo[t] = <<>>
        /\ \A s \in Threads : s # t => event'[s] = event[s] /\ bpc'[s] = bpc[s]
    BY <1>18 DEF DropFailed, clientVars, subscribeVars, runtimeVars, TypeOK
  <2>2. ASSUME NEW c \in Clients, NEW r \in Runtimes, NEW v \in Nat, NEW s \in Threads,
          WillTell(s, c, r, v)
        PROVE  WillTell(s, c, r, v)'
    <3>1. s # t
      BY <2>1, <2>2 DEF WillTell
    <3> QED
      BY <2>1, <2>2, <3>1 DEF WillTell
  <2>3. ASSUME NEW c \in Clients, NEW r \in Runtimes, NEW v \in Nat, Told(c, r, v) PROVE Told(c,
          r, v)'
    BY <2>1, <2>2, <2>3 DEF Told
  <2> QED
    BY <2>1, <2>3, NothingLostKept DEF Registered, Subscribing
<1>19. ASSUME NEW c \in Clients, Read(c) PROVE NothingLost'
  BY <1>19, ToldKept, NothingLostKept DEF Read, Registered, Subscribing
<1>20. ASSUME NEW c \in Clients, CloseConnection(c) PROVE NothingLost'
  <2>1. /\ UNCHANGED <<event, todo, bpc, cpc, about, since, version>>
        /\ conn'[c] = "closed" /\ \A d \in Clients : d # c => conn'[d] = conn[d] /\ got'[d] = got[d]
    BY <1>20 DEF CloseConnection, TypeOK
  <2>2. ASSUME NEW d \in Clients, Registered(d)' PROVE d # c /\ Registered(d)
    BY <2>1, <2>2 DEF Registered, Subscribing
  <2>3. ASSUME NEW d \in Clients, d # c, NEW r \in Runtimes, NEW v \in Nat, Told(d, r,
          v) PROVE Told(d, r, v)'
    BY <2>1, <2>3 DEF Told, WillTell
  <2> QED
    BY <2>1, <2>2, <2>3, NothingLostKept
<1>21. CASE UNCHANGED vars
  BY <1>21, ToldKept, NothingLostKept DEF Registered, Subscribing
<1> QED
  BY <1>1, <1>2, <1>2a, <1>3, <1>4, <1>5, <1>6, <1>6a, <1>6b, <1>7, <1>8, <1>9, <1>10, <1>11, <1>12,
      <1>13, <1>14, <1>15, <1>16, <1>17, <1>18, <1>19, <1>20, <1>21 DEF Next, ControlStep, BroadcastStep

-----------------------------------------------------------------------------
(* Theorems *)

LEMMA InitInv == Init => IInv
<1> SUFFICES ASSUME Init PROVE IInv
  OBVIOUS
<1>1. TypeOK
  BY DEF Init, TypeOK, States, Threads, Control, Metrics, Never, Blank, Nothing
<1>2. RequestsInOrder
  BY DEF Init, RequestsInOrder, Control, Metrics
<1>3. PublishersInOrder
  BY DEF Init, PublishersInOrder
<1>4. SubscribersInOrder
  BY DEF Init, SubscribersInOrder, Registered, Subscribing, Range
<1>5. SocketsInOrder
  BY DEF Init, SocketsInOrder, Subscribing
<1>6. SnapshotsFirst /\ NothingLost
  BY DEF Init, SnapshotsFirst, NothingLost, Registered
<1> QED
  BY <1>1, <1>2, <1>3, <1>4, <1>5, <1>6 DEF IInv

LEMMA StepInv == IInv /\ [Next]_vars => IInv'
BY TypeStep, RequestsStep, PublishersStep, SubscribersStep, SocketsStep, SnapshotsStep,
    NothingLostStep
   DEF IInv

\* The invariant that ties threads, mutexes, sockets and the list of clients to
\* each other.
THEOREM Invariance == Safety => []IInv
BY InitInv, StepInv, PTL DEF Safety

\* Types: sockets hold no more than they can, and only events.
THEOREM TypeCorrect == Safety => []TypeOK
<1>1. IInv => TypeOK
  BY DEF IInv
<1> QED
  BY <1>1, Invariance, PTL

\* No two threads are ever inside of sendAll() for one socket, be it that of a
\* subscriber that is still being sent the snapshots.
THEOREM OneWriterAlways == Safety => []OneWriter
<1>1. IInv => OneWriter
  <2> SUFFICES ASSUME IInv, NEW c \in Clients
               PROVE  /\ \A s, t \in Threads : WritesTo(s, c) /\ WritesTo(t, c) => s = t
                      /\ Subscribing(c) => \A t \in Threads : ~WritesTo(t, c)
    BY DEF OneWriter
  <2>1. ASSUME NEW t \in Threads, WritesTo(t, c) PROVE lock[c] = t /\ c \in Range(todo[t])
    <3>1. todo[t] \in Seq(Clients) /\ todo[t] # <<>> /\ lock[c] = t /\ c = Head(todo[t])
      BY <2>1 DEF IInv, TypeOK, PublishersInOrder, WritesTo
    <3> QED
      BY <3>1, TailRange
  <2> QED
    BY <2>1 DEF IInv, SubscribersInOrder
<1> QED
  BY <1>1, Invariance, PTL

\* A page that is registered has the state of every runtime there was, or gets it
\* before any event.
THEOREM SnapshotsComeFirst == Safety => []SnapshotsFirst
<1>1. IInv => SnapshotsFirst
  BY DEF IInv
<1> QED
  BY <1>1, Invariance, PTL

\* A page that stays is told of every change that is published once it is registered.
THEOREM NothingIsLost == Safety => []NothingLost
<1>1. IInv => NothingLost
  BY DEF IInv
<1> QED
  BY <1>1, Invariance, PTL

-----------------------------------------------------------------------------
(* The runtimes behind the events *)

\* A runtime is active while its worker is not over, and from its creation until
\* there is a thread for it, which only the control thread sees.
RuntimesInOrder ==
    /\ \A r \in Runtimes :
          /\ work[r] # "over" => state[r] \in Active
          /\ work[r] = "over" /\ state[r] \in Active => cpc = "spawn" /\ about = r
    /\ cpc = "remove" => state[about] # "absent"
    /\ cpc = "join" => state[about] = "absent"
    /\ cpc = "spawn" => state[about] = "starting" /\ work[about] = "over" /\ bpc[about] = "off"

LEMMA RuntimesInit == Init => RuntimesInOrder
BY DEF Init, RuntimesInOrder, Active

\* A publication goes on, or ends, and touches neither runtimes nor requests.
LEMMA BroadcastOnly ==
    ASSUME TypeOK, NEW t \in Threads, BroadcastStep(t)
    PROVE  /\ UNCHANGED <<state, work, cpc, about>>
           /\ bpc[t] # "off" /\ bpc' = [bpc EXCEPT ![t] = bpc'[t]]
BY DEF BroadcastStep, CopyClients, TakeLock, Write, WriteFails, DropFailed, runtimeVars, subscribeVars, TypeOK

LEMMA RuntimesStep ==
    ASSUME TypeOK, RequestsInOrder, RuntimesInOrder, [Next]_vars
    PROVE  RuntimesInOrder'
<1> USE DEF TypeOK, RequestsInOrder, RuntimesInOrder, Active, Idle, Threads,
            runtimeVars, threadVars, subscribeVars, historyVars, clientVars
<1>1. ASSUME NEW r \in Runtimes, Start(r) PROVE RuntimesInOrder'
  BY <1>1 DEF Start, Vanishes, Proceeds
<1>2. ASSUME NEW r \in Runtimes, Stop(r) PROVE RuntimesInOrder'
  BY <1>2 DEF Stop, Changes, Broadcast
<1>2a. ASSUME NEW r \in Runtimes, Restart(r) PROVE RuntimesInOrder'
  BY <1>2a DEF Restart, Changes, Broadcast
<1>3. ASSUME NEW r \in Runtimes, Run(r) PROVE RuntimesInOrder'
  BY <1>3 DEF Run, Changes, Broadcast
<1>4. ASSUME NEW r \in Runtimes, End(r) PROVE RuntimesInOrder'
  BY <1>4 DEF End, Changes, Broadcast
<1>5. CASE Create
  BY <1>5 DEF Create, Joined, Changes, Broadcast
<1>6. CASE Spawn
  BY <1>6 DEF Spawn, Announced, Proceeds
<1>6a. CASE SpawnFails
  BY <1>6a DEF SpawnFails, Announced, Vanishes, Proceeds, Nothing
<1>6b. CASE Remove
  BY <1>6b DEF Remove, Joined, Vanishes, Proceeds, Nothing
<1>7. CASE TakeSnapshots \/ SendSnapshot \/ SendSnapshotFails \/ Register
  BY <1>7 DEF TakeSnapshots, SendSnapshot, SendSnapshotFails, Register
<1>8. CASE MetricsTick \/ MetricsSend
  BY <1>8 DEF MetricsTick, MetricsSend, Broadcast
<1>9. ASSUME NEW t \in Threads, BroadcastStep(t) PROVE RuntimesInOrder'
  <2>1. UNCHANGED <<state, work, cpc, about>> /\ bpc[t] # "off" /\ bpc' = [bpc EXCEPT ![t] = bpc'[t]]
    BY <1>9, BroadcastOnly
  <2> QED
    BY <2>1
<1>10. ASSUME NEW c \in Clients, Subscribe(c) \/ Read(c) \/ CloseConnection(c) PROVE RuntimesInOrder'
  BY <1>10 DEF Subscribe, Read, CloseConnection
<1>11. CASE UNCHANGED vars
  BY <1>11 DEF vars
<1> QED
  BY <1>1, <1>2, <1>2a, <1>3, <1>4, <1>5, <1>6, <1>6a, <1>6b, <1>7, <1>8, <1>9, <1>10, <1>11
     DEF Next, ControlStep

\* What the supervisor's variables depend on.
LEMMA SeenUnchanged ==
    ASSUME state' = state, work' = work,
           \A r \in Runtimes : work[r] = "over" => (bpc'[r] = "off") = (bpc[r] = "off")
    PROVE  UNCHANGED Supervised!vars
BY DEF Supervised!vars, Shown, Thread

\* A worker that is over has published its last.
LEMMA LeavesSeen ==
    ASSUME NEW t \in Runtimes, work[t] = "over", UNCHANGED work,
           \A r \in Runtimes : bpc'[r] = IF r = t THEN "off" ELSE bpc[r]
    PROVE  Thread' = [Thread EXCEPT ![t] = "none"]
<1> DEFINE At(r, w, b) == CASE w[r] = "entry" -> "entered"
                            [] w[r] = "running" -> "running"
                            [] w[r] = "over" -> IF b[r] = "off" THEN "none" ELSE "leaving"
<1>1. Thread = [r \in Runtimes |-> At(r, work, bpc)] /\ Thread' = [r \in Runtimes |-> At(r, work', bpc')]
  BY DEF Thread
<1>2. ASSUME NEW r \in Runtimes, r # t PROVE At(r, work', bpc') = At(r, work, bpc)
  <2>1. work'[r] = work[r] /\ bpc'[r] = bpc[r]
    BY <1>2
  <2> QED
    BY <2>1
<1>3. At(t, work', bpc') = "none"
  <2>1. work'[t] = "over" /\ bpc'[t] = "off"
    OBVIOUS
  <2> QED
    BY <2>1
<1> HIDE DEF At
<1> QED
  BY <1>1, <1>2, <1>3

\* A runtime that was not active leaves its slot.
LEMMA VanishesUnseen ==
    ASSUME TypeOK, NEW r \in Runtimes, state[r] \notin Active, Vanishes(r), UNCHANGED bpc
    PROVE  Supervised!Next \/ UNCHANGED Supervised!vars
<1>1. UNCHANGED Thread /\ state' = [state EXCEPT ![r] = "absent"]
  BY DEF Vanishes, Thread
<1>2. CASE state[r] = "absent"
  BY <1>1, <1>2 DEF TypeOK, Shown, Supervised!vars
<1>3. CASE state[r] = "stopped"
  <2>1. Shown[r] = "over" /\ Shown' = [n \in Runtimes |-> IF n \in {r} THEN "absent" ELSE Shown[n]]
    BY <1>1, <1>3 DEF TypeOK, Shown
  <2>2. Supervised!Forget({r})
    BY <1>1, <2>1 DEF Supervised!Forget
  <2> QED
    BY <2>2 DEF Supervised!Next
<1> QED
  BY <1>2, <1>3 DEF TypeOK, States, Active

\* The runtimes whose changes are published behave as a supervisor lets them.
THEOREM EventsAreSupervised == Safety => SupervisorSafety
<1> USE DEF Shown, Thread
<1>1. Init => Supervised!Init
  BY DEF Init, Supervised!Init, Threads
<1>2. TypeOK /\ RequestsInOrder /\ RuntimesInOrder /\ [Next]_vars => [Supervised!Next]_(Supervised!vars)
  <2> SUFFICES ASSUME TypeOK, RequestsInOrder, RuntimesInOrder, [Next]_vars
               PROVE  [Supervised!Next]_(Supervised!vars)
    OBVIOUS
  <2> USE DEF TypeOK, RequestsInOrder, RuntimesInOrder, Active, States, Idle, Threads,
              runtimeVars, threadVars, subscribeVars, historyVars, clientVars, Supervised!Shows, Supervised!Moves
  <2>1. ASSUME NEW r \in Runtimes, Start(r) PROVE Supervised!Next \/ UNCHANGED Supervised!vars
    BY <2>1, VanishesUnseen DEF Start, Proceeds
  <2>1a. ASSUME NEW r \in Runtimes, about = r, Remove PROVE Supervised!Next \/ UNCHANGED Supervised!vars
    <3>1. work[r] = "over" /\ cpc # "spawn" /\ Vanishes(r) /\ bpc' = bpc
      BY <2>1a DEF Remove, Joined, Proceeds
    <3>2. state[r] \notin Active
      BY <3>1
    <3> QED
      BY <3>1, <3>2, VanishesUnseen
  <2>2. ASSUME NEW r \in Runtimes, Stop(r) PROVE Supervised!AskStop(r)
    <3>1. work[r] # "over"
      BY <2>2 DEF Stop
    <3>2. Shown' = [Shown EXCEPT ![r] = "stopping"]
      BY <2>2 DEF Stop, Changes
    <3>3. UNCHANGED Thread
      BY <2>2 DEF Stop, Changes, Broadcast
    <3> QED
      BY <3>1, <3>2, <3>3 DEF Supervised!AskStop, Supervised!Alive
  <2>2a. ASSUME NEW r \in Runtimes, Restart(r) PROVE Supervised!AskStop(r) \/ UNCHANGED Supervised!vars
    <3>1. CASE state[r] \in Active /\ Changes(r, "stopping", Control)
      <4>1. work[r] # "over" /\ work' = work
        BY <2>2a, <3>1 DEF Restart
      <4>2. Shown' = [Shown EXCEPT ![r] = "stopping"]
        BY <3>1 DEF Changes
      <4>3. UNCHANGED Thread
        BY <3>1, <4>1 DEF Changes, Broadcast
      <4> QED
        BY <4>1, <4>2, <4>3 DEF Supervised!AskStop, Supervised!Alive
    <3>2. CASE UNCHANGED <<state, threadVars>>
      BY <2>2a, <3>2, SeenUnchanged DEF Restart
    <3> QED
      BY <2>2a, <3>1, <3>2 DEF Restart
  <2>3. ASSUME NEW r \in Runtimes, Run(r) PROVE Supervised!Run(r)
    <3>1. Shown' = [Shown EXCEPT ![r] = "running"]
      BY <2>3 DEF Run, Changes
    <3>2. Thread' = [Thread EXCEPT ![r] = "running"]
      BY <2>3 DEF Run, Changes, Broadcast
    <3> QED
      BY <2>3, <3>1, <3>2 DEF Run, Supervised!Run
  <2>4. ASSUME NEW r \in Runtimes, End(r) PROVE Supervised!End(r)
    <3>1. Shown' = [Shown EXCEPT ![r] = "over"]
      BY <2>4 DEF End, Changes
    <3>2. Thread' = [Thread EXCEPT ![r] = "leaving"]
      BY <2>4 DEF End, Changes, Broadcast
    <3>3. Thread[r] \in Supervised!Alive
      BY <2>4 DEF End, Supervised!Alive
    <3> QED
      BY <3>1, <3>2, <3>3 DEF Supervised!End
  <2>5. ASSUME NEW r \in Runtimes, about = r, Create PROVE Supervised!New(r)
    <3>1. state[r] \notin Active /\ Thread[r] = "none"
      BY <2>5 DEF Create, Joined
    <3>2. Shown' = [Shown EXCEPT ![r] = "starting"]
      BY <2>5, <3>1 DEF Create, Changes
    <3>3. UNCHANGED Thread
      BY <2>5, <3>1 DEF Create, Changes, Broadcast
    <3> QED
      BY <3>1, <3>2, <3>3 DEF Supervised!New
  <2>6. ASSUME NEW r \in Runtimes, about = r, Spawn PROVE Supervised!Enter(r)
    <3>1. Shown[r] = "starting" /\ Thread[r] = "none"
      BY <2>6 DEF Spawn, Announced, Proceeds
    <3>2. Thread' = [Thread EXCEPT ![r] = "entered"]
      BY <2>6, <3>1 DEF Spawn, Announced, Proceeds
    <3> QED
      BY <2>6, <3>1, <3>2 DEF Spawn, Announced, Proceeds, Supervised!Enter
  <2>6a. ASSUME NEW r \in Runtimes, about = r, SpawnFails PROVE Supervised!GiveUp(r)
    <3>1. Shown[r] = "starting" /\ Thread[r] = "none"
      BY <2>6a DEF SpawnFails, Announced
    <3>2. Shown' = [Shown EXCEPT ![r] = "absent"]
      BY <2>6a DEF SpawnFails, Vanishes
    <3>3. UNCHANGED Thread
      BY <2>6a DEF SpawnFails, Vanishes, Proceeds
    <3> QED
      BY <3>1, <3>2, <3>3 DEF Supervised!GiveUp
  <2>7. ASSUME TakeSnapshots \/ SendSnapshot \/ SendSnapshotFails \/ Register
        PROVE  UNCHANGED Supervised!vars
    BY <2>7, SeenUnchanged DEF TakeSnapshots, SendSnapshot, SendSnapshotFails, Register
  <2>8. ASSUME MetricsTick \/ MetricsSend PROVE UNCHANGED Supervised!vars
    BY <2>8, SeenUnchanged DEF MetricsTick, MetricsSend, Broadcast
  <2>9. ASSUME NEW t \in Threads, BroadcastStep(t)
        PROVE  (t \in Runtimes /\ Supervised!Leave(t)) \/ UNCHANGED Supervised!vars
    <3>1. UNCHANGED <<state, work>> /\ bpc[t] # "off" /\ bpc' = [bpc EXCEPT ![t] = bpc'[t]]
      BY <2>9, BroadcastOnly
    <3>2. CASE t \in Runtimes /\ work[t] = "over" /\ bpc'[t] = "off"
      <4>1. Thread[t] = "leaving" /\ UNCHANGED Shown
        BY <3>1, <3>2
      <4>2. \A r \in Runtimes : bpc'[r] = IF r = t THEN "off" ELSE bpc[r]
        BY <3>1, <3>2
      <4>3. Thread' = [Thread EXCEPT ![t] = "none"]
        BY <3>1, <3>2, <4>2, LeavesSeen
      <4> QED
        BY <3>2, <4>1, <4>3 DEF Supervised!Leave
    <3>3. CASE ~(t \in Runtimes /\ work[t] = "over" /\ bpc'[t] = "off")
      BY <3>1, <3>3, SeenUnchanged
    <3> QED
      BY <3>2, <3>3
  <2>10. ASSUME NEW c \in Clients, Subscribe(c) \/ Read(c) \/ CloseConnection(c)
         PROVE  UNCHANGED Supervised!vars
    BY <2>10, SeenUnchanged DEF Subscribe, Read, CloseConnection
  <2>11. ASSUME UNCHANGED vars PROVE UNCHANGED Supervised!vars
    BY <2>11, SeenUnchanged DEF vars
  <2>12. ASSUME Next PROVE Supervised!Next \/ UNCHANGED Supervised!vars
    <3>1. CASE \E r \in Runtimes : Start(r) \/ Restart(r) \/ Stop(r) \/ Run(r) \/ End(r)
      BY <3>1, <2>1, <2>2, <2>2a, <2>3, <2>4 DEF Supervised!Next
    <3>2. CASE Create \/ Spawn \/ SpawnFails \/ Remove
      <4>1. PICK r \in Runtimes : about = r
        BY <3>2 DEF Create, Spawn, SpawnFails, Announced, Remove
      <4> QED
        BY <3>2, <4>1, <2>1a, <2>5, <2>6, <2>6a DEF Supervised!Next
    <3>4. CASE TakeSnapshots \/ SendSnapshot \/ SendSnapshotFails \/ Register
      BY <3>4, <2>7
    <3>3. CASE \E t \in Threads : BroadcastStep(t)
      BY <3>3, <2>9 DEF Supervised!Next
    <3> QED
      BY <2>8, <2>10, <2>12, <3>1, <3>2, <3>3, <3>4 DEF Next, ControlStep
  <2> QED
    BY <2>11, <2>12
<1>3. Safety => [](TypeOK /\ RequestsInOrder)
  <2>1. IInv => TypeOK /\ RequestsInOrder
    BY DEF IInv
  <2> QED
    BY <2>1, Invariance, PTL
<1> QED
  BY <1>1, <1>2, <1>3, RuntimesInit, RuntimesStep, PTL DEF Safety, SupervisorSafety, Supervised!Safety

\* What pages are told of a runtime is true of it when it is published.
THEOREM StatesAreTrue == Safety => []Supervised!ShownIsTrue
<1>1. TypeOK /\ RuntimesInOrder => Supervised!ShownIsTrue
  BY DEF TypeOK, RuntimesInOrder, Supervised!ShownIsTrue, Supervised!Alive, Shown, Thread, Active, States
<1>2. Safety => []RuntimesInOrder
  <2>1. IInv => TypeOK /\ RequestsInOrder
    BY DEF IInv
  <2> QED
    BY <2>1, RuntimesInit, RuntimesStep, Invariance, PTL DEF Safety
<1> QED
  BY <1>1, <1>2, TypeCorrect, PTL
=============================================================================
