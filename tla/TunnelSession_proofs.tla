------------------------ MODULE TunnelSession_proofs ------------------------
(***************************************************************************)
(* Proofs about module TunnelSession: its types, that a stop request is    *)
(* heeded in bounded time, and, when the silence timeout leaves room for a *)
(* late heartbeat, that only a client that is gone is taken for dead.      *)
(***************************************************************************)
EXTENDS TunnelSession, TLAPS

\* The inductive invariant, in named parts.

\* A connection is what sets a running client apart from a connecting one.
Placed ==
    /\ cpc \in {"recv", "sending", "vanished"} => conn
    /\ cpc = "connecting" => ~conn
    /\ spc = "recv" => conn
    /\ spc = "down" => ~conn

\* The client's wait ends with a heartbeat.
IdleBounded == cpc = "recv" => idle <= HeartbeatPeriod

\* Nothing is left in flight to a server that has closed.
ClosedIsEmpty == spc \in ServerClosed => flight = <<>>

\* A client that has returned leaves the end of the connection behind it.
FinSent ==
    conn /\ spc \in ServerRunning /\ cpc \in {"stopped", "failed"} =>
        flight # <<>> /\ flight[Len(flight)].kind = "fin"

\* A running client has sent no more than TCP holds.
WindowKept == cpc \in ClientRunning => Len(flight) <= MaxFlight

\* How long the server has waited, by what it is waiting for: the oldest
\* message in flight, or the client's next one.
WaitExplained ==
    ~jumbos /\ spc = "recv" /\ cpc # "vanished" =>
        /\ flight # <<>> => silence <= HeartbeatPeriod + flight[1].age
        /\ flight = <<>> /\ cpc = "recv" => silence <= idle
        /\ flight = <<>> /\ cpc = "sending" => silence <= HeartbeatPeriod

\* How long ago a stop was requested, by what its worker is waiting for.
ClientStopAge ==
    /\ ~stop["client"] => stopAge["client"] = 0
    /\ stop["client"] /\ cpc = "connecting" => stopAge["client"] <= ConnectPoll
    /\ stop["client"] /\ cpc = "recv" => stopAge["client"] <= idle
    /\ stop["client"] /\ cpc = "sending" /\ spc # "vanished" =>
        /\ stopAge["client"] <= HeartbeatPeriod + MaxDelay
        /\ Len(flight) >= MaxFlight => stopAge["client"] <= HeartbeatPeriod + flight[1].age

ServerStopAge ==
    /\ ~stop["server"] => stopAge["server"] = 0
    /\ spc = "down" => ~stop["server"]
    /\ stop["server"] /\ spc = "listening" => stopAge["server"] <= AcceptPoll
    /\ stop["server"] /\ spc = "recv" => stopAge["server"] <= silence

IInv ==
    /\ TypeOK /\ Placed /\ IdleBounded /\ ClosedIsEmpty /\ FinSent /\ WindowKept
    /\ WaitExplained /\ ClientStopAge /\ ServerStopAge

-----------------------------------------------------------------------------
USE SessionAssumption

\* A sequence of messages, with one more at its end ...
LEMMA AppendFacts ==
    ASSUME NEW f \in Seq(Message), NEW k \in {"data", "fin"}
    PROVE  LET g == Append(f, Sent(k)) IN
           /\ g \in Seq(Message) /\ g # <<>>
           /\ Len(f) \in Nat /\ Len(g) = Len(f) + 1
           /\ g[Len(g)].kind = k
           /\ f # <<>> => g[1] = f[1]
           /\ f = <<>> => g[1].age = 0
<1>1. Sent(k) \in Message /\ Sent(k).kind = k /\ Sent(k).age = 0
  BY DEF Sent, Message
<1> QED BY <1>1

\* ... without its first ...
LEMMA TailFacts ==
    ASSUME NEW f \in Seq(Message), f # <<>>
    PROVE  /\ Tail(f) \in Seq(Message) /\ Len(f) \in Nat /\ Len(f) > 0
           /\ Len(Tail(f)) = Len(f) - 1
           /\ f[1] \in Message /\ Head(f) = f[1]
           /\ Tail(f) = <<>> => Len(f) = 1
           /\ Tail(f) # <<>> => /\ Tail(f)[1] \in Message
                                /\ Tail(f)[Len(Tail(f))] = f[Len(f)]
<1>1. /\ Len(f) \in Nat /\ Len(f) > 0 /\ f[1] \in Message /\ Head(f) = f[1]
      /\ Tail(f) \in Seq(Message) /\ Len(Tail(f)) = Len(f) - 1
  OBVIOUS
<1>2. \A i \in 1..(Len(f) - 1) : Tail(f)[i] = f[i + 1] /\ Tail(f)[i] \in Message
  OBVIOUS
<1>3. Len(f) > 1 \/ Len(f) = 1
  BY <1>1
<1>4. CASE Len(f) = 1
  <2>1. Tail(f) = <<>>
    <3>1. PICK g : g = Tail(f)
      OBVIOUS
    <3>2. Len(g) = 0 /\ g \in Seq(Message)
      BY <1>1, <1>4, <3>1
    <3>3. g = <<>>
      BY <3>2
    <3> QED BY <3>1, <3>3
  <2> QED BY <1>1, <1>4, <2>1
<1>5. CASE Len(f) > 1
  <2>1. 1 \in 1..(Len(f) - 1) /\ Len(f) - 1 \in 1..(Len(f) - 1) /\ (Len(f) - 1) + 1 = Len(f)
    BY <1>1, <1>5
  <2> QED BY <1>1, <1>2, <1>5, <2>1
<1> QED BY <1>3, <1>4, <1>5

LEMMA HeadAge ==
    ASSUME NEW f \in Seq(Message), f # <<>>
    PROVE  f[1].age \in 0..MaxDelay /\ f[1].age \in Nat
<1>1. f[1] \in Message
  BY TailFacts
<1> QED BY <1>1 DEF Message

\* ... and grown older.
Aged(f) == [i \in 1..Len(f) |-> Older(f[i])]

LEMMA AgedFacts ==
    ASSUME NEW f \in Seq(Message)
    PROVE  /\ Aged(f) \in Seq(Message) /\ Len(f) \in Nat /\ Len(Aged(f)) = Len(f)
           /\ f = <<>> <=> Aged(f) = <<>>
           /\ f # <<>> => /\ f[1] \in Message /\ Aged(f)[1] \in Message
                          /\ f[1].age < MaxDelay => Aged(f)[1].age = f[1].age + 1
                          /\ Aged(f)[Len(f)].kind = f[Len(f)].kind
<1>1. \A m \in Message : /\ Older(m) \in Message /\ Older(m).kind = m.kind
                         /\ m.age < MaxDelay => Older(m).age = m.age + 1
  BY DEF Older, Message
<1>2. Len(f) \in Nat /\ \A i \in 1..Len(f) : f[i] \in Message
  OBVIOUS
<1>3. Aged(f) \in Seq(Message) /\ Len(Aged(f)) = Len(f)
  BY <1>1, <1>2, SMT DEF Aged
<1>4. \A i \in 1..Len(f) : Aged(f)[i] = Older(f[i])
  BY DEF Aged
<1>5. f # <<>> => Len(f) > 0
  OBVIOUS
<1>6. f = <<>> <=> Aged(f) = <<>>
  BY <1>3, <1>5
<1>7. ASSUME f # <<>>
      PROVE  /\ f[1] \in Message /\ Aged(f)[1] \in Message
             /\ f[1].age < MaxDelay => Aged(f)[1].age = f[1].age + 1
             /\ Aged(f)[Len(f)].kind = f[Len(f)].kind
  <2>1. 1 \in 1..Len(f) /\ Len(f) \in 1..Len(f)
    BY <1>2, <1>5, <1>7
  <2> QED BY <1>1, <1>2, <1>4, <2>1
<1> QED BY <1>2, <1>3, <1>6, <1>7

-----------------------------------------------------------------------------
\* What a step of the client leaves in flight, when it begins with f: the
\* oldest message, and the end of the connection when the client ends.
Kept(f) ==
    /\ flight' \in Seq(Message) /\ Len(flight') >= Len(f)
    /\ f # <<>> => flight' # <<>> /\ flight'[1] = f[1]
    /\ f = <<>> /\ flight' # <<>> => flight'[1].age = 0

Finished ==
    cpc' \in ClientEnded /\ conn /\ spc \in ServerRunning =>
        flight' # <<>> /\ flight'[Len(flight')].kind = "fin"

LEMMA GoesToKeeps ==
    ASSUME NEW f \in Seq(Message), NEW pc, NEW c, ClientGoesTo(pc, c, f)
    PROVE  /\ cpc' = pc /\ Kept(f)
           /\ pc \in ClientEnded /\ c /\ spc \in ServerRunning =>
                flight' # <<>> /\ flight'[Len(flight')].kind = "fin"
           /\ spc \notin ServerRunning \/ pc \notin ClientEnded => flight' = f
<1>1. CASE flight' = f /\ cpc' = pc /\ ~(pc \in ClientEnded /\ c /\ spc \in ServerRunning)
  BY <1>1 DEF Kept
<1>2. CASE flight' = Append(f, Sent("fin")) /\ cpc' = pc /\ spc \in ServerRunning /\ pc \in ClientEnded
  <2>1. /\ flight' \in Seq(Message) /\ flight' # <<>>
        /\ Len(f) \in Nat /\ Len(flight') = Len(f) + 1
        /\ flight'[Len(flight')].kind = "fin"
        /\ f # <<>> => flight'[1] = f[1]
        /\ f = <<>> => flight'[1].age = 0
    BY <1>2, AppendFacts
  <2> QED BY <1>2, <2>1 DEF Kept
<1> QED BY <1>1, <1>2 DEF ClientGoesTo

\* The three outcomes of sendTCPData.
Blocks == /\ cpc' = "sending" /\ flight' = flight /\ Len(flight) >= MaxFlight
          /\ UNCHANGED <<idle, quiet, reset>>
Fails == cpc' = "failed" /\ UNCHANGED <<idle, quiet, reset>>
Takes == /\ cpc' = LoopTop("client") /\ idle' = 0 /\ quiet' = 0
         /\ reset' \in {reset, "sent"}
         /\ spc \notin ServerClosed => flight' # <<>>
         /\ cpc' = "recv" => Len(flight') <= MaxFlight

LEMMA SendsOutcome ==
    ASSUME TypeOK, ClientSends
    PROVE  /\ Kept(flight) /\ Finished
           /\ spc \in ServerClosed => flight' = flight
           /\ Blocks \/ Fails \/ Takes
<1> USE DEF TypeOK
<1>0. ServerClosed \cap ServerRunning = {} /\ LoopTop("client") \in {"recv", "stopped"}
  BY DEF ServerClosed, ServerRunning, LoopTop
<1>5. Len(flight) \in Nat /\ (Len(flight) < MaxFlight => Len(flight) + 1 <= MaxFlight)
  OBVIOUS
<1>1. CASE SendFails
  BY <1>0, <1>1, GoesToKeeps DEF SendFails, Fails, Finished
<1>2. CASE SendTakes /\ spc \in ServerClosed /\ Len(flight) < MaxFlight
  <2>1. ClientGoesTo(LoopTop("client"), conn, flight) /\ spc \notin ServerRunning /\ Len(flight) <= MaxFlight
    BY <1>0, <1>2, <1>5 DEF SendTakes
  <2>2. cpc' = LoopTop("client") /\ Kept(flight) /\ flight' = flight
    BY <2>1, GoesToKeeps
  <2> QED BY <1>2, <2>1, <2>2 DEF SendTakes, Takes, Finished
<1>3. CASE SendTakes /\ spc \notin ServerClosed /\ Len(flight) < MaxFlight
  <2>1. PICK f : f = Append(flight, Sent("data"))
    OBVIOUS
  <2>2. /\ f \in Seq(Message) /\ f # <<>> /\ Len(flight) \in Nat /\ Len(f) = Len(flight) + 1
        /\ flight # <<>> => f[1] = flight[1]
        /\ flight = <<>> => f[1].age = 0
    BY <2>1, AppendFacts
  <2>3. ClientGoesTo(LoopTop("client"), conn, f)
    BY <1>3, <2>1 DEF SendTakes
  <2>4. Kept(f) /\ Finished /\ cpc' = LoopTop("client")
    BY <2>2, <2>3, GoesToKeeps DEF Finished
  <2>5. Kept(flight) /\ flight' # <<>>
    BY <2>2, <2>4 DEF Kept
  <2>6. cpc' = "recv" => flight' = f
    BY <2>2, <2>3, <2>4, GoesToKeeps DEF ClientEnded
  <2>7. cpc' = "recv" => Len(flight') <= MaxFlight
    BY <1>3, <1>5, <2>2, <2>6
  <2> QED BY <1>3, <2>4, <2>5, <2>7 DEF SendTakes, Takes
<1>4. CASE cpc' = "sending" /\ UNCHANGED <<idle, quiet, flight, reset>> /\ ~(Len(flight) < MaxFlight)
  BY <1>4 DEF Kept, Finished, Blocks, ClientEnded
<1> QED BY <1>1, <1>2, <1>3, <1>4 DEF ClientSends

-----------------------------------------------------------------------------

\* The connection follows the two sides.
LEMMA PlacedStep ==
    ASSUME TypeOK, Placed, [Next]_vars
    PROVE  Placed'
<1> USE DEF ClientRunning, ClientEnded, ServerRunning, ServerClosed, ServerEnded,
            vars, clientVars, serverVars, tcpVars, stopVars
<1>1. CASE ConnectSucceeds
  BY <1>1 DEF TypeOK, Placed, ConnectSucceeds, ClientGoesTo, LoopTop, Sent
<1>2. CASE ConnectRefused
  BY <1>2 DEF TypeOK, Placed, ConnectRefused, ConnectEnds, ClientGoesTo
<1>3. CASE ConnectTimesOut
  BY <1>3 DEF TypeOK, Placed, ConnectTimesOut, ConnectEnds, ClientGoesTo
<1>4. CASE ConnectStopped
  BY <1>4 DEF TypeOK, Placed, ConnectStopped, ConnectEnds, ClientGoesTo
<1>5. CASE ClientForwards
  BY <1>5 DEF TypeOK, Placed, ClientForwards, ClientSends, SendFails, SendTakes, ClientGoesTo,
       LoopTop, Sent
<1>6. CASE ClientHeartbeat
  BY <1>6 DEF TypeOK, Placed, ClientHeartbeat, HeartbeatDue, ClientSends, SendFails, SendTakes,
       ClientGoesTo, LoopTop, Sent
<1>7. CASE ClientUnblocks
  BY <1>7 DEF TypeOK, Placed, ClientUnblocks, Unblocked, ClientSends, SendFails, SendTakes,
       ClientGoesTo, LoopTop, Sent
<1>8. CASE ClientDiscards
  BY <1>8 DEF TypeOK, Placed, ClientDiscards, ClientGoesTo, LoopTop, Sent
<1>9. CASE ClientFails
  BY <1>9 DEF TypeOK, Placed, ClientFails, ClientGoesTo, Sent
<1>10. CASE ServerStarts
  BY <1>10 DEF TypeOK, Placed, ServerStarts
<1>11. CASE ServerAccepts
  BY <1>11 DEF TypeOK, Placed, ServerAccepts, ServerGoesTo, LoopTop
<1>12. CASE ServerStopsListening
  BY <1>12 DEF TypeOK, Placed, ServerStopsListening, ServerGoesTo
<1>13. CASE ServerReads
  BY <1>13 DEF TypeOK, Placed, ServerReads, ServerGoesTo, LoopTop, RestartWait
<1>14. CASE ServerEof
  BY <1>14 DEF TypeOK, Placed, ServerEof, ServerEnds, ServerGoesTo
<1>15. CASE ServerSilent
  BY <1>15 DEF TypeOK, Placed, ServerSilent, SilenceDue, ServerEnds, ServerGoesTo
<1>16. CASE ServerFails
  BY <1>16 DEF TypeOK, Placed, ServerFails, ServerEnds, ServerGoesTo
<1>17. CASE ClientVanishes
  BY <1>17 DEF TypeOK, Placed, ClientVanishes
<1>18. CASE ServerVanishes
  BY <1>18 DEF TypeOK, Placed, ServerVanishes
<1>19. CASE ResetArrives
  BY <1>19 DEF TypeOK, Placed, ResetArrives
<1>20. CASE TcpGivesUp
  BY <1>20 DEF TypeOK, Placed, TcpGivesUp
<1>21. ASSUME NEW e \in Ends, RequestStop(e) PROVE Placed'
  BY <1>21 DEF TypeOK, Placed, RequestStop, Running
<1>22. CASE Tick
  BY <1>22 DEF TypeOK, Placed, Tick, Running, ClientDue, ServerDue, HeartbeatDue, SilenceDue,
       Unblocked, Older, Later, Horizon
<1>23. CASE UNCHANGED vars
  BY <1>23 DEF TypeOK, Placed
<1> QED
  BY <1>1, <1>2, <1>3, <1>4, <1>5, <1>6, <1>7, <1>8, <1>9, <1>10, <1>11, <1>12, <1>13,
     <1>14, <1>15, <1>16, <1>17, <1>18, <1>19, <1>20, <1>21, <1>22, <1>23
     DEF Next, ClientStep, ServerStep, Environment

\* The client's wait is bounded.
LEMMA IdleBoundedStep ==
    ASSUME TypeOK, IdleBounded, [Next]_vars
    PROVE  IdleBounded'
<1> USE DEF ClientRunning, ClientEnded, ServerRunning, ServerClosed, ServerEnded,
            vars, clientVars, serverVars, tcpVars, stopVars
<1>1. CASE ConnectSucceeds
  BY <1>1 DEF TypeOK, IdleBounded, ConnectSucceeds, ClientGoesTo, LoopTop, Sent
<1>2. CASE ConnectRefused
  BY <1>2 DEF TypeOK, IdleBounded, ConnectRefused, ConnectEnds, ClientGoesTo
<1>3. CASE ConnectTimesOut
  BY <1>3 DEF TypeOK, IdleBounded, ConnectTimesOut, ConnectEnds, ClientGoesTo
<1>4. CASE ConnectStopped
  BY <1>4 DEF TypeOK, IdleBounded, ConnectStopped, ConnectEnds, ClientGoesTo
<1>5. CASE ClientForwards
  BY <1>5 DEF TypeOK, IdleBounded, ClientForwards, ClientSends, SendFails, SendTakes,
       ClientGoesTo, LoopTop, Sent
<1>6. CASE ClientHeartbeat
  BY <1>6 DEF TypeOK, IdleBounded, ClientHeartbeat, HeartbeatDue, ClientSends, SendFails,
       SendTakes, ClientGoesTo, LoopTop, Sent
<1>7. CASE ClientUnblocks
  BY <1>7 DEF TypeOK, IdleBounded, ClientUnblocks, Unblocked, ClientSends, SendFails, SendTakes,
       ClientGoesTo, LoopTop, Sent
<1>8. CASE ClientDiscards
  BY <1>8 DEF TypeOK, IdleBounded, ClientDiscards, ClientGoesTo, LoopTop, Sent
<1>9. CASE ClientFails
  BY <1>9 DEF TypeOK, IdleBounded, ClientFails, ClientGoesTo, Sent
<1>10. CASE ServerStarts
  BY <1>10 DEF TypeOK, IdleBounded, ServerStarts
<1>11. CASE ServerAccepts
  BY <1>11 DEF TypeOK, IdleBounded, ServerAccepts, ServerGoesTo, LoopTop
<1>12. CASE ServerStopsListening
  BY <1>12 DEF TypeOK, IdleBounded, ServerStopsListening, ServerGoesTo
<1>13. CASE ServerReads
  BY <1>13 DEF TypeOK, IdleBounded, ServerReads, ServerGoesTo, LoopTop, RestartWait
<1>14. CASE ServerEof
  BY <1>14 DEF TypeOK, IdleBounded, ServerEof, ServerEnds, ServerGoesTo
<1>15. CASE ServerSilent
  BY <1>15 DEF TypeOK, IdleBounded, ServerSilent, SilenceDue, ServerEnds, ServerGoesTo
<1>16. CASE ServerFails
  BY <1>16 DEF TypeOK, IdleBounded, ServerFails, ServerEnds, ServerGoesTo
<1>17. CASE ClientVanishes
  BY <1>17 DEF TypeOK, IdleBounded, ClientVanishes
<1>18. CASE ServerVanishes
  BY <1>18 DEF TypeOK, IdleBounded, ServerVanishes
<1>19. CASE ResetArrives
  BY <1>19 DEF TypeOK, IdleBounded, ResetArrives
<1>20. CASE TcpGivesUp
  BY <1>20 DEF TypeOK, IdleBounded, TcpGivesUp
<1>21. ASSUME NEW e \in Ends, RequestStop(e) PROVE IdleBounded'
  BY <1>21 DEF TypeOK, IdleBounded, RequestStop, Running
<1>22. CASE Tick
  BY <1>22 DEF TypeOK, IdleBounded, Tick, Running, ClientDue, ServerDue, HeartbeatDue,
       SilenceDue, Unblocked, Older, Later, Horizon
<1>23. CASE UNCHANGED vars
  BY <1>23 DEF TypeOK, IdleBounded
<1> QED
  BY <1>1, <1>2, <1>3, <1>4, <1>5, <1>6, <1>7, <1>8, <1>9, <1>10, <1>11, <1>12, <1>13,
     <1>14, <1>15, <1>16, <1>17, <1>18, <1>19, <1>20, <1>21, <1>22, <1>23
     DEF Next, ClientStep, ServerStep, Environment

\* A closed server's connection stays empty.
LEMMA ClosedIsEmptyStep ==
    ASSUME TypeOK, ClosedIsEmpty, [Next]_vars
    PROVE  ClosedIsEmpty'
<1> USE DEF ClientRunning, ClientEnded, ServerRunning, ServerClosed, ServerEnded,
            vars, clientVars, serverVars, tcpVars, stopVars
<1>1. CASE ConnectSucceeds
  BY <1>1 DEF TypeOK, ClosedIsEmpty, ConnectSucceeds, ClientGoesTo, LoopTop, Sent
<1>2. CASE ConnectRefused
  BY <1>2 DEF TypeOK, ClosedIsEmpty, ConnectRefused, ConnectEnds, ClientGoesTo
<1>3. CASE ConnectTimesOut
  BY <1>3 DEF TypeOK, ClosedIsEmpty, ConnectTimesOut, ConnectEnds, ClientGoesTo
<1>4. CASE ConnectStopped
  BY <1>4 DEF TypeOK, ClosedIsEmpty, ConnectStopped, ConnectEnds, ClientGoesTo
<1>5. CASE ClientForwards
  BY <1>5 DEF TypeOK, ClosedIsEmpty, ClientForwards, ClientSends, SendFails, SendTakes,
       ClientGoesTo, LoopTop, Sent
<1>6. CASE ClientHeartbeat
  BY <1>6 DEF TypeOK, ClosedIsEmpty, ClientHeartbeat, HeartbeatDue, ClientSends, SendFails,
       SendTakes, ClientGoesTo, LoopTop, Sent
<1>7. CASE ClientUnblocks
  BY <1>7 DEF TypeOK, ClosedIsEmpty, ClientUnblocks, Unblocked, ClientSends, SendFails,
       SendTakes, ClientGoesTo, LoopTop, Sent
<1>8. CASE ClientDiscards
  BY <1>8 DEF TypeOK, ClosedIsEmpty, ClientDiscards, ClientGoesTo, LoopTop, Sent
<1>9. CASE ClientFails
  BY <1>9 DEF TypeOK, ClosedIsEmpty, ClientFails, ClientGoesTo, Sent
<1>10. CASE ServerStarts
  BY <1>10 DEF TypeOK, ClosedIsEmpty, ServerStarts
<1>11. CASE ServerAccepts
  BY <1>11 DEF TypeOK, ClosedIsEmpty, ServerAccepts, ServerGoesTo, LoopTop
<1>12. CASE ServerStopsListening
  BY <1>12 DEF TypeOK, ClosedIsEmpty, ServerStopsListening, ServerGoesTo
<1>13. CASE ServerReads
  BY <1>13 DEF TypeOK, ClosedIsEmpty, ServerReads, ServerGoesTo, LoopTop, RestartWait
<1>14. CASE ServerEof
  BY <1>14 DEF TypeOK, ClosedIsEmpty, ServerEof, ServerEnds, ServerGoesTo
<1>15. CASE ServerSilent
  BY <1>15 DEF TypeOK, ClosedIsEmpty, ServerSilent, SilenceDue, ServerEnds, ServerGoesTo
<1>16. CASE ServerFails
  BY <1>16 DEF TypeOK, ClosedIsEmpty, ServerFails, ServerEnds, ServerGoesTo
<1>17. CASE ClientVanishes
  BY <1>17 DEF TypeOK, ClosedIsEmpty, ClientVanishes
<1>18. CASE ServerVanishes
  BY <1>18 DEF TypeOK, ClosedIsEmpty, ServerVanishes
<1>19. CASE ResetArrives
  BY <1>19 DEF TypeOK, ClosedIsEmpty, ResetArrives
<1>20. CASE TcpGivesUp
  BY <1>20 DEF TypeOK, ClosedIsEmpty, TcpGivesUp
<1>21. ASSUME NEW e \in Ends, RequestStop(e) PROVE ClosedIsEmpty'
  BY <1>21 DEF TypeOK, ClosedIsEmpty, RequestStop, Running
<1>22. CASE Tick
  BY <1>22 DEF TypeOK, ClosedIsEmpty, Tick, Running, ClientDue, ServerDue, HeartbeatDue,
       SilenceDue, Unblocked, Older, Later, Horizon
<1>23. CASE UNCHANGED vars
  BY <1>23 DEF TypeOK, ClosedIsEmpty
<1> QED
  BY <1>1, <1>2, <1>3, <1>4, <1>5, <1>6, <1>7, <1>8, <1>9, <1>10, <1>11, <1>12, <1>13,
     <1>14, <1>15, <1>16, <1>17, <1>18, <1>19, <1>20, <1>21, <1>22, <1>23
     DEF Next, ClientStep, ServerStep, Environment

\* Every step keeps the types.
LEMMA TypeStep ==
    ASSUME TypeOK, [Next]_vars
    PROVE  TypeOK'
<1> USE DEF ClientRunning, ClientEnded, ServerRunning, ServerClosed, ServerEnded,
            vars, clientVars, serverVars, tcpVars, stopVars
<1>1. CASE ConnectSucceeds
  <2>1. PICK pc \in {LoopTop("client"), "failed"} : ClientGoesTo(pc, TRUE, flight)
    BY <1>1 DEF ConnectSucceeds
  <2>2. cpc' = pc /\ Kept(flight)
    BY <2>1, GoesToKeeps DEF TypeOK
  <2> QED BY <1>1, <2>2 DEF TypeOK, Ends, ConnectSucceeds, LoopTop, Kept
<1>2. CASE ConnectRefused
  BY <1>2 DEF TypeOK, Ends, ConnectRefused, ConnectEnds, ClientGoesTo
<1>3. CASE ConnectTimesOut
  BY <1>3 DEF TypeOK, Ends, ConnectTimesOut, ConnectEnds, ClientGoesTo
<1>4. CASE ConnectStopped
  BY <1>4 DEF TypeOK, Ends, ConnectStopped, ConnectEnds, ClientGoesTo
<1>5. CASE ClientForwards
  <2>1. ClientSends
    BY <1>5 DEF ClientForwards
  <2>2. /\ Kept(flight) /\ Finished /\ (spc \in ServerClosed => flight' = flight)
        /\ Blocks \/ Fails \/ Takes
    BY <2>1, SendsOutcome
  <2> QED BY <1>5, <2>2 DEF TypeOK, Ends, ClientForwards, HeartbeatDue, Kept, Finished, Blocks,
       Fails, Takes, LoopTop
<1>6. CASE ClientHeartbeat
  <2>1. ClientSends
    BY <1>6 DEF ClientHeartbeat
  <2>2. /\ Kept(flight) /\ Finished /\ (spc \in ServerClosed => flight' = flight)
        /\ Blocks \/ Fails \/ Takes
    BY <2>1, SendsOutcome
  <2> QED BY <1>6, <2>2 DEF TypeOK, Ends, ClientHeartbeat, HeartbeatDue, Kept, Finished, Blocks,
       Fails, Takes, LoopTop
<1>7. CASE ClientUnblocks
  <2>1. ClientSends
    BY <1>7 DEF ClientUnblocks
  <2>2. /\ Kept(flight) /\ Finished /\ (spc \in ServerClosed => flight' = flight)
        /\ Blocks \/ Fails \/ Takes
    BY <2>1, SendsOutcome
  <2> QED BY <1>7, <2>2 DEF TypeOK, Ends, ClientUnblocks, HeartbeatDue, Kept, Finished, Blocks,
       Fails, Takes, LoopTop
<1>8. CASE ClientDiscards
  <2>1. ClientGoesTo(LoopTop("client"), conn, flight) /\ flight \in Seq(Message)
    BY <1>8 DEF ClientDiscards, TypeOK
  <2>2. cpc' = LoopTop("client") /\ Kept(flight)
    BY <2>1, GoesToKeeps
  <2> QED BY <1>8, <2>1, <2>2 DEF TypeOK, Ends, ClientDiscards, LoopTop, Kept
<1>9. CASE ClientFails
  <2>1. ClientGoesTo("failed", conn, flight) /\ flight \in Seq(Message)
    BY <1>9 DEF ClientFails, TypeOK
  <2>2. cpc' = "failed" /\ Kept(flight)
    BY <2>1, GoesToKeeps
  <2> QED BY <1>9, <2>1, <2>2 DEF TypeOK, Ends, ClientFails, LoopTop, Kept
<1>10. CASE ServerStarts
  BY <1>10 DEF TypeOK, Ends, ServerStarts
<1>11. CASE ServerAccepts
  <2>1. /\ flight' = flight \/ flight' = <<>>
        /\ reset' = reset \/ reset' = "sent"
        /\ spc' \in {"recv", "stopped"} /\ silence' = 0
        /\ UNCHANGED <<jumbos, cpc, idle, quiet, conn, stop, stopAge>>
    BY <1>11 DEF ServerAccepts, ServerGoesTo, LoopTop
  <2>2. flight' \in Seq(Message)
    <3>1. <<>> \in Seq(Message)
      OBVIOUS
    <3>2. flight \in Seq(Message)
      BY DEF TypeOK
    <3> QED BY <2>1, <3>1, <3>2
  <2> QED BY <2>1, <2>2 DEF TypeOK
<1>12. CASE ServerStopsListening
  BY <1>12 DEF TypeOK, Ends, ServerStopsListening, ServerGoesTo
<1>13. CASE ServerReads
  <2>1. Tail(flight) \in Seq(Message) /\ <<>> \in Seq(Message)
    BY <1>13, TailFacts DEF ServerReads, TypeOK
  <2>2. flight' \in Seq(Message)
    BY <1>13, <2>1 DEF ServerReads, ServerGoesTo
  <2> QED BY <1>13, <2>2 DEF TypeOK, Ends, ServerReads, ServerGoesTo, LoopTop, RestartWait
<1>14. CASE ServerEof
  BY <1>14 DEF TypeOK, Ends, ServerEof, ServerEnds, ServerGoesTo
<1>15. CASE ServerSilent
  BY <1>15 DEF TypeOK, Ends, ServerSilent, SilenceDue, ServerEnds, ServerGoesTo
<1>16. CASE ServerFails
  BY <1>16 DEF TypeOK, Ends, ServerFails, ServerEnds, ServerGoesTo
<1>17. CASE ClientVanishes
  BY <1>17 DEF TypeOK, Ends, ClientVanishes
<1>18. CASE ServerVanishes
  BY <1>18 DEF TypeOK, Ends, ServerVanishes
<1>19. CASE ResetArrives
  BY <1>19 DEF TypeOK, Ends, ResetArrives
<1>20. CASE TcpGivesUp
  BY <1>20 DEF TypeOK, Ends, TcpGivesUp
<1>21. ASSUME NEW e \in Ends, RequestStop(e) PROVE TypeOK'
  BY <1>21 DEF TypeOK, Ends, RequestStop, Running
<1>22. CASE Tick
  <2>1. flight' \in Seq(Message)
    BY <1>22, AgedFacts DEF Tick, Aged, TypeOK
  <2>2. idle' \in Nat /\ quiet' \in Nat
    BY <1>22 DEF Tick, Later, TypeOK
  <2>3. silence' \in 0..SilenceTimeout
    BY <1>22 DEF Tick, ServerDue, SilenceDue, TypeOK
  <2>4. stopAge' \in [Ends -> Nat]
    BY <1>22 DEF Tick, Later, TypeOK
  <2> QED BY <1>22, <2>1, <2>2, <2>3, <2>4 DEF TypeOK, Tick
<1>23. CASE UNCHANGED vars
  BY <1>23 DEF TypeOK, Ends
<1> QED
  BY <1>1, <1>2, <1>3, <1>4, <1>5, <1>6, <1>7, <1>8, <1>9, <1>10, <1>11, <1>12, <1>13,
     <1>14, <1>15, <1>16, <1>17, <1>18, <1>19, <1>20, <1>21, <1>22, <1>23
     DEF Next, ClientStep, ServerStep, Environment

\* The end of the connection stays last in flight.
LEMMA FinSentStep ==
    ASSUME TypeOK, Placed, ClosedIsEmpty, FinSent, [Next]_vars
    PROVE  FinSent'
<1> USE DEF ClientRunning, ClientEnded, ServerRunning, ServerClosed, ServerEnded,
            vars, clientVars, serverVars, tcpVars, stopVars
<1>1. CASE ConnectSucceeds
  BY <1>1 DEF TypeOK, Placed, ClosedIsEmpty, FinSent, Message, ConnectSucceeds, ClientGoesTo,
       LoopTop, Sent
<1>2. CASE ConnectRefused
  BY <1>2 DEF TypeOK, Placed, ClosedIsEmpty, FinSent, Message, ConnectRefused, ConnectEnds,
       ClientGoesTo
<1>3. CASE ConnectTimesOut
  BY <1>3 DEF TypeOK, Placed, ClosedIsEmpty, FinSent, Message, ConnectTimesOut, ConnectEnds,
       ClientGoesTo
<1>4. CASE ConnectStopped
  BY <1>4 DEF TypeOK, Placed, ClosedIsEmpty, FinSent, Message, ConnectStopped, ConnectEnds,
       ClientGoesTo
<1>5. CASE ClientForwards
  BY <1>5 DEF TypeOK, Placed, ClosedIsEmpty, FinSent, Message, ClientForwards, ClientSends,
       SendFails, SendTakes, ClientGoesTo, LoopTop, Sent
<1>6. CASE ClientHeartbeat
  BY <1>6 DEF TypeOK, Placed, ClosedIsEmpty, FinSent, Message, ClientHeartbeat, HeartbeatDue,
       ClientSends, SendFails, SendTakes, ClientGoesTo, LoopTop, Sent
<1>7. CASE ClientUnblocks
  BY <1>7 DEF TypeOK, Placed, ClosedIsEmpty, FinSent, Message, ClientUnblocks, Unblocked,
       ClientSends, SendFails, SendTakes, ClientGoesTo, LoopTop, Sent
<1>8. CASE ClientDiscards
  <2>1. Finished
    BY <1>8, GoesToKeeps DEF ClientDiscards, Finished, TypeOK
  <2> QED BY <1>8, <2>1 DEF ClientDiscards, Finished, FinSent
<1>9. CASE ClientFails
  <2>1. Finished
    BY <1>9, GoesToKeeps DEF ClientFails, Finished, TypeOK
  <2> QED BY <1>9, <2>1 DEF ClientFails, Finished, FinSent
<1>10. CASE ServerStarts
  BY <1>10 DEF TypeOK, Placed, FinSent, ServerStarts
<1>11. CASE ServerAccepts
  BY <1>11 DEF TypeOK, Placed, ClosedIsEmpty, FinSent, Message, ServerAccepts, ServerGoesTo, LoopTop
<1>12. CASE ServerStopsListening
  BY <1>12 DEF TypeOK, Placed, ClosedIsEmpty, FinSent, Message, ServerStopsListening, ServerGoesTo
<1>13. CASE ServerReads
  <2>1. /\ flight # <<>> /\ flight \in Seq(Message) /\ Head(flight).kind = "data"
        /\ UNCHANGED <<cpc, conn>> /\ spc \in ServerRunning
        /\ spc' \in ServerRunning => flight' = Tail(flight)
    BY <1>13 DEF ServerReads, ServerGoesTo, TypeOK, ServerRunning, ServerClosed, clientVars
  <2>2. ASSUME conn, spc' \in ServerRunning, cpc \in {"stopped", "failed"}
        PROVE  flight' # <<>> /\ flight'[Len(flight')].kind = "fin"
    <3>1. flight[Len(flight)].kind = "fin" /\ flight' = Tail(flight)
      BY <2>1, <2>2 DEF FinSent
    <3>2. Len(flight) # 1
      BY <2>1, <3>1, TailFacts
    <3> QED BY <2>1, <3>1, <3>2, TailFacts
  <2> QED BY <2>1, <2>2 DEF FinSent
<1>14. CASE ServerEof
  BY <1>14 DEF TypeOK, Placed, ClosedIsEmpty, FinSent, Message, ServerEof, ServerEnds, ServerGoesTo
<1>15. CASE ServerSilent
  BY <1>15 DEF TypeOK, Placed, ClosedIsEmpty, FinSent, Message, ServerSilent, SilenceDue,
       ServerEnds, ServerGoesTo
<1>16. CASE ServerFails
  BY <1>16 DEF TypeOK, Placed, ClosedIsEmpty, FinSent, Message, ServerFails, ServerEnds,
       ServerGoesTo
<1>17. CASE ClientVanishes
  BY <1>17 DEF TypeOK, Placed, ClosedIsEmpty, FinSent, Message, ClientVanishes
<1>18. CASE ServerVanishes
  BY <1>18 DEF TypeOK, Placed, ClosedIsEmpty, FinSent, Message, ServerVanishes
<1>19. CASE ResetArrives
  BY <1>19 DEF TypeOK, Placed, ClosedIsEmpty, FinSent, Message, ResetArrives
<1>20. CASE TcpGivesUp
  BY <1>20 DEF TypeOK, Placed, ClosedIsEmpty, FinSent, Message, TcpGivesUp
<1>21. ASSUME NEW e \in Ends, RequestStop(e) PROVE FinSent'
  BY <1>21 DEF TypeOK, Placed, ClosedIsEmpty, FinSent, Message, RequestStop, Running
<1>22. CASE Tick
  <2>1. /\ UNCHANGED <<conn, cpc, spc>> /\ flight' = Aged(flight) /\ flight \in Seq(Message)
    BY <1>22 DEF Tick, Aged, TypeOK
  <2>2. /\ flight = <<>> <=> flight' = <<>>
        /\ flight # <<>> => flight'[Len(flight')].kind = flight[Len(flight)].kind
    BY <2>1, AgedFacts
  <2> QED BY <2>1, <2>2 DEF FinSent
<1>23. CASE UNCHANGED vars
  BY <1>23 DEF TypeOK, Placed, ClosedIsEmpty, FinSent, Message
<1> QED
  BY <1>1, <1>2, <1>3, <1>4, <1>5, <1>6, <1>7, <1>8, <1>9, <1>10, <1>11, <1>12, <1>13,
     <1>14, <1>15, <1>16, <1>17, <1>18, <1>19, <1>20, <1>21, <1>22, <1>23
     DEF Next, ClientStep, ServerStep, Environment

\* The server's wait stays explained.
LEMMA WaitExplainedStep ==
    ASSUME TypeOK, Placed, IdleBounded, FinSent, WaitExplained, [Next]_vars
    PROVE  WaitExplained'
<1> USE DEF ClientRunning, ClientEnded, ServerRunning, ServerClosed, ServerEnded,
            vars, clientVars, serverVars, tcpVars, stopVars
<1>1. CASE ConnectSucceeds
  BY <1>1 DEF TypeOK, Placed, IdleBounded, FinSent, WaitExplained, ConnectSucceeds,
       ClientGoesTo, LoopTop, Sent
<1>2. CASE ConnectRefused
  BY <1>2 DEF TypeOK, Placed, IdleBounded, FinSent, WaitExplained, ConnectRefused, ConnectEnds,
       ClientGoesTo
<1>3. CASE ConnectTimesOut
  BY <1>3 DEF TypeOK, Placed, IdleBounded, FinSent, WaitExplained, ConnectTimesOut, ConnectEnds,
       ClientGoesTo
<1>4. CASE ConnectStopped
  BY <1>4 DEF TypeOK, Placed, IdleBounded, FinSent, WaitExplained, ConnectStopped, ConnectEnds,
       ClientGoesTo
<1>5. CASE ClientForwards
  <2>1. ClientSends /\ UNCHANGED <<jumbos, spc, silence, conn>> /\ cpc \in {"recv", "sending"}
    BY <1>5 DEF ClientForwards
  <2>2. /\ Kept(flight) /\ Finished /\ (Blocks \/ Fails \/ Takes)
    BY <2>1, SendsOutcome
  <2>3. ASSUME ~jumbos, spc = "recv" PROVE
          /\ conn /\ HeartbeatPeriod \in Nat /\ MaxFlight \in Nat \ {0} /\ silence \in Nat
          /\ flight # <<>> => silence <= HeartbeatPeriod + flight[1].age
          /\ flight = <<>> => silence <= HeartbeatPeriod
    BY <2>1, <2>3 DEF TypeOK, Placed, IdleBounded, WaitExplained
  <2>4. ASSUME ~jumbos, spc = "recv", flight' # <<>>
        PROVE  silence <= HeartbeatPeriod + flight'[1].age
    <3>1. CASE flight = <<>>
      BY <2>2, <2>3, <2>4, <3>1 DEF Kept
    <3>2. CASE flight # <<>>
      BY <2>2, <2>3, <2>4, <3>2 DEF Kept
    <3> QED BY <3>1, <3>2
  <2>5. ASSUME spc = "recv", cpc' # "vanished", flight' = <<>>
        PROVE  FALSE
    <3>1. CASE Blocks
      <4>1. flight = <<>> /\ Len(flight) >= MaxFlight
        BY <2>5, <3>1 DEF Blocks
      <4> QED BY <4>1
    <3>2. CASE Fails
      <4>1. cpc' \in ClientEnded /\ conn /\ spc \in ServerRunning
        BY <2>1, <2>5, <3>2 DEF Fails, Placed, ClientEnded, ServerRunning
      <4> QED BY <2>2, <2>5, <4>1 DEF Finished
    <3>3. CASE Takes
      BY <2>5, <3>3 DEF Takes
    <3> QED BY <2>2, <3>1, <3>2, <3>3
  <2> QED BY <2>1, <2>4, <2>5 DEF WaitExplained
<1>6. CASE ClientHeartbeat
  <2>1. ClientSends /\ UNCHANGED <<jumbos, spc, silence, conn>> /\ cpc \in {"recv", "sending"}
    BY <1>6 DEF ClientHeartbeat
  <2>2. /\ Kept(flight) /\ Finished /\ (Blocks \/ Fails \/ Takes)
    BY <2>1, SendsOutcome
  <2>3. ASSUME ~jumbos, spc = "recv" PROVE
          /\ conn /\ HeartbeatPeriod \in Nat /\ MaxFlight \in Nat \ {0} /\ silence \in Nat
          /\ flight # <<>> => silence <= HeartbeatPeriod + flight[1].age
          /\ flight = <<>> => silence <= HeartbeatPeriod
    BY <2>1, <2>3 DEF TypeOK, Placed, IdleBounded, WaitExplained
  <2>4. ASSUME ~jumbos, spc = "recv", flight' # <<>>
        PROVE  silence <= HeartbeatPeriod + flight'[1].age
    <3>1. CASE flight = <<>>
      BY <2>2, <2>3, <2>4, <3>1 DEF Kept
    <3>2. CASE flight # <<>>
      BY <2>2, <2>3, <2>4, <3>2 DEF Kept
    <3> QED BY <3>1, <3>2
  <2>5. ASSUME spc = "recv", cpc' # "vanished", flight' = <<>>
        PROVE  FALSE
    <3>1. CASE Blocks
      <4>1. flight = <<>> /\ Len(flight) >= MaxFlight
        BY <2>5, <3>1 DEF Blocks
      <4> QED BY <4>1
    <3>2. CASE Fails
      <4>1. cpc' \in ClientEnded /\ conn /\ spc \in ServerRunning
        BY <2>1, <2>5, <3>2 DEF Fails, Placed, ClientEnded, ServerRunning
      <4> QED BY <2>2, <2>5, <4>1 DEF Finished
    <3>3. CASE Takes
      BY <2>5, <3>3 DEF Takes
    <3> QED BY <2>2, <3>1, <3>2, <3>3
  <2> QED BY <2>1, <2>4, <2>5 DEF WaitExplained
<1>7. CASE ClientUnblocks
  <2>1. ClientSends /\ UNCHANGED <<jumbos, spc, silence, conn>> /\ cpc \in {"recv", "sending"}
    BY <1>7 DEF ClientUnblocks
  <2>2. /\ Kept(flight) /\ Finished /\ (Blocks \/ Fails \/ Takes)
    BY <2>1, SendsOutcome
  <2>3. ASSUME ~jumbos, spc = "recv" PROVE
          /\ conn /\ HeartbeatPeriod \in Nat /\ MaxFlight \in Nat \ {0} /\ silence \in Nat
          /\ flight # <<>> => silence <= HeartbeatPeriod + flight[1].age
          /\ flight = <<>> => silence <= HeartbeatPeriod
    BY <2>1, <2>3 DEF TypeOK, Placed, IdleBounded, WaitExplained
  <2>4. ASSUME ~jumbos, spc = "recv", flight' # <<>>
        PROVE  silence <= HeartbeatPeriod + flight'[1].age
    <3>1. CASE flight = <<>>
      BY <2>2, <2>3, <2>4, <3>1 DEF Kept
    <3>2. CASE flight # <<>>
      BY <2>2, <2>3, <2>4, <3>2 DEF Kept
    <3> QED BY <3>1, <3>2
  <2>5. ASSUME spc = "recv", cpc' # "vanished", flight' = <<>>
        PROVE  FALSE
    <3>1. CASE Blocks
      <4>1. flight = <<>> /\ Len(flight) >= MaxFlight
        BY <2>5, <3>1 DEF Blocks
      <4> QED BY <4>1
    <3>2. CASE Fails
      <4>1. cpc' \in ClientEnded /\ conn /\ spc \in ServerRunning
        BY <2>1, <2>5, <3>2 DEF Fails, Placed, ClientEnded, ServerRunning
      <4> QED BY <2>2, <2>5, <4>1 DEF Finished
    <3>3. CASE Takes
      BY <2>5, <3>3 DEF Takes
    <3> QED BY <2>2, <3>1, <3>2, <3>3
  <2> QED BY <2>1, <2>4, <2>5 DEF WaitExplained
<1>8. CASE ClientDiscards
  BY <1>8 DEF TypeOK, Placed, IdleBounded, FinSent, WaitExplained, ClientDiscards, ClientGoesTo,
       LoopTop, Sent
<1>9. CASE ClientFails
  BY <1>9 DEF TypeOK, Placed, IdleBounded, FinSent, WaitExplained, ClientFails, ClientGoesTo, Sent
<1>10. CASE ServerStarts
  BY <1>10 DEF TypeOK, Placed, IdleBounded, FinSent, WaitExplained, ServerStarts
<1>11. CASE ServerAccepts
  <2>1. silence' = 0 /\ (flight' = flight \/ flight' = <<>>) /\ spc' \in {"recv", "stopped"} /\ UNCHANGED <<idle, cpc>>
    BY <1>11 DEF ServerAccepts, ServerGoesTo, LoopTop
  <2>2. flight # <<>> => flight[1].age \in Nat
    BY HeadAge DEF TypeOK
  <2> QED BY <2>1, <2>2 DEF WaitExplained, TypeOK
<1>12. CASE ServerStopsListening
  BY <1>12 DEF TypeOK, Placed, IdleBounded, FinSent, WaitExplained, ServerStopsListening,
       ServerGoesTo
<1>13. CASE ServerReads
  <2>1. /\ silence' = 0 /\ UNCHANGED <<idle, cpc>> /\ flight # <<>> /\ flight \in Seq(Message)
        /\ flight' = Tail(flight) \/ flight' = <<>>
    BY <1>13 DEF ServerReads, ServerGoesTo, RestartWait, TypeOK
  <2>2. flight' # <<>> => flight'[1].age \in Nat
    <3>1. PICK g : g = Tail(flight)
      OBVIOUS
    <3>2. g \in Seq(Message)
      BY <2>1, <3>1, TailFacts
    <3> QED BY <2>1, <3>1, <3>2, HeadAge
  <2> QED BY <2>1, <2>2 DEF WaitExplained, TypeOK
<1>14. CASE ServerEof
  BY <1>14 DEF TypeOK, Placed, IdleBounded, FinSent, WaitExplained, ServerEof, ServerEnds,
       ServerGoesTo
<1>15. CASE ServerSilent
  BY <1>15 DEF TypeOK, Placed, IdleBounded, FinSent, WaitExplained, ServerSilent, SilenceDue,
       ServerEnds, ServerGoesTo
<1>16. CASE ServerFails
  BY <1>16 DEF TypeOK, Placed, IdleBounded, FinSent, WaitExplained, ServerFails, ServerEnds,
       ServerGoesTo
<1>17. CASE ClientVanishes
  BY <1>17 DEF TypeOK, Placed, IdleBounded, FinSent, WaitExplained, ClientVanishes
<1>18. CASE ServerVanishes
  BY <1>18 DEF TypeOK, Placed, IdleBounded, FinSent, WaitExplained, ServerVanishes
<1>19. CASE ResetArrives
  BY <1>19 DEF TypeOK, Placed, IdleBounded, FinSent, WaitExplained, ResetArrives
<1>20. CASE TcpGivesUp
  BY <1>20 DEF TypeOK, Placed, IdleBounded, FinSent, WaitExplained, TcpGivesUp
<1>21. ASSUME NEW e \in Ends, RequestStop(e) PROVE WaitExplained'
  BY <1>21 DEF TypeOK, Placed, IdleBounded, FinSent, WaitExplained, RequestStop, Running
<1>22. CASE Tick
  <2>1. /\ UNCHANGED <<jumbos, cpc, spc>> /\ flight' = Aged(flight) /\ flight \in Seq(Message)
        /\ spc = "recv" => silence' = silence + 1
        /\ cpc = "recv" => idle' = idle + 1
        /\ spc = "recv" /\ flight # <<>> => Head(flight).age # MaxDelay
        /\ ~(cpc = "sending" /\ Len(flight) < MaxFlight)
    BY <1>22 DEF Tick, Aged, ServerDue, ClientDue, Unblocked, TypeOK
  <2>2. /\ flight = <<>> <=> flight' = <<>>
        /\ flight # <<>> => Head(flight) = flight[1] /\ flight[1].age \in 0..MaxDelay
        /\ flight # <<>> /\ flight[1].age < MaxDelay => flight'[1].age = flight[1].age + 1
    BY <2>1, AgedFacts, TailFacts DEF Message
  <2>3. ~jumbos /\ spc = "recv" /\ cpc # "vanished" /\ flight # <<>> => silence' <= HeartbeatPeriod + flight'[1].age
    BY <2>1, <2>2 DEF WaitExplained, TypeOK
  <2>4. ~jumbos /\ spc = "recv" /\ flight = <<>> /\ cpc = "recv" => silence' <= idle'
    BY <2>1 DEF WaitExplained, TypeOK
  <2>5. flight = <<>> => cpc # "sending"
    BY <2>1
  <2> QED BY <2>1, <2>2, <2>3, <2>4, <2>5 DEF WaitExplained
<1>23. CASE UNCHANGED vars
  BY <1>23 DEF TypeOK, Placed, IdleBounded, FinSent, WaitExplained
<1> QED
  BY <1>1, <1>2, <1>3, <1>4, <1>5, <1>6, <1>7, <1>8, <1>9, <1>10, <1>11, <1>12, <1>13,
     <1>14, <1>15, <1>16, <1>17, <1>18, <1>19, <1>20, <1>21, <1>22, <1>23
     DEF Next, ClientStep, ServerStep, Environment

\* A stop request ages no further than the client's waits.
LEMMA ClientStopAgeStep ==
    ASSUME TypeOK, Placed, IdleBounded, ClosedIsEmpty, WindowKept, ClientStopAge, [Next]_vars
    PROVE  ClientStopAge'
<1> USE DEF ClientRunning, ClientEnded, ServerRunning, ServerClosed, ServerEnded,
            vars, clientVars, serverVars, tcpVars, stopVars
<1>1. CASE ConnectSucceeds
  BY <1>1 DEF TypeOK, Placed, IdleBounded, ClosedIsEmpty, WindowKept, ClientStopAge, Message,
       Ends, ConnectSucceeds, ClientGoesTo, LoopTop, Sent
<1>2. CASE ConnectRefused
  BY <1>2 DEF TypeOK, Placed, IdleBounded, ClosedIsEmpty, WindowKept, ClientStopAge, Message,
       Ends, ConnectRefused, ConnectEnds, ClientGoesTo
<1>3. CASE ConnectTimesOut
  BY <1>3 DEF TypeOK, Placed, IdleBounded, ClosedIsEmpty, WindowKept, ClientStopAge, Message,
       Ends, ConnectTimesOut, ConnectEnds, ClientGoesTo
<1>4. CASE ConnectStopped
  BY <1>4 DEF TypeOK, Placed, IdleBounded, ClosedIsEmpty, WindowKept, ClientStopAge, Message,
       Ends, ConnectStopped, ConnectEnds, ClientGoesTo
<1>5. CASE ClientForwards
  <2>1. ClientSends /\ UNCHANGED <<spc, stop, stopAge>> /\ cpc \in {"recv", "sending"}
    BY <1>5 DEF ClientForwards
  <2>2. Kept(flight) /\ (Blocks \/ Fails \/ Takes)
    BY <2>1, SendsOutcome
  <2>3. /\ HeartbeatPeriod \in Nat /\ MaxDelay \in Nat /\ MaxFlight \in Nat \ {0}
        /\ stopAge["client"] \in Nat /\ idle \in Nat /\ flight \in Seq(Message)
    BY DEF TypeOK, Ends
  <2>4. CASE Fails
    BY <2>1, <2>4 DEF Fails, ClientStopAge
  <2>5. CASE Takes
    BY <2>1, <2>5, <2>3 DEF Takes, LoopTop, ClientStopAge
  <2>6. CASE Blocks
    <3>1. flight # <<>>
      BY <2>3, <2>6 DEF Blocks
    <3>2. flight[1].age \in 0..MaxDelay
      BY <2>3, <3>1, HeadAge
    <3>3. CASE cpc = "recv"
      <4>1. stop["client"] => stopAge["client"] <= HeartbeatPeriod
        BY <2>3, <3>3 DEF ClientStopAge, IdleBounded
      <4> QED BY <2>1, <2>3, <2>6, <3>2, <4>1 DEF Blocks, ClientStopAge
    <3>4. CASE cpc = "sending"
      BY <2>1, <2>6, <3>4 DEF Blocks, ClientStopAge
    <3> QED BY <2>1, <3>3, <3>4
  <2> QED BY <2>2, <2>4, <2>5, <2>6
<1>6. CASE ClientHeartbeat
  <2>1. ClientSends /\ UNCHANGED <<spc, stop, stopAge>> /\ cpc \in {"recv", "sending"}
    BY <1>6 DEF ClientHeartbeat
  <2>2. Kept(flight) /\ (Blocks \/ Fails \/ Takes)
    BY <2>1, SendsOutcome
  <2>3. /\ HeartbeatPeriod \in Nat /\ MaxDelay \in Nat /\ MaxFlight \in Nat \ {0}
        /\ stopAge["client"] \in Nat /\ idle \in Nat /\ flight \in Seq(Message)
    BY DEF TypeOK, Ends
  <2>4. CASE Fails
    BY <2>1, <2>4 DEF Fails, ClientStopAge
  <2>5. CASE Takes
    BY <2>1, <2>5, <2>3 DEF Takes, LoopTop, ClientStopAge
  <2>6. CASE Blocks
    <3>1. flight # <<>>
      BY <2>3, <2>6 DEF Blocks
    <3>2. flight[1].age \in 0..MaxDelay
      BY <2>3, <3>1, HeadAge
    <3>3. CASE cpc = "recv"
      <4>1. stop["client"] => stopAge["client"] <= HeartbeatPeriod
        BY <2>3, <3>3 DEF ClientStopAge, IdleBounded
      <4> QED BY <2>1, <2>3, <2>6, <3>2, <4>1 DEF Blocks, ClientStopAge
    <3>4. CASE cpc = "sending"
      BY <2>1, <2>6, <3>4 DEF Blocks, ClientStopAge
    <3> QED BY <2>1, <3>3, <3>4
  <2> QED BY <2>2, <2>4, <2>5, <2>6
<1>7. CASE ClientUnblocks
  <2>1. ClientSends /\ UNCHANGED <<spc, stop, stopAge>> /\ cpc \in {"recv", "sending"}
    BY <1>7 DEF ClientUnblocks
  <2>2. Kept(flight) /\ (Blocks \/ Fails \/ Takes)
    BY <2>1, SendsOutcome
  <2>3. /\ HeartbeatPeriod \in Nat /\ MaxDelay \in Nat /\ MaxFlight \in Nat \ {0}
        /\ stopAge["client"] \in Nat /\ idle \in Nat /\ flight \in Seq(Message)
    BY DEF TypeOK, Ends
  <2>4. CASE Fails
    BY <2>1, <2>4 DEF Fails, ClientStopAge
  <2>5. CASE Takes
    BY <2>1, <2>5, <2>3 DEF Takes, LoopTop, ClientStopAge
  <2>6. CASE Blocks
    <3>1. flight # <<>>
      BY <2>3, <2>6 DEF Blocks
    <3>2. flight[1].age \in 0..MaxDelay
      BY <2>3, <3>1, HeadAge
    <3>3. CASE cpc = "recv"
      <4>1. stop["client"] => stopAge["client"] <= HeartbeatPeriod
        BY <2>3, <3>3 DEF ClientStopAge, IdleBounded
      <4> QED BY <2>1, <2>3, <2>6, <3>2, <4>1 DEF Blocks, ClientStopAge
    <3>4. CASE cpc = "sending"
      BY <2>1, <2>6, <3>4 DEF Blocks, ClientStopAge
    <3> QED BY <2>1, <3>3, <3>4
  <2> QED BY <2>2, <2>4, <2>5, <2>6
<1>8. CASE ClientDiscards
  BY <1>8 DEF TypeOK, Placed, IdleBounded, ClosedIsEmpty, WindowKept, ClientStopAge, Message,
       Ends, ClientDiscards, ClientGoesTo, LoopTop, Sent
<1>9. CASE ClientFails
  BY <1>9 DEF TypeOK, Placed, IdleBounded, ClosedIsEmpty, WindowKept, ClientStopAge, Message,
       Ends, ClientFails, ClientGoesTo, Sent
<1>10. CASE ServerStarts
  BY <1>10 DEF TypeOK, Placed, IdleBounded, ClosedIsEmpty, WindowKept, ClientStopAge, Message,
       Ends, ServerStarts
<1>11. CASE ServerAccepts
  BY <1>11 DEF TypeOK, Placed, IdleBounded, ClosedIsEmpty, WindowKept, ClientStopAge, Message,
       Ends, ServerAccepts, ServerGoesTo, LoopTop
<1>12. CASE ServerStopsListening
  BY <1>12 DEF TypeOK, Placed, IdleBounded, ClosedIsEmpty, WindowKept, ClientStopAge, Message,
       Ends, ServerStopsListening, ServerGoesTo
<1>13. CASE ServerReads
  <2>1. /\ flight # <<>> /\ flight \in Seq(Message) /\ UNCHANGED <<cpc, idle, stop, stopAge>> /\ spc = "recv"
        /\ flight' = Tail(flight) \/ flight' = <<>>
    BY <1>13 DEF ServerReads, ServerGoesTo, TypeOK
  <2>2. cpc = "sending" => Len(flight') < MaxFlight
    <3>1. Len(Tail(flight)) = Len(flight) - 1 /\ Len(flight) \in Nat /\ Len(<<>>) = 0
      BY <2>1, TailFacts
    <3>2. cpc = "sending" => Len(flight) <= MaxFlight
      BY DEF WindowKept, ClientRunning
    <3>3. Len(flight') = Len(flight) - 1 \/ Len(flight') = 0
      BY <2>1, <3>1
    <3> QED BY <3>1, <3>2, <3>3
  <2>3. Len(flight') < MaxFlight => ~(Len(flight') >= MaxFlight)
    <3>1. Len(flight') \in Nat
      BY <2>1, TailFacts
    <3> QED BY <3>1
  <2> QED BY <2>1, <2>2, <2>3 DEF ClientStopAge
<1>14. CASE ServerEof
  BY <1>14 DEF TypeOK, Placed, IdleBounded, ClosedIsEmpty, WindowKept, ClientStopAge, Message,
       Ends, ServerEof, ServerEnds, ServerGoesTo
<1>15. CASE ServerSilent
  BY <1>15 DEF TypeOK, Placed, IdleBounded, ClosedIsEmpty, WindowKept, ClientStopAge, Message,
       Ends, ServerSilent, SilenceDue, ServerEnds, ServerGoesTo
<1>16. CASE ServerFails
  BY <1>16 DEF TypeOK, Placed, IdleBounded, ClosedIsEmpty, WindowKept, ClientStopAge, Message,
       Ends, ServerFails, ServerEnds, ServerGoesTo
<1>17. CASE ClientVanishes
  BY <1>17 DEF TypeOK, Placed, IdleBounded, ClosedIsEmpty, WindowKept, ClientStopAge, Message,
       Ends, ClientVanishes
<1>18. CASE ServerVanishes
  BY <1>18 DEF TypeOK, Placed, IdleBounded, ClosedIsEmpty, WindowKept, ClientStopAge, Message,
       Ends, ServerVanishes
<1>19. CASE ResetArrives
  BY <1>19 DEF TypeOK, Placed, IdleBounded, ClosedIsEmpty, WindowKept, ClientStopAge, Message,
       Ends, ResetArrives
<1>20. CASE TcpGivesUp
  BY <1>20 DEF TypeOK, Placed, IdleBounded, ClosedIsEmpty, WindowKept, ClientStopAge, Message,
       Ends, TcpGivesUp
<1>21. ASSUME NEW e \in Ends, RequestStop(e) PROVE ClientStopAge'
  <2>1. /\ stopAge' = stopAge /\ UNCHANGED <<cpc, spc, idle, flight>>
        /\ e = "client" \/ (e = "server" /\ stop'["client"] = stop["client"])
    BY <1>21 DEF RequestStop, TypeOK, Ends
  <2>2. CASE e = "server"
    BY <2>1, <2>2 DEF ClientStopAge
  <2>3. CASE e = "client"
    <3>1. stopAge["client"] = 0
      BY <1>21, <2>3 DEF RequestStop, ClientStopAge
    <3>2. flight # <<>> => flight[1].age \in Nat
      BY HeadAge DEF TypeOK
    <3>3. Len(flight) >= MaxFlight => flight # <<>>
      BY DEF TypeOK
    <3>4. stop'["client"] = TRUE
      BY <1>21, <2>3 DEF RequestStop, TypeOK, Ends
    <3> QED BY <2>1, <3>1, <3>2, <3>3, <3>4 DEF ClientStopAge, TypeOK
  <2> QED BY <2>1, <2>2, <2>3
<1>22. CASE Tick
  <2>1. /\ UNCHANGED <<cpc, spc, stop>> /\ flight' = Aged(flight) /\ flight \in Seq(Message)
        /\ idle' = IF cpc \in {"connecting", "recv"} THEN idle + 1 ELSE idle
        /\ spc = "recv" /\ flight # <<>> => Head(flight).age # MaxDelay
        /\ ~(cpc = "sending" /\ Len(flight) < MaxFlight)
        /\ ~(cpc = "connecting" /\ stop["client"] /\ stopAge["client"] = ConnectPoll)
        /\ ~(spc = "listening" /\ conn)
    BY <1>22 DEF Tick, Aged, ServerDue, ClientDue, Unblocked, TypeOK
  <2>2. /\ ~stop["client"] => stopAge'["client"] = stopAge["client"]
        /\ stopAge'["client"] \in Nat /\ stopAge'["client"] <= stopAge["client"] + 1
    BY <1>22 DEF Tick, Later, TypeOK, Ends
  <2>3. /\ Len(flight) \in Nat /\ Len(flight') = Len(flight)
        /\ flight # <<>> => Head(flight) = flight[1] /\ flight[1].age \in 0..MaxDelay
        /\ flight # <<>> /\ flight[1].age < MaxDelay => flight'[1].age = flight[1].age + 1
    BY <2>1, AgedFacts, TailFacts, HeadAge
  <2>4. /\ HeartbeatPeriod \in Nat /\ MaxDelay \in Nat /\ MaxFlight \in Nat \ {0} /\ ConnectPoll \in Nat
        /\ stopAge["client"] \in Nat /\ idle \in Nat
    BY DEF TypeOK, Ends
  <2>5. CASE cpc = "connecting" \/ cpc = "recv" \/ ~stop["client"]
    BY <2>1, <2>2, <2>4, <2>5 DEF ClientStopAge
  <2>6. CASE cpc = "sending" /\ stop["client"] /\ spc # "vanished"
    <3>1. Len(flight) >= MaxFlight /\ flight # <<>>
      BY <2>1, <2>3, <2>4, <2>6
    <3>2. spc = "recv"
      BY <2>1, <2>6, <3>1 DEF Placed, ClosedIsEmpty, TypeOK
    <3>3. flight[1].age < MaxDelay /\ flight'[1].age = flight[1].age + 1 /\ flight[1].age \in Nat
      BY <2>1, <2>3, <2>4, <3>1, <3>2
    <3>4. stopAge["client"] <= HeartbeatPeriod + flight[1].age
      BY <2>6, <3>1 DEF ClientStopAge
    <3>5. stopAge'["client"] <= HeartbeatPeriod + flight'[1].age /\ stopAge'["client"] <= HeartbeatPeriod + MaxDelay
      BY <2>2, <2>4, <3>3, <3>4
    <3> QED BY <2>1, <2>6, <3>5 DEF ClientStopAge
  <2>7. CASE ~(cpc \in {"connecting", "recv"} \/ ~stop["client"]) /\ ~(cpc = "sending" /\ spc # "vanished")
    BY <2>1, <2>7 DEF ClientStopAge
  <2> QED BY <2>5, <2>6, <2>7
<1>23. CASE UNCHANGED vars
  BY <1>23 DEF TypeOK, Placed, IdleBounded, ClosedIsEmpty, WindowKept, ClientStopAge, Message, Ends
<1> QED
  BY <1>1, <1>2, <1>3, <1>4, <1>5, <1>6, <1>7, <1>8, <1>9, <1>10, <1>11, <1>12, <1>13,
     <1>14, <1>15, <1>16, <1>17, <1>18, <1>19, <1>20, <1>21, <1>22, <1>23
     DEF Next, ClientStep, ServerStep, Environment

\* A stop request ages no further than the server's waits.
LEMMA ServerStopAgeStep ==
    ASSUME TypeOK, Placed, ServerStopAge, [Next]_vars
    PROVE  ServerStopAge'
<1> USE DEF ClientRunning, ClientEnded, ServerRunning, ServerClosed, ServerEnded,
            vars, clientVars, serverVars, tcpVars, stopVars
<1>1. CASE ConnectSucceeds
  BY <1>1 DEF TypeOK, Placed, ServerStopAge, Ends, ConnectSucceeds, ClientGoesTo, LoopTop, Sent
<1>2. CASE ConnectRefused
  BY <1>2 DEF TypeOK, Placed, ServerStopAge, Ends, ConnectRefused, ConnectEnds, ClientGoesTo
<1>3. CASE ConnectTimesOut
  BY <1>3 DEF TypeOK, Placed, ServerStopAge, Ends, ConnectTimesOut, ConnectEnds, ClientGoesTo
<1>4. CASE ConnectStopped
  BY <1>4 DEF TypeOK, Placed, ServerStopAge, Ends, ConnectStopped, ConnectEnds, ClientGoesTo
<1>5. CASE ClientForwards
  BY <1>5 DEF TypeOK, Placed, ServerStopAge, Ends, ClientForwards, ClientSends, SendFails,
       SendTakes, ClientGoesTo, LoopTop, Sent
<1>6. CASE ClientHeartbeat
  BY <1>6 DEF TypeOK, Placed, ServerStopAge, Ends, ClientHeartbeat, HeartbeatDue, ClientSends,
       SendFails, SendTakes, ClientGoesTo, LoopTop, Sent
<1>7. CASE ClientUnblocks
  BY <1>7 DEF TypeOK, Placed, ServerStopAge, Ends, ClientUnblocks, Unblocked, ClientSends,
       SendFails, SendTakes, ClientGoesTo, LoopTop, Sent
<1>8. CASE ClientDiscards
  BY <1>8 DEF TypeOK, Placed, ServerStopAge, Ends, ClientDiscards, ClientGoesTo, LoopTop, Sent
<1>9. CASE ClientFails
  BY <1>9 DEF TypeOK, Placed, ServerStopAge, Ends, ClientFails, ClientGoesTo, Sent
<1>10. CASE ServerStarts
  BY <1>10 DEF TypeOK, Placed, ServerStopAge, Ends, ServerStarts
<1>11. CASE ServerAccepts
  BY <1>11 DEF TypeOK, Placed, ServerStopAge, Ends, ServerAccepts, ServerGoesTo, LoopTop
<1>12. CASE ServerStopsListening
  BY <1>12 DEF TypeOK, Placed, ServerStopAge, Ends, ServerStopsListening, ServerGoesTo
<1>13. CASE ServerReads
  BY <1>13 DEF TypeOK, Placed, ServerStopAge, Ends, ServerReads, ServerGoesTo, LoopTop, RestartWait
<1>14. CASE ServerEof
  BY <1>14 DEF TypeOK, Placed, ServerStopAge, Ends, ServerEof, ServerEnds, ServerGoesTo
<1>15. CASE ServerSilent
  BY <1>15 DEF TypeOK, Placed, ServerStopAge, Ends, ServerSilent, SilenceDue, ServerEnds,
       ServerGoesTo
<1>16. CASE ServerFails
  BY <1>16 DEF TypeOK, Placed, ServerStopAge, Ends, ServerFails, ServerEnds, ServerGoesTo
<1>17. CASE ClientVanishes
  BY <1>17 DEF TypeOK, Placed, ServerStopAge, Ends, ClientVanishes
<1>18. CASE ServerVanishes
  BY <1>18 DEF TypeOK, Placed, ServerStopAge, Ends, ServerVanishes
<1>19. CASE ResetArrives
  BY <1>19 DEF TypeOK, Placed, ServerStopAge, Ends, ResetArrives
<1>20. CASE TcpGivesUp
  BY <1>20 DEF TypeOK, Placed, ServerStopAge, Ends, TcpGivesUp
<1>21. ASSUME NEW e \in Ends, RequestStop(e) PROVE ServerStopAge'
  BY <1>21 DEF TypeOK, Placed, ServerStopAge, Ends, RequestStop, Running
<1>22. CASE Tick
  BY <1>22, SMTT(60) DEF TypeOK, Placed, ServerStopAge, Ends, Tick, Running, ClientDue, ServerDue,
       HeartbeatDue, SilenceDue, Unblocked, Older, Later, Horizon
<1>23. CASE UNCHANGED vars
  BY <1>23 DEF TypeOK, Placed, ServerStopAge, Ends
<1> QED
  BY <1>1, <1>2, <1>3, <1>4, <1>5, <1>6, <1>7, <1>8, <1>9, <1>10, <1>11, <1>12, <1>13,
     <1>14, <1>15, <1>16, <1>17, <1>18, <1>19, <1>20, <1>21, <1>22, <1>23
     DEF Next, ClientStep, ServerStep, Environment

\* A running client sends no more than TCP holds.
LEMMA WindowKeptStep ==
    ASSUME TypeOK, Placed, WindowKept, [Next]_vars
    PROVE  WindowKept'
<1> USE DEF ClientRunning, ClientEnded, ServerRunning, ServerClosed, ServerEnded,
            vars, clientVars, serverVars, tcpVars, stopVars
<1>1. CASE ConnectSucceeds
  <2>1. cpc \in ClientRunning /\ (cpc' \notin ClientEnded => flight' = flight)
    BY <1>1 DEF ConnectSucceeds, ClientGoesTo, LoopTop, Sent, ClientRunning
  <2> QED BY <2>1 DEF WindowKept, ClientRunning, ClientEnded
<1>2. CASE ConnectRefused
  <2>1. cpc \in ClientRunning /\ (cpc' \notin ClientEnded => flight' = flight)
    BY <1>2 DEF ConnectRefused, ConnectEnds, ClientGoesTo, ClientRunning
  <2> QED BY <2>1 DEF WindowKept, ClientRunning, ClientEnded
<1>3. CASE ConnectTimesOut
  <2>1. cpc \in ClientRunning /\ (cpc' \notin ClientEnded => flight' = flight)
    BY <1>3 DEF ConnectTimesOut, ConnectEnds, ClientGoesTo, ClientRunning
  <2> QED BY <2>1 DEF WindowKept, ClientRunning, ClientEnded
<1>4. CASE ConnectStopped
  <2>1. cpc \in ClientRunning /\ (cpc' \notin ClientEnded => flight' = flight)
    BY <1>4 DEF ConnectStopped, ConnectEnds, ClientGoesTo, ClientRunning
  <2> QED BY <2>1 DEF WindowKept, ClientRunning, ClientEnded
<1>5. CASE ClientForwards
  <2>1. ClientSends /\ cpc \in ClientRunning
    BY <1>5 DEF ClientForwards, ClientRunning
  <2>2. Blocks \/ Fails \/ Takes
    BY <2>1, SendsOutcome
  <2> QED BY <2>1, <2>2 DEF WindowKept, Blocks, Fails, Takes, LoopTop, ClientRunning
<1>6. CASE ClientHeartbeat
  <2>1. ClientSends /\ cpc \in ClientRunning
    BY <1>6 DEF ClientHeartbeat, ClientRunning
  <2>2. Blocks \/ Fails \/ Takes
    BY <2>1, SendsOutcome
  <2> QED BY <2>1, <2>2 DEF WindowKept, Blocks, Fails, Takes, LoopTop, ClientRunning
<1>7. CASE ClientUnblocks
  <2>1. ClientSends /\ cpc \in ClientRunning
    BY <1>7 DEF ClientUnblocks, ClientRunning
  <2>2. Blocks \/ Fails \/ Takes
    BY <2>1, SendsOutcome
  <2> QED BY <2>1, <2>2 DEF WindowKept, Blocks, Fails, Takes, LoopTop, ClientRunning
<1>8. CASE ClientDiscards
  <2>1. cpc \in ClientRunning /\ (cpc' \notin ClientEnded => flight' = flight)
    BY <1>8 DEF ClientDiscards, ClientGoesTo, LoopTop, Sent, ClientRunning
  <2> QED BY <2>1 DEF WindowKept, ClientRunning, ClientEnded
<1>9. CASE ClientFails
  <2>1. cpc \in ClientRunning /\ (cpc' \notin ClientEnded => flight' = flight)
    BY <1>9 DEF ClientFails, ClientGoesTo, Sent, ClientRunning
  <2> QED BY <2>1 DEF WindowKept, ClientRunning, ClientEnded
<1>10. CASE ServerStarts
  BY <1>10 DEF TypeOK, Placed, WindowKept, ServerStarts
<1>11. CASE ServerAccepts
  <2>1. cpc' = cpc /\ (flight' = flight \/ flight' = <<>>)
    BY <1>11 DEF ServerAccepts, ServerGoesTo, LoopTop
  <2> QED BY <2>1 DEF WindowKept
<1>12. CASE ServerStopsListening
  <2>1. cpc' = cpc /\ (flight' = flight \/ flight' = <<>>)
    BY <1>12 DEF ServerStopsListening, ServerGoesTo
  <2> QED BY <2>1 DEF WindowKept
<1>13. CASE ServerReads
  <2>1. /\ flight # <<>> /\ flight \in Seq(Message) /\ cpc' = cpc
        /\ flight' = Tail(flight) \/ flight' = <<>>
    BY <1>13 DEF ServerReads, ServerGoesTo, TypeOK
  <2>2. Len(Tail(flight)) = Len(flight) - 1 /\ Len(flight) \in Nat /\ Len(<<>>) = 0
    BY <2>1, TailFacts
  <2>3. Len(flight') = Len(flight) - 1 \/ Len(flight') = 0
    BY <2>1, <2>2
  <2>4. ASSUME NEW m \in Nat, NEW n \in Nat, m <= MaxFlight, n = m - 1 \/ n = 0 PROVE n <= MaxFlight
    BY <2>4
  <2>5. Len(flight') \in Nat
    BY <2>1, <2>2, TailFacts
  <2> QED BY <2>1, <2>2, <2>3, <2>4, <2>5 DEF WindowKept
<1>14. CASE ServerEof
  <2>1. cpc' = cpc /\ (flight' = flight \/ flight' = <<>>)
    BY <1>14 DEF ServerEof, ServerEnds, ServerGoesTo
  <2> QED BY <2>1 DEF WindowKept
<1>15. CASE ServerSilent
  <2>1. cpc' = cpc /\ (flight' = flight \/ flight' = <<>>)
    BY <1>15 DEF ServerSilent, SilenceDue, ServerEnds, ServerGoesTo
  <2> QED BY <2>1 DEF WindowKept
<1>16. CASE ServerFails
  <2>1. cpc' = cpc /\ (flight' = flight \/ flight' = <<>>)
    BY <1>16 DEF ServerFails, ServerEnds, ServerGoesTo
  <2> QED BY <2>1 DEF WindowKept
<1>17. CASE ClientVanishes
  BY <1>17 DEF TypeOK, Placed, WindowKept, ClientVanishes
<1>18. CASE ServerVanishes
  BY <1>18 DEF TypeOK, Placed, WindowKept, ServerVanishes
<1>19. CASE ResetArrives
  BY <1>19 DEF TypeOK, Placed, WindowKept, ResetArrives
<1>20. CASE TcpGivesUp
  BY <1>20 DEF TypeOK, Placed, WindowKept, TcpGivesUp
<1>21. ASSUME NEW e \in Ends, RequestStop(e) PROVE WindowKept'
  BY <1>21 DEF TypeOK, Placed, WindowKept, RequestStop, Running
<1>22. CASE Tick
  <2>1. cpc' = cpc /\ flight' = Aged(flight) /\ flight \in Seq(Message)
    BY <1>22 DEF Tick, Aged, TypeOK
  <2>2. Len(flight') = Len(flight)
    BY <2>1, AgedFacts
  <2> QED BY <2>1, <2>2 DEF WindowKept
<1>23. CASE UNCHANGED vars
  BY <1>23 DEF TypeOK, Placed, WindowKept
<1> QED
  BY <1>1, <1>2, <1>3, <1>4, <1>5, <1>6, <1>7, <1>8, <1>9, <1>10, <1>11, <1>12, <1>13,
     <1>14, <1>15, <1>16, <1>17, <1>18, <1>19, <1>20, <1>21, <1>22, <1>23
     DEF Next, ClientStep, ServerStep, Environment

\* With the margin, the wait that runs out was for nothing in flight, from a client that is gone.
LEMMA NoFalseAlarmStep ==
    ASSUME Margin, TypeOK, Placed, FinSent, WaitExplained, IdleBounded, NoFalseAlarm, [Next]_vars
    PROVE  NoFalseAlarm'
<1> USE DEF ClientRunning, ClientEnded, ServerRunning, ServerClosed, ServerEnded,
            vars, clientVars, serverVars, tcpVars, stopVars
<1>1. CASE ConnectSucceeds
  BY <1>1 DEF NoFalseAlarm, Placed, ConnectSucceeds, ClientGoesTo, LoopTop, Sent
<1>2. CASE ConnectRefused
  BY <1>2 DEF NoFalseAlarm, Placed, ConnectRefused, ConnectEnds, ClientGoesTo
<1>3. CASE ConnectTimesOut
  BY <1>3 DEF NoFalseAlarm, Placed, ConnectTimesOut, ConnectEnds, ClientGoesTo
<1>4. CASE ConnectStopped
  BY <1>4 DEF NoFalseAlarm, Placed, ConnectStopped, ConnectEnds, ClientGoesTo
<1>5. CASE ClientForwards
  BY <1>5 DEF NoFalseAlarm, Placed, ClientForwards, ClientSends, SendFails, SendTakes,
       ClientGoesTo, LoopTop, Sent
<1>6. CASE ClientHeartbeat
  BY <1>6 DEF NoFalseAlarm, Placed, ClientHeartbeat, HeartbeatDue, ClientSends, SendFails,
       SendTakes, ClientGoesTo, LoopTop, Sent
<1>7. CASE ClientUnblocks
  BY <1>7 DEF NoFalseAlarm, Placed, ClientUnblocks, Unblocked, ClientSends, SendFails,
       SendTakes, ClientGoesTo, LoopTop, Sent
<1>8. CASE ClientDiscards
  BY <1>8 DEF NoFalseAlarm, Placed, ClientDiscards, ClientGoesTo, LoopTop, Sent
<1>9. CASE ClientFails
  BY <1>9 DEF NoFalseAlarm, Placed, ClientFails, ClientGoesTo, Sent
<1>10. CASE ServerStarts
  BY <1>10 DEF NoFalseAlarm, Placed, ServerStarts
<1>11. CASE ServerAccepts
  BY <1>11 DEF NoFalseAlarm, Placed, ServerAccepts, ServerGoesTo, LoopTop
<1>12. CASE ServerStopsListening
  BY <1>12 DEF NoFalseAlarm, Placed, ServerStopsListening, ServerGoesTo
<1>13. CASE ServerReads
  BY <1>13 DEF NoFalseAlarm, Placed, ServerReads, ServerGoesTo, LoopTop, RestartWait
<1>14. CASE ServerEof
  BY <1>14 DEF NoFalseAlarm, Placed, ServerEof, ServerEnds, ServerGoesTo
<1>15. CASE ServerSilent
  <2>1. spc = "recv" /\ silence = SilenceTimeout /\ UNCHANGED <<jumbos, cpc, idle>> /\ conn
    BY <1>15 DEF ServerSilent, SilenceDue, ServerEnds, Placed, clientVars
  <2>2. ASSUME ~jumbos, cpc # "vanished", flight # <<>> PROVE FALSE
    <3>1. silence <= HeartbeatPeriod + flight[1].age
      BY <2>1, <2>2 DEF WaitExplained
    <3>2. flight[1].age \in 0..MaxDelay
      BY <2>2, HeadAge DEF TypeOK
    <3> QED BY <2>1, <3>1, <3>2 DEF Margin
  <2>3. ASSUME ~jumbos, cpc # "vanished", flight = <<>> PROVE FALSE
    <3>1. cpc \in {"recv", "sending"}
      BY <2>1, <2>3 DEF TypeOK, Placed, FinSent, ClientRunning, ClientEnded, ServerRunning
    <3>2. silence <= HeartbeatPeriod
      BY <2>1, <2>3, <3>1 DEF WaitExplained, IdleBounded, TypeOK
    <3> QED BY <2>1, <3>2 DEF Margin
  <2> QED BY <2>1, <2>2, <2>3 DEF NoFalseAlarm
<1>16. CASE ServerFails
  BY <1>16 DEF NoFalseAlarm, Placed, ServerFails, ServerEnds, ServerGoesTo
<1>17. CASE ClientVanishes
  BY <1>17 DEF NoFalseAlarm, Placed, ClientVanishes
<1>18. CASE ServerVanishes
  BY <1>18 DEF NoFalseAlarm, Placed, ServerVanishes
<1>19. CASE ResetArrives
  BY <1>19 DEF NoFalseAlarm, Placed, ResetArrives
<1>20. CASE TcpGivesUp
  BY <1>20 DEF NoFalseAlarm, Placed, TcpGivesUp
<1>21. ASSUME NEW e \in Ends, RequestStop(e) PROVE NoFalseAlarm'
  BY <1>21 DEF NoFalseAlarm, Placed, RequestStop, Running
<1>22. CASE Tick
  BY <1>22 DEF NoFalseAlarm, Placed, Tick, Running, ClientDue, ServerDue, HeartbeatDue,
       SilenceDue, Unblocked, Older, Later, Horizon
<1>23. CASE UNCHANGED vars
  BY <1>23 DEF NoFalseAlarm, Placed
<1> QED
  BY <1>1, <1>2, <1>3, <1>4, <1>5, <1>6, <1>7, <1>8, <1>9, <1>10, <1>11, <1>12, <1>13,
     <1>14, <1>15, <1>16, <1>17, <1>18, <1>19, <1>20, <1>21, <1>22, <1>23
     DEF Next, ClientStep, ServerStep, Environment

-----------------------------------------------------------------------------
\* The invariant holds in every reachable state.
THEOREM Invariance == Spec => []IInv
<1>1. Init => IInv
  <2> SUFFICES ASSUME Init PROVE IInv
    OBVIOUS
  <2>1. flight = <<>> /\ <<>> \in Seq(Message) /\ Len(<<>>) = 0
    BY DEF Init
  <2>2. TypeOK
    <3>1. stop \in [Ends -> BOOLEAN] /\ stopAge \in [Ends -> Nat]
      BY DEF Init
    <3>2. flight \in Seq(Message)
      BY <2>1
    <3>3. silence \in 0..SilenceTimeout
      BY DEF Init
    <3> QED BY <3>1, <3>2, <3>3 DEF Init, TypeOK, ClientRunning, ServerRunning
  <2>3. Placed /\ IdleBounded /\ ClosedIsEmpty /\ FinSent
    BY <2>1 DEF Init, Placed, IdleBounded, ClosedIsEmpty, FinSent
  <2>4. WindowKept
    BY <2>1 DEF WindowKept
  <2>5. WaitExplained
    BY <2>1 DEF Init, WaitExplained
  <2>6. ClientStopAge /\ ServerStopAge
    BY DEF Init, ClientStopAge, ServerStopAge, Ends
  <2> QED BY <2>2, <2>3, <2>4, <2>5, <2>6 DEF IInv
<1>2. IInv /\ [Next]_vars => IInv'
  BY TypeStep, PlacedStep, IdleBoundedStep, ClosedIsEmptyStep, FinSentStep, WindowKeptStep,
     WaitExplainedStep, ClientStopAgeStep, ServerStopAgeStep DEF IInv
<1> QED BY <1>1, <1>2, PTL DEF Spec, Safety

\* Every variable keeps its type; in particular, no wait of the server passes
\* its timeout.
THEOREM TypeCorrect == Spec => []TypeOK
<1>1. IInv => TypeOK
  BY DEF IInv
<1> QED BY <1>1, Invariance, PTL

\* A stop request ends its worker within a poll or receive timeout, whatever
\* the traffic: runClient's and runServer's loops look at the stop token after
\* every wait, and every wait but a send() to a vanished host is bounded.
THEOREM StopsHeeded == Spec => []StopHeeded
<1>1. IInv => StopHeeded
  <2> SUFFICES ASSUME IInv PROVE StopHeeded
    OBVIOUS
  <2>1. /\ idle \in Nat /\ silence \in 0..SilenceTimeout
        /\ stopAge["client"] \in Nat /\ stopAge["server"] \in Nat
    BY DEF IInv, TypeOK, Ends
  <2>2. ASSUME stop["client"], Running("client"), spc # "vanished"
        PROVE  stopAge["client"] <= IF cpc = "connecting" THEN ConnectPoll ELSE HeartbeatPeriod + MaxDelay
    <3>1. CASE cpc = "connecting"
      BY <2>2, <3>1 DEF IInv, ClientStopAge
    <3>2. CASE cpc = "recv"
      BY <2>1, <2>2, <3>2 DEF IInv, ClientStopAge, IdleBounded
    <3>3. CASE cpc = "sending"
      BY <2>2, <3>3 DEF IInv, ClientStopAge
    <3> QED BY <2>2, <3>1, <3>2, <3>3 DEF Running, ClientRunning
  <2>3. ASSUME stop["server"], Running("server")
        PROVE  stopAge["server"] <= IF spc = "listening" THEN AcceptPoll ELSE SilenceTimeout
    <3>1. CASE spc = "listening"
      BY <2>3, <3>1 DEF IInv, ServerStopAge
    <3>2. CASE spc = "recv"
      BY <2>1, <2>3, <3>2 DEF IInv, ServerStopAge
    <3> QED BY <2>3, <3>1, <3>2 DEF Running, ServerRunning
  <2> QED BY <2>2, <2>3 DEF StopHeeded
<1> QED BY <1>1, Invariance, PTL

\* When the silence timeout leaves room for a heartbeat that is late, and no
\* jumbo datagram comes, the server's "Client has been silent for too long"
\* is true.
THEOREM NoFalseAlarms ==
    ASSUME Margin
    PROVE  Spec => []NoFalseAlarm
<1>1. Init => NoFalseAlarm
  BY DEF Init, NoFalseAlarm
<1>2. IInv /\ NoFalseAlarm /\ [Next]_vars => NoFalseAlarm'
  BY NoFalseAlarmStep DEF IInv
<1> QED BY <1>1, <1>2, Invariance, PTL DEF Spec, Safety

\* While no jumbo datagram is discarded, what ends a wait is also sent.
QuietIsIdle == ~jumbos /\ cpc = "recv" => quiet <= idle

LEMMA QuietIsIdleStep == TypeOK /\ QuietIsIdle /\ [Next]_vars => QuietIsIdle'
<1> SUFFICES ASSUME TypeOK, QuietIsIdle, [Next]_vars PROVE QuietIsIdle'
  OBVIOUS
<1>1. idle \in Nat /\ quiet \in Nat /\ Horizon \in Nat
  BY DEF TypeOK, Horizon
<1> USE DEF QuietIsIdle, clientVars, ClientGoesTo
<1>2. CASE ConnectSucceeds
  BY <1>2 DEF ConnectSucceeds, LoopTop
<1>3. CASE ConnectRefused \/ ConnectTimesOut \/ ConnectStopped
  BY <1>3 DEF ConnectRefused, ConnectTimesOut, ConnectStopped, ConnectEnds
<1>4. CASE ClientForwards \/ ClientHeartbeat \/ ClientUnblocks
  BY <1>4 DEF ClientForwards, ClientHeartbeat, ClientUnblocks, ClientSends, SendFails, SendTakes
<1>5. CASE ClientDiscards
  BY <1>5 DEF ClientDiscards
<1>6. CASE ClientFails \/ ClientVanishes
  BY <1>6 DEF ClientFails, ClientVanishes
<1>7. CASE ServerStep
  BY <1>7 DEF ServerStep, ServerStarts, ServerAccepts, ServerStopsListening, ServerReads,
              ServerEof, ServerSilent, ServerFails, ServerEnds
<1>8. CASE ServerVanishes \/ ResetArrives \/ TcpGivesUp \/ \E e \in Ends : RequestStop(e)
  BY <1>8 DEF ServerVanishes, ResetArrives, TcpGivesUp, RequestStop
<1>9. CASE Tick
  <2>1. cpc' = cpc /\ jumbos' = jumbos
    BY <1>9 DEF Tick
  <2>2. cpc = "recv" => idle' = idle + 1 /\ quiet' <= quiet + 1
    BY <1>1, <1>9 DEF Tick, Later
  <2>3. quiet' \in Nat
    BY <1>1, <1>9 DEF Tick, Later
  <2> QED BY <1>1, <2>1, <2>2, <2>3
<1>10. CASE UNCHANGED vars
  BY <1>10 DEF vars
<1> QED
  BY <1>2, <1>3, <1>4, <1>5, <1>6, <1>7, <1>8, <1>9, <1>10 DEF Next, ClientStep, Environment

\* A client whose group carries no jumbo datagram sends, a heartbeat if nothing
\* else, within each heartbeat period: the receive timeout set in setupClient.
THEOREM CadenceKept == Spec => []CadenceWithoutJumbos
<1>1. Init => QuietIsIdle
  BY DEF Init, QuietIsIdle
<1>2. IInv /\ QuietIsIdle /\ [Next]_vars => QuietIsIdle'
  BY QuietIsIdleStep DEF IInv
<1>3. IInv /\ QuietIsIdle => CadenceWithoutJumbos
  BY DEF IInv, TypeOK, IdleBounded, QuietIsIdle, CadenceWithoutJumbos
<1> QED BY <1>1, <1>2, <1>3, Invariance, PTL DEF Spec, Safety
=============================================================================
