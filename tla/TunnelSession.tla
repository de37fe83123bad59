--------------------------- MODULE TunnelSession ---------------------------
(***************************************************************************)
(* The life of one client and one server process and of the TCP connection *)
(* between them, in time: connecting, heartbeats, the server's silence     *)
(* timeout, stop requests and how the end of one side reaches the other.   *)
(*                                                                         *)
(* Time advances by Tick, which waits for whatever is due: a timer that    *)
(* has run out, a message that TCP must have delivered by now.  What a     *)
(* message says is left to module TunnelStream.                            *)
(***************************************************************************)
EXTENDS Naturals, Sequences

CONSTANTS
    HeartbeatPeriod,    \* kHeartbeatPeriodSeconds, receive timeout of the client
    SilenceTimeout,     \* kHeartbeatPeriodSeconds + 1, receive timeout of the server
    MaxDelay,           \* from send() to the recv() it ends, TCP and scheduling
    ConnectTimeout,     \* kTcpConnectTimeout
    ConnectPoll,        \* kTcpConnectPollInterval
    AcceptPoll,         \* receive timeout of the listening socket
    MaxFlight           \* messages TCP holds, sent and not yet read, before send() blocks

ASSUME SessionAssumption ==
    /\ HeartbeatPeriod \in Nat \ {0} /\ SilenceTimeout \in Nat \ {0}
    /\ MaxDelay \in Nat
    /\ ConnectTimeout \in Nat \ {0} /\ ConnectPoll \in Nat \ {0} /\ AcceptPoll \in Nat \ {0}
    /\ MaxFlight \in Nat \ {0}

\* The silence timeout leaves room for a heartbeat to arrive.
Margin == HeartbeatPeriod + MaxDelay < SilenceTimeout

VARIABLES
    jumbos,     \* environment: the group carries datagrams over kMaxDatagramLength
    cpc,        \* client: where runClient is, or how it ended
    idle,       \* client: time since it began to connect, or to wait in recv()
    quiet,      \* history: time since the client connected or last sent
    conn,       \* TCP: the connection was established
    flight,     \* TCP: what was sent and not yet read, oldest first
    reset,      \* TCP: whether the client's socket is in error: "none", "sent", "arrived"
    spc,        \* server: where runServer is, or how it ended
    silence,    \* server: time it has waited in recv()
    stop,       \* the stop tokens of the two processes' workers
    stopAge     \* history: time since each stop was requested

clientVars == <<cpc, idle, quiet>>
serverVars == <<spc, silence>>
tcpVars == <<conn, flight, reset>>
stopVars == <<stop, stopAge>>
vars == <<jumbos, clientVars, serverVars, tcpVars, stopVars>>

Ends == {"client", "server"}
ClientRunning == {"connecting", "recv", "sending"}
ClientEnded == {"stopped", "failed", "vanished"}
ServerRunning == {"listening", "recv"}
ServerClosed == {"stopped", "silent", "eof", "failed"}
ServerEnded == ServerClosed \cup {"vanished"}

Running(e) == IF e = "client" THEN cpc \in ClientRunning ELSE spc \in ServerRunning

Message == [kind : {"data", "fin"}, age : 0..MaxDelay]
Sent(kind) == [kind |-> kind, age |-> 0]

Init ==
    /\ jumbos \in BOOLEAN
    /\ cpc = "connecting" /\ idle = 0 /\ quiet = 0
    /\ conn = FALSE /\ flight = <<>> /\ reset = "none"
    /\ spc \in {"down", "listening"} /\ silence = 0
    /\ stop = [e \in Ends |-> FALSE] /\ stopAge = [e \in Ends |-> 0]

-----------------------------------------------------------------------------
(* Client *)

\* Mutant: the loop never looks at the stop token.
LoopTopBlind(e) == "recv"
\* The while condition of both read loops.
LoopTop(e) == IF stop[e] THEN "stopped" ELSE "recv"

\* A client that returns or throws closes its socket behind what it sent.
ClientGoesTo(pc, connected, sent) ==
    /\ cpc' = pc
    /\ flight' = IF pc \in ClientEnded /\ connected /\ spc \in ServerRunning
                 THEN Append(sent, Sent("fin")) ELSE sent

\* connect() succeeded, at once or by the time select() says so; the multicast
\* group is joined and the loop begins, or joining fails.  Telling the observer,
\* which may publish an event to browsers, and joining take no time here, though
\* the server's silence timeout runs meanwhile: what is said of the first heartbeat
\* is said of a client whose observer does not hold it up.
ConnectSucceeds ==
    /\ cpc = "connecting" /\ spc = "listening"
    /\ conn' = TRUE
    /\ \/ ClientGoesTo(LoopTop("client"), TRUE, flight)
       \/ ClientGoesTo("failed", TRUE, flight)
    /\ idle' = 0 /\ quiet' = 0
    /\ UNCHANGED <<jumbos, reset, serverVars, stopVars>>

ConnectEnds(pc) ==
    /\ cpc = "connecting"
    /\ ClientGoesTo(pc, FALSE, flight)
    /\ UNCHANGED <<jumbos, idle, quiet, conn, reset, serverVars, stopVars>>

ConnectRefused == spc \in {"down"} \cup ServerClosed /\ ConnectEnds("failed")

\* The polling loop gives up at the deadline ...
ConnectTimesOut == idle = ConnectTimeout /\ ~stop["client"] /\ ConnectEnds("failed")

\* ... or once a stop is requested, which it looks at after every poll.
ConnectStopped == stop["client"] /\ ConnectEnds("stopped")

\* Mutant: what sendTCPData returns is not looked at.
SendFailsUnseen == ClientGoesTo(LoopTop("client"), conn, flight) /\ idle' = 0 /\ quiet' = 0 /\ UNCHANGED reset
SendFails == ClientGoesTo("failed", conn, flight) /\ UNCHANGED <<idle, quiet, reset>>

\* send() takes the packet, and the loop goes on.  To the first thing it is
\* sent after its end, the server's host answers with a reset.
SendTakes ==
    /\ IF spc \in ServerClosed
       THEN ClientGoesTo(LoopTop("client"), conn, flight) /\ reset' = "sent"
       ELSE ClientGoesTo(LoopTop("client"), conn, Append(flight, Sent("data"))) /\ UNCHANGED reset
    /\ idle' = 0 /\ quiet' = 0

\* sendTCPData: send() fails on a socket in error, and blocks, without a
\* timeout, while TCP has no room.
ClientSends ==
    IF reset = "arrived" THEN SendFails
    ELSE IF Len(flight) < MaxFlight THEN SendTakes
    ELSE cpc' = "sending" /\ UNCHANGED <<idle, quiet, flight, reset>>

ClientForwards ==
    /\ cpc = "recv"
    /\ ClientSends
    /\ UNCHANGED <<jumbos, conn, serverVars, stopVars>>

\* A datagram longer than kMaxDatagramLength: warn and continue.  (A build without
\* NDEBUG ends at the assert in front of that test; this is the release build.)
ClientDiscards ==
    /\ cpc = "recv" /\ jumbos
    /\ ClientGoesTo(LoopTop("client"), conn, flight)
    /\ idle' = 0
    /\ UNCHANGED <<jumbos, quiet, conn, reset, serverVars, stopVars>>

\* Mutant: the receive timeout of the client is that of the server.
HeartbeatDueLate == idle = SilenceTimeout
HeartbeatDue == idle = HeartbeatPeriod

\* recv() on the UDP socket timed out.
ClientHeartbeat ==
    /\ cpc = "recv" /\ HeartbeatDue
    /\ ClientSends
    /\ UNCHANGED <<jumbos, conn, serverVars, stopVars>>

\* The send() that blocked goes on.
Unblocked == reset = "arrived" \/ Len(flight) < MaxFlight

ClientUnblocks ==
    /\ cpc = "sending" /\ Unblocked
    /\ ClientSends
    /\ UNCHANGED <<jumbos, conn, serverVars, stopVars>>

\* recv() on the UDP socket fails.
ClientFails ==
    /\ cpc = "recv"
    /\ ClientGoesTo("failed", conn, flight)
    /\ UNCHANGED <<jumbos, idle, quiet, conn, reset, serverVars, stopVars>>

-----------------------------------------------------------------------------
(* Server *)

ServerStarts ==
    /\ spc = "down"
    /\ spc' = "listening"
    /\ UNCHANGED <<jumbos, clientVars, silence, tcpVars, stopVars>>

\* A server that returns or throws closes its sockets.  A connection it has
\* not accepted, or with data it has not read, is reset.
ServerGoesTo(pc, unread) ==
    /\ spc' = pc
    /\ IF pc \in ServerClosed
       THEN /\ flight' = <<>>
            /\ reset' = IF conn /\ (spc = "listening" \/ unread # <<>>) THEN "sent" ELSE reset
       ELSE flight' = unread /\ UNCHANGED reset

\* accept() returns the client's connection and the read loop begins.
ServerAccepts ==
    /\ spc = "listening" /\ conn
    /\ ServerGoesTo(LoopTop("server"), flight)
    /\ silence' = 0
    /\ UNCHANGED <<jumbos, clientVars, conn, stopVars>>

\* The accept() loop looks at the stop token after every timeout.
ServerStopsListening ==
    /\ spc = "listening" /\ stop["server"]
    /\ ServerGoesTo("stopped", flight)
    /\ UNCHANGED <<jumbos, clientVars, silence, conn, stopVars>>

\* Mutant: what was read does not begin a new wait.
RestartWaitNot == silence' = silence
\* Every recv() waits for the whole timeout again.
RestartWait == silence' = 0

ServerReads ==
    /\ spc = "recv" /\ flight # <<>> /\ Head(flight).kind = "data"
    /\ ServerGoesTo(LoopTop("server"), Tail(flight))
    /\ RestartWait
    /\ UNCHANGED <<jumbos, clientVars, conn, stopVars>>

ServerEnds(pc) ==
    /\ ServerGoesTo(pc, flight)
    /\ UNCHANGED <<jumbos, clientVars, silence, conn, stopVars>>

\* recv() returned 0.
ServerEof ==
    /\ spc = "recv" /\ flight # <<>> /\ Head(flight).kind = "fin"
    /\ ServerEnds("eof")

SilenceDue == silence = SilenceTimeout

\* recv() timed out: "Client has been silent for too long".
ServerSilent == spc = "recv" /\ SilenceDue /\ ServerEnds("silent")

\* accept(), recv() or sendto() fails.
ServerFails == spc \in ServerRunning /\ ServerEnds("failed")

-----------------------------------------------------------------------------
(* Environment *)

RequestStop(e) ==
    /\ Running(e) /\ ~stop[e]
    /\ stop' = [stop EXCEPT ![e] = TRUE]
    /\ UNCHANGED <<jumbos, clientVars, serverVars, tcpVars, stopAge>>

\* A host or its network is gone: nothing more comes from it, not even the
\* end of the connection.
ClientVanishes ==
    /\ cpc \in {"recv", "sending"}
    /\ cpc' = "vanished"
    /\ UNCHANGED <<jumbos, idle, quiet, tcpVars, serverVars, stopVars>>

ServerVanishes ==
    /\ spc = "recv"
    /\ spc' = "vanished"
    /\ UNCHANGED <<jumbos, clientVars, silence, tcpVars, stopVars>>

\* The reset reaches the client ...
ResetArrives ==
    /\ reset = "sent"
    /\ reset' = "arrived"
    /\ UNCHANGED <<jumbos, clientVars, conn, flight, serverVars, stopVars>>

\* ... or TCP gives up what nobody acknowledges.
TcpGivesUp ==
    /\ spc = "vanished" /\ flight # <<>> /\ reset = "none"
    /\ reset' = "arrived"
    /\ UNCHANGED <<jumbos, clientVars, conn, flight, serverVars, stopVars>>

\* What is to happen before time goes on.
ClientDue ==
    \/ cpc = "connecting" /\ idle = ConnectTimeout
    \/ cpc = "connecting" /\ stop["client"] /\ stopAge["client"] = ConnectPoll
    \/ cpc = "recv" /\ HeartbeatDue
    \/ cpc = "sending" /\ Unblocked

ServerDue ==
    \/ spc = "listening" /\ conn
    \/ spc = "listening" /\ stop["server"] /\ stopAge["server"] = AcceptPoll
    \/ spc = "recv" /\ SilenceDue
    \/ spc = "recv" /\ flight # <<>> /\ Head(flight).age = MaxDelay

\* Bound of the two histories.
Horizon == HeartbeatPeriod + SilenceTimeout + ConnectPoll + AcceptPoll + MaxDelay
Later(n) == IF n < Horizon THEN n + 1 ELSE n

Older(m) == [m EXCEPT !.age = IF @ < MaxDelay THEN @ + 1 ELSE @]

Tick ==
    /\ ~ClientDue /\ ~ServerDue
    /\ Running("client") \/ Running("server")
    /\ idle' = IF cpc \in {"connecting", "recv"} THEN idle + 1 ELSE idle
    /\ quiet' = IF cpc = "recv" THEN Later(quiet) ELSE quiet
    /\ silence' = IF spc = "recv" THEN silence + 1 ELSE silence
    /\ flight' = [i \in 1..Len(flight) |-> Older(flight[i])]
    /\ stopAge' = [e \in Ends |-> IF stop[e] /\ Running(e) THEN Later(stopAge[e]) ELSE stopAge[e]]
    /\ UNCHANGED <<jumbos, cpc, conn, reset, spc, stop>>

-----------------------------------------------------------------------------
ClientStep ==
    \/ ConnectSucceeds \/ ConnectRefused \/ ConnectTimesOut \/ ConnectStopped
    \/ ClientForwards \/ ClientDiscards \/ ClientHeartbeat \/ ClientUnblocks
    \/ ClientFails

ServerStep ==
    \/ ServerStarts \/ ServerAccepts \/ ServerStopsListening
    \/ ServerReads \/ ServerEof \/ ServerSilent \/ ServerFails

Environment ==
    \/ \E e \in Ends : RequestStop(e)
    \/ ClientVanishes \/ ServerVanishes \/ ResetArrives \/ TcpGivesUp

Next == ClientStep \/ ServerStep \/ Environment \/ Tick

Safety == Init /\ [][Next]_vars

\* Time passes, what is due happens, and the server reads what has arrived.
\* No datagram need ever come, nobody need ask for a stop or start a server,
\* and nothing need fail.
Fairness ==
    /\ WF_vars(Tick)
    /\ WF_vars(ConnectTimesOut) /\ WF_vars(ConnectStopped)
    /\ WF_vars(ClientHeartbeat) /\ WF_vars(ClientUnblocks)
    /\ WF_vars(ServerAccepts) /\ WF_vars(ServerStopsListening)
    /\ WF_vars(ServerReads) /\ WF_vars(ServerEof) /\ WF_vars(ServerSilent)
    /\ WF_vars(ResetArrives) /\ WF_vars(TcpGivesUp)

Spec == Safety /\ Fairness

-----------------------------------------------------------------------------
(* Properties *)

\* Every variable has its type.
TypeOK ==
    /\ jumbos \in BOOLEAN
    /\ cpc \in ClientRunning \cup ClientEnded
    /\ idle \in Nat /\ quiet \in Nat
    /\ conn \in BOOLEAN
    /\ flight \in Seq(Message)
    /\ reset \in {"none", "sent", "arrived"}
    /\ spc \in {"down"} \cup ServerRunning \cup ServerEnded
    /\ silence \in 0..SilenceTimeout
    /\ stop \in [Ends -> BOOLEAN]
    /\ stopAge \in [Ends -> Nat]

\* As long as the group carries no jumbo datagram, the server gives up a
\* silent client only when that client is really gone: neither a slow stream,
\* nor an idle one, nor a client that blocks or is closing is taken for dead.
NoFalseAlarm == ~jumbos => (spc = "silent" => cpc = "vanished")

\* "send data to server at least every HEARTBEAT_PERIOD_SEC seconds": so does a
\* client whose group carries no jumbo datagram, for these restart its wait.
CadenceWithoutJumbos == ~jumbos /\ cpc = "recv" => quiet <= HeartbeatPeriod

\* A stop request ends a worker within one poll or receive timeout, whatever
\* traffic there is and however the connection stands: what a caller that
\* joins the worker has to wait for.  The exception is a client that sends to
\* a host that has vanished.
StopHeeded ==
    /\ stop["client"] /\ Running("client") /\ spc # "vanished" =>
        stopAge["client"] <= IF cpc = "connecting" THEN ConnectPoll ELSE HeartbeatPeriod + MaxDelay
    /\ stop["server"] /\ Running("server") =>
        stopAge["server"] <= IF spc = "listening" THEN AcceptPoll ELSE SilenceTimeout

\* "When either endpoint disconnects, both sides exit."
ServerExits == spc = "recv" /\ cpc \in ClientEnded ~> spc \in ServerEnded
ClientExits == conn /\ spc \in ServerEnded ~> cpc \in ClientEnded
BothExit == ServerExits /\ ClientExits

\* The server always exits, and the client does while no jumbo datagram comes.
BothExitWithoutJumbos == ServerExits /\ (~jumbos => ClientExits)
=============================================================================
