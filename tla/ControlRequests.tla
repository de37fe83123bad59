--------------------------- MODULE ControlRequests ---------------------------
(***************************************************************************)
(* The HTTP side of LocalControlServer: one thread that accepts one        *)
(* connection after the other, reads one request from it in whatever       *)
(* pieces it comes, acts on it, answers, and closes.  Composed with        *)
(* ConfigStore, which replaces the configuration step by step.             *)
(*                                                                         *)
(* A request is so many units of header, a declared length, and so many    *)
(* units of body; its JSON ends in the last one.                           *)
(***************************************************************************)
EXTENDS ConfigStore, Naturals, Sequences, Functions

CONSTANTS
    Clients,
    Requests,       \* what they may send
    MaximumRequest, \* kMaximumRequestSize, in units
    None

Kinds == {"put", "get", "start", "other"}

ASSUME RequestsAssumption ==
    /\ None \notin Clients \cup Nat
    /\ MaximumRequest \in Nat \ {0} /\ Requests # {}
    /\ \A r \in Requests :
        /\ r.kind \in Kinds /\ r.toml \in Configurations \cup {Garbage}
        /\ r.head \in Nat \ {0} /\ r.declared \in Nat \cup {None} /\ r.body \in Nat

VARIABLES
    inherits,   \* accept() hands down the listener's receive timeout
    queue,      \* clients whose connections are still to be accepted
    served,     \* the client of the one that was, or None
    request,    \* what that client sends
    sent,       \* how much of it has been sent
    gone,       \* the client has closed its end
    got,        \* how much of it recv() has returned
    stage,      \* where serveConnection() is
    answer,     \* what it answered last, until it is called again
    reported    \* the text last reported as updated, or that the service started from

connectionVars == <<request, sent, gone, got>>
serverVars == <<inherits, queue, served, stage, answer>>
allVars == <<vars, connectionVars, serverVars, reported>>

Waiting(c) == c = served \/ c \in Range(queue)
Length == request.head + request.body

AnyRequest == CHOOSE r \in Requests : TRUE

RequestsInit ==
    /\ Init
    /\ inherits \in BOOLEAN
    /\ queue = <<>> /\ served = None
    /\ request = AnyRequest /\ sent = 0 /\ gone = FALSE /\ got = 0
    /\ stage = "accept" /\ answer = "none"
    /\ reported = file

-----------------------------------------------------------------------------
(* Clients.  What one sends before its connection is accepted is in the      *)
(* socket then: it makes no difference to send it after.                     *)

Connect(c) ==
    /\ up /\ ~Waiting(c)
    /\ queue' = Append(queue, c)
    /\ UNCHANGED <<vars, connectionVars, inherits, served, stage, answer, reported>>

Send ==
    /\ served # None /\ ~gone
    /\ sent' \in (sent + 1) .. Length
    /\ UNCHANGED <<vars, serverVars, request, gone, got, reported>>

\* A client may go away before, while and after it sends, and need not send on.
Leave ==
    /\ served # None /\ ~gone
    /\ gone' = TRUE
    /\ UNCHANGED <<vars, serverVars, request, sent, got, reported>>

-----------------------------------------------------------------------------
(* The control thread: reading a request *)

Accept ==
    /\ up /\ stage = "accept" /\ queue # <<>>
    /\ served' = Head(queue) /\ queue' = Tail(queue)
    /\ request' \in Requests
    /\ stage' = "receive" /\ answer' = "none"
    /\ UNCHANGED <<vars, sent, gone, got, inherits, reported>>

\* The socket is closed, and what is known of the connection forgotten.
Closed ==
    /\ stage' = "accept" /\ served' = None
    /\ request' = AnyRequest /\ sent' = 0 /\ gone' = FALSE /\ got' = 0

\* sendJson()
Answer(how) == Closed /\ answer' = how

\* contentLength(): none counts as zero, None stands for what is not a number.
Acceptable(declared) == declared # None /\ declared <= MaximumRequest

\* Mutant: what has come with the header is taken for the body.
EnoughAlways(n, r) == n >= r.head
Enough(n, r) == n >= r.head + r.declared

Reads(n) == got' = n /\ UNCHANGED <<request, sent, gone, served, answer>>

\* receiveRequest(), after a recv(): n units so far
AfterRecv(n, r) ==
    \/ n < r.head /\ n < MaximumRequest /\ Reads(n) /\ UNCHANGED stage
    \/ n < r.head /\ n >= MaximumRequest /\ Answer("unparsed")
    \/ n >= r.head /\ ~Acceptable(r.declared) /\ Answer("unparsed")
    \/ /\ n >= r.head /\ Acceptable(r.declared)
       /\ \/ ~Enough(n, r) /\ Reads(n) /\ UNCHANGED stage
          \/ Enough(n, r) /\ n > r.head + r.declared /\ Answer("unparsed")
          \/ Enough(n, r) /\ n <= r.head + r.declared /\ Reads(n) /\ stage' = "act"

Unmoved == UNCHANGED <<inherits, queue>>
Untouched == UNCHANGED <<vars, reported>>

Receive ==
    /\ up /\ stage = "receive"
    /\ \E n \in (got + 1) .. sent : AfterRecv(n, request)
    /\ Unmoved /\ Untouched

\* recv() returns 0 when the client has closed ...
ReceiveEnds ==
    /\ up /\ stage = "receive" /\ got = sent /\ gone
    /\ Answer("unparsed") /\ Unmoved /\ Untouched

\* Mutant: accepted sockets wait for ever.
WaitsForEver == FALSE
TimesOut == inherits

\* ... and an error after a second without anything.
ReceiveTimesOut ==
    /\ up /\ stage = "receive" /\ got = sent /\ ~gone /\ TimesOut
    /\ Answer("unparsed") /\ Unmoved /\ Untouched

-----------------------------------------------------------------------------
(* The control thread: acting on it *)

Acts(kind) == up /\ stage = "act" /\ request.kind = kind

\* jsonStringProperty() finds the end of the text in the last unit only.
HasToml == got = Length

ActPut ==
    /\ Acts("put")
    /\ \/ /\ HasToml /\ Replace(request.toml)
          /\ stage' = "replace" /\ UNCHANGED <<served, answer, connectionVars>>
       \/ /\ ~(HasToml /\ Parses(request.toml))
          /\ Answer("400") /\ UNCHANGED vars
    /\ Unmoved /\ UNCHANGED reported

\* configurationToml() reads the file.
ActGet == Acts("get") /\ Answer(IF file = NoFile THEN "400" ELSE "200") /\ Unmoved /\ Untouched

\* What the runtime does with it is ManagedRuntime's; it may refuse.
ActStart == Acts("start") /\ (Answer("202") \/ Answer("400")) /\ Unmoved /\ Untouched

ActOther == Acts("other") /\ Answer("404") /\ Unmoved /\ Untouched

\* Mutant: an error on the way is not reported.
AnswersUpdated(committed) == "200"
AnswersError(committed) == IF committed THEN "200" ELSE "400"

\* replaceConfiguration() goes on, and returns or throws.
Replaces ==
    /\ up /\ stage = "replace"
    /\ ReplaceStep
    /\ \/ pc' # "idle" /\ UNCHANGED <<connectionVars, served, stage, answer, reported>>
       \/ /\ pc' = "idle"
          /\ LET how == AnswersError(pc = "commit")
             IN  Answer(how) /\ reported' = IF how = "200" THEN request.toml ELSE reported
    /\ Unmoved

-----------------------------------------------------------------------------
(* The service's life *)

\* Whoever is waiting has lost the connection.
Dies ==
    /\ Crash
    /\ queue' = <<>> /\ Closed /\ answer' = "none"
    /\ UNCHANGED <<inherits, reported>>

ComesUp ==
    /\ Start \/ StartFromCut
    /\ reported' = file
    /\ UNCHANGED <<serverVars, connectionVars>>

Control ==
    \/ Accept \/ Receive \/ ReceiveEnds \/ ReceiveTimesOut
    \/ ActPut \/ ActGet \/ ActStart \/ ActOther \/ Replaces

RequestsNext ==
    \/ (\E c \in Clients : Connect(c)) \/ Send \/ Leave
    \/ Control
    \/ Dies \/ ComesUp

\* The control thread runs, and a service that can be started is; clients do as
\* they like.
RequestsSpec ==
    /\ RequestsInit /\ [][RequestsNext]_allVars
    /\ WF_allVars(Control) /\ WF_allVars(ComesUp /\ Start)

-----------------------------------------------------------------------------
(* Properties *)

\* Every variable has its type.
RequestsTypeOK ==
    /\ TypeOK
    /\ inherits \in BOOLEAN
    /\ request \in Requests /\ sent \in Nat /\ got \in 0 .. sent /\ gone \in BOOLEAN
    /\ queue \in Seq(Clients) /\ served \in Clients \cup {None}
    /\ stage \in {"accept", "receive", "act", "replace"}
    /\ answer \in {"none", "unparsed", "200", "202", "400", "404"}
    /\ reported \in Loadable

\* What the thread knows of the request it reads, acts on, or replaces the
\* configuration for.
Reading ==
    /\ sent <= Length
    /\ stage = "receive" =>
        \/ got < request.head
        \/ Acceptable(request.declared) /\ got < request.head + request.declared
    /\ stage \in {"act", "replace"} =>
        /\ Acceptable(request.declared)
        /\ got = request.head + request.declared
    /\ stage = "accept" => sent = 0 /\ got = 0
    /\ stage = "accept" <=> served = None

\* What has been reported, and where a replacement is.
Reporting ==
    /\ up => memory = reported
    /\ pc # "idle" => stage = "replace" /\ asked = request.toml

\* The inductive invariant, with that of the store.
RequestsIInv == IInv /\ RequestsTypeOK /\ Reading /\ Reporting

\* A request that says how long it is, and is not too long.
WellFormed(r) == r.declared = r.body /\ r.head <= MaximumRequest /\ r.body <= MaximumRequest

\* In whatever pieces a well-formed request arrives, it is acted on only when it
\* is there to its last unit, and it is called malformed only if its client has
\* not sent all of it.
JudgedWhole ==
    answer = "none" /\ answer' # "none" /\ WellFormed(request) =>
        IF answer' = "unparsed" THEN sent < Length
        ELSE got = Length
ReadsWholeRequests == [][JudgedWhole]_allVars

\* Between two replacements the configuration in use is the one last reported to a
\* client as updated (or the one the service was started from), and so is the file
\* where the disk has room and a rename replaces it: an error that was reported has
\* changed nothing.
LastReportedIsUsed ==
    up /\ pc = "idle" =>
        /\ memory = reported
        /\ ~full /\ ~windows => file = reported

\* A client that stalls in the middle of its request keeps the others waiting, but
\* not for ever, as long as accepted sockets inherit the listener's timeout.
EveryoneIsAnswered ==
    \A c \in Clients : inherits /\ Waiting(c) ~> ~Waiting(c)
=============================================================================
