------------------------ MODULE ControlRequests_proofs ------------------------
(***************************************************************************)
(* For any set of configurations: the file and the memory of               *)
(* ControlService agree between requests, and whatever step a crash comes  *)
(* after, the file is the old configuration or the new one.  For any       *)
(* clients, requests and limit: the thread that serves requests uses       *)
(* ConfigStore as its specification allows, judges a request only when all *)
(* of it is there, and never reports what is not in use.                   *)
(***************************************************************************)
EXTENDS ControlRequests, TLAPS

USE DEF Contents, Loadable, environment, Goes, MemoryStays, Moved

-----------------------------------------------------------------------------
(* The store by itself *)

\* The service has not yet been started; the file is a configuration.
LEMMA InitIInv == Init => IInv
BY DEF Init, IInv, TypeOK, NewInPlace, OldInPlace

\* Starting reads the file, dying leaves it as it is.
LEMMA LifeStep == IInv /\ (Start \/ StartFromCut \/ Crash) => IInv'
<1> SUFFICES ASSUME IInv, Start \/ StartFromCut \/ Crash PROVE IInv'
  OBVIOUS
<1>1. CASE Start
  BY <1>1 DEF Start, IInv, TypeOK, NewInPlace, OldInPlace
<1>2. CASE StartFromCut
  BY <1>2 DEF StartFromCut, IInv, TypeOK, NewInPlace, OldInPlace
<1>3. CASE Crash
  BY <1>3 DEF Crash, IInv, TypeOK, NewInPlace, OldInPlace
<1> QED BY <1>1, <1>2, <1>3

\* Up to the rename only the temporary file is touched.
LEMMA TemporaryStep ==
    IInv /\ (\/ \E toml \in Configurations \cup {Garbage} : Replace(toml)
             \/ Open \/ OpenFails \/ Write \/ WriteFails \/ Close \/ CloseFails) => IInv'
<1> SUFFICES ASSUME IInv,
             \/ \E toml \in Configurations \cup {Garbage} : Replace(toml)
             \/ Open \/ OpenFails \/ Write \/ WriteFails \/ Close \/ CloseFails
      PROVE IInv'
  OBVIOUS
<1> USE DEF IInv, TypeOK, NewInPlace, OldInPlace
<1>1. CASE \E toml \in Configurations \cup {Garbage} : Replace(toml)
  BY <1>1 DEF Replace, Parses
<1>2. CASE Open
  BY <1>2 DEF Open, OpenTemporary
<1>3. CASE OpenFails
  BY <1>3 DEF OpenFails
<1>4. CASE Write
  BY <1>4 DEF Write
<1>5. CASE WriteFails
  BY <1>5 DEF WriteFails
<1>6. CASE Close
  BY <1>6 DEF Close, Flush
<1>7. CASE CloseFails
  BY <1>7 DEF CloseFails
<1> QED BY <1>1, <1>2, <1>3, <1>4, <1>5, <1>6, <1>7

\* From the rename on, memory follows the file.
LEMMA MoveStep ==
    IInv /\ (\/ Rename \/ RenameFails \/ RemoveOld \/ RemoveOldFails
             \/ RenameAgain \/ RenameAgainFails \/ Undo \/ Commit) => IInv'
<1> SUFFICES ASSUME IInv,
             \/ Rename \/ RenameFails \/ RemoveOld \/ RemoveOldFails
             \/ RenameAgain \/ RenameAgainFails \/ Undo \/ Commit
      PROVE IInv'
  OBVIOUS
<1> USE DEF IInv, TypeOK, NewInPlace, OldInPlace
<1>1. CASE Rename
  BY <1>1 DEF Rename
<1>2. CASE RenameFails
  BY <1>2 DEF RenameFails, RemovesFirst
<1>3. CASE RemoveOld
  BY <1>3 DEF RemoveOld
<1>4. CASE RemoveOldFails
  BY <1>4 DEF RemoveOldFails
<1>5. CASE RenameAgain
  BY <1>5 DEF RenameAgain
<1>6. CASE RenameAgainFails
  BY <1>6 DEF RenameAgainFails
<1>7. CASE Undo
  BY <1>7 DEF Undo, KeepMemory
<1>8. CASE Commit
  BY <1>8 DEF Commit
<1> QED BY <1>1, <1>2, <1>3, <1>4, <1>5, <1>6, <1>7, <1>8

\* The invariant that the others follow from.
THEOREM Invariance == Spec => []IInv
<1>1. IInv /\ [Next]_vars => IInv'
  <2> SUFFICES ASSUME IInv, [Next]_vars PROVE IInv'
    OBVIOUS
  <2>1. CASE Next
    BY <2>1, LifeStep, TemporaryStep, MoveStep DEF Next, ReplaceStep
  <2>2. CASE UNCHANGED vars
    BY <2>2 DEF vars, IInv, TypeOK, NewInPlace, OldInPlace
  <2> QED BY <2>1, <2>2
<1> QED BY InitIInv, <1>1, PTL DEF Spec

\* Every variable keeps its type.
THEOREM TypeCorrect == Spec => []TypeOK
<1>1. IInv => TypeOK
  BY DEF IInv
<1> QED BY Invariance, <1>1, PTL

\* A crash in the middle of replaceConfiguration() finds the old file or the
\* new one.
THEOREM CrashSafe == Spec => []OldOrNew
<1>1. IInv => OldOrNew
  BY DEF IInv, NewInPlace, OldInPlace, TypeOK, OldOrNew, Replacing
<1> QED BY Invariance, <1>1, PTL

\* Between two requests the file is what is in memory, where a rename replaces
\* a file and the disk has room.
THEOREM Persists == Spec => [](~windows /\ ~full => ReplacementPersists)
<1>1. IInv => (~windows /\ ~full => ReplacementPersists)
  BY DEF IInv, OldInPlace, ReplacementPersists
<1> QED BY Invariance, <1>1, PTL

\* Memory only ever takes what is already in the file's place, on Windows too.
THEOREM Follows == Spec => MemoryFollowsFile
<1>1. IInv /\ [Next]_vars => [FollowsFile]_vars
  <2> SUFFICES ASSUME IInv, Next PROVE FollowsFile
    BY DEF vars, FollowsFile
  <2>1. CASE Start \/ StartFromCut \/ Crash
    BY <2>1 DEF Start, StartFromCut, Crash, FollowsFile
  <2>2. CASE \E toml \in Configurations \cup {Garbage} : Replace(toml)
    BY <2>2 DEF Replace, FollowsFile
  <2>3. CASE Commit
    BY <2>3 DEF Commit, FollowsFile, IInv, NewInPlace
  <2>4. CASE Undo
    BY <2>4 DEF Undo, KeepMemory, FollowsFile
  <2>5. CASE Open \/ OpenFails \/ Write \/ WriteFails \/ Close \/ CloseFails
    BY <2>5 DEF Open, OpenFails, Write, WriteFails, Close, CloseFails, FollowsFile
  <2>6. CASE Rename \/ RenameFails \/ RemoveOld \/ RemoveOldFails
             \/ RenameAgain \/ RenameAgainFails
    BY <2>6 DEF Rename, RenameFails, RemoveOld, RemoveOldFails, RenameAgain,
                RenameAgainFails, FollowsFile
  <2> QED BY <2>1, <2>2, <2>3, <2>4, <2>5, <2>6 DEF Next, ReplaceStep
<1> QED BY Invariance, <1>1, PTL DEF Spec, MemoryFollowsFile

-----------------------------------------------------------------------------
(* The store, seen from the requests *)

\* replaceConfiguration() returns by its last step, or without having moved on.
LEMMA ReplaceStepShape ==
    ASSUME ReplaceStep
    PROVE  /\ up' = up /\ pc # "idle" /\ asked' = asked
           /\ windows' = windows /\ full' = full
           /\ memory' = IF pc = "commit" THEN asked ELSE memory
           /\ pc = "commit" => pc' = "idle"
<1>1. CASE Open \/ OpenFails \/ Write \/ WriteFails \/ Close \/ CloseFails
  BY <1>1 DEF Open, OpenFails, Write, WriteFails, Close, CloseFails
<1>2. CASE Rename \/ RenameFails \/ RemoveOld \/ RemoveOldFails
  BY <1>2 DEF Rename, RenameFails, RemoveOld, RemoveOldFails
<1>3. CASE RenameAgain \/ RenameAgainFails
  BY <1>3 DEF RenameAgain, RenameAgainFails
<1>4. CASE Undo \/ Commit
  BY <1>4 DEF Undo, Commit, KeepMemory
<1> QED BY <1>1, <1>2, <1>3, <1>4 DEF ReplaceStep

\* What acting on a request may do to the store.
LEMMA ActsOnStore ==
    ASSUME ActPut \/ ActGet \/ ActStart \/ ActOther
    PROVE  UNCHANGED vars \/ \E toml \in Configurations \cup {Garbage} : Replace(toml)
<1>1. CASE ActPut
  BY <1>1 DEF ActPut, Replace, Parses
<1>2. CASE ActGet \/ ActStart \/ ActOther
  BY <1>2 DEF ActGet, ActStart, ActOther, Untouched
<1> QED BY <1>1, <1>2

\* Every step of the service is one of the store, or leaves it alone.
LEMMA StepOfStore == [RequestsNext]_allVars => [Next]_vars
<1> SUFFICES ASSUME [RequestsNext]_allVars PROVE [Next]_vars
  OBVIOUS
<1>1. CASE (\E c \in Clients : Connect(c)) \/ Send \/ Leave
  BY <1>1 DEF Connect, Send, Leave
<1>2. CASE Accept \/ Receive \/ ReceiveEnds \/ ReceiveTimesOut
  BY <1>2 DEF Accept, Receive, ReceiveEnds, ReceiveTimesOut, Untouched
<1>3. CASE ActPut \/ ActGet \/ ActStart \/ ActOther
  BY <1>3, ActsOnStore DEF Next
<1>4. CASE Replaces
  BY <1>4 DEF Replaces, Next
<1>5. CASE Dies \/ ComesUp
  BY <1>5 DEF Dies, ComesUp, Next
<1>6. CASE UNCHANGED allVars
  BY <1>6 DEF allVars
<1> QED BY <1>1, <1>2, <1>3, <1>4, <1>5, <1>6 DEF RequestsNext, Control

\* The store of the composed service behaves as ConfigStore says.
THEOREM ImplementsStore == RequestsSpec => Init /\ [][Next]_vars
<1>1. RequestsInit => Init
  BY DEF RequestsInit
<1> QED BY <1>1, StepOfStore, PTL DEF RequestsSpec

\* So its inductive invariant holds of it.
LEMMA StoreInvariance == RequestsSpec => []IInv
<1>1. IInv /\ [Next]_vars => IInv'
  <2> SUFFICES ASSUME IInv, [Next]_vars PROVE IInv'
    OBVIOUS
  <2>1. CASE Next
    BY <2>1, LifeStep, TemporaryStep, MoveStep DEF Next, ReplaceStep
  <2>2. CASE UNCHANGED vars
    BY <2>2 DEF vars, IInv, TypeOK, NewInPlace, OldInPlace
  <2> QED BY <2>1, <2>2
<1> QED BY InitIInv, <1>1, ImplementsStore, PTL

\* Whatever the clients do, a service that dies in the middle of a PUT leaves the
\* file that was in use or the one that was to replace it.
THEOREM RequestsCrashSafe == RequestsSpec => []OldOrNew
<1>1. IInv => OldOrNew
  BY DEF IInv, NewInPlace, OldInPlace, TypeOK, OldOrNew, Replacing
<1> QED BY StoreInvariance, <1>1, PTL

-----------------------------------------------------------------------------
(* The connection *)

\* What RequestsAssumption says of a request, in the form the proofs use.
LEMMA RequestParts ==
    ASSUME NEW r \in Requests
    PROVE  /\ r.head \in Nat \ {0} /\ r.body \in Nat
           /\ r.declared \in Nat \cup {None} /\ None \notin Nat
           /\ MaximumRequest \in Nat
BY RequestsAssumption

\* The request of no connection.
LEMMA AnyRequestIsOne == AnyRequest \in Requests
BY RequestsAssumption DEF AnyRequest

\* A closed connection leaves nothing to be read.
LEMMA ClosedIsFine ==
    ASSUME Closed PROVE Reading'
BY AnyRequestIsOne, RequestParts DEF Closed, Reading, Length

\* At first nobody is served.
LEMMA InitRequests == RequestsInit => RequestsIInv
<1> SUFFICES ASSUME RequestsInit PROVE RequestsIInv
  OBVIOUS
<1>1. IInv /\ TypeOK
  BY InitIInv DEF RequestsInit, IInv
<1>2. RequestsTypeOK
  <2>1. queue \in Seq(Clients) /\ reported \in Loadable
    BY DEF RequestsInit, Init
  <2>2. sent \in Nat /\ got \in 0 .. sent
    BY DEF RequestsInit
  <2>3. request \in Requests /\ inherits \in BOOLEAN /\ gone \in BOOLEAN
    BY AnyRequestIsOne, Zenon DEF RequestsInit
  <2> QED BY <1>1, <2>1, <2>2, <2>3 DEF RequestsInit, RequestsTypeOK
<1>3. Reading
  <2>1. sent <= Length
    BY AnyRequestIsOne, RequestParts DEF RequestsInit, Length
  <2> QED BY <2>1 DEF RequestsInit, Reading
<1>4. Reporting
  BY DEF RequestsInit, Init, Reporting
<1> QED BY <1>1, <1>2, <1>3, <1>4 DEF RequestsIInv

\* The client's steps.
LEMMA ClientStep ==
    ASSUME RequestsIInv, TypeOK', (\E c \in Clients : Connect(c)) \/ Send \/ Leave
    PROVE  RequestsTypeOK' /\ Reading' /\ Reporting'
<1>0. RequestsTypeOK /\ Reading /\ Reporting /\ Length \in Nat
  BY RequestParts DEF RequestsIInv, RequestsTypeOK, Length
<1>1. CASE \E c \in Clients : Connect(c)
  <2>1. queue' \in Seq(Clients) /\ UNCHANGED <<sent, got, gone, request, served, stage>>
    BY <1>0, <1>1 DEF Connect, RequestsTypeOK, connectionVars
  <2>2. UNCHANGED <<inherits, answer, reported, up, memory, pc, asked, Length>>
    BY <1>1 DEF Connect, connectionVars, vars, Length
  <2> QED BY <1>0, <2>1, <2>2 DEF RequestsTypeOK, Reading, Reporting
<1>2. CASE Send \/ Leave
  <2>1. /\ sent' \in Nat /\ gone' \in BOOLEAN /\ sent' >= sent
        /\ UNCHANGED <<got, request, served, stage, queue>>
        /\ sent' <= Length /\ stage # "accept"
    <3>1. CASE Send
      BY <1>0, <3>1 DEF Send, RequestsTypeOK, Reading, serverVars
    <3>2. CASE Leave
      BY <1>0, <3>2 DEF Leave, RequestsTypeOK, Reading, serverVars
    <3> QED BY <1>2, <3>1, <3>2
  <2>2. UNCHANGED <<inherits, answer, reported, up, memory, pc, asked, Length>>
    BY <1>2 DEF Send, Leave, serverVars, vars, Length
  <2> QED BY <1>0, <2>1, <2>2 DEF RequestsTypeOK, Reading, Reporting
<1> QED BY <1>1, <1>2

\* The end of a connection, whatever it ends in.
LEMMA ClosedStep ==
    ASSUME RequestsIInv, TypeOK', Closed, pc' = "idle",
           inherits' = inherits, queue' \in {queue, <<>>},
           answer' \in {"none", "unparsed", "200", "202", "400", "404"},
           reported' \in Loadable
    PROVE  RequestsTypeOK' /\ Reading'
<1>1. RequestsTypeOK
  BY DEF RequestsIInv
<1>2. queue' \in Seq(Clients)
  <2>1. queue \in Seq(Clients)
    BY <1>1 DEF RequestsTypeOK
  <2>2. <<>> \in Seq(Clients)
    OBVIOUS
  <2> QED BY <2>1, <2>2
<1>3. inherits' \in BOOLEAN /\ gone' \in BOOLEAN /\ request' \in Requests
  BY <1>1, AnyRequestIsOne, Zenon DEF Closed, RequestsTypeOK
<1>4. sent' \in Nat /\ got' \in 0 .. sent' /\ served' = None /\ stage' = "accept"
  BY DEF Closed
<1>5. RequestsTypeOK'
  BY <1>2, <1>3, <1>4 DEF RequestsTypeOK
<1> QED BY <1>5, ClosedIsFine

\* The thread's steps up to where it acts.
LEMMA ReceiveStep ==
    ASSUME RequestsIInv, TypeOK', Accept \/ Receive \/ ReceiveEnds \/ ReceiveTimesOut
    PROVE  RequestsTypeOK' /\ Reading' /\ Reporting'
<1>0. /\ RequestsTypeOK /\ Reading /\ Reporting /\ Length \in Nat
      /\ request \in Requests /\ reported \in Loadable
  BY RequestParts DEF RequestsIInv, RequestsTypeOK, Length
<1>1. UNCHANGED vars /\ stage \in {"accept", "receive"} /\ reported' = reported
  BY DEF Accept, Receive, ReceiveEnds, ReceiveTimesOut, Untouched
<1>2. pc = "idle" /\ pc' = "idle" /\ Reporting'
  <2>1. pc = "idle"
    BY <1>0, <1>1 DEF Reporting
  <2> QED BY <2>1, <1>0, <1>1 DEF Reporting, vars
<1>3. CASE Accept
  <2>1. /\ queue' \in Seq(Clients) /\ served' \in Clients
        /\ request' \in Requests /\ stage' = "receive"
        /\ UNCHANGED <<sent, gone, got, inherits>> /\ answer' = "none"
    BY <1>0, <1>3 DEF Accept, RequestsTypeOK
  <2>2. RequestsTypeOK'
    BY <1>0, <1>1, <2>1 DEF RequestsTypeOK
  <2>3. sent = 0 /\ got = 0
    BY <1>0, <1>3 DEF Accept, Reading
  <2>4. Reading'
    BY <1>0, <2>1, <2>3, RequestParts, RequestsAssumption DEF Reading, Length
  <2> QED BY <1>2, <2>2, <2>4
<1>4. CASE Receive
  <2> PICK n \in (got + 1) .. sent : AfterRecv(n, request)
    BY <1>4 DEF Receive
  <2>0. n \in Nat /\ n <= sent /\ n > got /\ UNCHANGED <<inherits, queue>>
    BY <1>0, <1>4 DEF Receive, RequestsTypeOK, Unmoved
  <2>1. CASE Answer("unparsed")
    BY <1>0, <1>1, <1>2, <2>0, <2>1, ClosedStep DEF Answer
  <2>2. CASE Reads(n) /\ stage' \in {"receive", "act"}
    <3>0. /\ got' = n /\ sent' = sent /\ request' = request /\ served' = served
          /\ gone' = gone /\ answer' = answer /\ Length' = Length /\ stage = "receive"
      BY <1>4, <2>2 DEF Reads, Length, Receive
    <3>1. RequestsTypeOK'
      BY <1>0, <1>1, <2>0, <2>2, <3>0 DEF RequestsTypeOK
    <3>2. Reading'
      BY <1>0, <2>0, <2>2, <3>0, RequestParts DEF Reading, AfterRecv, Enough, Acceptable, Answer, Closed
    <3> QED BY <1>2, <3>1, <3>2
  <2> QED BY <1>4, <2>1, <2>2 DEF Receive, AfterRecv
<1>5. CASE ReceiveEnds \/ ReceiveTimesOut
  <2>1. Answer("unparsed") /\ UNCHANGED <<inherits, queue>>
    BY <1>5 DEF ReceiveEnds, ReceiveTimesOut, Unmoved
  <2> QED BY <1>0, <1>1, <1>2, <2>1, ClosedStep DEF Answer
<1> QED BY <1>3, <1>4, <1>5

\* Acting: answered at once, or handed to replaceConfiguration().
LEMMA ActStep ==
    ASSUME RequestsIInv, TypeOK', ActPut \/ ActGet \/ ActStart \/ ActOther
    PROVE  RequestsTypeOK' /\ Reading' /\ Reporting'
<1>0. RequestsTypeOK /\ Reading /\ Reporting /\ reported \in Loadable
  BY DEF RequestsIInv, RequestsTypeOK
<1>1. /\ stage = "act" /\ pc = "idle"
      /\ inherits' = inherits /\ queue' = queue /\ reported' = reported
  BY <1>0 DEF ActPut, ActGet, ActStart, ActOther, Acts, Unmoved, Untouched, Reporting
<1>2. ASSUME NEW how \in {"200", "202", "400", "404"}, Answer(how), UNCHANGED vars
      PROVE  RequestsTypeOK' /\ Reading' /\ Reporting'
  <2>1. pc' = "idle" /\ Reporting'
    BY <1>0, <1>1, <1>2 DEF vars, Reporting
  <2> QED BY <1>0, <1>1, <1>2, <2>1, ClosedStep DEF Answer
<1>3. CASE ActPut
  <2>1. CASE HasToml /\ Replace(request.toml) /\ stage' = "replace"
             /\ UNCHANGED <<served, answer, connectionVars>>
    <3>1. /\ request' = request /\ sent' = sent /\ got' = got /\ gone' = gone
          /\ served' = served /\ answer' = answer /\ Length' = Length
          /\ asked' = request.toml /\ memory' = memory /\ up' = up
      BY <2>1 DEF connectionVars, Length, Replace
    <3>2. RequestsTypeOK'
      BY <1>0, <1>1, <2>1, <3>1 DEF RequestsTypeOK
    <3>3. Reading'
      BY <1>0, <1>1, <2>1, <3>1 DEF Reading, Acceptable
    <3>4. Reporting'
      BY <1>0, <1>1, <2>1, <3>1 DEF Reporting
    <3> QED BY <3>2, <3>3, <3>4
  <2>2. CASE Answer("400") /\ UNCHANGED vars
    BY <1>2, <2>2
  <2> QED BY <1>3, <2>1, <2>2 DEF ActPut
<1>4. CASE ActGet \/ ActStart \/ ActOther
  BY <1>2, <1>4 DEF ActGet, ActStart, ActOther, Untouched
<1> QED BY <1>3, <1>4

\* A replacement goes on, or returns: only its last step has it reported.
LEMMA ReplacesStep ==
    ASSUME RequestsIInv, TypeOK', Replaces
    PROVE  RequestsTypeOK' /\ Reading' /\ Reporting'
<1>0. /\ RequestsTypeOK /\ Reading /\ Reporting /\ reported \in Loadable
      /\ inherits' = inherits /\ queue' = queue
  BY DEF RequestsIInv, RequestsTypeOK, Replaces, Unmoved
<1>1. /\ up' = up /\ pc # "idle" /\ asked' = asked
      /\ memory' = IF pc = "commit" THEN asked ELSE memory
      /\ pc = "commit" => pc' = "idle"
      /\ up /\ stage = "replace" /\ asked = request.toml /\ memory = reported
  BY <1>0, ReplaceStepShape DEF Replaces, Reporting
<1>2. CASE pc' # "idle" /\ UNCHANGED <<connectionVars, served, stage, answer, reported>>
  <2>1. /\ request' = request /\ sent' = sent /\ got' = got /\ gone' = gone
        /\ served' = served /\ answer' = answer /\ stage' = stage
        /\ reported' = reported /\ Length' = Length
    BY <1>2 DEF connectionVars, Length
  <2>2. RequestsTypeOK'
    BY <1>0, <2>1 DEF RequestsTypeOK
  <2>3. Reading'
    BY <1>0, <2>1 DEF Reading, Acceptable
  <2>4. Reporting'
    BY <1>1, <1>2, <2>1 DEF Reporting
  <2> QED BY <2>2, <2>3, <2>4
<1>3. CASE pc' = "idle" /\ Answer(AnswersError(pc = "commit"))
           /\ reported' = IF AnswersError(pc = "commit") = "200" THEN request.toml ELSE reported
  <2>1. AnswersError(pc = "commit") = IF pc = "commit" THEN "200" ELSE "400"
    BY DEF AnswersError
  <2>2. asked \in Loadable
    BY DEF RequestsIInv, IInv, TypeOK
  <2>3. reported' = IF pc = "commit" THEN asked ELSE reported
    BY <1>1, <1>3, <2>1
  <2>4. Closed /\ answer' \in {"200", "400"} /\ reported' \in Loadable
    BY <1>0, <1>3, <2>1, <2>2, <2>3 DEF Answer
  <2>5. RequestsTypeOK' /\ Reading'
    BY <1>0, <1>3, <2>4, ClosedStep
  <2>6. Reporting'
    BY <1>1, <1>3, <2>3 DEF Reporting
  <2> QED BY <2>5, <2>6
<1> QED BY <1>2, <1>3 DEF Replaces

\* A service that dies has no connection; one that comes up reports what it reads.
LEMMA DiesOrComesUp ==
    ASSUME RequestsIInv, TypeOK', Dies \/ ComesUp
    PROVE  RequestsTypeOK' /\ Reading' /\ Reporting'
<1>0. /\ RequestsTypeOK /\ Reading /\ Reporting /\ reported \in Loadable
      /\ ~up => pc = "idle"
  BY DEF RequestsIInv, RequestsTypeOK, IInv
<1>1. CASE Dies
  <2>1. /\ Closed /\ pc' = "idle" /\ queue' = <<>> /\ answer' = "none" /\ up' = FALSE
        /\ inherits' = inherits /\ reported' = reported
    BY <1>1 DEF Dies, Crash
  <2>2. Reporting'
    BY <2>1 DEF Reporting
  <2> QED BY <1>0, <2>1, <2>2, ClosedStep
<1>2. CASE ComesUp
  <2>1. /\ request' = request /\ sent' = sent /\ got' = got /\ gone' = gone
        /\ served' = served /\ answer' = answer /\ stage' = stage /\ queue' = queue
        /\ inherits' = inherits /\ Length' = Length
    BY <1>2 DEF ComesUp, connectionVars, serverVars, Length
  <2>2. reported' = file /\ memory' = file /\ file \in Loadable /\ pc' = pc /\ pc = "idle"
    BY <1>0, <1>2 DEF ComesUp, Start, StartFromCut
  <2>3. RequestsTypeOK'
    BY <1>0, <2>1, <2>2 DEF RequestsTypeOK
  <2>4. Reading' /\ Reporting'
    BY <1>0, <2>1, <2>2 DEF Reading, Reporting, Acceptable
  <2> QED BY <2>3, <2>4
<1> QED BY <1>1, <1>2

-----------------------------------------------------------------------------
(* What follows *)

\* What the service knows of the request in hand, and of what it has reported, for
\* any clients and requests.
THEOREM RequestsInvariance == RequestsSpec => []RequestsIInv
<1>1. IInv' /\ RequestsIInv /\ [RequestsNext]_allVars => RequestsIInv'
  <2> SUFFICES ASSUME RequestsIInv, IInv', [RequestsNext]_allVars
               PROVE  RequestsTypeOK' /\ Reading' /\ Reporting'
    BY DEF RequestsIInv
  <2>0. TypeOK'
    BY DEF IInv
  <2>1. CASE (\E c \in Clients : Connect(c)) \/ Send \/ Leave
    BY <2>0, <2>1, ClientStep
  <2>2. CASE Accept \/ Receive \/ ReceiveEnds \/ ReceiveTimesOut
    BY <2>0, <2>2, ReceiveStep
  <2>3. CASE ActPut \/ ActGet \/ ActStart \/ ActOther
    BY <2>0, <2>3, ActStep
  <2>4. CASE Replaces
    BY <2>0, <2>4, ReplacesStep
  <2>5. CASE Dies \/ ComesUp
    BY <2>0, <2>5, DiesOrComesUp
  <2>6. CASE UNCHANGED allVars
    <3>1. /\ request' = request /\ sent' = sent /\ got' = got /\ gone' = gone
          /\ served' = served /\ answer' = answer /\ stage' = stage /\ queue' = queue
          /\ inherits' = inherits /\ reported' = reported /\ Length' = Length
          /\ memory' = memory /\ up' = up /\ pc' = pc /\ asked' = asked
      BY <2>6 DEF allVars, vars, connectionVars, serverVars, Length
    <3>2. RequestsTypeOK'
      BY <2>0, <3>1 DEF RequestsIInv, RequestsTypeOK
    <3> QED BY <3>1, <3>2 DEF RequestsIInv, Reading, Reporting, Acceptable
  <2> QED BY <2>1, <2>2, <2>3, <2>4, <2>5, <2>6 DEF RequestsNext, Control
<1> QED BY InitRequests, StoreInvariance, <1>1, PTL DEF RequestsSpec

\* Every variable keeps its type.
THEOREM RequestsTypeCorrect == RequestsSpec => []RequestsTypeOK
<1>1. RequestsIInv => RequestsTypeOK
  BY DEF RequestsIInv
<1> QED BY RequestsInvariance, <1>1, PTL

\* What is in use between two replacements is what was last reported as updated.
THEOREM ReportedIsUsed == RequestsSpec => []LastReportedIsUsed
<1>1. RequestsIInv => LastReportedIsUsed
  BY DEF RequestsIInv, Reporting, IInv, OldInPlace, LastReportedIsUsed
<1> QED BY RequestsInvariance, <1>1, PTL

\* Under any number of clients, memory takes only what is in the file's place.
THEOREM RequestsFollow == RequestsSpec => MemoryFollowsFile
<1>1. IInv /\ [Next]_vars => [FollowsFile]_vars
  <2> SUFFICES ASSUME IInv, Next PROVE FollowsFile
    BY DEF vars, FollowsFile
  <2>1. CASE Start \/ StartFromCut \/ Crash
    BY <2>1 DEF Start, StartFromCut, Crash, FollowsFile
  <2>2. CASE \E toml \in Configurations \cup {Garbage} : Replace(toml)
    BY <2>2 DEF Replace, FollowsFile
  <2>3. CASE ReplaceStep
    BY <2>3, ReplaceStepShape DEF FollowsFile, IInv, NewInPlace
  <2> QED BY <2>1, <2>2, <2>3 DEF Next
<1> QED BY StoreInvariance, ImplementsStore, <1>1, PTL DEF MemoryFollowsFile

\* A well-formed request is judged only when it is there to its last unit.
THEOREM ReadsWhole == RequestsSpec => ReadsWholeRequests
<1>1. RequestsIInv /\ RequestsIInv' /\ [RequestsNext]_allVars => [JudgedWhole]_allVars
  <2> SUFFICES ASSUME RequestsIInv, RequestsNext, answer = "none", answer' # "none",
                      WellFormed(request)
               PROVE  IF answer' = "unparsed" THEN sent < Length ELSE got = Length
    BY DEF JudgedWhole
  <2>0. /\ RequestsTypeOK /\ Reading /\ request \in Requests
        /\ sent \in Nat /\ got \in Nat /\ got <= sent
    BY DEF RequestsIInv, RequestsTypeOK
  <2>1. CASE stage \in {"act", "replace"} /\ answer' # "unparsed"
    BY <2>0, <2>1 DEF Reading, WellFormed, Length
  <2>2. CASE Receive
    <3> PICK n \in (got + 1) .. sent : AfterRecv(n, request)
      BY <2>2 DEF Receive
    <3>1. n \in Nat /\ n <= sent /\ sent <= Length
      BY <2>0 DEF Reading
    <3> QED BY <2>0, <3>1, RequestParts
            DEF AfterRecv, Reads, Enough, Acceptable, WellFormed, Length
  <2>3. CASE ReceiveEnds \/ ReceiveTimesOut
    <3>1. stage = "receive" /\ got = sent /\ answer' = "unparsed"
      BY <2>3 DEF ReceiveEnds, ReceiveTimesOut, Answer
    <3> QED BY <2>0, <3>1, RequestParts DEF Reading, WellFormed, Length
  <2>4. CASE ActPut \/ ActGet \/ ActStart \/ ActOther \/ Replaces
    <3>1. stage \in {"act", "replace"} /\ answer' # "unparsed"
      BY <2>4 DEF ActPut, ActGet, ActStart, ActOther, Acts, Replaces, Answer, AnswersError
    <3> QED BY <2>1, <3>1
  <2>5. CASE (\E c \in Clients : Connect(c)) \/ Send \/ Leave \/ Accept \/ Dies \/ ComesUp
    BY <2>5 DEF Connect, Send, Leave, Accept, Dies, ComesUp, serverVars
  <2> QED BY <2>2, <2>3, <2>4, <2>5 DEF RequestsNext, Control
<1> QED BY RequestsInvariance, <1>1, PTL DEF RequestsSpec, ReadsWholeRequests
=============================================================================
