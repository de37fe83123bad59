----------------------------- MODULE ConfigStore -----------------------------
(***************************************************************************)
(* ControlService's configuration: the one in memory, which every request  *)
(* works with, and the file it was loaded from, which                      *)
(* replaceConfiguration() replaces by way of a temporary file.  The        *)
(* service may die between any two steps, and be started again from the    *)
(* file.  A text is one value: a configuration, one that the parser        *)
(* refuses, or what there is of a file that was not written to its end.    *)
(***************************************************************************)

CONSTANTS
    Configurations,     \* texts that parseConfiguration() accepts
    Garbage,            \* one that it does not
    Cut,                \* what is in a file not, or not entirely, written
    NoFile

ASSUME StoreAssumption ==
    /\ Garbage \notin Configurations /\ Cut \notin Configurations
    /\ NoFile \notin Configurations

VARIABLES
    windows,    \* where a rename may not replace a file
    full,       \* the disk has no room for what is flushed when a file is closed
    up,         \* the service runs
    memory,     \* configuration_, or what it was when the service died
    file,       \* the contents of configuration_path_
    temp,       \* those of temporary_path
    pc,         \* where replaceConfiguration() is
    asked       \* its parameter, or that of the call a crash has ended

vars == <<windows, full, up, memory, file, temp, pc, asked>>
environment == <<windows, full>>

Contents == Configurations \cup {Cut, NoFile}
Loadable == Configurations \cup {Cut}

Init ==
    /\ windows \in BOOLEAN /\ full \in BOOLEAN
    /\ up = FALSE /\ file \in Configurations /\ temp = NoFile
    /\ memory = file /\ asked = file
    /\ pc = "idle"

-----------------------------------------------------------------------------
\* ControlService(): an absent file, or one that is refused, is an error.
Start ==
    /\ ~up /\ file \in Configurations
    /\ up' = TRUE /\ memory' = file /\ asked' = file
    /\ UNCHANGED <<environment, file, temp, pc>>

\* What is left of a text that was cut off may be a configuration as well.
StartFromCut ==
    /\ ~up /\ file = Cut
    /\ up' = TRUE /\ memory' = file /\ asked' = file
    /\ UNCHANGED <<environment, file, temp, pc>>

Crash ==
    /\ up
    /\ up' = FALSE /\ pc' = "idle"
    /\ asked' = IF pc = "idle" THEN memory ELSE asked
    /\ UNCHANGED <<environment, memory, file, temp>>

\* parseConfiguration() does not throw.
Parses(toml) == toml \in Configurations

\* PUT /config.
Replace(toml) ==
    /\ up /\ pc = "idle" /\ Parses(toml)
    /\ pc' = "open" /\ asked' = toml
    /\ UNCHANGED <<environment, up, memory, file, temp>>

Goes(where) == up /\ pc' = where /\ UNCHANGED <<environment, up, asked>>
MemoryStays == UNCHANGED memory

\* Mutant: the file is written in place.
OpenInPlace == file' = Cut /\ temp' = temp
OpenTemporary == temp' = Cut /\ file' = file

Open == pc = "open" /\ Goes("write") /\ OpenTemporary /\ MemoryStays
OpenFails == pc = "open" /\ Goes("idle") /\ UNCHANGED <<file, temp>> /\ MemoryStays

\* A long text goes to the file at once, a short one into the stream's buffer.
Write == pc = "write" /\ Goes("close") /\ temp' \in {asked, temp} /\ UNCHANGED file /\ MemoryStays
WriteFails == pc = "write" /\ Goes("idle") /\ UNCHANGED <<file, temp>> /\ MemoryStays

\* The stream's destructor writes what is in the buffer ...
Flush == temp' = asked

Close ==
    /\ pc = "close" /\ (full => temp = asked)
    /\ Goes("rename") /\ Flush /\ UNCHANGED file /\ MemoryStays

\* ... and says nothing if it cannot.
CloseFails ==
    /\ pc = "close" /\ full /\ temp # asked
    /\ Goes("rename") /\ UNCHANGED <<file, temp>> /\ MemoryStays

Moved == file' = temp /\ temp' = NoFile

Rename == pc = "rename" /\ Goes("commit") /\ Moved /\ MemoryStays

\* Mutant: the old file is always removed first.
RemovesAlways == TRUE
RemovesFirst == windows

RenameFails ==
    /\ pc = "rename"
    /\ Goes(IF RemovesFirst THEN "remove" ELSE "undo")
    /\ UNCHANGED <<file, temp>> /\ MemoryStays

\* On Windows only: remove, and rename once more.
RemoveOld == pc = "remove" /\ Goes("again") /\ file' = NoFile /\ UNCHANGED temp /\ MemoryStays
RemoveOldFails == pc = "remove" /\ Goes("undo") /\ UNCHANGED <<file, temp>> /\ MemoryStays
RenameAgain == pc = "again" /\ Goes("commit") /\ Moved /\ MemoryStays
RenameAgainFails == pc = "again" /\ Goes("undo") /\ UNCHANGED <<file, temp>> /\ MemoryStays

\* Mutant: the configuration in memory is replaced even so.
UseAsked == memory' = asked
KeepMemory == memory' = memory

\* The temporary file is removed, if it can be, and an error reported.
Undo ==
    /\ pc = "undo" /\ Goes("idle")
    /\ temp' \in {NoFile, temp} /\ UNCHANGED file /\ KeepMemory

Commit ==
    /\ pc = "commit" /\ Goes("idle")
    /\ memory' = asked
    /\ UNCHANGED <<file, temp>>

ReplaceStep ==
    \/ Open \/ OpenFails \/ Write \/ WriteFails \/ Close \/ CloseFails
    \/ Rename \/ RenameFails \/ RemoveOld \/ RemoveOldFails \/ RenameAgain \/ RenameAgainFails
    \/ Undo \/ Commit

Next ==
    \/ Start \/ StartFromCut \/ Crash
    \/ \E toml \in Configurations \cup {Garbage} : Replace(toml)
    \/ ReplaceStep

\* A call that was begun goes on, unless the service dies, and a service that
\* can be started is.
Spec == Init /\ [][Next]_vars /\ WF_vars(ReplaceStep) /\ WF_vars(Start)

-----------------------------------------------------------------------------
(* Properties *)

\* Every variable has its type.
TypeOK ==
    /\ windows \in BOOLEAN /\ full \in BOOLEAN /\ up \in BOOLEAN
    /\ memory \in Loadable /\ asked \in Loadable
    /\ file \in Contents /\ temp \in Contents
    /\ pc \in {"idle", "open", "write", "close", "rename", "remove", "again", "undo", "commit"}

Replacing == ~up \/ pc # "idle"

\* Whenever the service dies, the file is the configuration that was in use or
\* the one that was to replace it, and once a call has returned there is no
\* doubt which.
OldOrNew ==
    ~windows /\ ~full => file = memory \/ (Replacing /\ file = asked)

\* What is renamed, and what is in place after it, as long as there is room.
NewInPlace ==
    /\ pc \in {"rename", "remove", "again"} => temp = asked
    /\ pc = "commit" => file = asked

\* The file at the other steps of a call, where a rename replaces a file.
OldInPlace ==
    /\ up \/ file \in {memory, asked}
    /\ up /\ pc # "commit" => file = memory

\* The inductive invariant.
IInv ==
    /\ TypeOK
    /\ ~up => pc = "idle"
    /\ pc \in {"remove", "again"} => windows
    /\ ~full => NewInPlace
    /\ ~windows /\ ~full => OldInPlace

\* What is in use was in use before, or has been moved into place: memory never
\* runs ahead of the file.
FollowsFile == up /\ memory' # memory /\ ~full => memory' = file
MemoryFollowsFile == [][FollowsFile]_vars

\* A service that died in the middle of a replacement can be started again.
ComesUpAgain == ~windows /\ ~full /\ ~up ~> up

\* "control service must persist a configuration replacement": between two
\* requests memory and file agree, the last replacement reported as updated
\* and those that failed alike.
ReplacementPersists == up /\ pc = "idle" => file = memory
=============================================================================
