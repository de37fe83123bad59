----------------------------- MODULE Supervisor -----------------------------
(***************************************************************************)
(* What a supervisor of named runtimes promises, whatever its slots,       *)
(* objects, joins and publications: of each name at most one thread runs,  *)
(* the next one only after the last has returned, and the states shown of  *)
(* the name follow that thread's life.                                     *)
(***************************************************************************)

CONSTANT Names          \* what can be started

VARIABLES
    shown,              \* what a snapshot shows of each name
    thread              \* where the thread of each name is

vars == <<shown, thread>>

Alive == {"entered", "running"}

TypeOK ==
    /\ shown \in [Names -> {"absent", "starting", "running", "stopping", "over"}]
    /\ thread \in [Names -> Alive \cup {"none", "leaving"}]

Init ==
    /\ shown = [n \in Names |-> "absent"]
    /\ thread = [n \in Names |-> "none"]

Shows(n, s) == shown' = [shown EXCEPT ![n] = s]
Moves(n, where) == thread' = [thread EXCEPT ![n] = where]

\* A start of what is over, and whose last thread has returned ...
New(n) ==
    /\ shown[n] \in {"absent", "over"} /\ thread[n] = "none"
    /\ Shows(n, "starting") /\ UNCHANGED thread

\* ... for which there is a thread, or cannot be one.
Enter(n) == shown[n] = "starting" /\ thread[n] = "none" /\ Moves(n, "entered") /\ UNCHANGED shown
GiveUp(n) == shown[n] = "starting" /\ thread[n] = "none" /\ Shows(n, "absent") /\ UNCHANGED thread

\* A stop is asked of a thread that is there to heed it, as often as one likes.
AskStop(n) == thread[n] \in Alive /\ Shows(n, "stopping") /\ UNCHANGED thread

\* The thread says once that it runs, be it asked to stop or not, and then, or
\* without that, that it is over; only then does it return.
Run(n) == thread[n] = "entered" /\ Shows(n, "running") /\ Moves(n, "running")
End(n) == thread[n] \in Alive /\ Shows(n, "over") /\ Moves(n, "leaving")
Leave(n) == thread[n] = "leaving" /\ Moves(n, "none") /\ UNCHANGED shown

\* What is over may be forgotten.
Forget(some) ==
    /\ \A n \in some : shown[n] = "over"
    /\ shown' = [n \in Names |-> IF n \in some THEN "absent" ELSE shown[n]]
    /\ UNCHANGED thread

Next ==
    \/ \E n \in Names :
          New(n) \/ Enter(n) \/ GiveUp(n) \/ AskStop(n) \/ Run(n) \/ End(n) \/ Leave(n)
    \/ \E some \in SUBSET Names : Forget(some)

Safety == Init /\ [][Next]_vars

-----------------------------------------------------------------------------
(* A stop is never asked for nothing, and nothing changes what is over but a *)
(* new start. *)
ShownIsTrue ==
    \A n \in Names :
        /\ shown[n] \in {"running", "stopping"} => thread[n] \in Alive
        /\ thread[n] \in Alive => shown[n] \in {"starting", "running", "stopping"}
=============================================================================
