---------------------------- MODULE TunnelRelay ----------------------------
(***************************************************************************)
(* What a tunnel promises, whatever its framing: the datagrams the client  *)
(* takes from its multicast group are published on the far side in the     *)
(* order they were taken, each at most once and unchanged, and while the   *)
(* tunnel stays open every datagram taken is published in the end.         *)
(***************************************************************************)
EXTENDS Naturals, Sequences

CONSTANT Datagrams      \* every datagram a tunnel may carry

VARIABLES
    taken,              \* datagrams the client took, in order
    published,          \* datagrams the server published, in order
    open                \* FALSE once the server side has ended

vars == <<taken, published, open>>

TypeOK ==
    /\ taken \in Seq(Datagrams)
    /\ published \in Seq(Datagrams)
    /\ open \in BOOLEAN

Init ==
    /\ taken = <<>>
    /\ published = <<>>
    /\ open = TRUE

\* The client may go on taking datagrams for a while after the server ended.
Take ==
    /\ \E d \in Datagrams : taken' = Append(taken, d)
    /\ UNCHANGED <<published, open>>

Publish ==
    /\ open
    /\ Len(published) < Len(taken)
    /\ published' = Append(published, taken[Len(published) + 1])
    /\ UNCHANGED <<taken, open>>

Close ==
    /\ open
    /\ open' = FALSE
    /\ UNCHANGED <<taken, published>>

Next == Take \/ Publish \/ Close

Safety == Init /\ [][Next]_vars
Spec == Safety /\ WF_vars(Publish)

-----------------------------------------------------------------------------
(* Nothing is published that was not taken, and the order is kept. *)
InOrder ==
    /\ Len(published) <= Len(taken)
    /\ \A i \in 1..Len(published) : published[i] = taken[i]
=============================================================================
