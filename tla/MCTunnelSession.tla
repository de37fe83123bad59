-------------------------- MODULE MCTunnelSession --------------------------
(***************************************************************************)
(* Model checking of TunnelSession: all instances have a silence timeout   *)
(* that leaves room for a late heartbeat (Margin), as 6 s do for 5 s.      *)
(***************************************************************************)
EXTENDS TunnelSession_proofs

ASSUME MarginHolds == Margin
=============================================================================
