--------------------------- MODULE MCTunnelStream ---------------------------
(* TLC's instance of TunnelStream, with the invariant of its proofs.         *)
EXTENDS TunnelStream_proofs
=============================================================================
