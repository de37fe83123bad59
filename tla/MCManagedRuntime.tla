-------------------------- MODULE MCManagedRuntime --------------------------
(***************************************************************************)
(* Model checking of ManagedRuntime: the tunnel and the producer of one    *)
(* alias, which is defined or not, as a client or as a server.             *)
(***************************************************************************)
EXTENDS ManagedRuntime_proofs
=============================================================================
