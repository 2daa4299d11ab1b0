---------------------------- MODULE MCReconcile ----------------------------
(***************************************************************************)
(* Reconcile for TLC.  The properties include liveness, so no symmetry.    *)
(***************************************************************************)
EXTENDS Reconcile
=============================================================================
