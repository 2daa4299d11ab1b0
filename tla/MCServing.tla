----------------------------- MODULE MCServing ------------------------------
(* Connections of every kind, for Serving.                                  *)
EXTENDS Serving, TLC

CONSTANTS p, g, a, q

MCKindOf == (p :> "http") @@ (g :> "handoff") @@ (a :> "admin") @@ (q :> "h3")
=============================================================================
