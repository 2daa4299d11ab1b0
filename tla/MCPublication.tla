--------------------------- MODULE MCPublication ---------------------------
(***************************************************************************)
(* Publication on a small instance: one certificate that parses, one that  *)
(* does not, two operators and one handshake.  The operators are not       *)
(* declared symmetric: the run also checks liveness.                       *)
(***************************************************************************)
EXTENDS Publication
=============================================================================
