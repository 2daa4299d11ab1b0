------------------------------- MODULE MCCores -------------------------------
(***************************************************************************)
(* Two cores and both intakes; a note is two units and a pipe holds one    *)
(* note, so that notes are split by reads, owed by the helper and kept.    *)
(* One connection comes while both cores are there, and a second one when  *)
(* core 1 is gone: then core 0 has two connects under way, and the         *)
(* helper's lists hold several jobs beside a pipe.                         *)
(***************************************************************************)
EXTENDS Cores

MCLoad == [cs \in SUBSET Cores |-> IF cs = {0} THEN 2 ELSE 1]

\* Sockets and connections are interchangeable.
Interchangeable == Permutations(Socks) \cup Permutations(Conns)
=============================================================================
