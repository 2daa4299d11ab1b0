---------------------------- MODULE MCPromotion ----------------------------
(***************************************************************************)
(* One canary in three worlds.  In one it is sometimes healthy, intervals  *)
(* may bring too little traffic and an operator edits it once.  In the     *)
(* other two it is one or the other, has traffic, and is left alone; its   *)
(* last step takes half of the traffic, or all of it.                      *)
(***************************************************************************)
EXTENDS Promotion

MCWorlds == {[health |-> {"mixed"}, busy |-> FALSE, edits |-> 1, total |-> 100]}
    \cup {[health |-> {"ok", "bad"}, busy |-> TRUE, edits |-> 0, total |-> t] : t \in {50, 100}}
=============================================================================
