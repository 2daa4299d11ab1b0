------------------------------- MODULE Gate -------------------------------
(***************************************************************************)
(* What the generation history promises its callers, with no lock, ring,   *)
(* store or certificate in it: the newest generation is served, a pin      *)
(* holds the replica on one that already arrived while later ones go on    *)
(* arriving unseen, and a release jumps to the newest.                     *)
(***************************************************************************)
EXTENDS Naturals

CONSTANTS
    Generations,  \* the generations a controller may hand over
    NoPin         \* publication is not being held

VARIABLES
    serving,  \* GenerationHistory::serving
    held,     \* GenerationHistory::pinned
    newest    \* the newest generation recorded

vars == <<serving, held, newest>>

Init == serving = 0 /\ held = NoPin /\ newest = 0

\* record() with the gate open.
Publish(g) ==
    /\ held = NoPin
    /\ g > newest
    /\ serving' = g
    /\ newest' = g
    /\ UNCHANGED held

\* record() while a pin holds the gate.
Hold(g) ==
    /\ held # NoPin
    /\ g > newest
    /\ newest' = g
    /\ UNCHANGED <<serving, held>>

\* pin(): never from one pin straight to another.
Pin(g) ==
    /\ held = NoPin
    /\ g \in 1..newest
    /\ held' = g
    /\ serving' = g
    /\ UNCHANGED newest

\* unpin()
Release ==
    /\ held # NoPin
    /\ held' = NoPin
    /\ serving' = newest
    /\ UNCHANGED newest

Next ==
    \/ \E g \in Generations : Publish(g) \/ Hold(g) \/ Pin(g)
    \/ Release

Spec == Init /\ [][Next]_vars
=============================================================================
