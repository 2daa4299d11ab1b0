----------------------------- MODULE Promotion -----------------------------
(***************************************************************************)
(* Canary auto-promotion: a loop that reads each canary's traffic over one *)
(* interval and patches its Ingress, and everything its decisions travel   *)
(* through: the cluster's objects, the controller's compiled generation    *)
(* (which the loop takes its targets from), the published table (which it  *)
(* takes its counters from), and the rollback pin.                         *)
(*                                                                         *)
(* A window is abstracted to what decide() asks of it: whether each side   *)
(* saw min-requests, and whether the canary's error rate or latency        *)
(* breached its gate.  A compiled configuration is abstracted to the       *)
(* annotations of each canary; publication is one step, which is what      *)
(* module Publication shows of it.                                         *)
(***************************************************************************)
EXTENDS Integers, Sequences, FiniteSets, FiniteSetsExt

CONSTANTS
    Canaries,     \* canary Ingresses, as naturals: passes visit them in order
    Steps,        \* the auto-promote-steps
    StartWeights, \* weights an operator arms a canary with
    Worlds,       \* what a cluster may be like, see world
    Capacity,     \* generations in the history
    MaxRestarts,  \* bound on restarts of the process
    NoConfig,     \* nothing compiled yet
    NoPatch       \* no patch is awaiting its answer

ASSUME StepsAssumption ==
    /\ Steps \subseteq 1..100 /\ Steps # {}
    /\ StartWeights \subseteq 0..100
ASSUME CanariesAssumption == Canaries \subseteq Nat /\ IsFiniteSet(Canaries)
ASSUME EnvironmentAssumption ==
    /\ \A w \in Worlds : w \in [health : SUBSET {"ok", "bad", "mixed"},
                                busy : BOOLEAN, edits : Nat, total : Nat \ {0}]
    /\ Capacity \in Nat \ {0} /\ MaxRestarts \in Nat

VARIABLES
    obj,      \* the canary Ingresses in the cluster
    chan,     \* the newest compiled configuration
    ring,     \* the generation history, oldest first
    pinned,   \* an operator holds publication
    table,    \* the configuration being served
    health,   \* whether a canary's requests succeed, fail, or do both
    win,      \* traffic since the last reading of each canary's counters
    targets,  \* the configuration the running pass works from
    todo,     \* targets the running pass has yet to evaluate
    base,     \* canaries with a baseline
    waiting,  \* canaries whose deadline is in the future
    finished, \* canaries this process has finished with
    patch,    \* the patch awaiting its answer
    edits, restarts,
    world,    \* the kinds of canary there are, whether every interval brings
              \* min-requests to each side in use, a bound on edits, and the
              \* canary-weight-total: at this weight the canary takes all
    heard,    \* history variable: rolled back, answer received, not edited since
    edited    \* history variable: edited, and no pass has seen the edit yet

cluster == <<obj, health, edits, heard, world>>
plane == <<chan, ring, pinned, table>>
loop == <<targets, todo, base, waiting, finished>>
vars == <<cluster, edited, plane, win, loop, patch, restarts>>

EmptyWindow == [canary |-> FALSE, stable |-> FALSE, breach |-> FALSE]

\* collect_promotions: the canaries that opted in.  Their production routes are
\* taken to exist.
Targets(config) ==
    IF config = NoConfig THEN {} ELSE {c \in Canaries : config[c].armed}

\* The status annotation of a canary that is not opted in is not part of the
\* digest.
Digest(config) ==
    IF config = NoConfig THEN NoConfig
    ELSE [c \in Canaries |-> IF config[c].armed THEN config[c]
                             ELSE [config[c] EXCEPT !.status = "none"]]

-----------------------------------------------------------------------------
\* PromotionAnnotations::next_step, as the set it takes the first of.
StepsAfter(weight) == {s \in Steps : s > weight}

\* decide(): the traffic gate first, then the health gates, then the weight.
MutDecideToTheTop(target, w) ==
    IF ~w.canary \/ ~w.stable THEN {}
    ELSE IF w.breach THEN {[kind |-> "roll-back", to |-> 0]}
    ELSE IF StepsAfter(target.weight) # {}
         THEN {[kind |-> "step", to |-> Max(Steps)]}
         ELSE {[kind |-> "promote", to |-> target.weight]}
Decide(target, w) ==
    IF ~w.canary \/ ~w.stable THEN {}
    ELSE IF w.breach THEN {[kind |-> "roll-back", to |-> 0]}
    ELSE IF StepsAfter(target.weight) # {}
         THEN {[kind |-> "step", to |-> Min(StepsAfter(target.weight))]}
         ELSE {[kind |-> "promote", to |-> target.weight]}

IsFinished(target) == target.status \in {"rolled-back", "promoted"}

RolledBack == [weight |-> 0, armed |-> FALSE, status |-> "rolled-back"]

\* The annotations a verdict writes; a merge patch leaves the others alone.
Merge(ingress, v) ==
    CASE v.kind = "step" -> [ingress EXCEPT !.weight = v.to]
      [] v.kind = "promote" -> [ingress EXCEPT !.status = "promoted"]
      [] v.kind = "roll-back" -> RolledBack

Patched == [obj EXCEPT ![patch.canary] = Merge(@, patch.verdict)]

\* A canary is remembered as finished once its last patch is known to stick.
MutFinishNone == finished
FinishedBy == IF patch.verdict.kind = "step" THEN finished ELSE finished \cup {patch.canary}

\* The targets a pass evaluates, and the state it forgets, when it starts.
Due(live) ==
    {c \in live : ~IsFinished(chan[c]) /\ c \notin finished /\ c \notin waiting}

-----------------------------------------------------------------------------
Init ==
    /\ obj \in [Canaries -> [weight : StartWeights, armed : {TRUE}, status : {"none"}]]
    /\ world \in Worlds
    /\ health \in [Canaries -> world.health]
    /\ chan = NoConfig
    /\ ring = <<>>
    /\ pinned = FALSE
    /\ table = NoConfig
    /\ win = [c \in Canaries |-> EmptyWindow]
    /\ targets = NoConfig
    /\ todo = {}
    /\ base = {}
    /\ waiting = {}
    /\ finished = {}
    /\ patch = NoPatch
    /\ edits = 0
    /\ restarts = 0
    /\ heard = {}
    /\ edited = {}

(***************************************************************************)
(* The control plane and the gate.                                         *)
(***************************************************************************)
Compile ==
    /\ Digest(obj) # Digest(chan)
    /\ chan' = obj
    /\ UNCHANGED <<cluster, edited, ring, pinned, table, win, loop, patch, restarts>>

Newest == IF ring = <<>> THEN NoConfig ELSE ring[Len(ring)]

Record ==
    /\ chan # Newest
    /\ ring' = IF Len(ring) < Capacity THEN Append(ring, chan) ELSE Append(Tail(ring), chan)
    /\ table' = IF pinned THEN table ELSE chan
    /\ UNCHANGED <<cluster, edited, chan, pinned, win, loop, patch, restarts>>

Pin(i) ==
    /\ ~pinned
    /\ pinned' = TRUE
    /\ table' = ring[i]
    /\ UNCHANGED <<cluster, edited, chan, ring, win, loop, patch, restarts>>

Unpin ==
    /\ pinned
    /\ pinned' = FALSE
    /\ table' = Newest
    /\ UNCHANGED <<cluster, edited, chan, ring, win, loop, patch, restarts>>

(***************************************************************************)
(* Operators edit the annotations: arm a canary afresh, or disarm it.      *)
(***************************************************************************)
Edit(c, ingress) ==
    /\ edits < world.edits
    /\ edits' = edits + 1
    /\ obj' = [obj EXCEPT ![c] = ingress]
    /\ heard' = heard \ {c}
    /\ edited' = edited \cup {c}
    /\ UNCHANGED <<health, world, plane, win, loop, patch, restarts>>

Rearm(c, w) == Edit(c, [weight |-> w, armed |-> TRUE, status |-> "none"])
Disarm(c) == Edit(c, [obj[c] EXCEPT !.armed = FALSE])

(***************************************************************************)
(* Traffic since the last reading.  The weight being served splits it.     *)
(* Each share may leave the window's averages on either side of the gates. *)
(***************************************************************************)
ServeCanary(c, bad) ==
    /\ bad \in (CASE health[c] = "ok" -> {FALSE}
                [] health[c] = "bad" -> {TRUE}
                [] health[c] = "mixed" -> BOOLEAN)
    /\ c \in base
    /\ table # NoConfig
    /\ table[c].weight > 0
    /\ win' = [win EXCEPT ![c] = [@ EXCEPT !.canary = TRUE, !.breach = bad]]
    /\ UNCHANGED <<cluster, edited, plane, loop, patch, restarts>>

ServeStable(c) ==
    /\ c \in base
    /\ table # NoConfig
    /\ table[c].weight < world.total
    /\ win' = [win EXCEPT ![c].stable = TRUE]
    /\ UNCHANGED <<cluster, edited, plane, loop, patch, restarts>>

\* The window holds enough of every side that receives traffic at all.
Full(c) ==
    c \in base /\ table # NoConfig =>
        /\ table[c].weight > 0 => win[c].canary
        /\ table[c].weight < world.total => win[c].stable

\* A canary's deadline passes.
Elapse(c) ==
    /\ c \in waiting
    /\ world.busy => Full(c)
    /\ waiting' = waiting \ {c}
    /\ UNCHANGED <<cluster, edited, plane, win, targets, todo, base, finished, patch, restarts>>

(***************************************************************************)
(* The loop.  run() waits while there is no target, without a pass; pass() *)
(* returns at once under a pin.  Otherwise a pass first forgets the        *)
(* canaries that are no longer targets.                                    *)
(***************************************************************************)
StartPass ==
    LET live == Targets(chan)
    IN  /\ todo = {} /\ patch = NoPatch
        /\ live # {}
        /\ ~pinned
        /\ targets' = chan
        /\ base' = base \cap live
        /\ finished' = finished \cap live
        /\ todo' = Due(live)
        /\ waiting' = (waiting \cap live) \cup Due(live)
        /\ edited' = IF Digest(obj) = Digest(chan) THEN {} ELSE edited
        /\ UNCHANGED <<cluster, plane, win, patch, restarts>>

\* The target the pass is at: the rest wait while a patch is awaited.
Current(c) == c \in todo /\ (\A d \in todo : c =< d) /\ patch = NoPatch

\* evaluate(): the routes are not in the published table.
Unread(c) ==
    /\ Current(c)
    /\ table = NoConfig
    /\ todo' = todo \ {c}
    /\ UNCHANGED <<cluster, edited, plane, win, targets, base, waiting, finished, patch, restarts>>

\* evaluate(): the first reading is only a baseline.
Baseline(c) ==
    /\ Current(c)
    /\ table # NoConfig
    /\ c \notin base
    /\ base' = base \cup {c}
    /\ win' = [win EXCEPT ![c] = EmptyWindow]
    /\ todo' = todo \ {c}
    /\ UNCHANGED <<cluster, edited, plane, targets, waiting, finished, patch, restarts>>

\* evaluate() with a window, and apply() up to the call of patch().
Judge(c) ==
    LET verdicts == Decide(targets[c], win[c])
    IN  /\ Current(c)
        /\ table # NoConfig
        /\ c \in base
        /\ win' = [win EXCEPT ![c] = EmptyWindow]
        /\ todo' = todo \ {c}
        /\ \/ verdicts = {} /\ UNCHANGED patch
           \/ \E v \in verdicts :
                 patch' = [canary |-> c, verdict |-> v]
        /\ UNCHANGED <<cluster, edited, plane, targets, base, waiting, finished, restarts>>

\* The patch lands and the answer arrives.
PatchOk ==
    /\ patch # NoPatch
    /\ obj' = Patched
    /\ finished' = FinishedBy
    /\ heard' = IF patch.verdict.kind = "roll-back" THEN heard \cup {patch.canary} ELSE heard
    /\ patch' = NoPatch
    /\ UNCHANGED <<health, world, edits, edited, plane, win, targets, todo, base, waiting, restarts>>

\* The call fails: the patch did not land, or it landed and the answer was lost.
PatchFails(result) ==
    /\ patch # NoPatch
    /\ obj' = result
    /\ patch' = NoPatch
    /\ UNCHANGED <<health, world, edits, edited, heard, plane, win, loop, restarts>>

PatchRefused == PatchFails(obj)
PatchLost == patch # NoPatch /\ PatchFails(Patched)

\* The process restarts: nothing but the cluster's objects survives.  A patch
\* in flight may or may not have landed.
Restart ==
    /\ restarts < MaxRestarts
    /\ restarts' = restarts + 1
    /\ \/ obj' = obj
       \/ patch # NoPatch /\ obj' = Patched
    /\ chan' = NoConfig /\ ring' = <<>> /\ pinned' = FALSE /\ table' = NoConfig
    /\ win' = [c \in Canaries |-> EmptyWindow]
    /\ targets' = NoConfig /\ todo' = {} /\ base' = {}
    /\ waiting' = {} /\ finished' = {} /\ patch' = NoPatch
    /\ UNCHANGED <<health, world, edits, edited, heard>>

-----------------------------------------------------------------------------
Evaluate == \E c \in Canaries : Unread(c) \/ Baseline(c) \/ Judge(c)

Next ==
    \/ Compile
    \/ Record
    \/ \E i \in 1..Len(ring) : Pin(i)
    \/ Unpin
    \/ \E c \in Canaries : \E w \in StartWeights : Rearm(c, w)
    \/ \E c \in Canaries : Disarm(c)
    \/ \E c \in Canaries : (\E bad \in BOOLEAN : ServeCanary(c, bad)) \/ ServeStable(c) \/ Elapse(c)
    \/ StartPass
    \/ Evaluate
    \/ PatchOk \/ PatchRefused \/ PatchLost
    \/ Restart

Spec == Init /\ [][Next]_vars

\* The tasks are polled, timers fire, traffic keeps coming, and the API server
\* does not refuse for ever.  Operators need never act.
Fairness ==
    /\ WF_vars(Compile) /\ WF_vars(Record)
    /\ WF_vars(StartPass) /\ WF_vars(Evaluate)
    /\ \A c \in Canaries :
          /\ WF_vars(\E bad \in BOOLEAN : ServeCanary(c, bad))
          /\ WF_vars(ServeStable(c))
          /\ SF_vars(Elapse(c))
    /\ WF_vars(PatchOk \/ PatchRefused \/ PatchLost)
    /\ SF_vars(PatchOk)

FairSpec == Spec /\ Fairness

-----------------------------------------------------------------------------
(***************************************************************************)
(* Properties                                                              *)
(***************************************************************************)
\* A rollback whose answer arrived is final: until an operator edits the
\* canary its weight never rises again, across stale targets and restarts.
HeardRollbackSticks ==
    [][\A c \in heard : obj'[c].weight > obj[c].weight => c \notin heard']_vars

\* The loop moves an unfinished canary only to the step after its weight in
\* the cluster, or to zero and disarmed, however stale its targets are and
\* whichever answers were lost, unless an edit reached the cluster after them.
WeightsFollowSteps ==
    [][\A c \in Canaries \ edited :
          obj[c].status = "none" /\ obj'[c].weight # obj[c].weight /\ edits = edits' =>
              \/ StepsAfter(obj[c].weight) # {} /\ obj'[c].weight = Min(StepsAfter(obj[c].weight))
              \/ obj'[c] = RolledBack]_vars

\* Traffic in every interval, and no pin that is kept.
Unhindered == world.busy /\ <>[](~pinned)

\* The canary is served all of the traffic, and the window holds nothing of the
\* stable side from before.
Silent(c) ==
    /\ table # NoConfig /\ table[c].weight >= world.total
    /\ ~win[c].stable /\ patch = NoPatch /\ obj[c].status = "none"

=============================================================================
