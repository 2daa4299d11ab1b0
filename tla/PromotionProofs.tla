--------------------------- MODULE PromotionProofs --------------------------
(***************************************************************************)
(* What the promotion loop may never do to a canary, for every set of      *)
(* canaries, steps and weights, any number of edits and restarts, and      *)
(* whatever is stale: the compiled configuration behind the cluster, the   *)
(* targets of the running pass behind that, and the patch in flight.       *)
(***************************************************************************)
EXTENDS Promotion, TLAPS

Fields == {"weight", "armed", "status"}
Verdicts == {"step", "promote", "roll-back"}

ShapeInv ==
    /\ DOMAIN obj = Canaries /\ \A c \in Canaries : DOMAIN obj[c] = Fields
    /\ chan # NoConfig => \A c \in Canaries : DOMAIN chan[c] = Fields
    /\ patch # NoPatch => patch.canary \in Canaries /\ patch.verdict.kind \in Verdicts
    /\ edits \in Nat /\ heard \subseteq Canaries /\ todo \subseteq Canaries

\* A pass is past the canary whose patch it awaits.
PassInv == patch # NoPatch => patch.canary \notin todo

\* A canary whose rollback was answered is out of the loop's reach: it is
\* disarmed in the cluster, the loop neither has it before it nor is patching
\* it, and a configuration that still has it armed finds it finished.
HeardInv ==
    \A c \in heard :
        /\ obj[c] = RolledBack
        /\ c \notin todo
        /\ patch # NoPatch => patch.canary # c
        /\ chan = NoConfig \/ ~chan[c].armed \/ c \in finished

\* The weight x is w, or the step after it.
Near(w, x) == x = w \/ (StepsAfter(w) # {} /\ x = Min(StepsAfter(w)))

\* How far a canary that is not finished, and was not edited behind the loop's
\* back, can be ahead of what the loop knows of it.
StaleInv ==
    \A c \in Canaries \ edited : obj[c].status = "none" =>
        /\ chan # NoConfig => Near(chan[c].weight, obj[c].weight)
        /\ c \in todo =>
              /\ Near(targets[c].weight, obj[c].weight)
              /\ chan # NoConfig => chan[c].weight \in {targets[c].weight, obj[c].weight}
        /\ patch # NoPatch /\ patch.canary = c /\ patch.verdict.kind = "step" =>
              /\ Near(obj[c].weight, patch.verdict.to)
              /\ chan # NoConfig => Near(chan[c].weight, patch.verdict.to)

IInv == ShapeInv /\ PassInv /\ HeardInv /\ StaleInv

-----------------------------------------------------------------------------
(* The parts of a pass.                                                    *)

\* What a patch does to the cluster: its own canary, and only as its verdict
\* says.
LEMMA PatchedFacts ==
    ASSUME ShapeInv, patch # NoPatch
    PROVE  /\ DOMAIN Patched = Canaries
           /\ \A c \in Canaries : DOMAIN Patched[c] = Fields
           /\ \A c \in Canaries : c # patch.canary => Patched[c] = obj[c]
           /\ LET was == obj[patch.canary]
                  is == Patched[patch.canary] IN
              /\ patch.verdict.kind = "step" =>
                    is.weight = patch.verdict.to /\ is.armed = was.armed /\ is.status = was.status
              /\ patch.verdict.kind = "promote" =>
                    is.weight = was.weight /\ is.armed = was.armed /\ is.status = "promoted"
              /\ patch.verdict.kind = "roll-back" => is = RolledBack
<1>1. PICK p, v : /\ p \in Canaries /\ p = patch.canary /\ v = patch.verdict /\ v.kind \in Verdicts
  BY DEF ShapeInv
<1>2. DOMAIN obj = Canaries /\ \A c \in Canaries : DOMAIN obj[c] = Fields
  BY DEF ShapeInv
<1>3. Patched = [obj EXCEPT ![p] = Merge(obj[p], v)]
  BY <1>1 DEF Patched
<1>4. /\ DOMAIN Merge(obj[p], v) = Fields
      /\ v.kind = "step" => /\ Merge(obj[p], v).weight = v.to
                            /\ Merge(obj[p], v).armed = obj[p].armed
                            /\ Merge(obj[p], v).status = obj[p].status
      /\ v.kind = "promote" => /\ Merge(obj[p], v).weight = obj[p].weight
                               /\ Merge(obj[p], v).armed = obj[p].armed
                               /\ Merge(obj[p], v).status = "promoted"
      /\ v.kind = "roll-back" => Merge(obj[p], v) = RolledBack
  <2>1. CASE v.kind = "step"
    BY <1>1, <1>2, <2>1 DEF Merge, Fields
  <2>2. CASE v.kind = "promote"
    BY <1>1, <1>2, <2>2 DEF Merge, Fields
  <2>3. CASE v.kind = "roll-back"
    BY <2>3 DEF Merge, RolledBack, Fields
  <2>4. QED BY <1>1, <2>1, <2>2, <2>3 DEF Verdicts
<1> HIDE DEF Merge
<1>5. /\ DOMAIN Patched = Canaries
      /\ Patched[p] = Merge(obj[p], v)
      /\ \A c \in Canaries : c # p => Patched[c] = obj[c]
  BY <1>1, <1>2, <1>3
<1>6. QED BY <1>1, <1>2, <1>4, <1>5

\* The digest leaves out the status of a canary that is not armed, never its
\* weight.
LEMMA DigestWeights ==
    ASSUME ShapeInv, chan # NoConfig, Digest(obj) = Digest(chan)
    PROVE  \A c \in Canaries : obj[c].weight = chan[c].weight
<1>1. PICK D1, D2 : D1 = Digest(obj) /\ D2 = Digest(chan)
  OBVIOUS
<1> SUFFICES ASSUME NEW c \in Canaries PROVE obj[c].weight = chan[c].weight
  OBVIOUS
<1>2. DOMAIN obj[c] = Fields /\ DOMAIN chan[c] = Fields
  BY DEF ShapeInv
<1>3. CASE obj = NoConfig
  <2>1. Digest(chan) = NoConfig
    BY <1>3 DEF Digest
  <2>2. Digest(chan)[c] = IF chan[c].armed THEN chan[c] ELSE [chan[c] EXCEPT !.status = "none"]
    BY DEF Digest
  <2>3. Digest(chan)[c].weight = chan[c].weight
    BY <1>2, <2>2 DEF Fields
  <2>4. QED BY <1>3, <2>1, <2>3
<1>4. CASE obj # NoConfig
  <2>1. Digest(obj)[c] = IF obj[c].armed THEN obj[c] ELSE [obj[c] EXCEPT !.status = "none"]
    BY <1>4 DEF Digest
  <2>2. Digest(chan)[c] = IF chan[c].armed THEN chan[c] ELSE [chan[c] EXCEPT !.status = "none"]
    BY DEF Digest
  <2>3. Digest(obj)[c].weight = obj[c].weight
    BY <1>2, <2>1 DEF Fields
  <2>4. Digest(chan)[c].weight = chan[c].weight
    BY <1>2, <2>2 DEF Fields
  <2>5. QED BY <2>3, <2>4
<1>5. QED BY <1>3, <1>4

\* What every step that leaves the loop's view of the cluster alone keeps.
LEMMA QuietStep ==
    ASSUME IInv, todo' \subseteq todo,
           UNCHANGED <<obj, chan, targets, patch, edits, heard, edited, finished>>
    PROVE  IInv'
<1>1. ShapeInv'
  BY DEF IInv, ShapeInv
<1>2. PassInv'
  BY DEF IInv, PassInv
<1>3. HeardInv'
  BY DEF IInv, HeardInv
<1>4. StaleInv'
  BY DEF IInv, StaleInv, Near
<1>5. QED BY <1>1, <1>2, <1>3, <1>4 DEF IInv

LEMMA InitInductive == Init => IInv
<1> SUFFICES ASSUME Init PROVE IInv
  OBVIOUS
<1>1. ShapeInv
  <2>1. DOMAIN obj = Canaries /\ \A c \in Canaries : DOMAIN obj[c] = Fields
    BY DEF Init, Fields
  <2>2. QED BY <2>1 DEF Init, ShapeInv
<1>2. PassInv /\ HeardInv
  BY DEF Init, PassInv, HeardInv
<1>3. StaleInv
  BY DEF Init, StaleInv
<1>4. QED BY <1>1, <1>2, <1>3 DEF IInv

\* The new configuration is what the cluster holds.
LEMMA CompileStep ==
    ASSUME IInv, Compile
    PROVE  IInv'
<1>0. /\ chan' = obj
      /\ UNCHANGED <<obj, targets, todo, patch, edits, heard, edited, finished>>
  BY DEF Compile, cluster, loop
<1>1. ShapeInv'
  BY <1>0 DEF IInv, ShapeInv
<1>2. PassInv'
  BY <1>0 DEF IInv, PassInv
<1>3. HeardInv'
  BY <1>0 DEF IInv, HeardInv, RolledBack
<1>4. StaleInv'
  BY <1>0 DEF IInv, StaleInv, Near
<1>5. QED BY <1>1, <1>2, <1>3, <1>4 DEF IInv

\* The operator takes the canary back: the loop's promises about it lapse.
LEMMA EditStep ==
    ASSUME IInv, NEW c \in Canaries, NEW ingress, DOMAIN ingress = Fields, Edit(c, ingress)
    PROVE  IInv'
<1>0. /\ obj' = [obj EXCEPT ![c] = ingress]
      /\ heard' = heard \ {c} /\ edited' = edited \cup {c} /\ edits' = edits + 1
      /\ UNCHANGED <<chan, targets, todo, patch, finished>>
  BY DEF Edit, plane, loop
<1>1. /\ DOMAIN obj' = Canaries /\ obj'[c] = ingress
      /\ \A d \in Canaries : d # c => obj'[d] = obj[d]
  BY <1>0 DEF IInv, ShapeInv
<1>2. ShapeInv'
  BY <1>0, <1>1 DEF IInv, ShapeInv
<1>3. PassInv'
  BY <1>0 DEF IInv, PassInv
<1>4. HeardInv'
  BY <1>0, <1>1 DEF IInv, HeardInv, ShapeInv
<1>5. StaleInv'
  BY <1>0, <1>1 DEF IInv, StaleInv, Near
<1>6. QED BY <1>2, <1>3, <1>4, <1>5 DEF IInv

\* A pass takes its targets from the compiled configuration, and leaves out
\* what it finished.
LEMMA StartStep ==
    ASSUME IInv, StartPass
    PROVE  IInv'
<1>0. /\ todo = {} /\ patch = NoPatch /\ chan # NoConfig
      /\ targets' = chan
      /\ finished' = finished \cap Targets(chan)
      /\ todo' = Due(Targets(chan))
      /\ edited' = IF Digest(obj) = Digest(chan) THEN {} ELSE edited
      /\ UNCHANGED <<obj, chan, patch, edits, heard>>
  BY DEF StartPass, cluster, plane, Targets
<1>1. \A c : c \in Targets(chan) <=> c \in Canaries /\ chan[c].armed
  BY <1>0 DEF Targets
<1>2. /\ todo' \subseteq Canaries
      /\ \A c \in todo' : chan[c].armed /\ c \notin finished
  BY <1>0, <1>1 DEF Due
<1>3. ShapeInv'
  BY <1>0, <1>2 DEF IInv, ShapeInv
<1>4. PassInv'
  BY <1>0 DEF IInv, PassInv
<1>5. HeardInv'
  BY <1>0, <1>1, <1>2 DEF IInv, HeardInv, ShapeInv
<1>6. \A c \in Canaries \ edited' : obj[c].status = "none" => Near(chan[c].weight, obj[c].weight)
  <2>1. CASE Digest(obj) = Digest(chan)
    BY <1>0, <2>1, DigestWeights DEF IInv, Near
  <2>2. CASE Digest(obj) # Digest(chan)
    BY <1>0, <2>2 DEF IInv, StaleInv
  <2>3. QED BY <2>1, <2>2
<1>7. StaleInv'
  BY <1>0, <1>6 DEF StaleInv, Near
<1>8. QED BY <1>3, <1>4, <1>5, <1>7 DEF IInv

\* A verdict is one of three; a step goes to the first step after the weight
\* the pass knows.
LEMMA DecideFacts ==
    ASSUME NEW target, NEW w, NEW v \in Decide(target, w)
    PROVE  /\ v.kind \in Verdicts
           /\ v.kind = "step" => /\ StepsAfter(target.weight) # {}
                                 /\ v.to = Min(StepsAfter(target.weight))
<1>1. PICK S, m : S = StepsAfter(target.weight) /\ m = Min(S)
  OBVIOUS
<1>2. \/ v = [kind |-> "roll-back", to |-> 0]
      \/ S # {} /\ v = [kind |-> "step", to |-> m]
      \/ v = [kind |-> "promote", to |-> target.weight]
  BY <1>1 DEF Decide
<1>3. QED BY <1>1, <1>2 DEF Verdicts

\* The pass moves past the canary it judges, and may patch it.
LEMMA JudgeStep ==
    ASSUME IInv, NEW c \in Canaries, Judge(c)
    PROVE  IInv'
<1>0. /\ c \in todo /\ patch = NoPatch
      /\ todo' = todo \ {c}
      /\ UNCHANGED <<obj, chan, targets, edits, heard, edited, finished>>
  BY DEF Judge, Current, cluster, plane
<1>1. CASE patch' = patch
  BY <1>0, <1>1, QuietStep
<1>2. CASE patch' # patch
  <2>1. PICK v \in Decide(targets[c], win[c]) : patch' = [canary |-> c, verdict |-> v]
    BY <1>2 DEF Judge
  <2>2. patch'.canary = c /\ patch'.verdict = v
    BY <2>1
  <2>3. /\ v.kind \in Verdicts
        /\ v.kind = "step" => /\ StepsAfter(targets[c].weight) # {}
                              /\ v.to = Min(StepsAfter(targets[c].weight))
    BY DecideFacts
  <2>4. ShapeInv'
    BY <1>0, <2>2, <2>3 DEF IInv, ShapeInv
  <2>5. PassInv'
    BY <1>0, <2>2 DEF PassInv
  <2>6. HeardInv'
    BY <1>0, <2>2 DEF IInv, HeardInv
  <2>7. ASSUME c \notin edited, obj[c].status = "none", v.kind = "step"
        PROVE  /\ Near(obj[c].weight, v.to)
               /\ chan # NoConfig => Near(chan[c].weight, v.to)
    <3>1. /\ Near(targets[c].weight, obj[c].weight)
          /\ chan # NoConfig => chan[c].weight \in {targets[c].weight, obj[c].weight}
      BY <1>0, <2>7 DEF IInv, StaleInv
    <3>2. obj[c].weight = targets[c].weight \/ obj[c].weight = v.to
      BY <2>3, <2>7, <3>1 DEF Near
    <3>3. Near(targets[c].weight, v.to) /\ Near(v.to, v.to)
      BY <2>3, <2>7 DEF Near
    <3>4. QED BY <3>1, <3>2, <3>3
  <2>8. StaleInv'
    <3> SUFFICES ASSUME NEW d \in Canaries \ edited, obj[d].status = "none"
                 PROVE  /\ chan # NoConfig => Near(chan[d].weight, obj[d].weight)
                        /\ d \in todo' =>
                              /\ Near(targets[d].weight, obj[d].weight)
                              /\ chan # NoConfig =>
                                    chan[d].weight \in {targets[d].weight, obj[d].weight}
                        /\ c = d /\ v.kind = "step" =>
                              /\ Near(obj[d].weight, v.to)
                              /\ chan # NoConfig => Near(chan[d].weight, v.to)
      BY <1>0, <2>2 DEF StaleInv, Near
    <3>1. QED BY <1>0, <2>7 DEF IInv, StaleInv
  <2>9. QED BY <2>4, <2>5, <2>6, <2>8 DEF IInv
<1>3. QED BY <1>1, <1>2

(* How a patch ends for the loop: it hears nothing of it, it hears that it *)
(* landed, or it forgets everything it knew.                               *)
HearsNothing == UNCHANGED <<chan, targets, todo, finished, heard>>
HearsLanded ==
    /\ patch # NoPatch /\ obj' = Patched
    /\ finished' = FinishedBy
    /\ heard' = IF patch.verdict.kind = "roll-back" THEN heard \cup {patch.canary} ELSE heard
    /\ UNCHANGED <<chan, targets, todo>>
Forgets == chan' = NoConfig /\ todo' = {} /\ UNCHANGED heard

\* However a patch ends, and whether it landed or not, the invariant holds.
LEMMA EndedStep ==
    ASSUME IInv, obj' = obj \/ (patch # NoPatch /\ obj' = Patched),
           patch' = NoPatch, UNCHANGED <<edits, edited>>,
           HearsNothing \/ HearsLanded \/ Forgets
    PROVE  IInv'
<1>0. /\ chan' \in {chan, NoConfig}
      /\ todo' \in {todo, {}}
      /\ todo' = {} \/ UNCHANGED <<chan, targets>>
  BY DEF HearsNothing, HearsLanded, Forgets
<1>1. /\ DOMAIN obj' = Canaries
      /\ \A c \in Canaries : DOMAIN obj'[c] = Fields
      /\ \A c \in Canaries : obj'[c] = obj[c] \/ (patch # NoPatch /\ c = patch.canary)
  BY PatchedFacts DEF IInv, ShapeInv
<1>2. \A c \in heard' : c \in heard \/ (patch # NoPatch /\ c = patch.canary /\ obj'[c] = RolledBack
                                       /\ c \in finished')
  BY PatchedFacts DEF FinishedBy, IInv, HearsNothing, HearsLanded, Forgets
<1>3. \A c \in heard : chan' = NoConfig \/ c \notin finished \/ c \in finished'
  BY DEF FinishedBy, HearsNothing, HearsLanded, Forgets
<1>4. ShapeInv'
  BY <1>0, <1>1, <1>2 DEF IInv, ShapeInv
<1>5. PassInv'
  BY DEF PassInv
<1>6. HeardInv'
  BY <1>0, <1>1, <1>2, <1>3 DEF IInv, HeardInv, ShapeInv, PassInv
<1>7. StaleInv'
  <2> SUFFICES ASSUME NEW c \in Canaries \ edited, obj'[c].status = "none"
               PROVE  /\ chan' # NoConfig => Near(chan'[c].weight, obj'[c].weight)
                      /\ c \in todo' =>
                            /\ Near(targets'[c].weight, obj'[c].weight)
                            /\ chan' # NoConfig =>
                                  chan'[c].weight \in {targets'[c].weight, obj'[c].weight}
    BY DEF StaleInv, Near
  <2>1. CASE obj'[c] = obj[c]
    BY <1>0, <2>1 DEF IInv, StaleInv
  <2>2. CASE obj'[c] # obj[c]
    <3>1. obj' = Patched /\ patch # NoPatch /\ c = patch.canary
      BY <1>1, <2>2
    <3>2. c \notin todo'
      BY <1>0, <3>1 DEF IInv, PassInv
    <3>3. patch.verdict.kind \in Verdicts
      BY <3>1 DEF IInv, ShapeInv
    <3>4. CASE patch.verdict.kind = "step"
      <4>1. obj'[c].weight = patch.verdict.to /\ obj[c].status = "none"
        BY <3>1, <3>4, PatchedFacts DEF IInv
      <4>2. chan # NoConfig => Near(chan[c].weight, obj'[c].weight)
        BY <3>1, <3>4, <4>1 DEF IInv, StaleInv
      <4>3. QED BY <1>0, <3>2, <4>2
    <3>5. CASE patch.verdict.kind # "step"
      <4>1. obj'[c].status # "none"
        BY <3>1, <3>3, <3>5, PatchedFacts DEF IInv, Verdicts, RolledBack
      <4>2. QED BY <4>1
    <3>6. QED BY <3>4, <3>5
  <2>3. QED BY <2>1, <2>2
<1>8. QED BY <1>4, <1>5, <1>6, <1>7 DEF IInv

-----------------------------------------------------------------------------
(* The steps together.                                                     *)

\* The steps of the control plane, of the traffic and of time, and the
\* readings that decide nothing.
Quiet ==
    \/ Record \/ Unpin \/ \E i \in 1..Len(ring) : Pin(i)
    \/ \E c \in Canaries : \/ \E bad \in BOOLEAN : ServeCanary(c, bad)
                           \/ ServeStable(c) \/ Elapse(c) \/ Unread(c) \/ Baseline(c)

LEMMA QuietFacts ==
    ASSUME Quiet
    PROVE  /\ todo' \subseteq todo
           /\ UNCHANGED <<obj, chan, targets, patch, edits, heard, edited, finished>>
<1>1. CASE Record \/ Unpin \/ \E i \in 1..Len(ring) : Pin(i)
  BY <1>1 DEF Record, Unpin, Pin, cluster, loop
<1>2. ASSUME NEW c \in Canaries, \E bad \in BOOLEAN : ServeCanary(c, bad)
      PROVE  /\ todo' \subseteq todo
             /\ UNCHANGED <<obj, chan, targets, patch, edits, heard, edited, finished>>
  BY <1>2 DEF ServeCanary, cluster, plane, loop
<1>3. ASSUME NEW c \in Canaries, ServeStable(c) \/ Elapse(c)
      PROVE  /\ todo' \subseteq todo
             /\ UNCHANGED <<obj, chan, targets, patch, edits, heard, edited, finished>>
  BY <1>3 DEF ServeStable, Elapse, cluster, plane, loop
<1>4. ASSUME NEW c \in Canaries, Unread(c) \/ Baseline(c)
      PROVE  /\ todo' \subseteq todo
             /\ UNCHANGED <<obj, chan, targets, patch, edits, heard, edited, finished>>
  BY <1>4 DEF Unread, Baseline, cluster, plane
<1>5. QED BY <1>1, <1>2, <1>3, <1>4 DEF Quiet

Edited == \E c \in Canaries : (\E w \in StartWeights : Rearm(c, w)) \/ Disarm(c)

\* Every step is of one of these kinds.
LEMMA Kinds ==
    ASSUME Next
    PROVE  \/ Quiet \/ Compile \/ Edited \/ StartPass \/ \E c \in Canaries : Judge(c)
           \/ PatchOk \/ PatchRefused \/ PatchLost \/ Restart
BY DEF Next, Evaluate, Quiet, Edited

LEMMA PatchEnds ==
    ASSUME PatchOk \/ PatchRefused \/ PatchLost \/ Restart
    PROVE  /\ obj' = obj \/ (patch # NoPatch /\ obj' = Patched)
           /\ patch' = NoPatch /\ UNCHANGED <<edits, edited>>
           /\ HearsNothing \/ HearsLanded \/ Forgets
<1>1. CASE PatchOk
  BY <1>1 DEF PatchOk, HearsLanded, plane
<1>2. CASE PatchRefused \/ PatchLost
  BY <1>2 DEF PatchRefused, PatchLost, PatchFails, HearsNothing, plane, loop
<1>3. CASE Restart
  BY <1>3 DEF Restart, Forgets
<1>4. QED BY <1>1, <1>2, <1>3

LEMMA NextInductive ==
    ASSUME IInv, [Next]_vars
    PROVE  IInv'
<1>1. CASE Quiet
  BY <1>1, QuietFacts, QuietStep
<1>2. CASE Compile
  BY <1>2, CompileStep
<1>3. CASE Edited
  <2>1. PICK c \in Canaries : (\E w \in StartWeights : Rearm(c, w)) \/ Disarm(c)
    BY <1>3 DEF Edited
  <2>2. CASE \E w \in StartWeights : Rearm(c, w)
    <3>1. PICK w \in StartWeights : Edit(c, [weight |-> w, armed |-> TRUE, status |-> "none"])
      BY <2>2 DEF Rearm
    <3>2. DOMAIN [weight |-> w, armed |-> TRUE, status |-> "none"] = Fields
      BY DEF Fields
    <3>3. QED BY <3>1, <3>2, EditStep
  <2>3. CASE Disarm(c)
    <3>1. DOMAIN [obj[c] EXCEPT !.armed = FALSE] = Fields
      BY DEF IInv, ShapeInv
    <3>2. QED BY <2>3, <3>1, EditStep DEF Disarm
  <2>4. QED BY <2>1, <2>2, <2>3
<1>4. CASE StartPass
  BY <1>4, StartStep
<1>5. CASE \E c \in Canaries : Judge(c)
  BY <1>5, JudgeStep
<1>6. CASE PatchOk \/ PatchRefused \/ PatchLost \/ Restart
  BY <1>6, PatchEnds, EndedStep
<1>7. CASE UNCHANGED vars
  BY <1>7, QuietStep DEF vars, cluster, plane, loop
<1>8. QED BY <1>1, <1>2, <1>3, <1>4, <1>5, <1>6, <1>7, Kinds

(***************************************************************************)
(* The invariant of the loop: what is stale is at most one step behind,    *)
(* and a canary whose rollback was answered is out of reach.               *)
(***************************************************************************)
THEOREM Inductive == Spec => []IInv
<1>1. QED BY InitInductive, NextInductive, PTL DEF Spec

\* The cluster's objects change only by an operator's edit, which is counted and
\* takes the canary out of heard, or by the patch in flight.
LEMMA Changes ==
    ASSUME IInv, [Next]_vars, NEW c \in Canaries, obj'[c] # obj[c]
    PROVE  \/ c \notin heard' /\ edits' # edits
           \/ patch # NoPatch /\ obj' = Patched /\ c = patch.canary
<1>1. CASE Quiet \/ Compile \/ StartPass \/ (\E d \in Canaries : Judge(d)) \/ UNCHANGED vars
  <2>1. obj' = obj
    BY <1>1, QuietFacts DEF Compile, StartPass, Judge, vars, cluster
  <2>2. QED BY <2>1
<1>2. CASE Edited
  <2>1. PICK d, ingress : d \in Canaries /\ Edit(d, ingress)
    BY <1>2 DEF Edited, Rearm, Disarm
  <2>2. d = c
    BY <2>1 DEF Edit, IInv, ShapeInv
  <2>3. QED BY <2>1, <2>2 DEF Edit, IInv, ShapeInv
<1>3. CASE PatchOk \/ PatchRefused \/ PatchLost \/ Restart
  BY <1>3, PatchEnds, PatchedFacts DEF IInv
<1>4. QED BY <1>1, <1>2, <1>3, Kinds

(***************************************************************************)
(* A rollback whose answer arrived is final: nothing but an operator's     *)
(* edit raises the canary's weight again, whatever configuration the loop  *)
(* still works from and however often the process restarts.                *)
(***************************************************************************)
THEOREM Sticks == Spec => HeardRollbackSticks
<1>1. ASSUME IInv, [Next]_vars, NEW c \in heard, obj'[c].weight > obj[c].weight
      PROVE  c \notin heard'
  <2>1. c \in Canaries /\ (patch # NoPatch => patch.canary # c) /\ obj[c] = RolledBack
    BY <1>1 DEF IInv, ShapeInv, HeardInv
  <2>2. obj[c].weight = 0
    BY <2>1 DEF RolledBack
  <2>3. obj'[c] # obj[c]
    BY <1>1, <2>2
  <2>4. QED BY <1>1, <2>1, <2>3, Changes
<1>2. IInv /\ [Next]_vars =>
         [\A c \in heard : obj'[c].weight > obj[c].weight => c \notin heard']_vars
  BY <1>1
<1>3. QED BY <1>2, Inductive, PTL DEF Spec, HeardRollbackSticks

(***************************************************************************)
(* The loop moves an unfinished canary one step at a time, or takes it out *)
(* altogether, however stale what it decides from.                         *)
(***************************************************************************)
THEOREM Stepwise == Spec => WeightsFollowSteps
<1>1. ASSUME IInv, [Next]_vars, NEW c \in Canaries \ edited, obj[c].status = "none",
             obj'[c].weight # obj[c].weight, edits = edits'
      PROVE  \/ /\ StepsAfter(obj[c].weight) # {}
                /\ obj'[c].weight = Min(StepsAfter(obj[c].weight))
             \/ obj'[c] = RolledBack
  <2>1. patch # NoPatch /\ obj' = Patched /\ c = patch.canary
    BY <1>1, Changes
  <2>2. patch.verdict.kind \in Verdicts
    BY <1>1, <2>1 DEF IInv, ShapeInv
  <2>3. CASE patch.verdict.kind = "step"
    <3>1. obj'[c].weight = patch.verdict.to
      BY <1>1, <2>1, <2>3, PatchedFacts DEF IInv
    <3>2. Near(obj[c].weight, patch.verdict.to)
      BY <1>1, <2>1, <2>3 DEF IInv, StaleInv
    <3>3. QED BY <1>1, <3>1, <3>2 DEF Near
  <2>4. CASE patch.verdict.kind = "promote"
    BY <1>1, <2>1, <2>4, PatchedFacts DEF IInv
  <2>5. CASE patch.verdict.kind = "roll-back"
    BY <1>1, <2>1, <2>5, PatchedFacts DEF IInv
  <2>6. QED BY <2>2, <2>3, <2>4, <2>5 DEF Verdicts
<1>2. IInv /\ [Next]_vars =>
         [\A c \in Canaries \ edited :
             obj[c].status = "none" /\ obj'[c].weight # obj[c].weight /\ edits = edits' =>
                 \/ StepsAfter(obj[c].weight) # {} /\ obj'[c].weight = Min(StepsAfter(obj[c].weight))
                 \/ obj'[c] = RolledBack]_vars
  BY <1>1
<1>3. QED BY <1>2, Inductive, PTL DEF Spec, WeightsFollowSteps
=============================================================================
