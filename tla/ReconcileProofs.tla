-------------------------- MODULE ReconcileProofs ---------------------------
(***************************************************************************)
(* What Reconcile guarantees for every set of Ingresses and of other       *)
(* kinds, and any number of edits, faults and restarts.                    *)
(*                                                                         *)
(* That a replica earns its generations is shown by a potential: each edit *)
(* makes at most one object of the mirror lag behind the API server, each  *)
(* delivery that ends a lag may make one rebuild due, and each generation  *)
(* is one rebuild that was due.                                            *)
(***************************************************************************)
EXTENDS Reconcile, FiniteSetTheorems, TLAPS

\* Whether two states of an Ingress translate alike.  The annotation and the
\* status are not in it.
Counts(o) == o # None /\ o.ours
Same(o, p) == (Counts(o) <=> Counts(p)) /\ (Counts(o) => o.spec = p.spec)

\* The objects of listed kinds whose latest edit has not reached the mirror.
LagIngress == {i \in Ingresses : "Ingress" \in listed /\ ~Same(mirror.ing[i], ingress[i])}
LagOther == {k \in OtherKinds : k \in listed /\ mirror.other[k] # other[k]}

\* A rebuild would publish.
Due == IF mem.content = Content(mirror) THEN 0 ELSE 1

\* The loop's records have the fields they are given.
MemOK(m) ==
    /\ m \in [gen : Nat, content : {m.content}, applied : {m.applied},
             annotated : {m.annotated}, emitted : {m.emitted}]
    /\ IsPartial(m.applied, Addresses)
    /\ IsPartial(m.annotated, Nat)
    /\ IsPartial(m.emitted, Specs)

WorkOK(w) ==
    w \in [todo : SUBSET Ingresses, stale : SUBSET Ingresses, observed : {w.observed},
          address : Address, now : Ingresses \cup {None}]

LoopInv ==
    /\ MemOK(mem) /\ WorkOK(work)
    /\ pc = "annotate" => work.now \in Ingresses

\* Unless a rebuild is on its way, the last one saw what the mirror holds.
FreshInv ==
    pc \notin {"waiting", "rebuild", "window"} /\ ~dirty =>
        mem.content = Content(mirror) /\ mem.emitted = Refusals(mirror)

\* A kind that has been listed is in the mirror, and nothing is built before
\* every kind is.
ListedInv ==
    /\ \A k \in OtherKinds : k \in listed => mirror.other[k] # None
    /\ pc # "waiting" => listed = Kinds
    /\ mem.gen > 0 => listed = Kinds

\* The potential.
LagInv ==
    /\ IsFiniteSet(LagIngress) /\ IsFiniteSet(LagOther)
    /\ Cardinality(LagIngress) + Cardinality(LagOther) <= edits
    /\ mem.gen > 0 =>
          mem.gen + Cardinality(LagIngress) + Cardinality(LagOther) + Due <= 1 + edits

IInv ==
    /\ TypeOK
    /\ LoopInv
    /\ FreshInv
    /\ ListedInv
    /\ LagInv

-----------------------------------------------------------------------------
(* Finite sets.                                                            *)

\* At most one more element.
LEMMA OneMore ==
    ASSUME NEW S, IsFiniteSet(S), NEW x, NEW T, T \subseteq S \cup {x}
    PROVE  IsFiniteSet(T) /\ Cardinality(T) <= Cardinality(S) + 1
<1>1. /\ IsFiniteSet(S \cup {x}) /\ Cardinality(S) \in Nat
      /\ Cardinality(S \cup {x}) <= Cardinality(S) + 1
  <2>1. CASE x \in S
    <3>1. S \cup {x} = S
      BY <2>1
    <3>2. Cardinality(S) \in Nat /\ Cardinality(S) <= Cardinality(S) + 1
      BY FS_CardinalityType
    <3>3. QED BY <3>1, <3>2
  <2>2. CASE x \notin S
    BY <2>2, FS_AddElement, FS_CardinalityType
  <2>3. QED BY <2>1, <2>2
<1>2. IsFiniteSet(T) /\ Cardinality(T) <= Cardinality(S \cup {x}) /\ Cardinality(T) \in Nat
  BY <1>1, FS_Subset, FS_CardinalityType
<1>3. Cardinality(S \cup {x}) \in Nat
  BY <1>1, FS_CardinalityType
<1>4. QED BY <1>1, <1>2, <1>3

\* At least one fewer.
LEMMA OneFewer ==
    ASSUME NEW S, IsFiniteSet(S), NEW x \in S, NEW T, T \subseteq S \ {x}
    PROVE  IsFiniteSet(T) /\ Cardinality(T) + 1 <= Cardinality(S)
<1>1. IsFiniteSet(S \ {x}) /\ Cardinality(S \ {x}) = Cardinality(S) - 1
  BY FS_RemoveElement
<1>2. IsFiniteSet(T) /\ Cardinality(T) <= Cardinality(S \ {x})
  BY <1>1, FS_Subset
<1>3. Cardinality(S) \in Nat /\ Cardinality(T) \in Nat
  BY <1>2, FS_CardinalityType
<1>4. QED BY <1>1, <1>2, <1>3

\* No more.
LEMMA NoMore ==
    ASSUME NEW S, IsFiniteSet(S), NEW T, T \subseteq S
    PROVE  /\ IsFiniteSet(T) /\ Cardinality(T) <= Cardinality(S)
           /\ Cardinality(T) \in Nat /\ Cardinality(S) \in Nat
BY FS_Subset, FS_CardinalityType

-----------------------------------------------------------------------------
(* What a rebuild depends on.                                              *)

\* Two mirrors whose Ingresses translate alike have the same content, and the
\* same refusals.
LEMMA SameContent ==
    ASSUME NEW m, NEW n, \A i \in Ingresses : Same(m.ing[i], n.ing[i]), m.other = n.other
    PROVE  Content(m) = Content(n) /\ Refusals(m) = Refusals(n)
<1>1. Managed(m) = Managed(n) /\ \A i \in Managed(m) : m.ing[i].spec = n.ing[i].spec
  BY DEF Managed, Present, Same, Counts
<1>2. [i \in Managed(m) |-> m.ing[i].spec] = [i \in Managed(n) |-> n.ing[i].spec]
  BY <1>1
<1>3. {j \in Managed(m) : m.ing[j].spec \in Refused} = {j \in Managed(n) : n.ing[j].spec \in Refused}
  BY <1>1
<1>4. Refusals(m) = Refusals(n)
  BY <1>1, <1>3 DEF Refusals
<1>5. QED BY <1>2, <1>4 DEF Content

\* WarningEvents::sync ends with exactly what is wrong now.
LEMMA EmittedIsRefusals ==
    ASSUME NEW e, NEW m, DOMAIN e \subseteq Ingresses
    PROVE  Emitted(e, m) = Refusals(m)
<1>1. DOMAIN Drop(e, Ingresses \ DOMAIN Refusals(m)) \subseteq DOMAIN Refusals(m)
  BY DEF Drop
<1>2. QED BY <1>1 DEF Emitted, Refusals

\* What is wrong is said of Ingresses, in their own words.
LEMMA RefusalsPartial ==
    ASSUME NEW m, \A i \in Ingresses : m.ing[i] \in Object \cup {None}
    PROVE  IsPartial(Refusals(m), Specs)
BY DEF Refusals, IsPartial, Managed, Present, Object

\* The maps of the status writer stay partial maps.
LEMMA MapsPartial ==
    ASSUME NEW f, NEW S, IsPartial(f, S)
    PROVE  /\ \A D : IsPartial(Drop(f, D), S)
           /\ \A i \in Ingresses, x \in S : IsPartial(Put(f, i, x), S)
BY DEF IsPartial, Drop, Put

\* The empty map is one.
LEMMA EmptyPartial == \A S : IsPartial(EmptyMap, S)
BY DEF IsPartial, EmptyMap

\* The records a replica starts with.
LEMMA FreshRecords == MemOK(FreshMem) /\ WorkOK(NoWork)
<1>1. MemOK(FreshMem)
  BY EmptyPartial DEF MemOK, FreshMem
<1>2. WorkOK(NoWork)
  BY DEF WorkOK, NoWork, Address
<1>3. QED BY <1>1, <1>2

\* The status pass up to its next call.
LEMMA Onward ==
    ASSUME NEW w, NEW m, WorkOK(w), MemOK(m), Go(w, m)
    PROVE  /\ mem' = m /\ WorkOK(work')
           /\ pc' \in {"annotate", "clear", "write", "idle"}
           /\ pc' = "annotate" => work'.now \in Ingresses
<1> DEFINE calls == {i \in w.todo : \/ NeedsAddress(i, w, m)
                                   \/ NeedsAnnotation(i, m.gen, w.observed, m.annotated)}
           next == [w EXCEPT !.todo = calls, !.now = None]
<1>1. WorkOK(next)
  <2>1. calls \in SUBSET Ingresses
    BY DEF WorkOK
  <2> HIDE DEF calls
  <2>2. next \in [todo : SUBSET Ingresses, stale : SUBSET Ingresses, observed : {w.observed},
                 address : Address, now : Ingresses \cup {None}]
    BY <2>1 DEF WorkOK
  <2>3. next.observed = w.observed
    BY <2>2
  <2> HIDE DEF next
  <2>4. QED BY <2>2, <2>3 DEF WorkOK
<1>2. CASE w.now # None /\ NeedsAnnotation(w.now, m.gen, w.observed, m.annotated)
  BY <1>2 DEF Go, Until, WorkOK
<1>3. CASE ~(w.now # None /\ NeedsAnnotation(w.now, m.gen, w.observed, m.annotated))
  <2>1. /\ mem' = m
        /\ \/ pc' = "clear" /\ work' = w
           \/ pc' = "idle" /\ work' = NoWork
           \/ pc' = "write" /\ work' = next
    BY <1>3 DEF Go, Until
  <2> HIDE DEF next
  <2>2. QED BY <1>1, <2>1, FreshRecords
<1>4. QED BY <1>2, <1>3

-----------------------------------------------------------------------------
(* Steps that make no object lag and publish nothing.                      *)

PCs == {"waiting", "rebuild", "address", "clear", "write", "annotate", "idle", "window"}

\* Nothing falls behind and nothing becomes due.
LEMMA LagKept ==
    ASSUME IInv, LagIngress' \subseteq LagIngress, LagOther' \subseteq LagOther,
           edits' = edits, mem'.gen = mem.gen,
           mem.content = Content(mirror) => mem'.content = Content(mirror')
    PROVE  LagInv'
<1>1. edits \in Nat /\ mem.gen \in Nat
  BY ReconcileBounds DEF IInv, TypeOK
<1>2. /\ IsFiniteSet(LagIngress') /\ Cardinality(LagIngress') <= Cardinality(LagIngress)
      /\ Cardinality(LagIngress') \in Nat /\ Cardinality(LagIngress) \in Nat
  BY NoMore DEF IInv, LagInv
<1>3. /\ IsFiniteSet(LagOther') /\ Cardinality(LagOther') <= Cardinality(LagOther)
      /\ Cardinality(LagOther') \in Nat /\ Cardinality(LagOther) \in Nat
  BY NoMore DEF IInv, LagInv
<1>4. Due' <= Due /\ Due \in 0..1 /\ Due' \in 0..1
  BY DEF Due
<1>5. Cardinality(LagIngress') + Cardinality(LagOther') <= edits
  BY <1>1, <1>2, <1>3 DEF IInv, LagInv
<1>6. mem'.gen > 0 =>
        mem'.gen + Cardinality(LagIngress') + Cardinality(LagOther') + Due' <= 1 + edits
  BY <1>1, <1>2, <1>3, <1>4 DEF IInv, LagInv
<1>7. QED BY <1>2, <1>3, <1>5, <1>6 DEF LagInv

\* Writing the status or the annotation of an Ingress, by either replica, and
\* going on in the pass.
LEMMA PassKeeps ==
    ASSUME IInv, UNCHANGED <<other, watches, signals, edits, deleted>>,
           patched' \subseteq Ingresses, faults' \in 0..MaxFaults,
           ingress' \in [Ingresses -> Object \cup {None}],
           \A i \in Ingresses : Same(ingress[i], ingress'[i]),
           MemOK(mem'), WorkOK(work'),
           mem'.gen = mem.gen, mem'.content = mem.content, mem'.emitted = mem.emitted,
           pc' \in PCs, pc' = "annotate" => work'.now \in Ingresses,
           pc' = pc \/ pc \in {"address", "clear", "write", "annotate"}
    PROVE  IInv'
<1>1. TypeOK'
  BY DEF IInv, TypeOK, watches, signals, MemOK, WorkOK, PCs
<1>2. LoopInv'
  BY DEF LoopInv
<1>3. FreshInv'
  BY DEF IInv, FreshInv, watches, signals
<1>4. ListedInv'
  BY DEF IInv, ListedInv, watches
<1>5. LagIngress' \subseteq LagIngress
  BY DEF LagIngress, Same, watches
<1>6. LagOther' \subseteq LagOther
  BY DEF LagOther, watches
<1>7. LagInv'
  BY <1>5, <1>6, LagKept DEF watches
<1>8. QED BY <1>1, <1>2, <1>3, <1>4, <1>7 DEF IInv

\* An object of an Ingress with another address or annotation is one, and
\* translates alike.
LEMMA NoteSame ==
    ASSUME IInv, NEW i \in Ingresses, ingress[i] # None,
           NEW o \in Object, o.spec = ingress[i].spec, o.ours = ingress[i].ours,
           ingress' = [ingress EXCEPT ![i] = o]
    PROVE  /\ ingress' \in [Ingresses -> Object \cup {None}]
           /\ \A j \in Ingresses : Same(ingress[j], ingress'[j])
BY ReconcileObjects DEF IInv, TypeOK, Same, Counts

\* A failed call is within its bound.
LEMMA FaultBound ==
    ASSUME IInv, Fault \/ Working
    PROVE  faults' \in 0..MaxFaults
BY ReconcileBounds DEF IInv, TypeOK, Fault, Working

\* The other replica annotates an Ingress.
LEMMA NeighbourKeeps ==
    ASSUME IInv, NEW i \in Ingresses, NeighbourAnnotates(i)
    PROVE  IInv'
<1> DEFINE o == [ingress[i] EXCEPT !.note = Neighbour]
<1>1. ingress \in [Ingresses -> Object \cup {None}] /\ ingress[i] \in Object
  BY DEF IInv, TypeOK, NeighbourAnnotates
<1>2. o \in Object /\ o.spec = ingress[i].spec /\ o.ours = ingress[i].ours
  <2>1. Neighbour \in Nat \cup {None}
    BY ReconcileNames
  <2>2. QED BY <1>1, <2>1 DEF Object
<1>3. ingress' = [ingress EXCEPT ![i] = o]
  BY <1>1 DEF NeighbourAnnotates, Patched
<1> HIDE DEF o
<1>4. /\ ingress' \in [Ingresses -> Object \cup {None}]
      /\ \A j \in Ingresses : Same(ingress[j], ingress'[j])
  BY <1>2, <1>3, NoteSame DEF NeighbourAnnotates
<1>5. QED
  BY <1>4, PassKeeps
  DEF NeighbourAnnotates, IInv, TypeOK, LoopInv, loop, bounds, PCs

\* sync() has read the address.
LEMMA ReadAddressKeeps ==
    ASSUME IInv, ReadAddress
    PROVE  IInv'
<1>1. PICK ok \in BOOLEAN :
        /\ IF ok THEN Working ELSE Fault
        /\ Go([work EXCEPT !.address = AddressFrom(ok), !.stale = DOMAIN mem.applied \ work.todo],
              [mem EXCEPT !.annotated = Drop(@, Ingresses \ work.todo)])
  BY DEF ReadAddress
<1> DEFINE w == [work EXCEPT !.address = AddressFrom(ok), !.stale = DOMAIN mem.applied \ work.todo]
           m == [mem EXCEPT !.annotated = Drop(@, Ingresses \ work.todo)]
<1>2. WorkOK(w)
  <2>1. AddressFrom(ok) \in Address /\ DOMAIN mem.applied \ work.todo \in SUBSET Ingresses
    BY ReconcileNames DEF AddressFrom, Address, IInv, LoopInv, MemOK, IsPartial
  <2>2. QED BY <2>1 DEF IInv, LoopInv, WorkOK
<1>3. MemOK(m) /\ m.gen = mem.gen /\ m.content = mem.content /\ m.emitted = mem.emitted
  <2>1. IsPartial(Drop(mem.annotated, Ingresses \ work.todo), Nat)
    BY MapsPartial DEF IInv, LoopInv, MemOK
  <2>2. QED BY <2>1 DEF IInv, LoopInv, MemOK
<1> HIDE DEF w, m
<1>4. Go(w, m) /\ faults' \in 0..MaxFaults
  BY <1>1, FaultBound DEF w, m
<1>5. /\ mem' = m /\ WorkOK(work') /\ pc' \in {"annotate", "clear", "write", "idle"}
      /\ pc' = "annotate" => work'.now \in Ingresses
  BY <1>2, <1>3, <1>4, Onward
<1>6. \A j \in Ingresses : Same(ingress[j], ingress'[j])
  BY DEF ReadAddress, server, Same
<1>7. QED
  BY <1>3, <1>4, <1>5, <1>6, PassKeeps DEF ReadAddress, IInv, TypeOK, server, Budgets, PCs

\* An API call of the pass: it changes the object it is about, or nothing.
LEMMA CallKeeps ==
    ASSUME IInv, NEW w, NEW m, WorkOK(w), MemOK(m), Go(w, m),
           m.gen = mem.gen, m.content = mem.content, m.emitted = mem.emitted,
           pc \in {"clear", "write", "annotate"}, faults' \in 0..MaxFaults,
           NEW i \in Ingresses,
           \/ UNCHANGED ingress
           \/ /\ ingress[i] # None
              /\ \E a \in Address : ingress' = [ingress EXCEPT ![i].addr = a]
           \/ /\ ingress[i] # None
              /\ \E n \in Nat : ingress' = [ingress EXCEPT ![i].note = n],
           Budgets, UNCHANGED <<other, patched, watches, signals>>
    PROVE  IInv'
<1>1. /\ mem' = m /\ WorkOK(work') /\ pc' \in {"annotate", "clear", "write", "idle"}
      /\ pc' = "annotate" => work'.now \in Ingresses
  BY Onward
<1>2. ingress \in [Ingresses -> Object \cup {None}]
  BY DEF IInv, TypeOK
<1> DEFINE TranslatesAlike ==
             /\ ingress' \in [Ingresses -> Object \cup {None}]
             /\ \A j \in Ingresses : Same(ingress[j], ingress'[j])
<1>3. TranslatesAlike
  <2>1. CASE UNCHANGED ingress
    BY <1>2, <2>1 DEF Same
  <2>2. ASSUME ingress[i] # None, NEW a \in Address, ingress' = [ingress EXCEPT ![i].addr = a]
        PROVE  TranslatesAlike
    <3> DEFINE o == [ingress[i] EXCEPT !.addr = a]
    <3>1. o \in Object /\ o.spec = ingress[i].spec /\ o.ours = ingress[i].ours
      BY <1>2, <2>2 DEF Object
    <3>2. ingress' = [ingress EXCEPT ![i] = o]
      BY <1>2, <2>2
    <3> HIDE DEF o
    <3>3. QED BY <2>2, <3>1, <3>2, NoteSame
  <2>3. ASSUME ingress[i] # None, NEW n \in Nat, ingress' = [ingress EXCEPT ![i].note = n]
        PROVE  TranslatesAlike
    <3> DEFINE o == [ingress[i] EXCEPT !.note = n]
    <3>1. o \in Object /\ o.spec = ingress[i].spec /\ o.ours = ingress[i].ours
      BY <1>2, <2>3 DEF Object
    <3>2. ingress' = [ingress EXCEPT ![i] = o]
      BY <1>2, <2>3
    <3> HIDE DEF o
    <3>3. QED BY <2>3, <3>1, <3>2, NoteSame
  <2>4. QED BY <2>1, <2>2, <2>3
<1>4. QED
  BY <1>1, <1>3, PassKeeps DEF IInv, TypeOK, Budgets, PCs

\* The status of an Ingress that is no longer ours is cleared.
LEMMA ClearKeeps ==
    ASSUME IInv, NEW i \in Ingresses, Clear(i)
    PROVE  IInv'
<1> DEFINE w == [work EXCEPT !.stale = @ \ {i}]
           dropped == [mem EXCEPT !.applied = Drop(@, {i})]
<1>1. WorkOK(w)
  BY DEF IInv, LoopInv, WorkOK
<1>2. /\ MemOK(dropped) /\ dropped.gen = mem.gen
      /\ dropped.content = mem.content /\ dropped.emitted = mem.emitted
  <2>1. IsPartial(Drop(mem.applied, {i}), Addresses)
    BY MapsPartial DEF IInv, LoopInv, MemOK
  <2>2. QED BY <2>1 DEF IInv, LoopInv, MemOK
<1>3. MemOK(mem)
  BY DEF IInv, LoopInv
<1>4. \/ /\ ingress[i] # None /\ Working
         /\ ingress' = [ingress EXCEPT ![i].addr = None] /\ Go(w, dropped)
      \/ (Fault \/ Working) /\ Go(w, mem) /\ UNCHANGED ingress
  BY DEF Clear, Gone
<1> HIDE DEF w, dropped
<1>5. None \in Address /\ faults' \in 0..MaxFaults
  BY <1>4, FaultBound DEF Address
<1>6. pc = "clear" /\ Budgets /\ UNCHANGED <<other, patched, watches, signals>>
  BY DEF Clear
<1>7. CASE /\ ingress[i] # None /\ ingress' = [ingress EXCEPT ![i].addr = None]
           /\ Go(w, dropped)
  BY <1>1, <1>2, <1>5, <1>6, <1>7, CallKeeps
<1>8. CASE Go(w, mem) /\ UNCHANGED ingress
  BY <1>1, <1>3, <1>5, <1>6, <1>8, CallKeeps
<1>9. QED BY <1>4, <1>7, <1>8

\* The address of an Ingress of ours is written, where it differs.
LEMMA WriteKeeps ==
    ASSUME IInv, NEW i \in Ingresses, Write(i)
    PROVE  IInv'
<1> DEFINE w == [work EXCEPT !.now = i, !.todo = @ \ {i}]
           wrote == [mem EXCEPT !.applied = Put(@, i, work.address)]
<1>1. WorkOK(w)
  BY DEF IInv, LoopInv, WorkOK
<1>2. work.address # None =>
        /\ MemOK(wrote) /\ wrote.gen = mem.gen
        /\ wrote.content = mem.content /\ wrote.emitted = mem.emitted
  <2> SUFFICES ASSUME work.address # None
               PROVE  /\ MemOK(wrote) /\ wrote.gen = mem.gen
                      /\ wrote.content = mem.content /\ wrote.emitted = mem.emitted
    OBVIOUS
  <2>1. IsPartial(Put(mem.applied, i, work.address), Addresses)
    BY MapsPartial DEF IInv, LoopInv, MemOK, WorkOK, Address
  <2>2. QED BY <2>1 DEF IInv, LoopInv, MemOK
<1>3. MemOK(mem) /\ work.address \in Address
  BY DEF IInv, LoopInv, WorkOK
<1>4. \/ /\ ingress[i] # None /\ Working /\ work.address # None
         /\ ingress' = [ingress EXCEPT ![i].addr = work.address] /\ Go(w, wrote)
      \/ (Fault \/ Working) /\ Go(w, mem) /\ UNCHANGED ingress
  BY DEF Write, Gone, NeedsAddress
<1> HIDE DEF w, wrote
<1>5. faults' \in 0..MaxFaults
  BY <1>4, FaultBound
<1>6. pc = "write" /\ Budgets /\ UNCHANGED <<other, patched, watches, signals>>
  BY DEF Write
<1>7. CASE /\ ingress[i] # None /\ work.address # None
           /\ ingress' = [ingress EXCEPT ![i].addr = work.address] /\ Go(w, wrote)
  BY <1>1, <1>2, <1>3, <1>5, <1>6, <1>7, CallKeeps
<1>8. CASE Go(w, mem) /\ UNCHANGED ingress
  BY <1>1, <1>3, <1>5, <1>6, <1>8, CallKeeps
<1>9. QED BY <1>4, <1>7, <1>8

\* An Ingress is annotated with the generation.
LEMMA AnnotateKeeps ==
    ASSUME IInv, Annotate
    PROVE  IInv'
<1>0. PICK i \in Ingresses : i = work.now
  BY DEF Annotate, IInv, LoopInv
<1> DEFINE w == [work EXCEPT !.now = None]
           noted == [mem EXCEPT !.annotated = Put(@, i, mem.gen)]
<1>1. WorkOK(w)
  BY DEF IInv, LoopInv, WorkOK
<1>2. /\ MemOK(noted) /\ noted.gen = mem.gen /\ mem.gen \in Nat
      /\ noted.content = mem.content /\ noted.emitted = mem.emitted
  <2>1. IsPartial(Put(mem.annotated, i, mem.gen), Nat)
    BY MapsPartial DEF IInv, LoopInv, MemOK
  <2>2. QED BY <2>1 DEF IInv, LoopInv, MemOK
<1>3. MemOK(mem)
  BY DEF IInv, LoopInv
<1>4. \/ /\ ingress[i] # None /\ Working
         /\ ingress' = [ingress EXCEPT ![i].note = mem.gen] /\ Go(w, noted)
      \/ (Fault \/ Working) /\ Go(w, mem) /\ UNCHANGED ingress
  BY <1>0 DEF Annotate, Gone, Patched
<1> HIDE DEF w, noted
<1>5. faults' \in 0..MaxFaults
  BY <1>4, FaultBound
<1>6. pc = "annotate" /\ Budgets /\ UNCHANGED <<other, patched, watches, signals>>
  BY DEF Annotate
<1>7. CASE /\ ingress[i] # None
           /\ ingress' = [ingress EXCEPT ![i].note = mem.gen] /\ Go(w, noted)
  BY <1>1, <1>2, <1>5, <1>6, <1>7, CallKeeps
<1>8. CASE Go(w, mem) /\ UNCHANGED ingress
  BY <1>1, <1>3, <1>5, <1>6, <1>8, CallKeeps
<1>9. QED BY <1>4, <1>7, <1>8

-----------------------------------------------------------------------------
(* Users.                                                                  *)

\* An edit makes at most one object lag.
LEMMA EditKeeps ==
    ASSUME IInv, Edit,
           ingress' \in [Ingresses -> Object \cup {None}], other' \in [OtherKinds -> Versions],
           deleted' \in BOOLEAN,
           \/ other' = other /\ \E i \in Ingresses : \A j \in Ingresses \ {i} : ingress'[j] = ingress[j]
           \/ ingress' = ingress /\ \E k \in OtherKinds : \A l \in OtherKinds \ {k} : other'[l] = other[l]
    PROVE  IInv'
<1>1. /\ edits \in Nat /\ edits' = edits + 1 /\ edits' \in 0..MaxEdits /\ mem.gen \in Nat
      /\ UNCHANGED <<patched, mirror, feed, listed, dirty, resynced, pc, mem, work, faults>>
  BY ReconcileBounds DEF Edit, IInv, TypeOK, watches, signals, loop
<1>2. TypeOK'
  BY <1>1 DEF IInv, TypeOK
<1>3. LoopInv' /\ FreshInv' /\ ListedInv'
  BY <1>1 DEF IInv, LoopInv, FreshInv, ListedInv
<1>4. /\ IsFiniteSet(LagIngress) /\ IsFiniteSet(LagOther)
      /\ Cardinality(LagIngress) \in Nat /\ Cardinality(LagOther) \in Nat
  BY FS_CardinalityType DEF IInv, LagInv
<1> DEFINE OneMoreLags ==
             /\ IsFiniteSet(LagIngress') /\ IsFiniteSet(LagOther')
             /\ Cardinality(LagIngress') + Cardinality(LagOther')
                   <= Cardinality(LagIngress) + Cardinality(LagOther) + 1
             /\ Cardinality(LagIngress') \in Nat /\ Cardinality(LagOther') \in Nat
<1>5. OneMoreLags
  <2>1. ASSUME other' = other, NEW i \in Ingresses,
               \A j \in Ingresses \ {i} : ingress'[j] = ingress[j]
        PROVE  OneMoreLags
    <3>1. LagIngress' \subseteq LagIngress \cup {i}
      BY <1>1, <2>1 DEF LagIngress
    <3>2. LagOther' = LagOther
      BY <1>1, <2>1 DEF LagOther
    <3>3. IsFiniteSet(LagIngress') /\ Cardinality(LagIngress') <= Cardinality(LagIngress) + 1
      BY <1>4, <3>1, OneMore
    <3>4. QED BY <1>4, <3>2, <3>3, FS_CardinalityType
  <2>2. ASSUME ingress' = ingress, NEW k \in OtherKinds,
               \A l \in OtherKinds \ {k} : other'[l] = other[l]
        PROVE  OneMoreLags
    <3>1. LagOther' \subseteq LagOther \cup {k}
      BY <1>1, <2>2 DEF LagOther
    <3>2. LagIngress' = LagIngress
      BY <1>1, <2>2 DEF LagIngress
    <3>3. IsFiniteSet(LagOther') /\ Cardinality(LagOther') <= Cardinality(LagOther) + 1
      BY <1>4, <3>1, OneMore
    <3>4. QED BY <1>4, <3>2, <3>3, FS_CardinalityType
  <2>3. QED BY <2>1, <2>2
<1>6. Due' = Due /\ Due \in 0..1
  BY <1>1 DEF Due
<1>7. LagInv'
  <2>1. Cardinality(LagIngress') + Cardinality(LagOther') <= edits'
    BY <1>1, <1>4, <1>5 DEF IInv, LagInv
  <2>2. mem'.gen > 0 =>
          mem'.gen + Cardinality(LagIngress') + Cardinality(LagOther') + Due' <= 1 + edits'
    BY <1>1, <1>4, <1>5, <1>6 DEF IInv, LagInv
  <2>3. QED BY <1>5, <2>1, <2>2 DEF LagInv
<1>8. QED BY <1>2, <1>3, <1>7 DEF IInv

\* Every edit a user makes.
LEMMA UsersKeep ==
    ASSUME IInv, Users
    PROVE  IInv'
<1>1. /\ ingress \in [Ingresses -> Object \cup {None}] /\ other \in [OtherKinds -> Versions]
      /\ deleted \in BOOLEAN /\ edits \in Nat
  BY ReconcileBounds DEF IInv, TypeOK
<1>2. ASSUME NEW i \in Ingresses, EditIngress(i)
      PROVE  IInv'
  <2>1. PICK s \in Specs, b \in BOOLEAN :
          ingress' = [ingress EXCEPT ![i].spec = s, ![i].ours = b]
    BY <1>2 DEF EditIngress
  <2> DEFINE o == [ingress[i] EXCEPT !.spec = s, !.ours = b]
  <2>2. o \in Object
    BY <1>1, <1>2 DEF EditIngress, Object
  <2>3. ingress' = [ingress EXCEPT ![i] = o]
    BY <1>1, <2>1
  <2> HIDE DEF o
  <2>4. ingress' \in [Ingresses -> Object \cup {None}] /\ \A j \in Ingresses \ {i} : ingress'[j] = ingress[j]
    BY <1>1, <2>2, <2>3
  <2>5. QED BY <1>1, <1>2, <2>4, EditKeeps DEF EditIngress
<1>3. ASSUME NEW i \in Ingresses, DeleteIngress(i)
      PROVE  IInv'
  <2>1. ingress' \in [Ingresses -> Object \cup {None}] /\ \A j \in Ingresses \ {i} : ingress'[j] = ingress[j]
    BY <1>1, <1>3 DEF DeleteIngress
  <2>2. QED BY <1>1, <1>3, <2>1, EditKeeps DEF DeleteIngress
<1>4. ASSUME NEW i \in Ingresses, CreateIngress(i)
      PROVE  IInv'
  <2>1. PICK s \in Specs : ingress' = [ingress EXCEPT ![i] = NewObject(s, edits + 1)]
    BY <1>4 DEF CreateIngress
  <2>2. NewObject(s, edits + 1) \in Object
    BY <1>1, <1>4, ReconcileBounds DEF CreateIngress, Edit, NewObject, Object, Address
  <2>3. ingress' \in [Ingresses -> Object \cup {None}] /\ \A j \in Ingresses \ {i} : ingress'[j] = ingress[j]
    BY <1>1, <2>1, <2>2
  <2>4. QED BY <1>1, <1>4, <2>3, EditKeeps DEF CreateIngress
<1>5. ASSUME NEW k \in OtherKinds, EditOther(k)
      PROVE  IInv'
  <2>1. other' \in [OtherKinds -> Versions] /\ \A l \in OtherKinds \ {k} : other'[l] = other[l]
    BY <1>1, <1>5 DEF EditOther
  <2>2. QED BY <1>1, <1>5, <2>1, EditKeeps DEF EditOther
<1>6. QED BY <1>2, <1>3, <1>4, <1>5 DEF Users

-----------------------------------------------------------------------------
(* The watches.                                                            *)

\* A watch that is lost, or lists again, moves nothing in the mirror.
LEMMA FeedKeeps ==
    ASSUME IInv, UNCHANGED <<server, mirror, listed, loop, edits, deleted>>,
           feed' \in [Kinds -> {"lost", "listing", "watching"}], faults' \in 0..MaxFaults,
           dirty' \in {dirty, TRUE}, resynced' \in BOOLEAN
    PROVE  IInv'
<1>1. TypeOK'
  BY DEF IInv, TypeOK, server, loop
<1>2. LoopInv' /\ FreshInv' /\ ListedInv'
  BY DEF IInv, LoopInv, FreshInv, ListedInv, loop
<1>3. LagInv'
  <2>1. LagIngress' = LagIngress /\ LagOther' = LagOther
    BY DEF LagIngress, LagOther, server
  <2>2. QED BY <2>1, LagKept DEF loop
<1>4. QED BY <1>1, <1>2, <1>3 DEF IInv

\* The mirror takes some objects over from the API server: those that lag
\* after it lagged before it, and if none of those it took lagged, what a
\* rebuild depends on is the same.
LEMMA MirrorKeeps ==
    ASSUME IInv, Poke, UNCHANGED <<server, resynced, loop, bounds>>,
           feed' \in [Kinds -> {"lost", "listing", "watching"}],
           mirror' \in [ing : [Ingresses -> Object \cup {None}],
                       other : [OtherKinds -> Versions \cup {None}]],
           listed' \subseteq Kinds, listed \subseteq listed',
           \A k \in OtherKinds : k \in listed' => mirror'.other[k] # None,
           LagIngress' \subseteq LagIngress, LagOther' \subseteq LagOther,
           listed = Kinds /\ LagIngress' = LagIngress /\ LagOther' = LagOther =>
              /\ \A i \in Ingresses : Same(mirror.ing[i], mirror'.ing[i])
              /\ mirror'.other = mirror.other
    PROVE  IInv'
<1>1. TypeOK'
  BY DEF IInv, TypeOK, server, loop, bounds, Poke
<1>2. LoopInv' /\ FreshInv'
  BY DEF IInv, LoopInv, FreshInv, loop, Poke
<1>3. ListedInv'
  BY DEF IInv, ListedInv, loop
<1>4. /\ edits \in Nat /\ edits' = edits /\ mem' = mem /\ mem.gen \in Nat
  BY ReconcileBounds DEF IInv, TypeOK, loop, bounds
<1>5. /\ IsFiniteSet(LagIngress') /\ Cardinality(LagIngress') <= Cardinality(LagIngress)
      /\ Cardinality(LagIngress') \in Nat /\ Cardinality(LagIngress) \in Nat
      /\ IsFiniteSet(LagIngress)
  BY NoMore DEF IInv, LagInv
<1>6. /\ IsFiniteSet(LagOther') /\ Cardinality(LagOther') <= Cardinality(LagOther)
      /\ Cardinality(LagOther') \in Nat /\ Cardinality(LagOther) \in Nat
      /\ IsFiniteSet(LagOther)
  BY NoMore DEF IInv, LagInv
<1>7. Cardinality(LagIngress') + Cardinality(LagOther') <= edits'
  BY <1>4, <1>5, <1>6 DEF IInv, LagInv
<1>8. Due \in 0..1 /\ Due' \in 0..1
  BY DEF Due
<1>9. ASSUME mem.gen > 0
      PROVE  Cardinality(LagIngress') + Cardinality(LagOther') + Due'
               <= Cardinality(LagIngress) + Cardinality(LagOther) + Due
  <2>1. listed = Kinds
    BY <1>9 DEF IInv, ListedInv
  <2>2. CASE LagIngress' = LagIngress /\ LagOther' = LagOther
    <3>1. Content(mirror) = Content(mirror')
      BY <2>1, <2>2, SameContent
    <3>2. Due' = Due
      BY <1>4, <3>1 DEF Due
    <3>3. QED BY <1>5, <1>6, <1>8, <2>2, <3>2
  <2>3. CASE LagIngress' # LagIngress
    <3>1. PICK i \in LagIngress : i \notin LagIngress'
      BY <2>3
    <3>2. Cardinality(LagIngress') + 1 <= Cardinality(LagIngress)
      BY <1>5, <3>1, OneFewer
    <3>3. QED BY <1>5, <1>6, <1>8, <3>2
  <2>4. CASE LagOther' # LagOther
    <3>1. PICK k \in LagOther : k \notin LagOther'
      BY <2>4
    <3>2. Cardinality(LagOther') + 1 <= Cardinality(LagOther)
      BY <1>6, <3>1, OneFewer
    <3>3. QED BY <1>5, <1>6, <1>8, <3>2
  <2>5. QED BY <2>2, <2>3, <2>4
<1>10. LagInv'
  <2>1. mem'.gen > 0 =>
          mem'.gen + Cardinality(LagIngress') + Cardinality(LagOther') + Due' <= 1 + edits'
    BY <1>4, <1>5, <1>6, <1>8, <1>9 DEF IInv, LagInv
  <2>2. QED BY <1>5, <1>6, <1>7, <2>1 DEF LagInv
<1>11. QED BY <1>1, <1>2, <1>3, <1>10 DEF IInv

\* A state of an Ingress translates like itself.
LEMMA SameReflexive == \A o : Same(o, o)
BY DEF Same

\* A list completes.
LEMMA ListDoneKeeps ==
    ASSUME IInv, NEW k \in Kinds, ListDone(k)
    PROVE  IInv'
<1>1. /\ mirror \in [ing : [Ingresses -> Object \cup {None}], other : [OtherKinds -> Versions \cup {None}]]
      /\ ingress \in [Ingresses -> Object \cup {None}] /\ other \in [OtherKinds -> Versions]
      /\ listed \subseteq Kinds /\ listed' = listed \cup {k}
      /\ feed' \in [Kinds -> {"lost", "listing", "watching"}]
      /\ ingress' = ingress /\ other' = other
  BY DEF ListDone, IInv, TypeOK, server
<1>2. CASE k = "Ingress"
  <2>1. /\ mirror' = [mirror EXCEPT !.ing = ingress] /\ k \notin OtherKinds
    BY <1>2, ReconcileNames DEF ListDone, Sees
  <2>2. /\ mirror' \in [ing : [Ingresses -> Object \cup {None}], other : [OtherKinds -> Versions \cup {None}]]
        /\ mirror'.ing = ingress /\ mirror'.other = mirror.other
    BY <1>1, <2>1
  <2>3. LagIngress' = {}
    BY <1>1, <2>2, SameReflexive DEF LagIngress
  <2>4. LagOther' = LagOther
    BY <1>1, <2>1, <2>2 DEF LagOther
  <2>5. \A j \in OtherKinds : j \in listed' => mirror'.other[j] # None
    BY <1>1, <2>1, <2>2 DEF IInv, ListedInv
  <2>6. listed = Kinds /\ LagIngress' = LagIngress =>
           \A i \in Ingresses : Same(mirror.ing[i], mirror'.ing[i])
    BY <1>2, <2>2, <2>3 DEF LagIngress
  <2>7. QED
    BY <1>1, <2>2, <2>3, <2>4, <2>5, <2>6, MirrorKeeps DEF ListDone
<1>3. CASE k # "Ingress"
  <2>1. k \in OtherKinds /\ mirror' = [mirror EXCEPT !.other[k] = other[k]]
    BY <1>3 DEF ListDone, Sees, Kinds
  <2>2. /\ mirror' \in [ing : [Ingresses -> Object \cup {None}], other : [OtherKinds -> Versions \cup {None}]]
        /\ mirror'.ing = mirror.ing /\ mirror'.other = [mirror.other EXCEPT ![k] = other[k]]
    BY <1>1, <2>1
  <2>3. mirror'.other[k] = other[k] /\ \A j \in OtherKinds \ {k} : mirror'.other[j] = mirror.other[j]
    BY <1>1, <2>1, <2>2
  <2>4. LagIngress' = LagIngress
    BY <1>1, <1>3, <2>2 DEF LagIngress
  <2>5. LagOther' = LagOther \ {k}
    BY <1>1, <2>3 DEF LagOther
  <2>6. \A j \in OtherKinds : j \in listed' => mirror'.other[j] # None
    BY <1>1, <2>1, <2>3, ReconcileNames DEF IInv, ListedInv
  <2>7. listed = Kinds /\ LagOther' = LagOther => mirror'.other = mirror.other
    <3> SUFFICES ASSUME listed = Kinds, LagOther' = LagOther PROVE mirror'.other = mirror.other
      OBVIOUS
    <3>1. mirror.other[k] = other[k]
      BY <2>1, <2>5 DEF LagOther
    <3>2. QED BY <1>1, <2>2, <3>1
  <2>8. QED
    BY <1>1, <2>2, <2>4, <2>5, <2>6, <2>7, SameReflexive, MirrorKeeps DEF ListDone
<1>4. QED BY <1>2, <1>3

\* An Ingress of the mirror catches up.
LEMMA DeliverIngressKeeps ==
    ASSUME IInv, NEW i \in Ingresses, DeliverIngress(i)
    PROVE  IInv'
<1>1. /\ mirror \in [ing : [Ingresses -> Object \cup {None}], other : [OtherKinds -> Versions \cup {None}]]
      /\ ingress \in [Ingresses -> Object \cup {None}]
      /\ listed \subseteq Kinds /\ listed' = listed
      /\ feed' \in [Kinds -> {"lost", "listing", "watching"}]
      /\ ingress' = ingress /\ other' = other
  BY DEF DeliverIngress, IInv, TypeOK, server
<1>2. /\ mirror' \in [ing : [Ingresses -> Object \cup {None}], other : [OtherKinds -> Versions \cup {None}]]
      /\ mirror'.ing = [mirror.ing EXCEPT ![i] = ingress[i]] /\ mirror'.other = mirror.other
  BY <1>1 DEF DeliverIngress
<1>3. mirror'.ing[i] = ingress[i] /\ \A j \in Ingresses \ {i} : mirror'.ing[j] = mirror.ing[j]
  BY <1>1, <1>2
<1>4. LagIngress' = LagIngress \ {i}
  BY <1>1, <1>3, SameReflexive DEF LagIngress
<1>5. LagOther' = LagOther
  BY <1>1, <1>2 DEF LagOther
<1>6. listed = Kinds /\ LagIngress' = LagIngress =>
         \A j \in Ingresses : Same(mirror.ing[j], mirror'.ing[j])
  BY <1>3, <1>4, SameReflexive DEF LagIngress, Kinds
<1>7. \A j \in OtherKinds : j \in listed' => mirror'.other[j] # None
  BY <1>1, <1>2 DEF IInv, ListedInv
<1>8. QED
  BY <1>1, <1>2, <1>4, <1>5, <1>6, <1>7, MirrorKeeps DEF DeliverIngress

\* The objects of another kind catch up.
LEMMA DeliverOtherKeeps ==
    ASSUME IInv, NEW k \in OtherKinds, DeliverOther(k)
    PROVE  IInv'
<1>1. /\ mirror \in [ing : [Ingresses -> Object \cup {None}], other : [OtherKinds -> Versions \cup {None}]]
      /\ other \in [OtherKinds -> Versions]
      /\ listed \subseteq Kinds /\ listed' = listed
      /\ feed' \in [Kinds -> {"lost", "listing", "watching"}]
      /\ ingress' = ingress /\ other' = other
  BY DEF DeliverOther, IInv, TypeOK, server
<1>2. mirror' = [mirror EXCEPT !.other[k] = other[k]]
  BY ReconcileNames DEF DeliverOther, Sees
<1>3. /\ mirror' \in [ing : [Ingresses -> Object \cup {None}], other : [OtherKinds -> Versions \cup {None}]]
      /\ mirror'.ing = mirror.ing /\ mirror'.other = [mirror.other EXCEPT ![k] = other[k]]
  BY <1>1, <1>2
<1>4. mirror'.other[k] = other[k] /\ \A j \in OtherKinds \ {k} : mirror'.other[j] = mirror.other[j]
  BY <1>1, <1>3
<1>5. LagIngress' = LagIngress
  BY <1>1, <1>3 DEF LagIngress
<1>6. LagOther' = LagOther \ {k}
  BY <1>1, <1>4 DEF LagOther
<1>7. \A j \in OtherKinds : j \in listed' => mirror'.other[j] # None
  BY <1>1, <1>4, ReconcileNames DEF IInv, ListedInv
<1>8. listed = Kinds /\ LagOther' = LagOther => mirror'.other = mirror.other
  BY <1>6 DEF LagOther, DeliverOther, Kinds
<1>9. QED
  BY <1>1, <1>3, <1>5, <1>6, <1>7, <1>8, SameReflexive, MirrorKeeps DEF DeliverOther

\* A watch starts over.
LEMMA RelistKeeps ==
    ASSUME IInv, NEW k \in Kinds, Relist(k)
    PROVE  IInv'
BY FeedKeeps DEF Relist, Poke, IInv, TypeOK, bounds

\* A watch is lost.
LEMMA LoseWatchKeeps ==
    ASSUME IInv, NEW k \in Kinds, LoseWatch(k)
    PROVE  IInv'
BY FeedKeeps, FaultBound DEF LoseWatch, IInv, TypeOK, signals

-----------------------------------------------------------------------------
(* The rebuild loop.                                                       *)

\* The loop waits, drains its slot, or goes on: a rebuild is on its way.
LEMMA TurnKeeps ==
    ASSUME IInv, Ready \/ Wake \/ Drain \/ WindowCloses \/ UNCHANGED vars
    PROVE  IInv'
<1>1. /\ UNCHANGED <<ingress, other, patched, mirror, feed, listed, resynced, mem, work,
                     edits, faults, deleted>>
      /\ dirty' \in BOOLEAN /\ pc' \in PCs /\ (pc' = pc \/ pc' \in {"rebuild", "window"})
      /\ pc' = "annotate" => pc = "annotate"
      /\ pc' \notin {"waiting", "rebuild", "window"} => dirty' = dirty
      /\ pc = "waiting" /\ pc' # "waiting" => listed = Kinds
  BY DEF Ready, Wake, Drain, WindowCloses, vars, server, watches, signals, loop, bounds,
         IInv, TypeOK, PCs, AllListed
<1>2. TypeOK'
  BY <1>1 DEF IInv, TypeOK, PCs
<1>3. LoopInv' /\ FreshInv' /\ ListedInv'
  BY <1>1 DEF IInv, LoopInv, FreshInv, ListedInv
<1>4. LagIngress' = LagIngress /\ LagOther' = LagOther
  BY <1>1 DEF LagIngress, LagOther
<1>5. LagInv'
  BY <1>1, <1>4, LagKept
<1>6. QED BY <1>2, <1>3, <1>5 DEF IInv

\* A rebuild: it publishes only what is due, and leaves nothing due.
LEMMA RebuildKeeps ==
    ASSUME IInv, Rebuild
    PROVE  IInv'
<1> DEFINE before == IF resynced THEN Forget(mem) ELSE mem
           told == [before EXCEPT !.emitted = Emitted(before.emitted, mirror)]
           built == [told EXCEPT !.gen = told.gen + 1, !.content = Content(mirror)]
<1>1. /\ MemOK(before) /\ before.gen = mem.gen /\ before.content = mem.content
  <2>1. MemOK(mem)
    BY DEF IInv, LoopInv
  <2>2. MemOK(Forget(mem)) /\ Forget(mem).gen = mem.gen /\ Forget(mem).content = mem.content
    BY <2>1, EmptyPartial DEF Forget, MemOK
  <2>3. QED BY <2>1, <2>2
<1> HIDE DEF before
<1>2. /\ MemOK(told) /\ told.gen = mem.gen /\ told.content = mem.content
      /\ told.emitted = Refusals(mirror)
  <2>1. Emitted(before.emitted, mirror) = Refusals(mirror)
    BY <1>1, EmittedIsRefusals DEF MemOK, IsPartial
  <2>2. IsPartial(Refusals(mirror), Specs)
    BY RefusalsPartial DEF IInv, TypeOK
  <2> DEFINE r == Refusals(mirror)
  <2>3. told = [before EXCEPT !.emitted = r] /\ IsPartial(r, Specs)
    BY <2>1, <2>2
  <2> HIDE DEF told, r
  <2>4. told \in [gen : Nat, content : {mem.content}, applied : {before.applied},
                 annotated : {before.annotated}, emitted : {r}]
    BY <1>1, <2>3 DEF MemOK
  <2>5. told.gen = mem.gen
    BY <1>1, <2>3 DEF MemOK
  <2>6. QED BY <1>1, <2>3, <2>4, <2>5 DEF MemOK, r
<1> HIDE DEF told
<1>3. /\ MemOK(built) /\ built.gen = mem.gen + 1 /\ built.content = Content(mirror)
      /\ built.emitted = Refusals(mirror)
  <2> DEFINE c == Content(mirror)
  <2>1. built = [told EXCEPT !.gen = told.gen + 1, !.content = c]
    OBVIOUS
  <2> HIDE DEF built, c
  <2>2. told.gen + 1 \in Nat
    BY <1>2 DEF MemOK
  <2>3. built \in [gen : Nat, content : {c}, applied : {told.applied},
                  annotated : {told.annotated}, emitted : {told.emitted}]
    BY <1>2, <2>1, <2>2 DEF MemOK
  <2>4. built.gen = told.gen + 1
    BY <1>2, <2>1 DEF MemOK
  <2>5. QED BY <1>2, <2>3, <2>4 DEF MemOK, c
<1> HIDE DEF built
<1>4. mem' = IF told.content = Content(mirror) THEN told ELSE built
  BY DEF Rebuild, Snapshot, told, before, built
<1>5. MemOK(mem') /\ mem'.content = Content(mirror) /\ mem'.emitted = Refusals(mirror)
  BY <1>2, <1>3, <1>4
<1>6. /\ mem.content = Content(mirror) => mem'.gen = mem.gen
      /\ mem.content # Content(mirror) => mem'.gen = mem.gen + 1
  BY <1>2, <1>3, <1>4
<1>7. /\ UNCHANGED <<ingress, other, patched, mirror, feed, listed, dirty, edits, faults, deleted>>
      /\ resynced' = FALSE /\ pc' \in {"address", "idle"} /\ pc = "rebuild"
  BY DEF Rebuild, server, watches, bounds
<1>8. WorkOK(work')
  <2>1. Managed(mirror) \in SUBSET Ingresses
    BY DEF Managed, Present
  <2> DEFINE w == [NoWork EXCEPT !.todo = Managed(mirror), !.observed = Observed(mirror)]
             o == Observed(mirror)
  <2>2. w \in [todo : SUBSET Ingresses, stale : SUBSET Ingresses, observed : {o},
              address : Address, now : Ingresses \cup {None}]
    <3> HIDE DEF o
    <3>1. NoWork \in [todo : SUBSET Ingresses, stale : SUBSET Ingresses, observed : {EmptyMap},
                     address : Address, now : Ingresses \cup {None}]
      BY DEF NoWork, Address
    <3>2. w = [NoWork EXCEPT !.todo = Managed(mirror), !.observed = o]
      BY DEF o
    <3> HIDE DEF w
    <3>3. QED BY <2>1, <3>1, <3>2
  <2>3. w.observed = o
    BY <2>2
  <2> HIDE DEF w, o
  <2>4. WorkOK(w)
    BY <2>2, <2>3 DEF WorkOK
  <2>5. WorkOK(work)
    BY DEF IInv, LoopInv
  <2>6. work' = w \/ work' = work
    BY DEF Rebuild, Snapshot, w
  <2>7. QED BY <2>4, <2>5, <2>6
<1>9. TypeOK'
  BY <1>5, <1>7, <1>8 DEF IInv, TypeOK, MemOK, WorkOK
<1>10. LoopInv'
  BY <1>5, <1>7, <1>8 DEF LoopInv
<1>11. FreshInv'
  BY <1>5, <1>7 DEF FreshInv
<1>12. ListedInv'
  BY <1>7 DEF IInv, ListedInv
<1>13. LagIngress' = LagIngress /\ LagOther' = LagOther
  BY <1>7 DEF LagIngress, LagOther
<1>14. LagInv'
  <2>1. /\ Cardinality(LagIngress) \in Nat /\ Cardinality(LagOther) \in Nat
        /\ edits \in Nat /\ mem.gen \in Nat
    BY FS_CardinalityType, ReconcileBounds DEF IInv, LagInv, TypeOK
  <2>2. Due' = 0
    BY <1>5, <1>7 DEF Due
  <2>3. mem'.gen + Cardinality(LagIngress) + Cardinality(LagOther) <= 1 + edits \/ mem'.gen = 0
    <3>1. CASE mem.content = Content(mirror)
      BY <1>6, <2>1, <3>1 DEF IInv, LagInv, Due
    <3>2. CASE mem.content # Content(mirror)
      BY <1>6, <2>1, <3>2 DEF IInv, LagInv, Due
    <3>3. QED BY <3>1, <3>2
  <2>4. mem'.gen \in Nat
    BY <1>5 DEF MemOK
  <2>5. mem'.gen > 0 =>
          mem'.gen + Cardinality(LagIngress) + Cardinality(LagOther) + 0 <= 1 + edits
    BY <2>1, <2>3, <2>4
  <2>6. QED BY <1>7, <1>13, <2>2, <2>5 DEF IInv, LagInv
<1>15. QED BY <1>9, <1>10, <1>11, <1>12, <1>14 DEF IInv

\* Nothing is listed, so nothing lags.
LEMMA NothingLags ==
    ASSUME listed = {}, edits \in Nat, mem.gen = 0
    PROVE  LagInv
<1>1. LagIngress = {} /\ LagOther = {}
  BY DEF LagIngress, LagOther
<1>2. QED BY <1>1, FS_EmptySet DEF LagInv

\* The mirror a replica starts with.
LEMMA EmptyMirrorType ==
    /\ EmptyMirror \in [ing : [Ingresses -> Object \cup {None}], other : [OtherKinds -> Versions \cup {None}]]
BY DEF EmptyMirror

\* The process restarts.
LEMMA RestartKeeps ==
    ASSUME IInv, Restart
    PROVE  IInv'
<1>1. /\ UNCHANGED <<ingress, other, patched, edits, deleted>> /\ faults' \in 0..MaxFaults
  BY FaultBound DEF Restart, server
<1>2. MemOK(mem') /\ WorkOK(work') /\ mem'.gen = 0
  BY FreshRecords DEF Restart, FreshMem
<1>3. feed' \in [Kinds -> {"lost", "listing", "watching"}]
  BY DEF Restart
<1>4. TypeOK'
  BY <1>1, <1>2, <1>3, EmptyMirrorType DEF Restart, IInv, TypeOK, MemOK, WorkOK
<1>5. LoopInv' /\ FreshInv' /\ ListedInv'
  BY <1>2 DEF Restart, LoopInv, FreshInv, ListedInv
<1>6. LagInv'
  <2>1. LagIngress' = {} /\ LagOther' = {}
    BY DEF Restart, LagIngress, LagOther
  <2>2. edits' \in Nat
    BY <1>1, ReconcileBounds DEF IInv, TypeOK
  <2>3. QED BY <1>2, <2>1, <2>2, FS_EmptySet DEF LagInv
<1>7. QED BY <1>4, <1>5, <1>6 DEF IInv

\* The initial state.
LEMMA InitIInv == Init => IInv
<1> SUFFICES ASSUME Init PROVE IInv
  OBVIOUS
<1>1. MemOK(mem) /\ WorkOK(work) /\ mem.gen = 0
  BY FreshRecords DEF Init, FreshMem
<1>2. ingress \in [Ingresses -> Object \cup {None}]
  <2>1. PICK s \in Specs : ingress = [i \in Ingresses |-> NewObject(s, 0)]
    BY DEF Init
  <2>2. NewObject(s, 0) \in Object
    BY ReconcileBounds DEF NewObject, Object, Address
  <2>3. QED BY <2>1, <2>2
<1>3. feed \in [Kinds -> {"lost", "listing", "watching"}]
  BY DEF Init
<1>4. TypeOK
  <2>1. /\ other \in [OtherKinds -> Versions] /\ mirror = EmptyMirror /\ listed = {}
        /\ dirty = FALSE /\ resynced = FALSE /\ pc = "waiting" /\ patched = {}
        /\ deleted = FALSE /\ edits \in 0..MaxEdits /\ faults \in 0..MaxFaults
    BY ReconcileBounds DEF Init
  <2>2. /\ IsPartial(mem.applied, Addresses) /\ IsPartial(mem.annotated, Nat)
        /\ IsPartial(mem.emitted, Specs) /\ mem.gen \in Nat
    BY <1>1 DEF MemOK
  <2>3. /\ work.todo \cup work.stale \subseteq Ingresses
        /\ work.address \in Address /\ work.now \in Ingresses \cup {None}
    BY <1>1 DEF WorkOK
  <2>4. QED BY <1>2, <1>3, <2>1, <2>2, <2>3, EmptyMirrorType DEF TypeOK
<1>5. LoopInv /\ FreshInv /\ ListedInv
  BY <1>1 DEF Init, LoopInv, FreshInv, ListedInv
<1>6. LagInv
  BY <1>1, NothingLags DEF Init
<1>7. QED BY <1>4, <1>5, <1>6 DEF IInv

-----------------------------------------------------------------------------
\* Every step keeps the invariant.
LEMMA NextKeeps ==
    ASSUME IInv, [Next]_vars
    PROVE  IInv'
<1>1. CASE Users
  BY <1>1, UsersKeep
<1>2. CASE Watching
  BY <1>2, RelistKeeps, ListDoneKeeps, DeliverIngressKeeps, DeliverOtherKeeps DEF Watching
<1>3. CASE Looping
  BY <1>3, TurnKeeps, RebuildKeeps, ReadAddressKeeps, AnnotateKeeps, ClearKeeps, WriteKeeps
  DEF Looping
<1>4. CASE Drain \/ UNCHANGED vars
  BY <1>4, TurnKeeps
<1>5. CASE Restart
  BY <1>5, RestartKeeps
<1>6. CASE \E k \in Kinds : LoseWatch(k)
  BY <1>6, LoseWatchKeeps
<1>7. CASE \E i \in Ingresses : NeighbourAnnotates(i)
  BY <1>7, NeighbourKeeps
<1>8. QED
  BY <1>1, <1>2, <1>3, <1>4, <1>5, <1>6, <1>7 DEF Next

\* The inductive invariant holds of every behaviour.
THEOREM Inductive == Spec => []IInv
<1>1. Init => IInv
  BY InitIInv
<1>2. IInv /\ [Next]_vars => IInv'
  BY NextKeeps
<1>3. QED BY <1>1, <1>2, PTL DEF Spec

\* The rebuilds are exactly the ones that are due (watch.rs rebuild_loop,
\* rebuild and Stores::ready): a loop that has gone back to sleep compiled what
\* its mirror holds, no table is published before every kind was listed, and
\* the controller's own writes cause no generation.
THEOREM Exact == Spec => []RebuildsExact
<1>1. IInv => RebuildsExact
  <2> SUFFICES ASSUME IInv PROVE RebuildsExact
    OBVIOUS
  <2>1. TypeOK
    BY DEF IInv
  <2>2. NothingForgotten
    BY DEF IInv, FreshInv, NothingForgotten, AtRest
  <2>3. NoPartialPublish
    BY DEF IInv, ListedInv, NoPartialPublish, Kinds
  <2>4. GenerationsAreEarned
    <3>1. /\ Cardinality(LagIngress) \in Nat /\ Cardinality(LagOther) \in Nat
          /\ edits \in Nat /\ mem.gen \in Nat /\ Due \in Nat
      BY FS_CardinalityType, ReconcileBounds DEF IInv, LagInv, TypeOK, Due
    <3>2. QED BY <3>1 DEF IInv, LagInv, GenerationsAreEarned
  <2>5. QED BY <2>1, <2>2, <2>3, <2>4 DEF RebuildsExact
<1>2. QED BY <1>1, Inductive, PTL
=============================================================================
