----------------------------- MODULE Reconcile -----------------------------
(***************************************************************************)
(* The control plane: from watched objects to compiled generations, and    *)
(* what it writes back.                                                    *)
(*                                                                         *)
(* A replica runs one task that multiplexes a watch per kind and the       *)
(* rebuild loop.  A watch feeds its mirror of the API server and pokes a   *)
(* one-slot channel; the loop waits for the slot, keeps draining it until  *)
(* a fixed window closes, and rebuilds from the mirror.  Between two awaits *)
(* the task is alone, so a rebuild up to its first API call is one step;   *)
(* every API call of the status pass is a step of its own, during which    *)
(* the watches go on.  A second replica (a DaemonSet runs several, and     *)
(* there is no leader) is present as what it does to the shared objects:   *)
(* it annotates them with its own generation, by the same rule.            *)
(*                                                                         *)
(* Translation is abstracted to what it depends on: the spec of every      *)
(* Ingress of ours and the contents of the other kinds.  The FNV digest of *)
(* a translation is taken to tell different contents apart.                *)
(***************************************************************************)
EXTENDS Naturals, FiniteSets

CONSTANTS
    Ingresses,   \* Ingress names
    Specs,       \* what an Ingress may ask for
    Refused,     \* the specs with an annotation value the parser refuses
    OtherKinds,  \* IngressClass, Service, EndpointSlice, Secret
    Versions,    \* contents the objects of another kind may have
    Addresses,   \* addresses an Ingress may be given
    Configured,  \* --publish-address, or None
    ServiceAddr, \* the address in the publish Service's status, or None
    StatusOn,    \* started without --no-status-update
    Neighbour,   \* the generation the other replica is at
    None,        \* no address, no annotation, no digest, no object
    MaxEdits,    \* bound on edits made by users
    MaxFaults    \* bound on failed API calls, watches that list again, restarts

ASSUME ReconcileBounds == MaxEdits \in Nat /\ MaxFaults \in Nat
ASSUME ReconcileNames ==
    /\ StatusOn \in BOOLEAN /\ Neighbour \in Nat /\ Refused \subseteq Specs
    /\ {Configured, ServiceAddr} \subseteq Addresses \cup {None}
    /\ None \notin Nat \cup Addresses \cup Versions
    /\ "Ingress" \notin OtherKinds

VARIABLES
    ingress,   \* the API server's Ingresses
    other,     \* the API server's other kinds
    mirror,    \* the reflector stores
    feed,      \* where the watch of each kind is
    listed,    \* kinds whose initial list has completed
    dirty,     \* the one-slot channel to the rebuild loop
    resynced,  \* set when a watch starts over
    pc,        \* where the rebuild loop is
    mem,       \* what the loop remembers between rebuilds
    work,      \* the status pass in progress
    patched,   \* Ingresses the neighbour's StatusWriter.annotated holds
    edits, faults, \* how much of each bound is used
    deleted    \* history: some Ingress has been deleted

server == <<ingress, other, patched>>
watches == <<mirror, feed, listed>>
signals == <<dirty, resynced>>
loop == <<pc, mem, work>>
bounds == <<edits, faults, deleted>>
vars == <<server, watches, signals, loop, bounds>>

Kinds == {"Ingress"} \cup OtherKinds
Address == Addresses \cup {None}
Object == [spec : Specs, ours : BOOLEAN, uid : 0..MaxEdits,
           addr : Address, note : Nat \cup {None}]

ASSUME ReconcileObjects == None \notin Object

IsPartial(f, S) == DOMAIN f \subseteq Ingresses /\ \A i \in DOMAIN f : f[i] \in S
EmptyMap == [i \in {} |-> None]
Drop(f, D) == [i \in DOMAIN f \ D |-> f[i]]
Put(f, i, x) == [j \in DOMAIN f \cup {i} |-> IF j = i THEN x ELSE f[j]]
Get(f, i) == IF i \in DOMAIN f THEN f[i] ELSE None

-----------------------------------------------------------------------------
\* A rebuild reads the mirror once: Stores::snapshot.
Snapshot == mirror
Present(m) == {i \in Ingresses : m.ing[i] # None}
Managed(m) == {i \in Present(m) : m.ing[i].ours}

\* What translate() hashes.  The annotation this controller writes is read by
\* no parser, so it is not in it.
Content(m) == <<[i \in Managed(m) |-> m.ing[i].spec], m.other>>

\* observed_generations()
Observed(m) == [i \in {j \in Present(m) : m.ing[j].note # None} |-> m.ing[i].note]

\* diagnostics::group: what is wrong with each Ingress of ours.
Refusals(m) == [i \in {j \in Managed(m) : m.ing[j].spec \in Refused} |-> m.ing[i].spec]

\* WarningEvents::sync: forget what is no longer wrong, and record what was
\* announced.  The mirror is the snapshot, so every subject has its uid.
Emitted(emitted, m) ==
    LET kept == Drop(emitted, Ingresses \ DOMAIN Refusals(m))
    IN  [i \in DOMAIN kept \cup DOMAIN Refusals(m) |-> Refusals(m)[i]]

\* needs_annotation(): the object does not carry it and we did not just send it.
MutTrustsObservedOnly(i, gen, observed, annotated) == Get(observed, i) # gen

NeedsAnnotation(i, gen, observed, annotated) ==
    Get(observed, i) # gen /\ Get(annotated, i) # gen

\* StatusWriter::address, given whether the Service could be read.
AddressFrom(readable) == IF readable /\ ServiceAddr # None THEN ServiceAddr ELSE Configured

-----------------------------------------------------------------------------
\* spawn() and the locals of rebuild_loop: generation 0 is the seed table.
FreshMem == [gen |-> 0, content |-> None, applied |-> EmptyMap,
             annotated |-> EmptyMap, emitted |-> EmptyMap]

NoWork == [todo |-> {}, stale |-> {}, observed |-> EmptyMap, address |-> None, now |-> None]
EmptyMirror == [ing |-> [i \in Ingresses |-> None], other |-> [k \in OtherKinds |-> None]]

\* A new object has a uid of its own.
NewObject(spec, uid) ==
    [spec |-> spec, ours |-> TRUE, uid |-> uid, addr |-> None, note |-> None]

Init ==
    /\ \E s \in Specs : ingress = [i \in Ingresses |-> NewObject(s, 0)]
    /\ other \in [OtherKinds -> Versions]
    /\ mirror = EmptyMirror
    /\ feed = [k \in Kinds |-> "lost"]
    /\ listed = {}
    /\ dirty = FALSE
    /\ resynced = FALSE
    /\ pc = "waiting"
    /\ mem = FreshMem
    /\ work = NoWork
    /\ patched = {}
    /\ edits = 0 /\ faults = 0
    /\ deleted = FALSE

-----------------------------------------------------------------------------
(* Users and the cluster.                                                  *)

Edit ==
    /\ edits < MaxEdits
    /\ edits' = edits + 1
    /\ UNCHANGED <<patched, watches, signals, loop, faults>>

EditIngress(i) ==
    /\ Edit
    /\ ingress[i] # None
    /\ \E s \in Specs, o \in BOOLEAN :
        ingress' = [ingress EXCEPT ![i].spec = s, ![i].ours = o]
    /\ ingress' # ingress
    /\ UNCHANGED <<other, deleted>>

DeleteIngress(i) ==
    /\ Edit
    /\ ingress[i] # None
    /\ ingress' = [ingress EXCEPT ![i] = None]
    /\ deleted' = TRUE
    /\ UNCHANGED other

CreateIngress(i) ==
    /\ Edit
    /\ ingress[i] = None
    /\ \E s \in Specs : ingress' = [ingress EXCEPT ![i] = NewObject(s, edits + 1)]
    /\ UNCHANGED <<other, deleted>>

EditOther(k) ==
    /\ Edit
    /\ \E v \in Versions \ {other[k]} : other' = [other EXCEPT ![k] = v]
    /\ UNCHANGED <<ingress, deleted>>

-----------------------------------------------------------------------------
(* The watches.  Every event the watcher yields pokes the loop; an error   *)
(* does not.                                                               *)

\* try_send into a channel of one: a full slot already says it.
Poke == dirty' = TRUE

\* Event::Init: the watch lists again.  The mirror keeps its old contents.
Relist(k) ==
    /\ feed[k] = "lost"
    /\ feed' = [feed EXCEPT ![k] = "listing"]
    /\ resynced' = TRUE
    /\ Poke
    /\ UNCHANGED <<server, mirror, listed, loop, bounds>>

Sees(m, k) == IF k = "Ingress" THEN [m EXCEPT !.ing = ingress]
                               ELSE [m EXCEPT !.other[k] = other[k]]

\* Event::InitDone: the reflector swaps the new list in.
ListDone(k) ==
    /\ feed[k] = "listing"
    /\ feed' = [feed EXCEPT ![k] = "watching"]
    /\ mirror' = Sees(mirror, k)
    /\ listed' = listed \cup {k}
    /\ Poke
    /\ UNCHANGED <<server, resynced, loop, bounds>>

\* Event::Apply or Event::Delete: one object of the mirror catches up.
DeliverIngress(i) ==
    /\ feed["Ingress"] = "watching"
    /\ mirror.ing[i] # ingress[i]
    /\ mirror' = [mirror EXCEPT !.ing[i] = ingress[i]]
    /\ Poke
    /\ UNCHANGED <<server, feed, listed, resynced, loop, bounds>>

MutOnlyIngressesPoke(k) ==
    /\ feed[k] = "watching"
    /\ mirror.other[k] # other[k]
    /\ mirror' = Sees(mirror, k)
    /\ UNCHANGED <<server, feed, listed, signals, loop, bounds>>

DeliverOther(k) ==
    /\ feed[k] = "watching"
    /\ mirror.other[k] # other[k]
    /\ mirror' = Sees(mirror, k)
    /\ Poke
    /\ UNCHANGED <<server, feed, listed, resynced, loop, bounds>>

Fault == faults < MaxFaults /\ faults' = faults + 1

\* The resource version aged out while the connection was down.
LoseWatch(k) ==
    /\ Fault
    /\ feed[k] = "watching"
    /\ feed' = [feed EXCEPT ![k] = "lost"]
    /\ UNCHANGED <<server, mirror, listed, signals, loop, edits, deleted>>

-----------------------------------------------------------------------------
(* The rebuild loop.                                                       *)

\* Stores::ready: every list, or the first table would be missing a kind.
MutReadyOnIngresses == "Ingress" \in listed

AllListed == listed = Kinds

Ready ==
    /\ pc = "waiting"
    /\ AllListed
    /\ pc' = "rebuild"
    /\ UNCHANGED <<server, watches, signals, mem, work, bounds>>

\* invalidate(), of the status writer and of the warnings.
Forget(m) == [m EXCEPT !.applied = EmptyMap, !.annotated = EmptyMap, !.emitted = EmptyMap]

\* The top of the loop and rebuild() up to its first await, the read of the
\* publish Service's status.
Rebuild ==
    LET m == Snapshot
        before == IF resynced THEN Forget(mem) ELSE mem
        told == [before EXCEPT !.emitted = Emitted(@, m)]
    IN  /\ pc = "rebuild"
        /\ resynced' = FALSE
        /\ mem' = IF told.content = Content(m) THEN told
                  ELSE [told EXCEPT !.gen = @ + 1, !.content = Content(m)]
        /\ IF StatusOn
           THEN /\ work' = [NoWork EXCEPT !.todo = Managed(m), !.observed = Observed(m)]
                /\ pc' = "address"
           ELSE /\ pc' = "idle"
                /\ UNCHANGED work
        /\ UNCHANGED <<server, watches, dirty, bounds>>

\* An API call goes through, or fails within the budget.  A call about an
\* Ingress that is gone is answered 404.
Working == UNCHANGED faults
Gone(i) == ingress[i] = None /\ Working
Budgets == UNCHANGED <<edits, deleted>>

\* write(key, address) is called if what we last wrote differs.
NeedsAddress(i, w, m) == w.address # None /\ Get(m.applied, i) # w.address

\* The status pass up to its next API call: the Ingresses to clear first, then
\* the managed ones, each address before its annotation.
Until(w, m) ==
    IF w.now # None /\ NeedsAnnotation(w.now, m.gen, w.observed, m.annotated)
    THEN [at |-> "annotate", left |-> w]
    ELSE LET calls == {i \in w.todo : \/ NeedsAddress(i, w, m)
                                      \/ NeedsAnnotation(i, m.gen, w.observed, m.annotated)}
         IN  IF w.stale # {} THEN [at |-> "clear", left |-> w]
             ELSE IF calls = {} THEN [at |-> "idle", left |-> NoWork]
             ELSE [at |-> "write", left |-> [w EXCEPT !.todo = calls, !.now = None]]

Go(w, m) ==
    /\ mem' = m
    /\ pc' = Until(w, m).at
    /\ work' = Until(w, m).left

\* sync(): read the address, see which Ingresses to clear, and drop the notes
\* of those no longer managed.
ReadAddress ==
    LET managed == work.todo
    IN  /\ pc = "address"
        /\ \E ok \in BOOLEAN :
            /\ IF ok THEN Working ELSE Fault
            /\ Go([work EXCEPT !.address = AddressFrom(ok),
                                     !.stale = DOMAIN mem.applied \ managed],
                     [mem EXCEPT !.annotated = Drop(@, Ingresses \ managed)])
        /\ Budgets
        /\ UNCHANGED <<server, watches, signals>>

\* write(key, None), one Ingress at a time; the entry goes only if it stuck.
MutClearWithoutCall(i) ==
    /\ pc = "clear"
    /\ i \in work.stale
    /\ Go([work EXCEPT !.stale = @ \ {i}], [mem EXCEPT !.applied = Drop(@, {i})])
    /\ Working
    /\ Budgets
    /\ UNCHANGED <<server, watches, signals>>

Clear(i) ==
    LET w == [work EXCEPT !.stale = @ \ {i}]
    IN  /\ pc = "clear"
        /\ i \in work.stale
        /\ \/ /\ ingress[i] # None
              /\ Working
              /\ ingress' = [ingress EXCEPT ![i].addr = None]
              /\ Go(w, [mem EXCEPT !.applied = Drop(@, {i})])
           \/ /\ Fault \/ Gone(i)
              /\ Go(w, mem)
              /\ UNCHANGED ingress
        /\ Budgets
        /\ UNCHANGED <<other, patched, watches, signals>>

Write(i) ==
    LET w == [work EXCEPT !.now = i, !.todo = @ \ {i}]
    IN  /\ pc = "write"
        /\ i \in work.todo
        /\ IF NeedsAddress(i, work, mem)
           THEN \/ /\ ingress[i] # None
                   /\ Working
                   /\ ingress' = [ingress EXCEPT ![i].addr = work.address]
                   /\ Go(w, [mem EXCEPT !.applied = Put(@, i, work.address)])
                \/ /\ Fault \/ Gone(i)
                   /\ Go(w, mem)
                   /\ UNCHANGED ingress
           ELSE Working /\ Go(w, mem) /\ UNCHANGED ingress
        /\ Budgets
        /\ UNCHANGED <<other, patched, watches, signals>>

\* patch_ingress_annotations: a merge patch, so nothing but the note changes.
Patched(i, gen) == [ingress EXCEPT ![i].note = gen]

Annotate ==
    LET i == work.now
        w == [work EXCEPT !.now = None]
    IN  /\ pc = "annotate"
        /\ \/ /\ ingress[i] # None
              /\ Working
              /\ ingress' = Patched(i, mem.gen)
              /\ Go(w, [mem EXCEPT !.annotated = Put(@, i, mem.gen)])
           \/ /\ Fault \/ Gone(i)
              /\ Go(w, mem)
              /\ UNCHANGED ingress
        /\ Budgets
        /\ UNCHANGED <<other, patched, watches, signals>>

\* dirty.recv(), and the drain until the fixed deadline.
Wake ==
    /\ pc = "idle" /\ dirty
    /\ dirty' = FALSE
    /\ pc' = "window"
    /\ UNCHANGED <<server, watches, resynced, mem, work, bounds>>

Drain ==
    /\ pc = "window" /\ dirty
    /\ dirty' = FALSE
    /\ UNCHANGED <<server, watches, resynced, loop, bounds>>

WindowCloses ==
    /\ pc = "window"
    /\ pc' = "rebuild"
    /\ UNCHANGED <<server, watches, signals, mem, work, bounds>>

\* The process restarts.  What it wrote to the API server stays.
Restart ==
    /\ Fault
    /\ pc # "waiting"
    /\ mirror' = EmptyMirror
    /\ feed' = [k \in Kinds |-> "lost"]
    /\ listed' = {}
    /\ dirty' = FALSE
    /\ resynced' = FALSE
    /\ pc' = "waiting"
    /\ mem' = FreshMem
    /\ work' = NoWork
    /\ UNCHANGED <<server, edits, deleted>>

-----------------------------------------------------------------------------
\* The neighbour's status pass, as far as it touches what this replica reads.
\* Its watch and its rebuilds are as late as they like.
NeighbourAnnotates(i) ==
    /\ ingress[i] # None /\ ingress[i].ours
    /\ NeedsAnnotation(i, Neighbour, Observed([ing |-> ingress]), [j \in patched |-> Neighbour])
    /\ ingress' = Patched(i, Neighbour)
    /\ patched' = patched \cup {i}
    /\ UNCHANGED <<other, watches, signals, loop, bounds>>

-----------------------------------------------------------------------------
Users ==
    \/ \E i \in Ingresses : EditIngress(i) \/ DeleteIngress(i) \/ CreateIngress(i)
    \/ \E k \in OtherKinds : EditOther(k)

Watching ==
    \/ \E k \in Kinds : Relist(k) \/ ListDone(k)
    \/ \E i \in Ingresses : DeliverIngress(i)
    \/ \E k \in OtherKinds : DeliverOther(k)

Looping ==
    \/ Ready \/ Rebuild \/ ReadAddress \/ Annotate \/ Wake \/ WindowCloses
    \/ \E i \in Ingresses : Clear(i) \/ Write(i)

Next ==
    \/ Users \/ Watching \/ Looping \/ Drain \/ Restart
    \/ \E k \in Kinds : LoseWatch(k)
    \/ \E i \in Ingresses : NeighbourAnnotates(i)

Spec == Init /\ [][Next]_vars

\* The watcher reconnects with backoff forever, every API call is answered, and
\* the window has a deadline.
FairSpec == Spec /\ WF_vars(Watching) /\ WF_vars(Looping)

-----------------------------------------------------------------------------
(* The type invariant.                                                     *)
TypeOK ==
    /\ ingress \in [Ingresses -> Object \cup {None}]
    /\ other \in [OtherKinds -> Versions]
    /\ patched \subseteq Ingresses
    /\ mirror \in [ing : [Ingresses -> Object \cup {None}],
                   other : [OtherKinds -> Versions \cup {None}]]
    /\ feed \in [Kinds -> {"lost", "listing", "watching"}]
    /\ listed \subseteq Kinds
    /\ dirty \in BOOLEAN /\ resynced \in BOOLEAN
    /\ pc \in {"waiting", "rebuild", "address", "clear", "write", "annotate", "idle", "window"}
    /\ mem.gen \in Nat
    /\ IsPartial(mem.applied, Addresses)
    /\ IsPartial(mem.annotated, Nat)
    /\ IsPartial(mem.emitted, Specs)
    /\ work.todo \cup work.stale \subseteq Ingresses
    /\ work.address \in Address
    /\ work.now \in Ingresses \cup {None}
    /\ edits \in 0..MaxEdits /\ faults \in 0..MaxFaults
    /\ deleted \in BOOLEAN

AtRest == pc = "idle" /\ ~dirty

(* A loop that has gone back to sleep with an empty slot compiled, and      *)
(* complained about, exactly what its mirror holds: an event that arrives   *)
(* while a rebuild is waiting for the API server is not lost, though the    *)
(* channel has one slot and the loop drains it (watch.rs rebuild_loop).     *)
NothingForgotten ==
    AtRest => mem.content = Content(mirror) /\ mem.emitted = Refusals(mirror)

(* No table is published before every kind has been listed once, so a start *)
(* never publishes a table that is missing the endpoints or secrets the     *)
(* cluster has (watch.rs Stores::ready).                                    *)
NoPartialPublish == mem.gen > 0 => \A k \in OtherKinds : mirror.other[k] # None

(* A replica never publishes more generations than users made changes, plus *)
(* its first: the annotation and status writes of this controller come back *)
(* through its own watch, and through its neighbours', and cause none       *)
(* (status.rs module docs, "cannot cause the republish that would write it  *)
(* again").                                                                 *)
GenerationsAreEarned == mem.gen <= 1 + edits

(* The rebuilds are exactly the ones that are due: none is forgotten, none   *)
(* runs on a cluster half listed, and none is caused by the controller's own *)
(* writes (watch.rs rebuild_loop, Stores::ready, rebuild).                   *)
RebuildsExact ==
    TypeOK /\ NothingForgotten /\ NoPartialPublish /\ GenerationsAreEarned

(* The replica comes to serve what the cluster ends up holding, across       *)
(* watches that list again, failed writes and restarts.                      *)
Converges == <>[](mem.content = Content([ing |-> ingress, other |-> other]))

(* Once users stop, the replica stops: two of them at different generations *)
(* do not overwrite each other's annotation for ever (status.rs             *)
(* needs_annotation, "no no-op patch storms").                              *)
ReplicasSettle == <>[]AtRest

(* If every edit is made in place and no call, watch or process fails, every *)
(* Ingress of ours ends up with the address, and one that moved to another   *)
(* controller without it, even where a pass with an older snapshot wrote it  *)
(* after the move (status.rs sync).                                          *)
AddressFollowsOwnership ==
    <>[](~deleted /\ faults = 0 /\ StatusOn =>
            \A i \in Ingresses : ingress[i] # None =>
                ingress[i].addr = IF ingress[i].ours THEN AddressFrom(TRUE) ELSE None)

=============================================================================
