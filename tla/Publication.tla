---------------------------- MODULE Publication ----------------------------
(***************************************************************************)
(* How a compiled generation reaches the data plane of one replica.        *)
(*                                                                         *)
(* The controller hands generations over a latest-value channel.  One      *)
(* applier task takes the newest, parses its certificates, and records it  *)
(* in the GenerationHistory, which publishes it unless an operator's pin   *)
(* holds the gate.  Operators pin and release through the admin listener.  *)
(* All three publish the same way: under the history's mutex, the          *)
(* certificate store first and the route table second, two independent     *)
(* ArcSwap stores.  TLS handshakes take no lock: they load the table, then *)
(* look the handle up in whatever store is current by then.                *)
(*                                                                         *)
(* A certificate handle is content-addressed (namespace, name, bytes), so  *)
(* a handle stands for its key; a rotation is a different handle.  A       *)
(* table is abstracted to its generation and its SNI map.                  *)
(***************************************************************************)
EXTENDS Integers, Sequences, FiniteSets

CONSTANTS
    Names,      \* server names a handshake may ask for
    Certs,      \* certificate handles
    BadCerts,   \* handles whose PEM material does not parse
    NoCert,     \* an SNI map's "no certificate for this name"
    Operators,  \* admin connections that pin and release
    Applier,    \* the applier task
    Handshakes, \* TLS handshakes in progress
    NoOne,      \* the mutex is free
    NoPin,      \* publication is not being held
    Capacity,   \* generations the ring holds, after the clamp to one
    MaxGen,     \* bound on the generations compiled
    MaxTrail    \* bound on the pin changes announced

ASSUME CertsAssumption == BadCerts \subseteq Certs /\ NoCert \notin Certs
ASSUME ActorsAssumption == Applier \notin Operators /\ NoOne \notin Operators \cup {Applier}
ASSUME PinAssumption == NoPin \notin Nat
ASSUME BoundsAssumption == Capacity \in Nat \ {0} /\ MaxGen \in Nat /\ MaxTrail \in Nat

VARIABLES
    chan,      \* the watch channel: the newest compiled generation
    running,   \* the controller task has not stopped
    seen,      \* the generation the applier last took from the channel
    parsed,    \* Publisher.parsed: keys of the last generation prepared
    ring,      \* State.ring, oldest first
    pinned,    \* State.pinned
    lock,      \* holder of the state mutex
    certs,     \* the CertStore's map, with the generation it came from
    table,     \* the SharedRouteTable's current table
    pc,        \* where the applier and each operator call are
    job,       \* the record each of them is working on
    op,        \* what each operator call is doing, and what it replaced
    trail,     \* PinChange messages sent to the audit bridge
    ready,     \* the readiness flag
    hs,        \* handshakes
    wire       \* history variable: generations ever stored in the table

controller == <<chan, running>>
applier == <<seen, parsed, ready>>
gate == <<ring, pinned, lock>>
plane == <<certs, table, wire>>
calls == <<pc, job>>
admin == <<op, trail>>
vars == <<controller, applier, gate, plane, calls, admin, hs>>

Publishers == Operators \cup {Applier}
SniMaps == [Names -> Certs \cup {NoCert}]
Compiled == [gen : Nat, sni : SniMaps]
Record == [gen : Nat, sni : SniMaps, keys : SUBSET Certs, published : BOOLEAN]

\* The certificates a generation carries: one per handle its SNI map names.
CertsOf(sni) == {sni[n] : n \in Names} \ {NoCert}

\* The keys a generation can serve with: what parses of what it names.
Usable(sni) == CertsOf(sni) \ BadCerts

EmptySni == [n \in Names |-> NoCert]
Seed == [gen |-> 0, sni |-> EmptySni, keys |-> {}, published |-> FALSE]

-----------------------------------------------------------------------------
\* Publisher::prepare: keep the keys already parsed, parse the rest, drop what
\* will not parse.
MutPrepareOnlyReuses(sni) == CertsOf(sni) \cap parsed
Prepare(sni) == {c \in CertsOf(sni) : c \in parsed \/ c \notin BadCerts}

\* VecDeque::retain, push_back, and pop_front while over capacity: the ring was
\* within it before, so one pop restores it.
Retain(s, g) ==
    IF \E i \in 1..Len(s) : s[i].gen = g
    THEN LET i == CHOOSE k \in 1..Len(s) : s[k].gen = g
         IN  SubSeq(s, 1, i - 1) \o SubSeq(s, i + 1, Len(s))
    ELSE s

Push(s, r) ==
    LET pushed == Append(Retain(s, r.gen), r)
    IN  IF Len(pushed) > Capacity THEN Tail(pushed) ELSE pushed

\* State::mark_published
MutMarkNothing(s, g) == s
MarkPublished(s, g) ==
    [i \in 1..Len(s) |-> IF s[i].gen = g THEN [s[i] EXCEPT !.published = TRUE] ELSE s[i]]

Held(g) == \E i \in 1..Len(ring) : ring[i].gen = g
HeldRecord(g) == ring[CHOOSE i \in 1..Len(ring) : ring[i].gen = g]

\* record(): publish unless a pin is holding the gate.
MutGateAlwaysOpen == TRUE
GateOpen == pinned = NoPin

\* pin(): refused if something is pinned or the ring does not hold g.
MutMayRepoint(g) == Held(g)
MayPin(g) == pinned = NoPin /\ Held(g)

\* unpin(): the record it puts on the wire.  The ring is never empty while a
\* pin is held, so the arm that finds it empty is dead.
MutOldest == ring[1]
Newest == ring[Len(ring)]

\* The newest generation recorded, and the one the replica is to serve.
Recorded == IF ring = <<>> THEN 0 ELSE Newest.gen
Decision == IF pinned = NoPin THEN Recorded ELSE pinned

\* What apply() puts in the certificate store.
MutPinKeepsCerts(p) ==
    IF p = Applier THEN [gen |-> job[p].gen, keys |-> job[p].keys] ELSE certs
CertsToStore(p) == [gen |-> job[p].gen, keys |-> job[p].keys]

\* The applier's condition for setting the readiness flag.
WentLive == job[Applier].published /\ job[Applier].gen > 0

\* changed() fails only once the sender is gone and its last value was seen.
NothingLeft == ~running /\ seen = chan.gen

-----------------------------------------------------------------------------
Init ==
    /\ chan = [gen |-> 0, sni |-> EmptySni]
    /\ running = TRUE
    /\ seen = 0
    /\ parsed = {}
    /\ ring = <<>>
    /\ pinned = NoPin
    /\ lock = NoOne
    /\ certs = [gen |-> 0, keys |-> {}]
    /\ table = [gen |-> 0, sni |-> EmptySni]
    /\ pc = [p \in Publishers |-> "idle"]
    /\ job = [p \in Publishers |-> Seed]
    /\ op = [o \in Operators |-> "pin"]
    /\ trail = <<>>
    /\ ready = FALSE
    /\ hs = [h \in Handshakes |-> [pc |-> "idle", gen |-> 0, handle |-> NoCert]]
    /\ wire = {0}

(***************************************************************************)
(* The controller.  A translation whose digest is the published one is not *)
(* sent; the first translation always is, there being no published digest. *)
(* The routes are not part of the model, so a generation that differs from *)
(* the one before it in its routes alone is left out.                      *)
(***************************************************************************)
Compile(sni) ==
    /\ running
    /\ chan.gen < MaxGen
    /\ chan.gen = 0 \/ sni # chan.sni
    /\ chan' = [gen |-> chan.gen + 1, sni |-> sni]
    /\ UNCHANGED <<running, applier, gate, plane, calls, admin, hs>>

\* The watches or the rebuild loop ended, and the channel's sender is dropped.
ControllerStops ==
    /\ running
    /\ running' = FALSE
    /\ UNCHANGED <<chan, applier, gate, plane, calls, admin, hs>>

(***************************************************************************)
(* The applier: one turn of its loop is Take, RecordLock, the two stores   *)
(* unless held back, RecordPush, SetReady.                                 *)
(***************************************************************************)
\* changed() resolves; borrow_and_update; prepare.  Generations sent since the
\* last turn are coalesced into the newest.
Take ==
    /\ pc[Applier] = "idle"
    /\ seen # chan.gen
    /\ seen' = chan.gen
    /\ parsed' = Prepare(chan.sni)
    /\ job' = [job EXCEPT ![Applier] =
                  [gen |-> chan.gen, sni |-> chan.sni,
                   keys |-> Prepare(chan.sni), published |-> FALSE]]
    /\ pc' = [pc EXCEPT ![Applier] = "lock"]
    /\ UNCHANGED <<controller, ready, gate, plane, admin, hs>>

\* record(): the mutex is taken and the gate is read under it.
RecordLock ==
    /\ pc[Applier] = "lock"
    /\ lock = NoOne
    /\ lock' = Applier
    /\ job' = [job EXCEPT ![Applier].published = GateOpen]
    /\ pc' = [pc EXCEPT ![Applier] = IF GateOpen THEN "certs" ELSE "push"]
    /\ UNCHANGED <<controller, applier, ring, pinned, plane, admin, hs>>

\* record(): the record enters the ring and the mutex is released.
RecordPush ==
    /\ pc[Applier] = "push"
    /\ ring' = Push(ring, job[Applier])
    /\ lock' = NoOne
    /\ pc' = [pc EXCEPT ![Applier] = "ready"]
    /\ UNCHANGED <<controller, applier, pinned, plane, job, admin, hs>>

\* Readiness, one-way, once a compiled generation went live.
SetReady ==
    /\ pc[Applier] = "ready"
    /\ ready' = (ready \/ WentLive)
    /\ pc' = [pc EXCEPT ![Applier] = "idle"]
    /\ UNCHANGED <<controller, seen, parsed, gate, plane, job, admin, hs>>

\* The applier fires the shutdown and returns.
ApplierExit ==
    /\ pc[Applier] = "idle"
    /\ NothingLeft
    /\ pc' = [pc EXCEPT ![Applier] = "gone"]
    /\ UNCHANGED <<controller, applier, gate, plane, job, admin, hs>>

(***************************************************************************)
(* GenerationHistory::apply, shared by record, pin and unpin.              *)
(***************************************************************************)
PublishCerts(p) ==
    /\ pc[p] = "certs"
    /\ certs' = CertsToStore(p)
    /\ pc' = [pc EXCEPT ![p] = "table"]
    /\ UNCHANGED <<controller, applier, gate, table, wire, job, admin, hs>>

StoreTable(p) ==
    /\ pc[p] = "table"
    /\ table' = [gen |-> job[p].gen, sni |-> job[p].sni]
    /\ wire' = wire \cup {job[p].gen}
    /\ pc' = [pc EXCEPT ![p] = IF p = Applier THEN "push" ELSE "commit"]
    /\ UNCHANGED <<controller, applier, gate, certs, job, admin, hs>>

(***************************************************************************)
(* Operators.  A pin that is refused, and a release that finds no pin,     *)
(* return under the mutex and change nothing.                              *)
(***************************************************************************)
PinLock(o, g) ==
    /\ pc[o] = "idle"
    /\ lock = NoOne
    /\ MayPin(g)
    /\ Len(trail) < MaxTrail
    /\ lock' = o
    /\ job' = [job EXCEPT ![o] = HeldRecord(g)]
    /\ op' = [op EXCEPT ![o] = "pin"]
    /\ pc' = [pc EXCEPT ![o] = "certs"]
    /\ UNCHANGED <<controller, applier, ring, pinned, plane, trail, hs>>

PinCommit(o) ==
    /\ pc[o] = "commit"
    /\ op[o] = "pin"
    /\ pinned' = job[o].gen
    /\ ring' = MarkPublished(ring, job[o].gen)
    /\ lock' = NoOne
    /\ pc' = [pc EXCEPT ![o] = "announce"]
    /\ UNCHANGED <<controller, applier, plane, job, admin, hs>>

\* unpin(): the pin is taken before the newest record is read.
UnpinLock(o) ==
    /\ pc[o] = "idle"
    /\ lock = NoOne
    /\ pinned # NoPin
    /\ Len(trail) < MaxTrail
    /\ lock' = o
    /\ pinned' = NoPin
    /\ job' = [job EXCEPT ![o] = Newest]
    /\ op' = [op EXCEPT ![o] = "unpin"]
    /\ pc' = [pc EXCEPT ![o] = "certs"]
    /\ UNCHANGED <<controller, applier, ring, plane, trail, hs>>

UnpinCommit(o) ==
    /\ pc[o] = "commit"
    /\ op[o] = "unpin"
    /\ ring' = MarkPublished(ring, job[o].gen)
    /\ lock' = NoOne
    /\ pc' = [pc EXCEPT ![o] = "announce"]
    /\ UNCHANGED <<controller, applier, pinned, plane, job, admin, hs>>

\* announce() runs after the mutex is dropped, so announcements of different
\* calls may reach the audit bridge in either order.
MutAnnounceOnlyPins(o) ==
    /\ pc[o] = "announce"
    /\ trail' = IF op[o] = "pin" THEN Append(trail, op[o]) ELSE trail
    /\ pc' = [pc EXCEPT ![o] = "idle"]
    /\ UNCHANGED <<controller, applier, gate, plane, job, op, hs>>
Announce(o) ==
    /\ pc[o] = "announce"
    /\ trail' = Append(trail, op[o])
    /\ pc' = [pc EXCEPT ![o] = "idle"]
    /\ UNCHANGED <<controller, applier, gate, plane, job, op, hs>>

(***************************************************************************)
(* SniResolver::resolve_name: the table first, then the store.             *)
(***************************************************************************)
LoadTable(h, n) ==
    /\ hs[h].pc # "lookup"
    /\ hs' = [hs EXCEPT ![h] =
                 [pc |-> IF table.sni[n] = NoCert THEN "unnamed" ELSE "lookup",
                  gen |-> table.gen, handle |-> table.sni[n]]]
    /\ UNCHANGED <<controller, applier, gate, plane, calls, admin>>

Lookup(h) ==
    /\ hs[h].pc = "lookup"
    /\ hs' = [hs EXCEPT ![h].pc =
                 IF hs[h].handle \in certs.keys THEN "served" ELSE "failed"]
    /\ UNCHANGED <<controller, applier, gate, plane, calls, admin>>

-----------------------------------------------------------------------------
ApplierStep ==
    Take \/ RecordLock \/ RecordPush \/ SetReady \/ ApplierExit

OperatorStep(o) ==
    PinCommit(o) \/ UnpinCommit(o) \/ Announce(o)

Next ==
    \/ \E sni \in SniMaps : Compile(sni)
    \/ ControllerStops
    \/ ApplierStep
    \/ \E p \in Publishers : PublishCerts(p) \/ StoreTable(p)
    \/ \E o \in Operators : \E g \in 1..MaxGen : PinLock(o, g)
    \/ \E o \in Operators : UnpinLock(o) \/ OperatorStep(o)
    \/ \E h \in Handshakes : (\E n \in Names : LoadTable(h, n)) \/ Lookup(h)

Spec == Init /\ [][Next]_vars

\* A task that has something to do is polled, and a call that holds the mutex
\* finishes: nothing under it blocks.  Operators need never act and the
\* controller need never compile.
Fairness ==
    /\ WF_vars(ApplierStep)
    /\ \A p \in Publishers : WF_vars(PublishCerts(p) \/ StoreTable(p))
    /\ \A o \in Operators : WF_vars(OperatorStep(o))

FairSpec == Spec /\ Fairness

-----------------------------------------------------------------------------
(***************************************************************************)
(* Properties                                                              *)
(***************************************************************************)
\* Every variable has its type.
TypeOK ==
    /\ chan \in Compiled
    /\ running \in BOOLEAN
    /\ seen \in Nat
    /\ parsed \in SUBSET Certs
    /\ ring \in Seq(Record)
    /\ pinned \in Nat \cup {NoPin}
    /\ lock \in Publishers \cup {NoOne}
    /\ certs \in [gen : Nat, keys : SUBSET Certs]
    /\ table \in Compiled
    /\ pc \in [Publishers -> {"idle", "lock", "certs", "table", "push", "ready",
                              "commit", "announce", "gone"}]
    /\ job \in [Publishers -> Record]
    /\ op \in [Operators -> {"pin", "unpin"}]
    /\ trail \in Seq({"pin", "unpin"})
    /\ ready \in BOOLEAN
    /\ hs \in [Handshakes -> [pc : {"idle", "lookup", "served", "failed", "unnamed"},
                              gen : Nat, handle : Certs \cup {NoCert}]]
    /\ wire \in SUBSET Nat

\* Whenever no publication is under way, the replica serves what was decided:
\* the pinned generation if there is one, otherwise the newest one recorded,
\* and the certificate store is that generation's.
ServesWhatWasDecided ==
    lock = NoOne =>
        /\ certs.gen = table.gen
        /\ pinned # NoPin => table.gen = pinned
        /\ pinned = NoPin /\ ring # <<>> => table.gen = Newest.gen

\* Between publications every parsable handle the serving table names is in
\* the store, and the store holds nothing else: keys never go stale through the
\* applier's cache, a rollback or a release.
StoreMatchesTable ==
    lock = NoOne => certs.keys = Usable(table.sni)

\* Between publications the table is the one that was decided, and the store is
\* exactly its keys: history.rs apply() under record, pin and unpin, fed by the
\* applier's key cache.
WireTrue == ServesWhatWasDecided /\ StoreMatchesTable

\* The ring is bounded, ordered and without duplicates, so "newest" is the
\* last record and a rollback names at most one.
RingOrdered ==
    /\ Len(ring) <= Capacity
    /\ \A i, j \in 1..Len(ring) : i < j => ring[i].gen < ring[j].gen

\* GET /admin/generations tells the truth: a record is marked published exactly
\* when its table has been on the wire.
PublishedFlagIsTrue ==
    lock = NoOne =>
        \A i \in 1..Len(ring) : ring[i].published <=> ring[i].gen \in wire

Count(s, x) == Cardinality({i \in 1..Len(s) : s[i] = x})

\* Every pin and every release is announced once: when no call is between its
\* commit and its announcement, the trail's pins and releases balance with the
\* pin held.
TrailBalances ==
    (lock = NoOne /\ \A o \in Operators : pc[o] = "idle") =>
        Count(trail, "pin") = Count(trail, "unpin") + (IF pinned = NoPin THEN 0 ELSE 1)

\* While a pin is held nothing moves the wire: neither the applier nor a second
\* operator replaces what is being served.
PinHoldsTheWire ==
    [][pinned # NoPin /\ pinned' # NoPin => UNCHANGED <<certs, table>>]_vars

\* A handshake for a parsable certificate fails only if the store it read is
\* not the one its table was published with.
OnlySkewFails ==
    [][\A h \in Handshakes :
          hs[h].pc = "lookup" /\ hs'[h].pc = "failed" /\ hs[h].handle \notin BadCerts
              => certs.gen # hs[h].gen]_vars

\* A replica whose controller compiled something becomes ready, whatever
\* operators do.
EventuallyReady == chan.gen > 0 ~> ready

\* If operators leave the gate open for good, the replica ends up serving the
\* newest generation the controller compiled, even if the controller has stopped.
Converges == <>[](pinned = NoPin) => <>[](table.gen = chan.gen)

\* The applier keeps draining the channel, pinned or not, so that the replica
\* becomes ready and ends on the newest generation once it may.
Progress == EventuallyReady /\ Converges

\* The replica keeps the promise of module Gate, however the stores of a
\* publication interleave with handshakes and with other callers waiting for
\* the mutex: a call takes effect at its commit, a release at its start.
Promise == INSTANCE Gate WITH
    serving <- IF lock = NoOne THEN table.gen ELSE Decision,
    held <- pinned,
    newest <- Recorded,
    Generations <- 1..MaxGen
ImplementsGate == Promise!Spec
=============================================================================
