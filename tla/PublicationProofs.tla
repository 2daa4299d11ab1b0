------------------------- MODULE PublicationProofs -------------------------
(***************************************************************************)
(* What Publication guarantees for every set of names, certificates and    *)
(* operators, every capacity and every number of generations: what is      *)
(* served and recorded; that it implements the abstract gate; what the     *)
(* handshakes see, which take no lock; and what the reader of the audit    *)
(* trail sees, whose announcements are made after the mutex is dropped.    *)
(***************************************************************************)
EXTENDS Publication, SequenceTheorems, FiniteSetTheorems, TLAPS

Publishing == {"certs", "table", "push", "commit"}

\* Applier and operator calls each run their own code, and the mutex is held by
\* exactly the call that is publishing.
LockInv ==
    /\ pc[Applier] \notin {"commit", "announce"}
    /\ \A o \in Operators : pc[o] \in {"idle", "certs", "table", "commit", "announce"}
    /\ \A p \in Publishers : pc[p] \in Publishing <=> lock = p

\* The applier's generation is newer than everything recorded or served until
\* it is recorded, or stored.
FreshInv ==
    /\ seen <= chan.gen
    /\ job[Applier].gen = seen
    /\ pc[Applier] \in {"lock", "certs", "table", "push"} =>
          seen > 0 /\ \A i \in 1..Len(ring) : ring[i].gen < seen
    /\ \A i \in 1..Len(ring) : ring[i].gen <= seen
    /\ \A g \in wire : g <= seen
    /\ (pc[Applier] \in {"lock", "certs", "table"}
          \/ (pc[Applier] = "push" /\ ~job[Applier].published)) => seen \notin wire
    /\ pc[Applier] = "push" /\ job[Applier].published => seen \in wire

\* Every record carries exactly the keys that parse, through the applier's
\* cache of the keys parsed last.
KeysInv ==
    /\ parsed \cap BadCerts = {}
    /\ \A p \in Publishers : job[p].keys = Usable(job[p].sni)
    /\ \A i \in 1..Len(ring) : ring[i].keys = Usable(ring[i].sni)

\* An operator works on a record the ring holds, the newest when it releases.
OperatorInv ==
    \A o \in Operators : lock = o =>
        /\ pinned = NoPin
        /\ \E i \in 1..Len(ring) : /\ ring[i].gen = job[o].gen
                                   /\ op[o] = "unpin" => i = Len(ring)

\* The generation that is to be served when nobody is publishing.
Decided ==
    /\ certs.gen = table.gen
    /\ certs.keys = Usable(table.sni)
    /\ pinned # NoPin => table.gen = pinned /\ ring # <<>>
    /\ pinned = NoPin /\ ring # <<>> => table.gen = Newest.gen

\* The two stores, step by step.
StoreInv ==
    /\ lock = NoOne => Decided
    /\ \A p \in Publishers :
          /\ pc[p] = "table" => certs = CertsToStore(p)
          /\ (pc[p] = "commit" \/ (pc[p] = "push" /\ job[p].published)) =>
                /\ certs = CertsToStore(p)
                /\ table = [gen |-> job[p].gen, sni |-> job[p].sni]
    /\ pc[Applier] \in {"certs", "table"} => pinned = NoPin /\ job[Applier].published
    /\ pc[Applier] = "push" => (job[Applier].published <=> pinned = NoPin)
    /\ pc[Applier] = "push" /\ ~job[Applier].published => Decided

\* The published marks, with the mark an operator's commit has yet to set.
MarkInv ==
    \A i \in 1..Len(ring) :
        /\ ring[i].published => ring[i].gen \in wire
        /\ ring[i].gen \in wire =>
              \/ ring[i].published
              \/ \E o \in Operators : pc[o] = "commit" /\ job[o].gen = ring[i].gen
    
CommitInv == \A o \in Operators : pc[o] = "commit" => job[o].gen \in wire

IInv ==
    /\ TypeOK
    /\ LockInv
    /\ FreshInv
    /\ KeysInv
    /\ OperatorInv
    /\ RingOrdered
    /\ StoreInv
    /\ MarkInv
    /\ CommitInv

-----------------------------------------------------------------------------
\* A generation the ring does not hold leaves it as it is when it is retained
\* away.
LEMMA RetainAbsent ==
    ASSUME NEW s, NEW g, \A i \in 1..Len(s) : s[i].gen # g
    PROVE  Retain(s, g) = s
BY DEF Retain

\* What recording a generation newer than the ring's does to it.
LEMMA PushNewer ==
    ASSUME NEW s \in Seq(Record), NEW r \in Record,
           Len(s) <= Capacity,
           \A i \in 1..Len(s) : s[i].gen < r.gen
    PROVE  LET t == Push(s, r) IN
           /\ t \in Seq(Record)
           /\ Len(t) \in 1..Capacity
           /\ t[Len(t)] = r
           /\ \E d \in {0, 1} : /\ Len(t) = Len(s) + 1 - d
                                /\ \A i \in 1..(Len(t) - 1) : t[i] = s[i + d]
<1> DEFINE u == Append(s, r)
<1>1. Retain(s, r.gen) = s
  <2>1. \A i \in 1..Len(s) : s[i] \in Record
    BY ElementOfSeq
  <2>2. \A i \in 1..Len(s) : s[i].gen # r.gen
    BY <2>1 DEF Record
  <2>3. QED BY <2>2, RetainAbsent
<1>2. /\ u \in Seq(Record)
      /\ u # <<>>
      /\ Len(u) = Len(s) + 1
      /\ \A i \in 1..Len(s) : u[i] = s[i]
      /\ u[Len(u)] = r
      /\ Len(s) \in Nat
  BY AppendProperties, EmptySeq, LenProperties
<1>3. Push(s, r) = IF Len(u) > Capacity THEN Tail(u) ELSE u
  BY <1>1 DEF Push
<1>4. /\ Tail(u) \in Seq(Record)
      /\ Len(Tail(u)) = Len(s)
      /\ \A i \in 1..Len(s) : Tail(u)[i] = u[i + 1]
  BY <1>2, HeadTailProperties
<1> HIDE DEF u
<1>5. CASE Len(u) > Capacity
  <2>1. Len(s) \in 1..Capacity
    BY <1>2, <1>5, BoundsAssumption
  <2>2. Tail(u)[Len(s)] = r
    BY <1>2, <1>4, <2>1
  <2>3. \A i \in 1..(Len(s) - 1) : Tail(u)[i] = s[i + 1]
    BY <1>2, <1>4, <2>1
  <2>4. Push(s, r) = Tail(u)
    BY <1>3, <1>5
  <2>5. QED
    BY <1>2, <1>4, <2>1, <2>2, <2>3, <2>4
<1>6. CASE ~(Len(u) > Capacity)
  <2>1. Push(s, r) = u
    BY <1>3, <1>6
  <2>2. Len(u) \in 1..Capacity
    BY <1>2, <1>6, BoundsAssumption
  <2>3. \A i \in 1..(Len(u) - 1) : u[i] = s[i + 0]
    BY <1>2
  <2>4. QED
    BY <1>2, <2>1, <2>2, <2>3
<1>7. QED BY <1>5, <1>6

\* Marking a generation published changes its mark and nothing else.
LEMMA MarkFacts ==
    ASSUME NEW s \in Seq(Record), NEW g
    PROVE  LET t == MarkPublished(s, g) IN
           /\ t \in Seq(Record)
           /\ Len(t) = Len(s)
           /\ \A i \in 1..Len(s) :
                 /\ t[i].gen = s[i].gen
                 /\ t[i].sni = s[i].sni
                 /\ t[i].keys = s[i].keys
                 /\ t[i].published <=> (s[i].published \/ s[i].gen = g)
<1> DEFINE t == MarkPublished(s, g)
<1>1. \A i \in 1..Len(s) : s[i] \in Record
  BY ElementOfSeq
<1>2. Len(s) \in Nat
  OBVIOUS
<1>3. \A i \in 1..Len(s) : t[i] = IF s[i].gen = g THEN [s[i] EXCEPT !.published = TRUE] ELSE s[i]
  BY DEF MarkPublished
<1>4. \A i \in 1..Len(s) : t[i] \in Record
  BY <1>1, <1>3 DEF Record
<1>5. t \in [1..Len(s) -> Record]
  BY <1>3, <1>4 DEF MarkPublished
<1>6. t \in Seq(Record) /\ Len(t) = Len(s)
  BY <1>2, <1>5
<1>7. \A i \in 1..Len(s) :
         /\ t[i].gen = s[i].gen
         /\ t[i].sni = s[i].sni
         /\ t[i].keys = s[i].keys
         /\ t[i].published <=> (s[i].published \/ s[i].gen = g)
  BY <1>1, <1>3 DEF Record
<1>8. QED BY <1>6, <1>7

-----------------------------------------------------------------------------
\* The initial state satisfies the inductive invariant.
LEMMA InitIInv == Init => IInv
<1> SUFFICES ASSUME Init PROVE IInv
  OBVIOUS
<1> USE DEF Init, Publishers
<1>1. CertsOf(EmptySni) = {}
  BY DEF CertsOf, EmptySni
<1>2. Usable(EmptySni) = {}
  BY <1>1 DEF Usable
<1>3. EmptySni \in SniMaps
  BY DEF EmptySni, SniMaps
<1>4. TypeOK
  <2>1. Seed \in Record
    BY <1>3 DEF Seed, Record
  <2>2. chan \in Compiled /\ table \in Compiled
    BY <1>3 DEF Compiled
  <2>3. ring \in Seq(Record) /\ trail \in Seq({"pin", "unpin"})
    BY EmptySeq
  <2>4. job \in [Publishers -> Record]
    BY <2>1
  <2>5. /\ running \in BOOLEAN
        /\ ready \in BOOLEAN
        /\ op \in [Operators -> {"pin", "unpin"}]
        /\ pinned \in Nat \cup {NoPin}
        /\ lock \in Publishers \cup {NoOne}
    OBVIOUS
  <2>6. /\ seen \in Nat
        /\ parsed \in SUBSET Certs
        /\ certs \in [gen : Nat, keys : SUBSET Certs]
        /\ wire \in SUBSET Nat
    OBVIOUS
  <2>7. pc \in [Publishers -> {"idle", "lock", "certs", "table", "push", "ready",
                               "commit", "announce", "gone"}]
    OBVIOUS
  <2>8. hs \in [Handshakes -> [pc : {"idle", "lookup", "served", "failed", "unnamed"},
                               gen : Nat, handle : Certs \cup {NoCert}]]
    OBVIOUS
  <2>9. QED BY <2>2, <2>3, <2>4, <2>5, <2>6, <2>7, <2>8, Zenon DEF TypeOK
<1>5. LockInv
  BY ActorsAssumption DEF LockInv, Publishing
<1>6. FreshInv
  BY DEF FreshInv, Seed
<1>7. KeysInv
  <2>1. Seed.keys = Usable(Seed.sni)
    BY <1>2 DEF Seed
  <2>2. \A p \in Publishers : job[p] = Seed
    OBVIOUS
  <2>3. \A p \in Publishers : job[p].keys = Usable(job[p].sni)
    BY <2>1, <2>2
  <2>4. QED BY <2>3 DEF KeysInv
<1>8. OperatorInv
  BY ActorsAssumption DEF OperatorInv
<1>9. RingOrdered
  BY BoundsAssumption DEF RingOrdered
<1>10. StoreInv
  BY <1>2 DEF StoreInv, Decided
<1>11. MarkInv /\ CommitInv
  BY DEF MarkInv, CommitInv
<1>12. QED BY <1>4, <1>5, <1>6, <1>7, <1>8, <1>9, <1>10, <1>11 DEF IInv

\* Compiling a generation touches only the channel.
LEMMA CompileKeeps ==
    ASSUME IInv, NEW sni \in SniMaps, Compile(sni)
    PROVE  IInv'
<1> USE DEF Compile, controller, applier, gate, plane, calls, admin, IInv, Publishers
<1>1. TypeOK'
  BY DEF TypeOK, Compiled
<1>2. LockInv'
  BY ActorsAssumption DEF TypeOK, LockInv, Publishing
<1>3. FreshInv'
  BY DEF TypeOK, Compiled, FreshInv
<1>4. KeysInv'
  BY DEF KeysInv
<1>5. OperatorInv'
  BY DEF OperatorInv
<1>6. RingOrdered'
  BY DEF RingOrdered
<1>7. StoreInv'
  BY DEF StoreInv, Decided, Newest, CertsToStore
<1>8. MarkInv'
  BY DEF MarkInv
<1>9. CommitInv'
  BY DEF CommitInv
<1> QED BY <1>1, <1>2, <1>3, <1>4, <1>5, <1>6, <1>7, <1>8, <1>9

\* Stopping the controller touches only its flag.
LEMMA ControllerStopsKeeps ==
    ASSUME IInv, ControllerStops
    PROVE  IInv'
<1> USE DEF ControllerStops, controller, applier, gate, plane, calls, admin, IInv, Publishers
<1>1. TypeOK'
  BY DEF TypeOK, Compiled
<1>2. LockInv'
  BY ActorsAssumption DEF TypeOK, LockInv, Publishing
<1>3. FreshInv'
  BY DEF TypeOK, Compiled, FreshInv
<1>4. KeysInv'
  BY DEF TypeOK, KeysInv
<1>5. OperatorInv'
  BY DEF TypeOK, OperatorInv
<1>6. RingOrdered'
  BY DEF RingOrdered
<1>7. StoreInv'
  BY DEF TypeOK, LockInv, Publishing, StoreInv, Decided, Newest, CertsToStore
<1>8. MarkInv'
  BY DEF TypeOK, MarkInv
<1>9. CommitInv'
  BY DEF TypeOK, CommitInv
<1> QED BY <1>1, <1>2, <1>3, <1>4, <1>5, <1>6, <1>7, <1>8, <1>9

\* Setting readiness moves the applier on and nothing else.
LEMMA SetReadyKeeps ==
    ASSUME IInv, SetReady
    PROVE  IInv'
<1> USE DEF SetReady, controller, applier, gate, plane, calls, admin, IInv, Publishers
<1>1. TypeOK'
  BY DEF TypeOK, Compiled
<1>2. LockInv'
  BY ActorsAssumption DEF TypeOK, LockInv, Publishing
<1>3. FreshInv'
  BY ActorsAssumption DEF TypeOK, Compiled, FreshInv, LockInv
<1>4. KeysInv'
  BY DEF TypeOK, KeysInv
<1>5. OperatorInv'
  BY DEF TypeOK, OperatorInv
<1>6. RingOrdered'
  BY DEF RingOrdered
<1>7. StoreInv'
  BY DEF TypeOK, LockInv, Publishing, StoreInv, Decided, Newest, CertsToStore
<1>8. MarkInv'
  BY DEF TypeOK, MarkInv
<1>9. CommitInv'
  BY DEF TypeOK, CommitInv
<1> QED BY <1>1, <1>2, <1>3, <1>4, <1>5, <1>6, <1>7, <1>8, <1>9

\* The applier's exit holds nothing.
LEMMA ApplierExitKeeps ==
    ASSUME IInv, ApplierExit
    PROVE  IInv'
<1> USE DEF ApplierExit, controller, applier, gate, plane, calls, admin, IInv, Publishers
<1>1. TypeOK'
  BY DEF TypeOK, Compiled
<1>2. LockInv'
  BY ActorsAssumption DEF TypeOK, LockInv, Publishing
<1>3. FreshInv'
  BY DEF TypeOK, Compiled, FreshInv
<1>4. KeysInv'
  BY DEF TypeOK, KeysInv
<1>5. OperatorInv'
  BY DEF TypeOK, OperatorInv
<1>6. RingOrdered'
  BY DEF RingOrdered
<1>7. StoreInv'
  BY DEF TypeOK, LockInv, Publishing, StoreInv, Decided, Newest, CertsToStore
<1>8. MarkInv'
  BY DEF TypeOK, MarkInv
<1>9. CommitInv'
  BY DEF TypeOK, CommitInv
<1> QED BY <1>1, <1>2, <1>3, <1>4, <1>5, <1>6, <1>7, <1>8, <1>9

\* Announcing holds nothing.
LEMMA AnnounceKeeps ==
    ASSUME IInv, NEW o \in Operators, Announce(o)
    PROVE  IInv'
<1> USE DEF Announce, controller, applier, gate, plane, calls, admin, IInv, Publishers
<1>1. TypeOK'
  BY DEF TypeOK, Compiled
<1>2. LockInv'
  BY ActorsAssumption DEF TypeOK, LockInv, Publishing
<1>3. FreshInv'
  BY DEF TypeOK, Compiled, FreshInv
<1>4. KeysInv'
  BY DEF TypeOK, KeysInv
<1>5. OperatorInv'
  BY DEF TypeOK, OperatorInv
<1>6. RingOrdered'
  BY DEF RingOrdered
<1>7. StoreInv'
  BY DEF TypeOK, LockInv, Publishing, StoreInv, Decided, Newest, CertsToStore
<1>8. MarkInv'
  BY DEF TypeOK, MarkInv
<1>9. CommitInv'
  BY DEF TypeOK, CommitInv
<1> QED BY <1>1, <1>2, <1>3, <1>4, <1>5, <1>6, <1>7, <1>8, <1>9

\* A handshake changes no shared state when it loads the table.
LEMMA LoadTableKeeps ==
    ASSUME IInv, NEW h \in Handshakes, NEW n \in Names, LoadTable(h, n)
    PROVE  IInv'
<1> USE DEF LoadTable, controller, applier, gate, plane, calls, admin, IInv, Publishers
<1>1. TypeOK'
  BY DEF TypeOK, Compiled, SniMaps
<1>2. LockInv'
  BY ActorsAssumption DEF TypeOK, LockInv, Publishing
<1>3. FreshInv'
  BY DEF TypeOK, Compiled, FreshInv
<1>4. KeysInv'
  BY DEF TypeOK, KeysInv
<1>5. OperatorInv'
  BY DEF TypeOK, OperatorInv
<1>6. RingOrdered'
  BY DEF RingOrdered
<1>7. StoreInv'
  BY DEF TypeOK, LockInv, Publishing, StoreInv, Decided, Newest, CertsToStore
<1>8. MarkInv'
  BY DEF TypeOK, MarkInv
<1>9. CommitInv'
  BY DEF TypeOK, CommitInv
<1> QED BY <1>1, <1>2, <1>3, <1>4, <1>5, <1>6, <1>7, <1>8, <1>9

\* A handshake changes no shared state when it looks its handle up.
LEMMA LookupKeeps ==
    ASSUME IInv, NEW h \in Handshakes, Lookup(h)
    PROVE  IInv'
<1> USE DEF Lookup, controller, applier, gate, plane, calls, admin, IInv, Publishers
<1>1. TypeOK'
  <2> DEFINE HS == [pc : {"idle", "lookup", "served", "failed", "unnamed"},
                    gen : Nat, handle : Certs \cup {NoCert}]
  <2>1. hs \in [Handshakes -> HS]
    BY DEF TypeOK
  <2>2. PICK a \in {"served", "failed"} : hs' = [hs EXCEPT ![h].pc = a]
    OBVIOUS
  <2>3. [hs[h] EXCEPT !.pc = a] \in HS
    BY <2>1, <2>2
  <2>4. hs' \in [Handshakes -> HS]
    BY <2>1, <2>2, <2>3
  <2>5. QED BY <2>4 DEF TypeOK
<1>2. LockInv'
  BY ActorsAssumption DEF TypeOK, LockInv, Publishing
<1>3. FreshInv'
  BY DEF TypeOK, Compiled, FreshInv
<1>4. KeysInv'
  BY DEF TypeOK, KeysInv
<1>5. OperatorInv'
  BY DEF TypeOK, OperatorInv
<1>6. RingOrdered'
  BY DEF RingOrdered
<1>7. StoreInv'
  BY DEF TypeOK, LockInv, Publishing, StoreInv, Decided, Newest, CertsToStore
<1>8. MarkInv'
  BY DEF TypeOK, MarkInv
<1>9. CommitInv'
  BY DEF TypeOK, CommitInv
<1> QED BY <1>1, <1>2, <1>3, <1>4, <1>5, <1>6, <1>7, <1>8, <1>9

\* Taking a generation prepares exactly the keys that parse.
LEMMA TakeKeeps ==
    ASSUME IInv, Take
    PROVE  IInv'
<1> USE DEF Take, controller, applier, gate, plane, calls, admin, IInv, Publishers
<1>r. \A i \in 1..Len(ring) : ring[i] \in Record
  BY ElementOfSeq DEF TypeOK
<1>k. Prepare(chan.sni) = Usable(chan.sni)
  BY DEF KeysInv, Prepare, Usable
<1>1. TypeOK'
  BY DEF TypeOK, Compiled, Record, Prepare, CertsOf, SniMaps
<1>2. LockInv'
  BY ActorsAssumption DEF TypeOK, LockInv, Publishing
<1>3. FreshInv'
  <2>1. seen < chan.gen /\ seen \in Nat /\ chan.gen \in Nat
    BY DEF FreshInv, TypeOK, Compiled
  <2>2. \A i \in 1..Len(ring) : ring[i].gen \in Nat /\ ring[i].gen <= seen
    BY <1>r DEF FreshInv, Record
  <2>3. \A g \in wire : g \in Nat /\ g <= seen
    BY DEF FreshInv, TypeOK
  <2>4. /\ job'[Applier].gen = chan.gen
        /\ job'[Applier].published = FALSE
        /\ pc'[Applier] = "lock"
    BY DEF TypeOK
  <2>5. QED BY <2>1, <2>2, <2>3, <2>4 DEF FreshInv
<1>4. KeysInv'
  <2>1. parsed' \cap BadCerts = {}
    BY <1>k DEF Usable
  <2>2. job'[Applier].keys = Usable(job'[Applier].sni)
    BY <1>k DEF TypeOK
  <2>3. \A p \in Operators : job'[p] = job[p]
    BY ActorsAssumption DEF TypeOK
  <2>4. \A p \in Publishers : job'[p].keys = Usable(job'[p].sni)
    BY <2>2, <2>3 DEF KeysInv
  <2>5. QED BY <2>1, <2>4 DEF KeysInv
<1>5. OperatorInv'
  BY ActorsAssumption DEF TypeOK, OperatorInv
<1>6. RingOrdered'
  BY DEF RingOrdered
<1>7. StoreInv'
  BY DEF TypeOK, LockInv, Publishing, StoreInv, Decided, Newest, CertsToStore
<1>8. MarkInv'
  BY DEF TypeOK, MarkInv
<1>9. CommitInv'
  BY DEF TypeOK, CommitInv
<1> QED BY <1>1, <1>2, <1>3, <1>4, <1>5, <1>6, <1>7, <1>8, <1>9

\* The applier takes the mutex and reads the gate.
LEMMA RecordLockKeeps ==
    ASSUME IInv, RecordLock
    PROVE  IInv'
<1> USE DEF RecordLock, controller, applier, gate, plane, calls, admin, IInv, Publishers
<1>1. TypeOK'
  <2>1. job \in [Publishers -> Record]
    BY DEF TypeOK
  <2>2. PICK b \in BOOLEAN : job' = [job EXCEPT ![Applier].published = b]
    BY DEF GateOpen
  <2>3. [job[Applier] EXCEPT !.published = b] \in Record
    BY <2>1, <2>2 DEF Record
  <2>4. job' \in [Publishers -> Record]
    BY <2>1, <2>2, <2>3
  <2>5. pc' \in [Publishers -> {"idle", "lock", "certs", "table", "push", "ready",
                                "commit", "announce", "gone"}]
    BY DEF TypeOK
  <2>6. QED BY <2>4, <2>5 DEF TypeOK
<1>2. LockInv'
  BY ActorsAssumption DEF TypeOK, LockInv, Publishing
<1>3. FreshInv'
  BY DEF TypeOK, Compiled, FreshInv
<1>4. KeysInv'
  BY DEF TypeOK, KeysInv
<1>5. OperatorInv'
  BY ActorsAssumption DEF TypeOK, OperatorInv
<1>6. RingOrdered'
  BY DEF RingOrdered
<1>7. StoreInv'
  <2>1. Decided
    BY DEF StoreInv
  <2>2. Decided'
    BY <2>1 DEF Decided, Newest
  <2>3. \A p \in Publishers : pc[p] \notin Publishing
    BY ActorsAssumption DEF LockInv
  <2>4. \A p \in Operators : pc'[p] = pc[p] /\ job'[p] = job[p]
    BY ActorsAssumption DEF TypeOK
  <2>5. pc'[Applier] = IF pinned = NoPin THEN "certs" ELSE "push"
    BY DEF TypeOK, GateOpen
  <2>6. job'[Applier].published <=> pinned = NoPin
    BY DEF TypeOK, Record, GateOpen
  <2>7. lock' # NoOne
    BY ActorsAssumption
  <2>8. \A p \in Publishers : pc'[p] \notin {"table", "commit"}
    BY <2>3, <2>4, <2>5 DEF Publishing
  <2>9. \A p \in Operators : pc'[p] # "push"
    BY <2>3, <2>4 DEF Publishing
  <2>10. QED BY <2>2, <2>5, <2>6, <2>7, <2>8, <2>9 DEF StoreInv
<1>8. MarkInv'
  BY DEF TypeOK, MarkInv
<1>9. CommitInv'
  BY DEF TypeOK, CommitInv
<1> QED BY <1>1, <1>2, <1>3, <1>4, <1>5, <1>6, <1>7, <1>8, <1>9

\* The store first.
LEMMA PublishCertsKeeps ==
    ASSUME IInv, NEW p \in Publishers, PublishCerts(p)
    PROVE  IInv'
<1> USE DEF PublishCerts, controller, applier, gate, plane, calls, admin, IInv, Publishers
<1>1. TypeOK'
  BY DEF TypeOK, Compiled, Record, CertsToStore
<1>2. LockInv'
  BY ActorsAssumption DEF TypeOK, LockInv, Publishing
<1>3. FreshInv'
  BY DEF TypeOK, Compiled, FreshInv
<1>4. KeysInv'
  BY DEF TypeOK, KeysInv
<1>5. OperatorInv'
  BY DEF TypeOK, OperatorInv
<1>6. RingOrdered'
  BY DEF RingOrdered
<1>7. StoreInv'
  BY ActorsAssumption DEF TypeOK, LockInv, Publishing, StoreInv, CertsToStore
<1>8. MarkInv'
  BY DEF TypeOK, MarkInv
<1>9. CommitInv'
  BY DEF TypeOK, CommitInv
<1> QED BY <1>1, <1>2, <1>3, <1>4, <1>5, <1>6, <1>7, <1>8, <1>9

\* The table second.
LEMMA StoreTableKeeps ==
    ASSUME IInv, NEW p \in Publishers, StoreTable(p)
    PROVE  IInv'
<1> USE DEF StoreTable, controller, applier, gate, plane, calls, admin, IInv, Publishers
<1>1. TypeOK'
  BY DEF TypeOK, Compiled, Record
<1>2. LockInv'
  BY ActorsAssumption DEF TypeOK, LockInv, Publishing
<1>3. FreshInv'
  BY ActorsAssumption DEF TypeOK, Compiled, FreshInv, LockInv, Publishing, StoreInv, OperatorInv
<1>4. KeysInv'
  BY DEF TypeOK, KeysInv
<1>5. OperatorInv'
  BY DEF TypeOK, OperatorInv
<1>6. RingOrdered'
  BY DEF RingOrdered
<1>7. StoreInv'
  BY ActorsAssumption DEF TypeOK, LockInv, Publishing, StoreInv, CertsToStore
<1>8. MarkInv'
  BY ActorsAssumption DEF TypeOK, MarkInv, FreshInv, LockInv, Publishing, OperatorInv
<1>9. CommitInv'
  BY DEF TypeOK, CommitInv
<1> QED BY <1>1, <1>2, <1>3, <1>4, <1>5, <1>6, <1>7, <1>8, <1>9

\* Recording a generation keeps the ring ordered and what it says true.
LEMMA RecordPushKeeps ==
    ASSUME IInv, RecordPush
    PROVE  IInv'
<1> USE DEF RecordPush, controller, applier, gate, plane, calls, admin, IInv, Publishers
<1> DEFINE r == job[Applier]
<1>a. r \in Record /\ ring \in Seq(Record) /\ Len(ring) \in Nat
  BY DEF TypeOK
<1>b. Len(ring) <= Capacity /\ \A i \in 1..Len(ring) : ring[i].gen < r.gen
  BY DEF RingOrdered, FreshInv
<1>c. /\ ring' \in Seq(Record)
      /\ Len(ring') \in 1..Capacity
      /\ ring'[Len(ring')] = r
      /\ \E d \in {0, 1} : /\ Len(ring') = Len(ring) + 1 - d
                           /\ \A i \in 1..(Len(ring') - 1) : ring'[i] = ring[i + d]
  BY <1>a, <1>b, PushNewer
<1>d. PICK d \in {0, 1} : /\ Len(ring') = Len(ring) + 1 - d
                          /\ \A i \in 1..(Len(ring') - 1) : ring'[i] = ring[i + d]
  BY <1>c
<1>e. \A i \in 1..(Len(ring') - 1) : i + d \in 1..Len(ring)
  BY <1>a, <1>c, <1>d
<1>f. \A i \in 1..Len(ring') : \/ ring'[i] = r
                               \/ \E k \in 1..Len(ring) : ring'[i] = ring[k]
  <2> TAKE i \in 1..Len(ring')
  <2>1. CASE i = Len(ring')
    BY <1>c, <2>1
  <2>2. CASE i # Len(ring')
    <3>1. i \in 1..(Len(ring') - 1)
      BY <2>2, <1>c
    <3>2. QED BY <3>1, <1>d, <1>e
  <2>3. QED BY <2>1, <2>2
<1>g. lock = Applier /\ \A o \in Operators : pc[o] \notin Publishing
  BY ActorsAssumption DEF LockInv, Publishing
<1>h. ring' # <<>>
  BY <1>c
<1>1. TypeOK'
  BY <1>c DEF TypeOK
<1>2. LockInv'
  BY <1>g, ActorsAssumption DEF TypeOK, LockInv, Publishing
<1>3. FreshInv'
  <2>1. r.gen = seen /\ seen \in Nat /\ \A k \in 1..Len(ring) : ring[k].gen <= seen
    BY DEF FreshInv, TypeOK
  <2>2. \A i \in 1..Len(ring') : ring'[i].gen <= seen
    BY <1>f, <2>1
  <2>3. pc'[Applier] = "ready"
    BY DEF TypeOK
  <2>4. QED BY <2>2, <2>3 DEF FreshInv
<1>4. KeysInv'
  BY <1>f DEF KeysInv
<1>5. OperatorInv'
  BY ActorsAssumption DEF OperatorInv
<1>6. RingOrdered'
  <2>1. Len(ring') <= Capacity
    BY <1>c, BoundsAssumption
  <2>2. ASSUME NEW i \in 1..Len(ring'), NEW j \in 1..Len(ring'), i < j
        PROVE  ring'[i].gen < ring'[j].gen
    <3>1. i \in 1..(Len(ring') - 1) /\ ring'[i] = ring[i + d]
      BY <2>2, <1>c, <1>d
    <3>2. CASE j = Len(ring')
      BY <3>1, <3>2, <1>b, <1>c, <1>e
    <3>3. CASE j # Len(ring')
      <4>0. Len(ring') \in Nat
        BY <1>c, BoundsAssumption
      <4>1. j \in 1..(Len(ring') - 1)
        BY <3>3, <4>0
      <4>2. ring'[j] = ring[j + d]
        BY <4>1, <1>d
      <4>3. i + d < j + d
        BY <2>2, <4>0
      <4>4. QED BY <3>1, <4>1, <4>2, <4>3, <1>e DEF RingOrdered
    <3>4. QED BY <3>2, <3>3
  <2>3. QED BY <2>1, <2>2 DEF RingOrdered
<1>7. StoreInv'
  <2>1. Newest' = r
    BY <1>c DEF Newest
  <2>2. CASE r.published
    <3>1. /\ certs = CertsToStore(Applier)
          /\ table = [gen |-> r.gen, sni |-> r.sni]
          /\ pinned = NoPin
      BY <2>2 DEF StoreInv
    <3>2. certs.keys = Usable(table.sni)
      BY <3>1 DEF CertsToStore, KeysInv
    <3>3. certs.gen = table.gen /\ table.gen = r.gen
      BY <3>1 DEF CertsToStore
    <3>4. Decided'
      BY <2>1, <3>1, <3>2, <3>3 DEF Decided
    <3>5. QED BY <3>4, <1>g DEF StoreInv, LockInv, TypeOK, Publishing
  <2>3. CASE ~r.published
    <3>1. Decided /\ pinned # NoPin
      BY <2>3 DEF StoreInv
    <3>2. Decided'
      BY <3>1, <1>h DEF Decided
    <3>3. QED BY <3>2, <1>g DEF StoreInv, LockInv, TypeOK, Publishing
  <2>4. QED BY <2>2, <2>3
<1>8. MarkInv'
  <2>1. \A o \in Operators : pc[o] # "commit"
    BY <1>g DEF Publishing
  <2>2. r.published <=> r.gen \in wire
    BY DEF FreshInv
  <2>3. \A k \in 1..Len(ring) : ring[k].published <=> ring[k].gen \in wire
    BY <2>1 DEF MarkInv
  <2>4. \A i \in 1..Len(ring') : ring'[i].published <=> ring'[i].gen \in wire
    BY <1>f, <2>2, <2>3
  <2>5. QED BY <2>4 DEF MarkInv
<1>9. CommitInv'
  BY ActorsAssumption DEF TypeOK, CommitInv
<1> QED BY <1>1, <1>2, <1>3, <1>4, <1>5, <1>6, <1>7, <1>8, <1>9

\* The record a rollback finds is one the ring holds.
LEMMA HeldFacts ==
    ASSUME NEW g, Held(g), ring \in Seq(Record)
    PROVE  \E i \in 1..Len(ring) : ring[i].gen = g /\ HeldRecord(g) = ring[i]
BY DEF Held, HeldRecord

\* A rollback takes the mutex with a record of the ring in hand.
LEMMA PinLockKeeps ==
    ASSUME IInv, NEW o \in Operators, NEW g \in 1..MaxGen, PinLock(o, g)
    PROVE  IInv'
<1> USE DEF PinLock, controller, applier, gate, plane, calls, admin, IInv, Publishers
<1>a. PICK k \in 1..Len(ring) : HeldRecord(g) = ring[k]
  BY HeldFacts DEF TypeOK, MayPin
<1>b. ring[k] \in Record
  BY ElementOfSeq DEF TypeOK
<1>c. pinned = NoPin
  BY DEF MayPin
<1>d. \A p \in Publishers : pc[p] \notin Publishing
  BY ActorsAssumption DEF LockInv
<1>e. job' = [job EXCEPT ![o] = ring[k]]
  BY <1>a
<1>f. o # Applier /\ o # NoOne /\ lock' = o
  BY ActorsAssumption
<1>1. TypeOK'
  BY <1>b, <1>e DEF TypeOK
<1>2. LockInv'
  BY <1>d, <1>f, ActorsAssumption DEF TypeOK, LockInv, Publishing
<1>3. FreshInv'
  BY <1>f DEF TypeOK, FreshInv
<1>4. KeysInv'
  BY <1>e, <1>f DEF TypeOK, KeysInv
<1>5. OperatorInv'
  BY <1>c, <1>e, <1>f DEF TypeOK, OperatorInv
<1>6. RingOrdered'
  BY DEF RingOrdered
<1>7. StoreInv'
  <2>1. \A p \in Publishers : pc'[p] \notin {"table", "commit", "push"}
    BY <1>d DEF TypeOK, Publishing
  <2>2. pc'[Applier] \notin Publishing
    BY <1>d, <1>f DEF TypeOK
  <2>3. QED BY <1>f, <2>1, <2>2 DEF StoreInv, Publishing
<1>8. MarkInv'
  BY <1>d, <1>f DEF TypeOK, MarkInv, Publishing
<1>9. CommitInv'
  BY <1>d, <1>f DEF TypeOK, CommitInv, Publishing
<1> QED BY <1>1, <1>2, <1>3, <1>4, <1>5, <1>6, <1>7, <1>8, <1>9

\* A release takes the pin away and takes the mutex with the newest record.
LEMMA UnpinLockKeeps ==
    ASSUME IInv, NEW o \in Operators, UnpinLock(o)
    PROVE  IInv'
<1> USE DEF UnpinLock, controller, applier, gate, plane, calls, admin, IInv, Publishers
<1>a. Len(ring) \in 1..Len(ring)
  <2>1. ring # <<>>
    BY DEF StoreInv, Decided
  <2>2. QED BY <2>1, EmptySeq DEF TypeOK
<1>b. Newest \in Record /\ Newest = ring[Len(ring)]
  BY <1>a, ElementOfSeq DEF TypeOK, Newest
<1>d. \A p \in Publishers : pc[p] \notin Publishing
  BY ActorsAssumption DEF LockInv
<1>f. o # Applier /\ o # NoOne /\ lock' = o
  BY ActorsAssumption
<1>1. TypeOK'
  BY <1>b DEF TypeOK
<1>2. LockInv'
  BY <1>d, <1>f, ActorsAssumption DEF TypeOK, LockInv, Publishing
<1>3. FreshInv'
  BY <1>f DEF TypeOK, FreshInv
<1>4. KeysInv'
  BY <1>a, <1>b, <1>f DEF TypeOK, KeysInv
<1>5. OperatorInv'
  BY <1>a, <1>b, <1>f DEF TypeOK, OperatorInv
<1>6. RingOrdered'
  BY DEF RingOrdered
<1>7. StoreInv'
  <2>1. \A p \in Publishers : pc'[p] \notin {"table", "commit", "push"}
    BY <1>d DEF TypeOK, Publishing
  <2>2. pc'[Applier] \notin Publishing
    BY <1>d, <1>f DEF TypeOK
  <2>3. QED BY <1>f, <2>1, <2>2 DEF StoreInv, Publishing
<1>8. MarkInv'
  BY <1>d, <1>f DEF TypeOK, MarkInv, Publishing
<1>9. CommitInv'
  BY <1>d, <1>f DEF TypeOK, CommitInv, Publishing
<1> QED BY <1>1, <1>2, <1>3, <1>4, <1>5, <1>6, <1>7, <1>8, <1>9

\* A rollback commits: the pin is set and its record marked.
LEMMA PinCommitKeeps ==
    ASSUME IInv, NEW o \in Operators, PinCommit(o)
    PROVE  IInv'
<1> USE DEF PinCommit, controller, applier, gate, plane, calls, admin, IInv, Publishers
<1>a. ring \in Seq(Record) /\ Len(ring) \in Nat
  BY DEF TypeOK
<1>b. /\ ring' \in Seq(Record)
      /\ Len(ring') = Len(ring)
      /\ \A i \in 1..Len(ring) :
            /\ ring'[i].gen = ring[i].gen
            /\ ring'[i].sni = ring[i].sni
            /\ ring'[i].keys = ring[i].keys
            /\ ring'[i].published <=> (ring[i].published \/ ring[i].gen = job[o].gen)
  BY <1>a, MarkFacts
<1>c. o # Applier /\ lock = o
  BY ActorsAssumption DEF LockInv, Publishing
<1>d. \A p \in Publishers : p # o => pc[p] \notin Publishing
  BY <1>c DEF LockInv
<1>e. \A p \in Publishers : pc'[p] = IF p = o THEN "announce" ELSE pc[p]
  BY DEF TypeOK
<1>f. PICK k \in 1..Len(ring) : ring[k].gen = job[o].gen /\ (op[o] = "unpin" => k = Len(ring))
  BY <1>c DEF OperatorInv
<1>g. job[o].gen \in Nat
  BY DEF TypeOK, Record
<1>1. TypeOK'
  BY <1>b, <1>g DEF TypeOK
<1>2. LockInv'
  BY <1>c, <1>d, <1>e, ActorsAssumption DEF LockInv, Publishing
<1>3. FreshInv'
  BY <1>b, <1>c, <1>e DEF FreshInv
<1>4. KeysInv'
  BY <1>b DEF KeysInv
<1>5. OperatorInv'
  BY ActorsAssumption DEF OperatorInv
<1>6. RingOrdered'
  BY <1>b DEF RingOrdered
<1>7. StoreInv'
  <2>1. certs = CertsToStore(o) /\ table = [gen |-> job[o].gen, sni |-> job[o].sni]
    BY DEF StoreInv
  <2>2. certs.gen = table.gen /\ certs.keys = Usable(table.sni) /\ table.gen = job[o].gen
    BY <2>1 DEF CertsToStore, KeysInv
  <2>3. ring' # <<>>
    BY <1>a, <1>b, <1>f
  <2>4. Decided'
    BY <1>g, <2>2, <2>3, PinAssumption DEF Decided
  <2>5. \A p \in Publishers : pc'[p] \notin Publishing
    BY <1>d, <1>e DEF Publishing
  <2>6. QED BY <2>4, <2>5 DEF StoreInv, Publishing
<1>8. MarkInv'
  <2>1. \A q \in Operators : q # o => pc[q] # "commit"
    BY <1>d DEF Publishing
  <2>2. job[o].gen \in wire
    BY DEF CommitInv
  <2>3. \A i \in 1..Len(ring) : ring'[i].published <=> ring'[i].gen \in wire
    BY <1>b, <2>1, <2>2 DEF MarkInv
  <2>4. QED BY <1>b, <2>3 DEF MarkInv
<1>9. CommitInv'
  BY <1>e DEF CommitInv
<1> QED BY <1>1, <1>2, <1>3, <1>4, <1>5, <1>6, <1>7, <1>8, <1>9

\* A release commits: the newest record is marked.
LEMMA UnpinCommitKeeps ==
    ASSUME IInv, NEW o \in Operators, UnpinCommit(o)
    PROVE  IInv'
<1> USE DEF UnpinCommit, controller, applier, gate, plane, calls, admin, IInv, Publishers
<1>a. ring \in Seq(Record) /\ Len(ring) \in Nat
  BY DEF TypeOK
<1>b. /\ ring' \in Seq(Record)
      /\ Len(ring') = Len(ring)
      /\ \A i \in 1..Len(ring) :
            /\ ring'[i].gen = ring[i].gen
            /\ ring'[i].sni = ring[i].sni
            /\ ring'[i].keys = ring[i].keys
            /\ ring'[i].published <=> (ring[i].published \/ ring[i].gen = job[o].gen)
  BY <1>a, MarkFacts
<1>c. o # Applier /\ lock = o
  BY ActorsAssumption DEF LockInv, Publishing
<1>d. \A p \in Publishers : p # o => pc[p] \notin Publishing
  BY <1>c DEF LockInv
<1>e. \A p \in Publishers : pc'[p] = IF p = o THEN "announce" ELSE pc[p]
  BY DEF TypeOK
<1>f. PICK k \in 1..Len(ring) : ring[k].gen = job[o].gen /\ (op[o] = "unpin" => k = Len(ring))
  BY <1>c DEF OperatorInv
<1>g. job[o].gen \in Nat
  BY DEF TypeOK, Record
<1>1. TypeOK'
  BY <1>b, <1>g DEF TypeOK
<1>2. LockInv'
  BY <1>c, <1>d, <1>e, ActorsAssumption DEF LockInv, Publishing
<1>3. FreshInv'
  BY <1>b, <1>c, <1>e DEF FreshInv
<1>4. KeysInv'
  BY <1>b DEF KeysInv
<1>5. OperatorInv'
  BY ActorsAssumption DEF OperatorInv
<1>6. RingOrdered'
  BY <1>b DEF RingOrdered
<1>7. StoreInv'
  <2>1. certs = CertsToStore(o) /\ table = [gen |-> job[o].gen, sni |-> job[o].sni]
    BY DEF StoreInv
  <2>2. certs.gen = table.gen /\ certs.keys = Usable(table.sni) /\ table.gen = job[o].gen
    BY <2>1 DEF CertsToStore, KeysInv
  <2>3. ring' # <<>>
    BY <1>a, <1>b, <1>f
  <2>4. Decided'
    <3>1. Newest'.gen = job[o].gen
      BY <1>b, <1>f DEF Newest
    <3>2. pinned = NoPin
      BY <1>c DEF OperatorInv
    <3>3. QED BY <2>2, <3>1, <3>2 DEF Decided
  <2>5. \A p \in Publishers : pc'[p] \notin Publishing
    BY <1>d, <1>e DEF Publishing
  <2>6. QED BY <2>4, <2>5 DEF StoreInv, Publishing
<1>8. MarkInv'
  <2>1. \A q \in Operators : q # o => pc[q] # "commit"
    BY <1>d DEF Publishing
  <2>2. job[o].gen \in wire
    BY DEF CommitInv
  <2>3. \A i \in 1..Len(ring) : ring'[i].published <=> ring'[i].gen \in wire
    BY <1>b, <2>1, <2>2 DEF MarkInv
  <2>4. QED BY <1>b, <2>3 DEF MarkInv
<1>9. CommitInv'
  BY <1>e DEF CommitInv
<1> QED BY <1>1, <1>2, <1>3, <1>4, <1>5, <1>6, <1>7, <1>8, <1>9

\* Every step keeps the inductive invariant.
LEMMA NextKeeps == IInv /\ [Next]_vars => IInv'
<1> SUFFICES ASSUME IInv, [Next]_vars PROVE IInv'
  OBVIOUS
<1>1. CASE \E sni \in SniMaps : Compile(sni)
  BY <1>1, CompileKeeps
<1>2. CASE ControllerStops
  BY <1>2, ControllerStopsKeeps
<1>3. CASE ApplierStep
  BY <1>3, TakeKeeps, RecordLockKeeps, RecordPushKeeps, SetReadyKeeps, ApplierExitKeeps
     DEF ApplierStep
<1>4. CASE \E p \in Publishers : PublishCerts(p) \/ StoreTable(p)
  BY <1>4, PublishCertsKeeps, StoreTableKeeps
<1>5. CASE \E o \in Operators : \E g \in 1..MaxGen : PinLock(o, g)
  BY <1>5, PinLockKeeps
<1>6. CASE \E o \in Operators : UnpinLock(o) \/ OperatorStep(o)
  BY <1>6, UnpinLockKeeps, PinCommitKeeps, UnpinCommitKeeps, AnnounceKeeps DEF OperatorStep
<1>7. CASE \E h \in Handshakes : (\E n \in Names : LoadTable(h, n)) \/ Lookup(h)
  BY <1>7, LoadTableKeeps, LookupKeeps
<1>8. CASE UNCHANGED vars
  BY <1>8 DEF vars, controller, applier, gate, plane, calls, admin, IInv, TypeOK,
     LockInv, FreshInv, KeysInv, OperatorInv, RingOrdered, StoreInv, Decided,
     Newest, CertsToStore, MarkInv, CommitInv
<1>9. QED BY <1>1, <1>2, <1>3, <1>4, <1>5, <1>6, <1>7, <1>8 DEF Next

-----------------------------------------------------------------------------
\* The inductive invariant holds in every reachable state.
THEOREM Inductive == Spec => []IInv
BY InitIInv, NextKeeps, PTL DEF Spec

\* Every variable keeps its type, through every interleaving of the applier,
\* the operators and the handshakes.
THEOREM TypeCorrect == Spec => []TypeOK
<1>1. IInv => TypeOK
  BY DEF IInv
<1>2. QED BY <1>1, Inductive, PTL

\* Between publications the replica serves the pinned generation, or else the
\* newest one recorded, with that generation's certificates (history.rs record,
\* pin, unpin).
THEOREM ServesDecided == Spec => []ServesWhatWasDecided
<1>1. IInv => ServesWhatWasDecided
  BY DEF IInv, StoreInv, Decided, ServesWhatWasDecided
<1>2. QED BY <1>1, Inductive, PTL

\* Between publications the certificate store holds exactly the parsable
\* certificates the serving table names (kubernetes.rs prepare, history.rs apply).
THEOREM StoreMatches == Spec => []StoreMatchesTable
<1>1. IInv => StoreMatchesTable
  BY DEF IInv, StoreInv, Decided, StoreMatchesTable
<1>2. QED BY <1>1, Inductive, PTL

\* Between publications the table served is the decided one and the certificate
\* store is exactly its parsable certificates, through every interleaving of
\* record, pin and unpin (history.rs apply, kubernetes.rs prepare).
THEOREM WireStaysTrue == Spec => []WireTrue
BY ServesDecided, StoreMatches, PTL DEF WireTrue

\* The ring stays within its capacity, in order and without duplicates
\* (history.rs State::push).
THEOREM RingStaysOrdered == Spec => []RingOrdered
<1>1. IInv => RingOrdered
  BY DEF IInv
<1>2. QED BY <1>1, Inductive, PTL

\* The published mark of every record in the ring is true whenever the mutex is
\* free, which is when /admin/generations reads it (history.rs mark_published).
THEOREM PublishedFlags == Spec => []PublishedFlagIsTrue
<1>1. IInv => PublishedFlagIsTrue
  <2> SUFFICES ASSUME IInv, lock = NoOne, NEW i \in 1..Len(ring)
               PROVE  ring[i].published <=> ring[i].gen \in wire
    BY DEF PublishedFlagIsTrue
  <2>1. \A o \in Operators : pc[o] # "commit"
    BY ActorsAssumption DEF IInv, LockInv, Publishing, Publishers
  <2>2. QED BY <2>1 DEF IInv, MarkInv
<1>2. QED BY <1>1, Inductive, PTL

\* While a pin is held, no step of the applier, of another operator or of a
\* handshake changes what is served (history.rs record and pin).
THEOREM PinHolds == Spec => PinHoldsTheWire
<1>1. IInv /\ [Next]_vars => [pinned # NoPin /\ pinned' # NoPin => UNCHANGED <<certs, table>>]_vars
  <2> SUFFICES ASSUME IInv, Next, pinned # NoPin
               PROVE  UNCHANGED <<certs, table>>
    OBVIOUS
  <2> USE DEF controller, applier, gate, plane, calls, admin
  <2>1. \A p \in Publishers : pc[p] \notin {"certs", "table"}
    BY DEF IInv, LockInv, Publishing, Publishers, OperatorInv, StoreInv
  <2>2. ~ \E p \in Publishers : PublishCerts(p) \/ StoreTable(p)
    BY <2>1 DEF PublishCerts, StoreTable
  <2>3. CASE ApplierStep
    BY <2>3 DEF ApplierStep, Take, RecordLock, RecordPush, SetReady, ApplierExit
  <2>4. CASE \E o \in Operators : UnpinLock(o) \/ OperatorStep(o)
    BY <2>4 DEF OperatorStep, UnpinLock, PinCommit, UnpinCommit, Announce
  <2>5. QED BY <2>2, <2>3, <2>4 DEF Next, Compile, ControllerStops, PinLock, LoadTable, Lookup
<1>2. QED BY <1>1, Inductive, PTL DEF Spec, PinHoldsTheWire

-----------------------------------------------------------------------------
(* The gate.                                                               *)

\* What the refinement needs beside IInv: generations are in range, and a
\* replica that recorded nothing serves the seed.
RangeInv ==
    /\ chan.gen <= MaxGen
    /\ \A i \in 1..Len(ring) : ring[i].gen > 0
    /\ lock = NoOne /\ ring = <<>> => table.gen = 0

-----------------------------------------------------------------------------
\* The ring after a record: not empty, its last record the one pushed.
LEMMA PushedFacts ==
    ASSUME IInv, RangeInv, RecordPush
    PROVE  /\ ring' # <<>>
           /\ Newest' = job[Applier]
           /\ job[Applier].gen = seen /\ seen \in 1..MaxGen
           /\ \A i \in 1..Len(ring) : ring[i].gen < seen
           /\ \A i \in 1..Len(ring') : ring'[i].gen > 0
<1> USE DEF IInv, RecordPush
<1>1. ring \in Seq(Record) /\ job[Applier] \in Record /\ seen \in Nat /\ Len(ring) \in Nat
  BY DEF TypeOK, Publishers
<1>2. job[Applier].gen = seen /\ seen > 0 /\ \A i \in 1..Len(ring) : ring[i].gen < seen
  BY DEF FreshInv
<1>3. Len(ring) <= Capacity
  BY DEF RingOrdered
<1>4. /\ Len(ring') \in 1..Capacity
      /\ ring'[Len(ring')] = job[Applier]
      /\ \E d \in {0, 1} : /\ Len(ring') = Len(ring) + 1 - d
                           /\ \A i \in 1..(Len(ring') - 1) : ring'[i] = ring[i + d]
  BY <1>1, <1>2, <1>3, PushNewer
<1>5. seen <= MaxGen
  BY <1>1, BoundsAssumption DEF FreshInv, RangeInv, TypeOK, Compiled
<1>6. \A i \in 1..Len(ring') : ring'[i].gen > 0
  <2> SUFFICES ASSUME NEW i \in 1..Len(ring') PROVE ring'[i].gen > 0
    OBVIOUS
  <2>1. PICK d \in {0, 1} : /\ Len(ring') = Len(ring) + 1 - d
                            /\ \A j \in 1..(Len(ring') - 1) : ring'[j] = ring[j + d]
    BY <1>4
  <2>2. CASE i = Len(ring')
    BY <1>2, <1>4, <2>2
  <2>3. CASE i # Len(ring')
    <3>1. i + d \in 1..Len(ring) /\ ring'[i] = ring[i + d]
      BY <1>1, <1>4, <2>1, <2>3
    <3>2. QED BY <3>1 DEF RangeInv
  <2>4. QED BY <2>2, <2>3
<1>7. ring' # <<>>
  BY <1>4, BoundsAssumption
<1>8. Newest' = job[Applier]
  BY <1>4 DEF Newest
<1> HIDE DEF IInv, RecordPush
<1>9. seen \in 1..MaxGen
  BY <1>1, <1>2, <1>5
<1>10. QED BY <1>2, <1>6, <1>7, <1>8, <1>9

\* A mark leaves the generations in the ring alone.
LEMMA MarkedFacts ==
    ASSUME IInv, NEW g, ring' = MarkPublished(ring, g)
    PROVE  /\ Len(ring') = Len(ring) /\ Len(ring) \in Nat
           /\ (ring' = <<>>) <=> (ring = <<>>)
           /\ \A i \in 1..Len(ring) : ring'[i].gen = ring[i].gen
           /\ Recorded' = Recorded
<1>1. ring \in Seq(Record) /\ Len(ring) \in Nat
  BY DEF IInv, TypeOK
<1>2. /\ ring' \in Seq(Record)
      /\ Len(ring') = Len(ring)
      /\ \A i \in 1..Len(ring) : ring'[i].gen = ring[i].gen
  BY <1>1, MarkFacts
<1>3. (ring' = <<>>) <=> (ring = <<>>)
  BY <1>1, <1>2, EmptySeq
<1>4. Recorded' = Recorded
  <2>1. CASE ring = <<>>
    BY <1>3, <2>1 DEF Recorded
  <2>2. CASE ring # <<>>
    <3>1. Len(ring) \in 1..Len(ring)
      BY <1>1, <2>2, EmptySeq
    <3>2. Newest'.gen = Newest.gen
      BY <1>2, <3>1 DEF Newest
    <3>3. QED BY <1>3, <2>2, <3>2 DEF Recorded
  <2>3. QED BY <2>1, <2>2
<1>5. QED BY <1>1, <1>2, <1>3, <1>4

\* When nobody publishes, what is served is what was decided.
LEMMA MappedWhenFree ==
    ASSUME IInv, RangeInv, lock = NoOne
    PROVE  table.gen = Decision
BY DEF IInv, RangeInv, StoreInv, Decided, Decision, Recorded

-----------------------------------------------------------------------------
\* Generations start in range and the store starts with the seed.
LEMMA InitRange == Init => RangeInv
BY BoundsAssumption DEF Init, RangeInv

\* Only a compilation makes a generation, and it stays within the bound; only a
\* record fills the ring, and none empties it.
LEMMA NextRange == IInv /\ RangeInv /\ [Next]_vars => RangeInv'
<1> SUFFICES ASSUME IInv, RangeInv, [Next]_vars PROVE RangeInv'
  OBVIOUS
<1> USE DEF controller, applier, gate, plane, calls, admin
<1>1. CASE \E sni \in SniMaps : Compile(sni)
  BY <1>1, BoundsAssumption DEF Compile, RangeInv, IInv, TypeOK, Compiled
<1>2. CASE ControllerStops
  BY <1>2 DEF ControllerStops, RangeInv
<1>3. CASE RecordPush
  BY <1>3, PushedFacts DEF RecordPush, RangeInv
<1>4. CASE Take \/ RecordLock \/ SetReady \/ ApplierExit
  <2>1. UNCHANGED <<chan, ring, table>>
    BY <1>4 DEF Take, RecordLock, SetReady, ApplierExit
  <2>2. lock' = NoOne => lock = NoOne
    BY <1>4, ActorsAssumption DEF Take, RecordLock, SetReady, ApplierExit
  <2>3. QED BY <2>1, <2>2 DEF RangeInv
<1>5. CASE \E p \in Publishers : PublishCerts(p) \/ StoreTable(p)
  <2>1. PICK p \in Publishers : PublishCerts(p) \/ StoreTable(p)
    BY <1>5
  <2>2. lock = p /\ p # NoOne
    BY <2>1, ActorsAssumption DEF IInv, LockInv, Publishing, PublishCerts, StoreTable, Publishers
  <2>3. UNCHANGED <<chan, ring, lock>>
    BY <2>1 DEF PublishCerts, StoreTable
  <2>4. QED BY <2>2, <2>3 DEF RangeInv
<1>6. CASE \E o \in Operators : \E g \in 1..MaxGen : PinLock(o, g)
  BY <1>6, ActorsAssumption DEF PinLock, RangeInv
<1>7. CASE \E o \in Operators : UnpinLock(o) \/ OperatorStep(o)
  <2>1. PICK o \in Operators : UnpinLock(o) \/ OperatorStep(o)
    BY <1>7
  <2>2. CASE UnpinLock(o)
    BY <2>2, ActorsAssumption DEF UnpinLock, RangeInv
  <2>3. CASE PinCommit(o) \/ UnpinCommit(o)
    <3>1. ring' = MarkPublished(ring, job[o].gen) /\ UNCHANGED <<chan, table>>
      BY <2>3 DEF PinCommit, UnpinCommit
    <3>2. lock = o
      BY <2>3, ActorsAssumption DEF IInv, LockInv, Publishing, PinCommit, UnpinCommit, Publishers
    <3>3. ring # <<>>
      BY <3>2, EmptySeq DEF IInv, OperatorInv
    <3>4. QED BY <3>1, <3>3, MarkedFacts DEF RangeInv
  <2>4. CASE Announce(o)
    BY <2>4 DEF Announce, RangeInv
  <2>5. QED BY <2>1, <2>2, <2>3, <2>4 DEF OperatorStep
<1>8. CASE \E h \in Handshakes : (\E n \in Names : LoadTable(h, n)) \/ Lookup(h)
  BY <1>8 DEF LoadTable, Lookup, RangeInv
<1>9. CASE UNCHANGED vars
  BY <1>9 DEF vars, RangeInv
<1>10. QED
  BY <1>1, <1>2, <1>3, <1>4, <1>5, <1>6, <1>7, <1>8, <1>9 DEF Next, ApplierStep

\* RangeInv holds in every reachable state.
LEMMA RangeAlways == Spec => []RangeInv
BY InitRange, NextRange, Inductive, PTL DEF Spec

-----------------------------------------------------------------------------
\* A record is one step of the gate: it publishes, or is held back by a pin.
LEMMA PushImplements ==
    ASSUME IInv, RangeInv, RecordPush
    PROVE  \E g \in 1..MaxGen : Promise!Publish(g) \/ Promise!Hold(g)
<1> USE DEF RecordPush
<1>1. /\ ring' # <<>> /\ Newest' = job[Applier] /\ job[Applier].gen = seen
      /\ seen \in 1..MaxGen /\ \A i \in 1..Len(ring) : ring[i].gen < seen
  BY PushedFacts
<1>2. Recorded' = seen
  BY <1>1 DEF Recorded
<1>3. seen > Recorded
  <2>1. CASE ring = <<>>
    BY <1>1, <2>1, BoundsAssumption DEF Recorded
  <2>2. CASE ring # <<>>
    <3>1. Len(ring) \in 1..Len(ring) /\ ring[Len(ring)] \in Record
      BY <2>2, EmptySeq, ElementOfSeq DEF IInv, TypeOK
    <3>2. QED BY <1>1, <2>2, <3>1 DEF Recorded, Newest, Record
  <2>3. QED BY <2>1, <2>2
<1>4. lock # NoOne /\ lock' = NoOne /\ UNCHANGED <<table, pinned>>
  BY ActorsAssumption DEF IInv, LockInv, Publishing, Publishers, plane
<1>5. CASE pinned = NoPin
  <2>1. table = [gen |-> job[Applier].gen, sni |-> job[Applier].sni]
    BY <1>5 DEF IInv, StoreInv, Publishers
  <2>2. table.gen = seen
    BY <1>1, <2>1
  <2>3. Promise!Publish(seen)
    BY <1>2, <1>3, <1>4, <1>5, <2>2 DEF Promise!Publish
  <2>4. QED BY <1>1, <2>3
<1>6. CASE pinned # NoPin
  <2>1. table.gen = pinned
    BY <1>6 DEF IInv, StoreInv, Decided
  <2>2. Promise!Hold(seen)
    BY <1>2, <1>3, <1>4, <1>6, <2>1 DEF Promise!Hold, Decision
  <2>3. QED BY <1>1, <2>2
<1>7. QED BY <1>5, <1>6

\* A rollback takes effect when it commits.
LEMMA PinImplements ==
    ASSUME IInv, RangeInv, NEW o \in Operators, PinCommit(o)
    PROVE  \E g \in 1..MaxGen : Promise!Pin(g)
<1> USE DEF PinCommit
<1> DEFINE g == job[o].gen
<1>1. lock = o /\ lock # NoOne /\ lock' = NoOne /\ UNCHANGED table
  BY ActorsAssumption DEF IInv, LockInv, Publishing, Publishers, plane
<1>2. pinned = NoPin /\ \E i \in 1..Len(ring) : ring[i].gen = g
  BY <1>1 DEF IInv, OperatorInv
<1>3. PICK i \in 1..Len(ring) : ring[i].gen = g
  BY <1>2
<1>4. /\ ring \in Seq(Record) /\ Len(ring) \in Nat /\ ring # <<>>
      /\ ring[i] \in Record /\ ring[Len(ring)] \in Record
  BY <1>3, EmptySeq, ElementOfSeq DEF IInv, TypeOK
<1>5. g \in Nat /\ g > 0 /\ g <= ring[Len(ring)].gen
  <2>1. g \in Nat /\ g > 0
    BY <1>3, <1>4 DEF RangeInv, Record
  <2>2. i = Len(ring) \/ ring[i].gen < ring[Len(ring)].gen
    BY <1>3, <1>4 DEF IInv, RingOrdered
  <2>3. QED BY <1>3, <1>4, <2>1, <2>2 DEF Record
<1>6. g \in 1..Recorded
  BY <1>4, <1>5 DEF Recorded, Newest, Record
<1>7. g <= MaxGen
  <2>1. ring[i].gen <= seen /\ seen <= chan.gen /\ seen \in Nat /\ chan.gen \in Nat
    BY <1>3 DEF IInv, FreshInv, TypeOK, Compiled
  <2>2. QED BY <1>3, <1>5, <2>1, BoundsAssumption DEF RangeInv
<1>8. Recorded' = Recorded
  BY MarkedFacts
<1>9. table.gen = g
  <2>1. table = [gen |-> job[o].gen, sni |-> job[o].sni]
    BY DEF IInv, StoreInv, Publishers
  <2>2. QED BY <2>1
<1>10. Promise!Pin(g)
  BY <1>1, <1>2, <1>6, <1>8, <1>9 DEF Promise!Pin
<1>11. g \in 1..MaxGen
  BY <1>5, <1>7, BoundsAssumption
<1>12. QED BY <1>10, <1>11

\* A release takes effect when it begins: from there on the newest is decided.
LEMMA ReleaseImplements ==
    ASSUME IInv, RangeInv, NEW o \in Operators, UnpinLock(o)
    PROVE  Promise!Release
<1> USE DEF UnpinLock
<1>1. lock' # NoOne /\ pinned # NoPin /\ pinned' = NoPin /\ UNCHANGED ring
  BY ActorsAssumption
<1>2. Recorded' = Recorded
  BY <1>1 DEF Recorded, Newest
<1>3. QED BY <1>1, <1>2 DEF Promise!Release, Decision

\* The commit of a release finds on the wire what the release decided.
LEMMA UnpinCommitStutters ==
    ASSUME IInv, NEW o \in Operators, UnpinCommit(o)
    PROVE  UNCHANGED Promise!vars
<1> USE DEF UnpinCommit
<1>1. lock = o /\ lock # NoOne /\ lock' = NoOne /\ UNCHANGED <<table, pinned>>
  BY ActorsAssumption DEF IInv, LockInv, Publishing, Publishers, plane
<1>2. pinned = NoPin /\ ring # <<>> /\ ring[Len(ring)].gen = job[o].gen
  BY <1>1, EmptySeq DEF IInv, OperatorInv
<1>3. table = [gen |-> job[o].gen, sni |-> job[o].sni]
  BY DEF IInv, StoreInv, Publishers
<1>4. Recorded' = Recorded /\ Recorded = table.gen
  BY <1>2, <1>3, MarkedFacts DEF Recorded, Newest
<1>5. QED BY <1>1, <1>2, <1>4 DEF Promise!vars, Decision

\* Taking the mutex for a record or a rollback changes nothing callers see.
LEMMA LockStutters ==
    ASSUME IInv, RangeInv, lock = NoOne, lock' # NoOne, UNCHANGED <<ring, pinned, table>>
    PROVE  UNCHANGED Promise!vars
<1>1. table.gen = Decision
  BY MappedWhenFree
<1>2. Decision' = Decision /\ Recorded' = Recorded
  BY DEF Decision, Recorded, Newest
<1>3. QED BY <1>1, <1>2 DEF Promise!vars

\* Neither does a step that leaves mutex, ring and pin alone, unless the table
\* moves with the mutex free.
LEMMA QuietStutters ==
    ASSUME UNCHANGED <<lock, ring, pinned>>, lock # NoOne \/ UNCHANGED table
    PROVE  UNCHANGED Promise!vars
<1>1. Decision' = Decision /\ Recorded' = Recorded
  BY DEF Decision, Recorded, Newest
<1>2. QED BY <1>1 DEF Promise!vars

\* Every step is a step of the gate or none.
LEMMA StepImplements == IInv /\ RangeInv /\ [Next]_vars => [Promise!Next]_(Promise!vars)
<1> SUFFICES ASSUME IInv, RangeInv, [Next]_vars PROVE [Promise!Next]_(Promise!vars)
  OBVIOUS
<1> USE DEF controller, applier, gate, plane, calls, admin
<1>1. CASE \E sni \in SniMaps : Compile(sni)
  BY <1>1, QuietStutters DEF Compile
<1>2. CASE ControllerStops
  BY <1>2, QuietStutters DEF ControllerStops
<1>3. CASE RecordPush
  BY <1>3, PushImplements DEF Promise!Next
<1>4. CASE RecordLock
  BY <1>4, LockStutters, ActorsAssumption DEF RecordLock
<1>5. CASE Take \/ SetReady \/ ApplierExit
  BY <1>5, QuietStutters DEF Take, SetReady, ApplierExit
<1>6. CASE \E p \in Publishers : PublishCerts(p) \/ StoreTable(p)
  <2>1. PICK p \in Publishers : PublishCerts(p) \/ StoreTable(p)
    BY <1>6
  <2>2. lock # NoOne
    BY <2>1, ActorsAssumption DEF IInv, LockInv, Publishing, PublishCerts, StoreTable, Publishers
  <2>3. UNCHANGED <<lock, ring, pinned>>
    BY <2>1 DEF PublishCerts, StoreTable
  <2>4. QED BY <2>2, <2>3, QuietStutters
<1>7. CASE \E o \in Operators : \E g \in 1..MaxGen : PinLock(o, g)
  BY <1>7, LockStutters, ActorsAssumption DEF PinLock
<1>8. CASE \E o \in Operators : UnpinLock(o) \/ OperatorStep(o)
  <2>1. PICK o \in Operators : UnpinLock(o) \/ OperatorStep(o)
    BY <1>8
  <2>2. CASE UnpinLock(o)
    BY <2>2, ReleaseImplements DEF Promise!Next
  <2>3. CASE PinCommit(o)
    BY <2>3, PinImplements DEF Promise!Next
  <2>4. CASE UnpinCommit(o)
    BY <2>4, UnpinCommitStutters
  <2>5. CASE Announce(o)
    BY <2>5, QuietStutters DEF Announce
  <2>6. QED BY <2>1, <2>2, <2>3, <2>4, <2>5 DEF OperatorStep
<1>9. CASE \E h \in Handshakes : (\E n \in Names : LoadTable(h, n)) \/ Lookup(h)
  BY <1>9, QuietStutters DEF LoadTable, Lookup
<1>10. CASE UNCHANGED vars
  BY <1>10, QuietStutters DEF vars
<1>11. QED
  BY <1>1, <1>2, <1>3, <1>4, <1>5, <1>6, <1>7, <1>8, <1>9, <1>10 DEF Next, ApplierStep

\* The initial state is the gate's.
LEMMA InitImplements == Init => Promise!Init
BY DEF Init, Promise!Init, Recorded

\* The history with its mutex, its ring and its two stores keeps the promise of
\* the gate: record, pin and unpin each take effect at one point, whatever
\* interleaves with them (history.rs record, pin, unpin).
THEOREM Refines == Spec => ImplementsGate
<1>1. Spec => [](IInv /\ RangeInv)
  BY Inductive, RangeAlways, PTL
<1>2. QED
  BY <1>1, InitImplements, StepImplements, PTL DEF Spec, ImplementsGate, Promise!Spec

-----------------------------------------------------------------------------
(* The handshakes and the audit trail.                                     *)

\* The table of a compiled generation, wherever it is held: in the channel, on
\* the wire, in a caller's hands or in the ring.
Of(r) == [gen |-> r.gen, sni |-> r.sni]
Known ==
    {Of(chan), Of(table)}
        \cup {Of(job[p]) : p \in Publishers}
        \cup {Of(ring[i]) : i \in 1..Len(ring)}

\* A generation's number stands for its table.
OneTableInv ==
    /\ \A k \in Known : k.gen <= chan.gen
    /\ \A k, l \in Known : k.gen = l.gen => k.sni = l.sni

\* The store is the keys of the table of its generation.
StoredInv ==
    /\ certs.gen <= chan.gen
    /\ \A k \in Known : k.gen = certs.gen => certs.keys = Usable(k.sni)

\* A handshake has its handle from the table of its generation, so the store of
\* that generation has it if it parses.
HandleInv ==
    \A h \in Handshakes : hs[h].pc = "lookup" =>
        /\ hs[h].gen <= chan.gen
        /\ \A k \in Known : k.gen = hs[h].gen => hs[h].handle \in CertsOf(k.sni)
        /\ hs[h].gen = certs.gen => hs[h].handle \in certs.keys \cup BadCerts

SkewInv == OneTableInv /\ StoredInv /\ HandleInv

\* The calls whose pin is held and not announced, and those whose release has
\* taken the pin and is not announced.
Announcing == {o \in Operators : pc[o] = "announce" /\ op[o] = "pin"}
Releasing == {o \in Operators : pc[o] # "idle" /\ op[o] = "unpin"}

\* The trail, with the announcements that are still to come.
TrailInv ==
    /\ IsFiniteSet(Announcing) /\ IsFiniteSet(Releasing)
    /\ Count(trail, "pin") + Cardinality(Announcing)
          = Count(trail, "unpin") + Cardinality(Releasing) + (IF pinned = NoPin THEN 0 ELSE 1)

-----------------------------------------------------------------------------
(* Handshakes.                                                             *)

\* What is known has a generation and a table.
LEMMA KnownType ==
    ASSUME TypeOK
    PROVE  /\ chan.gen \in Nat /\ certs.gen \in Nat
           /\ \A k \in Known : k.gen \in Nat
           /\ \A i \in 1..Len(ring) : ring[i] \in Record
           /\ \A p \in Publishers : job[p] \in Record
<1>1. chan.gen \in Nat /\ certs.gen \in Nat /\ table.gen \in Nat
  BY DEF TypeOK, Compiled
<1>2. \A i \in 1..Len(ring) : ring[i] \in Record
  BY ElementOfSeq DEF TypeOK
<1>3. \A p \in Publishers : job[p] \in Record
  BY DEF TypeOK
<1>4. \A k \in Known : k.gen \in Nat
  BY <1>1, <1>2, <1>3 DEF Known, Of, Record
<1>5. QED BY <1>1, <1>2, <1>3, <1>4

\* A step that only passes on what is known.
LEMMA PassesOn ==
    ASSUME SkewInv, Known' \subseteq Known, UNCHANGED <<chan, certs, hs>>
    PROVE  SkewInv'
<1>1. OneTableInv'
  BY DEF SkewInv, OneTableInv
<1>2. StoredInv'
  BY DEF SkewInv, StoredInv
<1>3. HandleInv'
  BY DEF SkewInv, HandleInv
<1>4. QED BY <1>1, <1>2, <1>3 DEF SkewInv

\* A new generation has a number of its own.
LEMMA CompileSkew ==
    ASSUME IInv, SkewInv, NEW sni \in SniMaps, Compile(sni)
    PROVE  SkewInv'
<1>1. /\ chan' = [gen |-> chan.gen + 1, sni |-> sni]
      /\ UNCHANGED <<table, job, ring, certs, hs>>
  BY DEF Compile, gate, plane, calls
<1> DEFINE new == [gen |-> chan.gen + 1, sni |-> sni]
<1>2. chan.gen \in Nat /\ certs.gen \in Nat /\ \A k \in Known : k.gen \in Nat
  BY KnownType DEF IInv
<1>3. \A k \in Known' : k \in Known \/ k = new
  BY <1>1 DEF Known, Of
<1>4. chan'.gen = chan.gen + 1 /\ new.gen = chan.gen + 1
  BY <1>1
<1> HIDE DEF new
<1>5. OneTableInv'
  BY <1>2, <1>3, <1>4 DEF SkewInv, OneTableInv
<1>6. StoredInv'
  BY <1>1, <1>2, <1>3, <1>4 DEF SkewInv, StoredInv
<1>7. HandleInv'
  <2>1. \A h \in Handshakes : hs[h].gen \in Nat
    BY DEF IInv, TypeOK
  <2>2. QED BY <1>1, <1>2, <1>3, <1>4, <2>1 DEF SkewInv, HandleInv
<1>8. QED BY <1>5, <1>6, <1>7 DEF SkewInv

\* The applier takes the channel's generation, records it and leaves.
LEMMA ApplierSkew ==
    ASSUME IInv, SkewInv, ApplierStep
    PROVE  SkewInv'
<1>1. UNCHANGED <<chan, certs, table, hs>>
  BY DEF ApplierStep, Take, RecordLock, RecordPush, SetReady, ApplierExit, controller, plane
<1>2. job \in [Publishers -> Record] /\ Applier \in Publishers
  BY DEF IInv, TypeOK, Publishers
<1>3. CASE Take
  <2>1. UNCHANGED ring
    BY <1>3 DEF Take, gate
  <2>2. \A p \in Publishers : job'[p] = job[p] \/ Of(job'[p]) = Of(chan)
    BY <1>2, <1>3 DEF Take, Of
  <2>3. Known' \subseteq Known
    BY <1>1, <2>1, <2>2 DEF Known
  <2>4. QED BY <1>1, <2>3, PassesOn
<1>4. CASE RecordLock
  <2>1. UNCHANGED ring
    BY <1>4 DEF RecordLock
  <2>2. \A p \in Publishers : Of(job'[p]) = Of(job[p])
    BY <1>2, <1>4 DEF RecordLock, Of, Record
  <2>3. Known' \subseteq Known
    BY <1>1, <2>1, <2>2 DEF Known
  <2>4. QED BY <1>1, <2>3, PassesOn
<1>5. CASE RecordPush
  <2>1. job' = job /\ ring' = Push(ring, job[Applier])
    BY <1>5 DEF RecordPush
  <2>2. \A i \in 1..Len(ring) : ring[i].gen < job[Applier].gen
    BY <1>5 DEF IInv, FreshInv, RecordPush
  <2>3. /\ ring \in Seq(Record) /\ job[Applier] \in Record
        /\ Len(ring) <= Capacity /\ Len(ring) \in Nat
    BY <1>2 DEF IInv, TypeOK, RingOrdered
  <2>4. PICK d \in {0, 1} : /\ Len(ring') = Len(ring) + 1 - d
                            /\ \A i \in 1..(Len(ring') - 1) : ring'[i] = ring[i + d]
                            /\ ring'[Len(ring')] = job[Applier]
                            /\ Len(ring') \in 1..Capacity
    BY <2>1, <2>2, <2>3, PushNewer
  <2>5. \A i \in 1..Len(ring') : ring'[i] = job[Applier] \/ \E j \in 1..Len(ring) : ring'[i] = ring[j]
    <3> SUFFICES ASSUME NEW i \in 1..Len(ring')
                 PROVE  ring'[i] = job[Applier] \/ \E j \in 1..Len(ring) : ring'[i] = ring[j]
      OBVIOUS
    <3>1. CASE i = Len(ring')
      BY <2>4, <3>1
    <3>2. CASE i # Len(ring')
      <4>1. i \in 1..(Len(ring') - 1) /\ i + d \in 1..Len(ring)
        BY <2>3, <2>4, <3>2, BoundsAssumption
      <4>2. QED BY <2>4, <4>1
    <3>3. QED BY <3>1, <3>2
  <2>6. Known' \subseteq Known
    BY <1>1, <1>2, <2>1, <2>5 DEF Known
  <2>7. QED BY <1>1, <2>6, PassesOn
<1>6. CASE SetReady \/ ApplierExit
  <2>1. UNCHANGED <<job, ring>>
    BY <1>6 DEF SetReady, ApplierExit, gate
  <2>2. Known' = Known
    BY <1>1, <2>1 DEF Known
  <2>3. QED BY <1>1, <2>2, PassesOn
<1>7. QED BY <1>3, <1>4, <1>5, <1>6 DEF ApplierStep

\* The store is replaced: the handles of its generation are in it.
LEMMA PublishCertsSkew ==
    ASSUME IInv, SkewInv, NEW p \in Publishers, PublishCerts(p)
    PROVE  SkewInv'
<1>1. /\ UNCHANGED <<chan, table, job, ring, hs>>
      /\ certs' = [gen |-> job[p].gen, keys |-> job[p].keys]
  BY DEF PublishCerts, controller, gate, CertsToStore
<1>2. Known' = Known
  BY <1>1 DEF Known
<1>3. PICK k \in Known : k.gen = job[p].gen /\ k.sni = job[p].sni
  <2>1. Of(job[p]) \in Known
    BY DEF Known
  <2>2. Of(job[p]).gen = job[p].gen /\ Of(job[p]).sni = job[p].sni
    BY DEF Of
  <2>3. QED BY <2>1, <2>2
<1>4. certs'.gen = k.gen /\ certs'.keys = Usable(k.sni)
  BY <1>1, <1>3 DEF IInv, KeysInv
<1>5. OneTableInv'
  BY <1>1, <1>2 DEF SkewInv, OneTableInv
<1>6. StoredInv'
  BY <1>1, <1>2, <1>3, <1>4 DEF SkewInv, OneTableInv, StoredInv
<1>7. HandleInv'
  <2>1. \A h \in Handshakes : hs[h].pc = "lookup" /\ hs[h].gen = k.gen =>
            hs[h].handle \in Usable(k.sni) \cup BadCerts
    BY DEF SkewInv, HandleInv, Usable
  <2>2. QED BY <1>1, <1>2, <1>4, <2>1 DEF SkewInv, HandleInv
<1>8. QED BY <1>5, <1>6, <1>7 DEF SkewInv

\* The table is replaced.
LEMMA StoreTableSkew ==
    ASSUME IInv, SkewInv, NEW p \in Publishers, StoreTable(p)
    PROVE  SkewInv'
<1>1. UNCHANGED <<chan, certs, job, ring, hs>>
  BY DEF StoreTable, controller, gate
<1>2. Of(table') = Of(job[p])
  BY DEF StoreTable, Of
<1>3. Known' \subseteq Known
  BY <1>1, <1>2 DEF Known
<1>4. QED BY <1>1, <1>3, PassesOn

\* An operator works on records of the ring.
LEMMA OperatorSkew ==
    ASSUME IInv, SkewInv, NEW o \in Operators,
           UnpinLock(o) \/ OperatorStep(o) \/ \E g \in 1..MaxGen : PinLock(o, g)
    PROVE  SkewInv'
<1>1. UNCHANGED <<chan, certs, table, hs>>
  BY DEF UnpinLock, OperatorStep, PinLock, PinCommit, UnpinCommit, Announce, controller, plane
<1>2. job \in [Publishers -> Record] /\ o \in Publishers /\ ring \in Seq(Record)
  BY DEF IInv, TypeOK, Publishers
<1>3. CASE UnpinLock(o) \/ \E g \in 1..MaxGen : PinLock(o, g)
  <2>1. ring' = ring
    BY <1>3 DEF UnpinLock, PinLock
  <2>2. \E i \in 1..Len(ring) : job' = [job EXCEPT ![o] = ring[i]]
    <3>1. CASE UnpinLock(o)
      <4>1. ring # <<>>
        BY <3>1 DEF IInv, StoreInv, Decided, UnpinLock
      <4>2. Len(ring) \in 1..Len(ring)
        BY <1>2, <4>1, EmptySeq
      <4>3. QED BY <3>1, <4>2 DEF UnpinLock, Newest
    <3>2. ASSUME NEW g \in 1..MaxGen, PinLock(o, g)
          PROVE  \E i \in 1..Len(ring) : job' = [job EXCEPT ![o] = ring[i]]
      <4>1. Held(g) /\ job' = [job EXCEPT ![o] = HeldRecord(g)]
        BY <3>2 DEF PinLock, MayPin
      <4>2. PICK i \in 1..Len(ring) : HeldRecord(g) = ring[i]
        BY <1>2, <4>1, HeldFacts
      <4>3. QED BY <4>1, <4>2
    <3>3. QED BY <1>3, <3>1, <3>2
  <2>3. Known' \subseteq Known
    BY <1>1, <1>2, <2>1, <2>2 DEF Known
  <2>4. QED BY <1>1, <2>3, PassesOn
<1>4. CASE PinCommit(o) \/ UnpinCommit(o)
  <2>1. job' = job /\ ring' = MarkPublished(ring, job[o].gen)
    BY <1>4 DEF PinCommit, UnpinCommit
  <2>2. Len(ring') = Len(ring) /\ \A i \in 1..Len(ring) : Of(ring'[i]) = Of(ring[i])
    BY <1>2, <2>1, MarkFacts DEF Of
  <2>3. Known' \subseteq Known
    BY <1>1, <2>1, <2>2 DEF Known
  <2>4. QED BY <1>1, <2>3, PassesOn
<1>5. CASE Announce(o)
  <2>1. UNCHANGED <<job, ring>>
    BY <1>5 DEF Announce, gate
  <2>2. Known' = Known
    BY <1>1, <2>1 DEF Known
  <2>3. QED BY <1>1, <2>2, PassesOn
<1>6. QED BY <1>3, <1>4, <1>5 DEF OperatorStep

\* A handshake loads the table, or looks its handle up.
LEMMA HandshakeSkew ==
    ASSUME IInv, SkewInv, NEW h \in Handshakes,
           Lookup(h) \/ \E n \in Names : LoadTable(h, n)
    PROVE  SkewInv'
<1>1. UNCHANGED <<chan, certs, table, job, ring>>
  BY DEF Lookup, LoadTable, controller, gate, plane, calls
<1>2. Known' = Known
  BY <1>1 DEF Known
<1>3. OneTableInv' /\ StoredInv'
  BY <1>1, <1>2 DEF SkewInv, OneTableInv, StoredInv
<1> DEFINE HS == [pc : {"idle", "lookup", "served", "failed", "unnamed"},
                  gen : Nat, handle : Certs \cup {NoCert}]
<1>4. hs \in [Handshakes -> HS]
  BY DEF IInv, TypeOK
<1>5. CASE Lookup(h)
  <2>1. PICK a \in {"served", "failed"} : hs' = [hs EXCEPT ![h].pc = a]
    BY <1>5 DEF Lookup
  <2>2. \A g \in Handshakes : hs'[g].pc = "lookup" => hs'[g] = hs[g]
    BY <1>4, <2>1
  <2>3. HandleInv'
    BY <1>1, <1>2, <2>2 DEF SkewInv, HandleInv
  <2>4. QED BY <1>3, <2>3 DEF SkewInv
<1>6. ASSUME NEW n \in Names, LoadTable(h, n)
      PROVE  SkewInv'
  <2>1. /\ \A g \in Handshakes : g # h => hs'[g] = hs[g]
        /\ hs'[h].gen = table.gen /\ hs'[h].handle = table.sni[n]
        /\ hs'[h].pc = "lookup" => table.sni[n] # NoCert
    BY <1>4, <1>6 DEF LoadTable
  <2>2. hs'[h].pc = "lookup" => hs'[h].handle \in CertsOf(table.sni)
    BY <2>1 DEF CertsOf
  <2>3. PICK k \in Known : k.gen = table.gen /\ k.sni = table.sni
    <3>1. Of(table) \in Known
      BY DEF Known
    <3>2. Of(table).gen = table.gen /\ Of(table).sni = table.sni
      BY DEF Of
    <3>3. QED BY <3>1, <3>2
  <2>4. \A l \in Known : l.gen = table.gen => l.sni = table.sni
    BY <2>3 DEF SkewInv, OneTableInv
  <2>5. table.gen <= chan.gen
    BY <2>3 DEF SkewInv, OneTableInv
  <2>6. table.gen = certs.gen => certs.keys = Usable(table.sni)
    BY <2>3 DEF SkewInv, StoredInv
  <2>7. HandleInv'
    BY <1>1, <1>2, <2>1, <2>2, <2>4, <2>5, <2>6 DEF SkewInv, HandleInv, Usable
  <2>8. QED BY <1>3, <2>7 DEF SkewInv
<1>7. QED BY <1>5, <1>6

\* No handshake has loaded a table at first.
LEMMA InitSkew ==
    ASSUME Init
    PROVE  SkewInv
<1>1. \A k \in Known : k.gen = 0 /\ k.sni = EmptySni
  BY DEF Init, Known, Of, Seed, Publishers
<1>2. Usable(EmptySni) = {}
  BY DEF Usable, CertsOf, EmptySni
<1>3. OneTableInv
  BY <1>1 DEF Init, OneTableInv
<1>4. StoredInv
  BY <1>1, <1>2 DEF Init, StoredInv
<1>5. HandleInv
  BY DEF Init, HandleInv
<1>6. QED BY <1>3, <1>4, <1>5 DEF SkewInv

\* Every step keeps the handshakes' invariant.
LEMMA NextSkew ==
    ASSUME IInv, SkewInv, [Next]_vars
    PROVE  SkewInv'
<1>1. CASE \E sni \in SniMaps : Compile(sni)
  BY <1>1, CompileSkew
<1>2. CASE ControllerStops \/ UNCHANGED vars
  <2>1. UNCHANGED <<chan, certs, table, job, ring, hs>>
    BY <1>2 DEF ControllerStops, vars, controller, gate, plane, calls
  <2>2. Known' = Known
    BY <2>1 DEF Known
  <2>3. QED BY <2>1, <2>2, PassesOn
<1>3. CASE ApplierStep
  BY <1>3, ApplierSkew
<1>4. CASE \E p \in Publishers : PublishCerts(p) \/ StoreTable(p)
  BY <1>4, PublishCertsSkew, StoreTableSkew
<1>5. CASE \E o \in Operators : UnpinLock(o) \/ OperatorStep(o) \/ \E g \in 1..MaxGen : PinLock(o, g)
  BY <1>5, OperatorSkew
<1>6. CASE \E h \in Handshakes : (\E n \in Names : LoadTable(h, n)) \/ Lookup(h)
  BY <1>6, HandshakeSkew
<1>7. QED BY <1>1, <1>2, <1>3, <1>4, <1>5, <1>6 DEF Next

\* The handshakes' invariant holds in every reachable state.
THEOREM Skew == Spec => []SkewInv
<1>1. Init => SkewInv
  BY InitSkew
<1>2. IInv /\ SkewInv /\ [Next]_vars => SkewInv'
  BY NextSkew
<1>3. QED BY <1>1, <1>2, Inductive, PTL DEF Spec

\* resolve_name loads the table and then looks in whatever store is current:
\* only a store of another generation can be without a certificate that parses.
THEOREM SkewOnly == Spec => OnlySkewFails
<1>1. IInv /\ SkewInv /\ [Next]_vars =>
        [\A h \in Handshakes :
            hs[h].pc = "lookup" /\ hs'[h].pc = "failed" /\ hs[h].handle \notin BadCerts
                => certs.gen # hs[h].gen]_vars
  <2> SUFFICES ASSUME IInv, SkewInv, Next, NEW h \in Handshakes,
                      hs[h].pc = "lookup", hs'[h].pc = "failed", hs[h].handle \notin BadCerts
               PROVE  certs.gen # hs[h].gen
    OBVIOUS
  <2> DEFINE HS == [pc : {"idle", "lookup", "served", "failed", "unnamed"},
                    gen : Nat, handle : Certs \cup {NoCert}]
  <2>1. hs \in [Handshakes -> HS]
    BY DEF IInv, TypeOK
  <2>2. PICK g \in Handshakes : (\E n \in Names : LoadTable(g, n)) \/ Lookup(g)
    <3>1. hs' # hs
      OBVIOUS
    <3>2. QED BY <3>1 DEF Next, Compile, ControllerStops, ApplierStep, Take, RecordLock, RecordPush,
                 SetReady, ApplierExit, PublishCerts, StoreTable, PinLock, UnpinLock,
                 OperatorStep, PinCommit, UnpinCommit, Announce
  <2>3. g = h /\ Lookup(h)
    <3>1. CASE Lookup(g)
      <4>1. g = h
        BY <2>1, <3>1 DEF Lookup
      <4>2. QED BY <3>1, <4>1
    <3>2. ASSUME NEW n \in Names, LoadTable(g, n) PROVE FALSE
      BY <2>1, <3>2 DEF LoadTable
    <3>3. QED BY <2>2, <3>1, <3>2
  <2>4. hs[h].handle \notin certs.keys
    BY <2>1, <2>3 DEF Lookup
  <2>5. QED BY <2>4 DEF SkewInv, HandleInv
<1>2. QED BY <1>1, Inductive, Skew, PTL DEF Spec, OnlySkewFails

-----------------------------------------------------------------------------
(* The audit trail.                                                        *)

\* How many of a kind a trail has is a number.
LEMMA CountType ==
    ASSUME NEW s \in Seq({"pin", "unpin"}), NEW x
    PROVE  IsFiniteSet({i \in 1..Len(s) : s[i] = x}) /\ Count(s, x) \in Nat
<1>1. Len(s) \in Nat
  OBVIOUS
<1>2. IsFiniteSet(1..Len(s))
  BY <1>1, FS_Interval
<1>3. {i \in 1..Len(s) : s[i] = x} \in SUBSET (1..Len(s))
  OBVIOUS
<1>4. IsFiniteSet({i \in 1..Len(s) : s[i] = x})
  BY <1>2, <1>3, FS_Subset
<1>5. QED BY <1>4, FS_CardinalityType DEF Count

\* One announcement more.
LEMMA CountAppend ==
    ASSUME NEW s \in Seq({"pin", "unpin"}), NEW x, NEW y \in {"pin", "unpin"}
    PROVE  Count(Append(s, y), x) = IF x = y THEN Count(s, x) + 1 ELSE Count(s, x)
<1> DEFINE S == {i \in 1..Len(s) : s[i] = x}
           t == Append(s, y)
           T == {i \in 1..Len(t) : t[i] = x}
<1>1. /\ Len(s) \in Nat /\ Len(t) = Len(s) + 1
      /\ \A i \in 1..Len(s) : t[i] = s[i]
      /\ t[Len(s) + 1] = y
  BY AppendProperties
<1>2. IsFiniteSet(S)
  BY CountType
<1>3. Count(s, x) = Cardinality(S) /\ Count(t, x) = Cardinality(T)
  BY DEF Count
<1> HIDE DEF t
<1>4. Len(s) + 1 \notin S
  BY <1>1
<1>5. T = IF x = y THEN S \cup {Len(s) + 1} ELSE S
  BY <1>1
<1> HIDE DEF S, T
<1>6. Cardinality(S \cup {Len(s) + 1}) = Cardinality(S) + 1
  BY <1>2, <1>4, FS_AddElement
<1>7. QED BY <1>3, <1>5, <1>6 DEF t

\* The numbers the balance is made of.
LEMMA BalanceTypes ==
    ASSUME TypeOK, TrailInv
    PROVE  /\ Count(trail, "pin") \in Nat /\ Count(trail, "unpin") \in Nat
           /\ Cardinality(Announcing) \in Nat /\ Cardinality(Releasing) \in Nat
<1>1. trail \in Seq({"pin", "unpin"})
  BY DEF TypeOK
<1>2. QED BY <1>1, CountType, FS_CardinalityType DEF TrailInv

\* A step that announces, pins and releases nothing.
LEMMA StepsAside ==
    ASSUME TrailInv, Announcing' = Announcing, Releasing' = Releasing,
           UNCHANGED <<trail, pinned>>
    PROVE  TrailInv'
BY DEF TrailInv

\* Everything but the operators' own steps leaves the balance alone.
LEMMA OthersBalance ==
    ASSUME IInv, TrailInv,
           \/ \E sni \in SniMaps : Compile(sni)
           \/ ControllerStops \/ ApplierStep
           \/ \E p \in Publishers : PublishCerts(p) \/ StoreTable(p)
           \/ \E h \in Handshakes : (\E n \in Names : LoadTable(h, n)) \/ Lookup(h)
           \/ UNCHANGED vars
    PROVE  TrailInv'
<1>1. UNCHANGED <<trail, pinned, op>>
  BY DEF Compile, ControllerStops, ApplierStep, Take, RecordLock, RecordPush, SetReady, ApplierExit,
         PublishCerts, StoreTable, LoadTable, Lookup, vars, gate, admin
<1>2. \A o \in Operators : /\ pc'[o] = "announce" <=> pc[o] = "announce"
                           /\ pc'[o] = "idle" <=> pc[o] = "idle"
  <2>1. pc \in [Publishers -> {"idle", "lock", "certs", "table", "push", "ready",
                               "commit", "announce", "gone"}]
    BY DEF IInv, TypeOK
  <2>2. Operators \subseteq Publishers /\ Applier \notin Operators
    BY ActorsAssumption DEF Publishers
  <2>3. CASE ApplierStep
    BY <2>1, <2>2, <2>3 DEF ApplierStep, Take, RecordLock, RecordPush, SetReady, ApplierExit
  <2>4. CASE \E p \in Publishers : PublishCerts(p) \/ StoreTable(p)
    BY <2>1, <2>2, <2>4 DEF PublishCerts, StoreTable
  <2>5. CASE pc' = pc
    BY <2>5
  <2>6. QED BY <2>3, <2>4, <2>5 DEF Compile, ControllerStops, LoadTable, Lookup, vars, calls
<1>3. Announcing' = Announcing /\ Releasing' = Releasing
  BY <1>1, <1>2 DEF Announcing, Releasing
<1>4. QED BY <1>1, <1>3, StepsAside

\* A rollback takes the mutex.
LEMMA PinLockBalances ==
    ASSUME IInv, TrailInv, NEW o \in Operators, NEW g \in 1..MaxGen, PinLock(o, g)
    PROVE  TrailInv'
<1>1. /\ pc[o] = "idle" /\ pc' = [pc EXCEPT ![o] = "certs"]
      /\ op' = [op EXCEPT ![o] = "pin"] /\ UNCHANGED <<trail, pinned>>
  BY DEF PinLock
<1>2. DOMAIN op = Operators /\ DOMAIN pc = Publishers /\ o \in Publishers
  BY DEF IInv, TypeOK, Publishers
<1>3. \A p \in Operators : p # o => pc'[p] = pc[p] /\ op'[p] = op[p]
  BY <1>1, <1>2
<1>4. pc'[o] = "certs" /\ op'[o] = "pin"
  BY <1>1, <1>2
<1>5. Announcing' = Announcing /\ Releasing' = Releasing
  BY <1>1, <1>3, <1>4 DEF Announcing, Releasing
<1>6. QED BY <1>1, <1>5, StepsAside

\* A rollback commits: one pin more is held, and one more to announce.
LEMMA PinCommitBalances ==
    ASSUME IInv, TrailInv, NEW o \in Operators, PinCommit(o)
    PROVE  TrailInv'
<1>1. /\ pc[o] = "commit" /\ op[o] = "pin" /\ pc' = [pc EXCEPT ![o] = "announce"]
      /\ pinned' = job[o].gen /\ UNCHANGED <<trail, op>>
  BY DEF PinCommit, admin
<1>2. DOMAIN pc = Publishers /\ o \in Publishers /\ job[o].gen \in Nat
  BY DEF IInv, TypeOK, Publishers, Record
<1>3. pinned = NoPin /\ pinned' # NoPin
  <2>1. lock = o
    BY <1>1, <1>2 DEF IInv, LockInv, Publishing
  <2>2. QED BY <1>1, <1>2, <2>1, PinAssumption DEF IInv, OperatorInv
<1>4. \A p \in Operators : p # o => pc'[p] = pc[p]
  BY <1>1, <1>2 DEF Publishers
<1>5. pc'[o] = "announce"
  BY <1>1, <1>2
<1>6. Announcing' = Announcing \cup {o} /\ o \notin Announcing /\ Releasing' = Releasing
  BY <1>1, <1>4, <1>5 DEF Announcing, Releasing
<1>7. IsFiniteSet(Announcing') /\ Cardinality(Announcing') = Cardinality(Announcing) + 1
  BY <1>6, FS_AddElement DEF TrailInv
<1>8. QED BY <1>1, <1>3, <1>6, <1>7, BalanceTypes DEF IInv, TrailInv

\* A release takes the pin away: one pin fewer, and one release to announce.
LEMMA UnpinLockBalances ==
    ASSUME IInv, TrailInv, NEW o \in Operators, UnpinLock(o)
    PROVE  TrailInv'
<1>1. /\ pc[o] = "idle" /\ pc' = [pc EXCEPT ![o] = "certs"]
      /\ op' = [op EXCEPT ![o] = "unpin"] /\ trail' = trail
      /\ pinned # NoPin /\ pinned' = NoPin
  BY DEF UnpinLock
<1>2. DOMAIN op = Operators /\ DOMAIN pc = Publishers /\ o \in Publishers
  BY DEF IInv, TypeOK, Publishers
<1>3. \A p \in Operators : p # o => pc'[p] = pc[p] /\ op'[p] = op[p]
  BY <1>1, <1>2
<1>4. pc'[o] = "certs" /\ op'[o] = "unpin"
  BY <1>1, <1>2
<1>5. Announcing' = Announcing /\ Releasing' = Releasing \cup {o} /\ o \notin Releasing
  BY <1>1, <1>3, <1>4 DEF Announcing, Releasing
<1>6. IsFiniteSet(Releasing') /\ Cardinality(Releasing') = Cardinality(Releasing) + 1
  BY <1>5, FS_AddElement DEF TrailInv
<1>7. QED BY <1>1, <1>5, <1>6, BalanceTypes DEF IInv, TrailInv

\* A release commits: the pin went with its start.
LEMMA UnpinCommitBalances ==
    ASSUME IInv, TrailInv, NEW o \in Operators, UnpinCommit(o)
    PROVE  TrailInv'
<1>1. /\ pc[o] = "commit" /\ op[o] = "unpin" /\ pc' = [pc EXCEPT ![o] = "announce"]
      /\ UNCHANGED <<trail, op, pinned>>
  BY DEF UnpinCommit, admin
<1>2. DOMAIN pc = Publishers /\ o \in Publishers
  BY DEF IInv, TypeOK, Publishers
<1>3. \A p \in Operators : p # o => pc'[p] = pc[p]
  BY <1>1, <1>2 DEF Publishers
<1>4. pc'[o] = "announce"
  BY <1>1, <1>2
<1>5. Announcing' = Announcing /\ Releasing' = Releasing
  BY <1>1, <1>3, <1>4 DEF Announcing, Releasing
<1>6. QED BY <1>1, <1>5, StepsAside

\* An announcement moves a call from those still to come to the trail.
LEMMA AnnounceBalances ==
    ASSUME IInv, TrailInv, NEW o \in Operators, Announce(o)
    PROVE  TrailInv'
<1>1. /\ pc[o] = "announce" /\ pc' = [pc EXCEPT ![o] = "idle"]
      /\ trail' = Append(trail, op[o]) /\ UNCHANGED <<pinned, op>>
  BY DEF Announce, gate
<1>2. /\ DOMAIN pc = Publishers /\ o \in Publishers /\ op[o] \in {"pin", "unpin"}
      /\ trail \in Seq({"pin", "unpin"})
  BY DEF IInv, TypeOK, Publishers
<1>3. \A p \in Operators : p # o => pc'[p] = pc[p]
  BY <1>1, <1>2 DEF Publishers
<1>4. pc'[o] = "idle"
  BY <1>1, <1>2
<1>5. CASE op[o] = "pin"
  <2>1. /\ Count(trail', "pin") = Count(trail, "pin") + 1
        /\ Count(trail', "unpin") = Count(trail, "unpin")
    BY <1>1, <1>2, <1>5, CountAppend
  <2>2. Announcing' = Announcing \ {o} /\ o \in Announcing /\ Releasing' = Releasing
    BY <1>1, <1>3, <1>4, <1>5 DEF Announcing, Releasing
  <2>3. IsFiniteSet(Announcing') /\ Cardinality(Announcing') = Cardinality(Announcing) - 1
    BY <2>2, FS_RemoveElement DEF TrailInv
  <2>4. QED BY <1>1, <2>1, <2>2, <2>3, BalanceTypes DEF IInv, TrailInv
<1>6. CASE op[o] = "unpin"
  <2>1. /\ Count(trail', "pin") = Count(trail, "pin")
        /\ Count(trail', "unpin") = Count(trail, "unpin") + 1
    BY <1>1, <1>2, <1>6, CountAppend
  <2>2. Releasing' = Releasing \ {o} /\ o \in Releasing /\ Announcing' = Announcing
    BY <1>1, <1>3, <1>4, <1>6 DEF Announcing, Releasing
  <2>3. IsFiniteSet(Releasing') /\ Cardinality(Releasing') = Cardinality(Releasing) - 1
    BY <2>2, FS_RemoveElement DEF TrailInv
  <2>4. QED BY <1>1, <2>1, <2>2, <2>3, BalanceTypes DEF IInv, TrailInv
<1>7. QED BY <1>2, <1>5, <1>6

\* Nothing has been announced at first.
LEMMA InitTrail ==
    ASSUME Init
    PROVE  TrailInv
<1>1. Announcing = {} /\ Releasing = {}
  BY DEF Init, Announcing, Releasing, Publishers
<1>2. \A x : {i \in 1..Len(trail) : trail[i] = x} = {}
  BY DEF Init
<1>3. Count(trail, "pin") = 0 /\ Count(trail, "unpin") = 0
  BY <1>2, FS_EmptySet DEF Count
<1>4. QED BY <1>1, <1>3, FS_EmptySet DEF Init, TrailInv

\* The trail with what is still to be announced balances in every reachable
\* state, whatever order the announcements reach the audit bridge in.
THEOREM Balance == Spec => []TrailInv
<1>1. Init => TrailInv
  BY InitTrail
<1>2. IInv /\ TrailInv /\ [Next]_vars => TrailInv'
  <2> SUFFICES ASSUME IInv, TrailInv, [Next]_vars PROVE TrailInv'
    OBVIOUS
  <2>1. CASE \E o \in Operators : \E g \in 1..MaxGen : PinLock(o, g)
    BY <2>1, PinLockBalances
  <2>2. CASE \E o \in Operators : UnpinLock(o) \/ OperatorStep(o)
    BY <2>2, UnpinLockBalances, PinCommitBalances, UnpinCommitBalances, AnnounceBalances
       DEF OperatorStep
  <2>3. QED BY <2>1, <2>2, OthersBalance DEF Next
<1>3. QED BY <1>1, <1>2, Inductive, PTL DEF Spec

\* Every pin and every release is announced exactly once: with no call under
\* way the trail's pins exceed its releases by the pin that is held.
THEOREM Announced == Spec => []TrailBalances
<1>1. IInv /\ TrailInv => TrailBalances
  <2> SUFFICES ASSUME IInv, TrailInv, \A o \in Operators : pc[o] = "idle"
               PROVE  Count(trail, "pin") = Count(trail, "unpin") + (IF pinned = NoPin THEN 0 ELSE 1)
    BY DEF TrailBalances
  <2>1. Announcing = {} /\ Releasing = {}
    BY DEF Announcing, Releasing
  <2>2. QED BY <2>1, FS_EmptySet, BalanceTypes DEF IInv, TrailInv
<1>2. QED BY <1>1, Inductive, Balance, PTL
=============================================================================
