-------------------------- MODULE ForwardingProofs --------------------------
(***************************************************************************)
(* The counters of the data plane, and the failover of dispatch, for every *)
(* set of configurations, any number of requests in flight and of tables   *)
(* swapped under them, and every outcome of every attempt.                 *)
(***************************************************************************)
EXTENDS Forwarding, FiniteSetTheorems, TLAPS

(* The tables of ts, as one is built from the one before.                  *)

Lists(table, name, addr) ==
    name \in DOMAIN table.backends /\ addr \in Range(table.backends[name].addrs)

\* The address is listed for the backend in generations h to k, and not before.
ListedSince(ts, name, addr, h, k) ==
    /\ \A j \in h..k : Lists(ts[j], name, addr)
    /\ h = 1 \/ ~Lists(ts[h - 1], name, addr)

Routes(table, backend) == table.rule # None /\ table.rule.backend = backend

RoutedSince(ts, backend, h, k) ==
    /\ \A j \in h..k : Routes(ts[j], backend)
    /\ h = 1 \/ ~Routes(ts[h - 1], backend)

\* A counter is named by the generation since which its address is listed.
BackendOk(ts, k, name) ==
    LET b == ts[k].backends[name]
    IN  /\ b.addrs \in Seq(Range(b.addrs)) /\ IsInjective(b.addrs)
        /\ b.slot.addrs = b.addrs
        /\ DOMAIN b.slot.cells = DOMAIN b.addrs
        /\ \A n \in DOMAIN b.addrs : \E h \in 1..k :
              /\ b.slot.cells[n] = <<h, name, b.addrs[n]>>
              /\ ListedSince(ts, name, b.addrs[n], h, k)

RuleOk(ts, k) ==
    /\ ts[k].default \in DOMAIN ts[k].backends \cup {None}
    /\ ts[k].rule # None =>
          /\ ts[k].rule.backend \in DOMAIN ts[k].backends
          /\ ts[k].rule.block \in 1..k
          /\ RoutedSince(ts, ts[k].rule.backend, ts[k].rule.block, k)

TableOk(ts, k) ==
    /\ ts[k].gen = k
    /\ \A name \in DOMAIN ts[k].backends : BackendOk(ts, k, name)
    /\ RuleOk(ts, k)

TablesInv ==
    /\ tables \in Seq(Range(tables)) /\ Len(tables) \in 1..MaxGen
    /\ \A k \in 1..Len(tables) : TableOk(tables, k)

\* Every counter a table holds exists.
HeldInv ==
    /\ serving \in 1..Len(tables) /\ None \notin DOMAIN totals
    /\ \A k \in 1..Len(tables) :
          /\ Cells(tables[k]) \subseteq DOMAIN count
          /\ Cursors(tables[k]) \subseteq DOMAIN cursors
          /\ Blocks(tables[k]) \subseteq DOMAIN totals

-----------------------------------------------------------------------------
(* Requests.                                                               *)

Fields == {"pc", "gen", "name", "canaried", "block", "shadow", "upgrade", "body", "sent",
           "index", "tried", "left", "wrote", "copied", "status"}

Wrap(i, n) == IF i <= n THEN i ELSE i - n

\* The endpoints tried are consecutive ones of the backend, from the one that
\* was selected, and there are enough of them for the attempts left.
TryOk(addrs, q) ==
    LET n == Len(addrs)
        k == Len(q.tried)
    IN  /\ q.left \in Nat /\ q.tried \in Seq(Range(addrs)) /\ k >= 1
        /\ k + q.left <= MaxAttempts /\ k + q.left <= n
        /\ q.sent.frames = <<>> \/ k + q.left = 1
        /\ \E first \in 1..n :
              /\ q.index = Wrap(first + k - 1, n)
              /\ \A j \in 1..k : q.tried[j] = addrs[Wrap(first + j - 1, n)]

ReqOk(ts, q) ==
    /\ DOMAIN q = Fields
    /\ q.pc \in {"buffering", "attempt", "done", "gone"}
    /\ q.gen \in 1..Len(ts)
    /\ q.block = IF ts[q.gen].rule = None THEN None ELSE ts[q.gen].rule.block
    /\ q.status \in 0..599
    /\ q.pc \in {"buffering", "attempt"} =>
          q.name \in DOMAIN ts[q.gen].backends /\ q.wrote = 0
    /\ q.pc = "buffering" => q.tried = <<>> /\ q.sent = None
    /\ q.pc = "attempt" => TryOk(ts[q.gen].backends[q.name].addrs, q)
    /\ q.pc \in {"done", "gone"} =>
          /\ q.wrote \in 0..1 /\ q.tried = <<>>
          /\ q.sent # None => q.sent.frames = <<>>

ReqInv ==
    /\ DOMAIN req = Requests
    /\ \A r \in Requests : req[r].pc = "idle" \/ ReqOk(tables, req[r])

\* A counter is the number of requests that wait on it, under whatever table.
On(rq, c) == {r \in Requests : rq[r].pc = "attempt" /\ Cell(rq[r]) = c}
Counts(rq, ct) ==
    \A c \in DOMAIN ct : IsFiniteSet(On(rq, c)) /\ ct[c] = Cardinality(On(rq, c))
CountInv == count \in [DOMAIN count -> Nat] /\ Counts(req, count)

\* A block is the number of requests answered that matched its rule.
DoneIn(rq, b) == {r \in Requests : rq[r].pc = "done" /\ rq[r].block = b}
ErrorsIn(rq, b) == {r \in DoneIn(rq, b) : rq[r].status >= 500}
CanariedIn(rq, b) == {r \in DoneIn(rq, b) : rq[r].canaried}
Tallies(rq, tot) ==
    \A b \in DOMAIN tot :
        /\ IsFiniteSet(DoneIn(rq, b))
        /\ tot[b].all = Cardinality(DoneIn(rq, b))
        /\ tot[b].errors = Cardinality(ErrorsIn(rq, b))
        /\ tot[b].canary = Cardinality(CanariedIn(rq, b))
TotalsInv ==
    /\ totals \in [DOMAIN totals -> [all : Nat, errors : Nat, canary : Nat]]
    /\ Tallies(req, totals)

RestInv ==
    /\ pinned \in BOOLEAN /\ copying \in BOOLEAN
    /\ cursors \in [DOMAIN cursors -> Nat]
    /\ queue \in 0..QueueDepth
    /\ copies \in [{"mirrored", "failed", "skipped", "dropped"} -> Nat]

IInv == TablesInv /\ HeldInv /\ ReqInv /\ CountInv /\ TotalsInv /\ RestInv

-----------------------------------------------------------------------------
(* Tables.                                                                 *)

\* Only the tables up to generation k count for generation k.
LEMMA TableKept ==
    ASSUME NEW ts, NEW us, NEW k \in Nat, TableOk(ts, k), \A j \in 1..k : us[j] = ts[j], k >= 1
    PROVE  TableOk(us, k)
<1>1. us[k] = ts[k]
  OBVIOUS
<1>2. ASSUME NEW name \in DOMAIN ts[k].backends PROVE BackendOk(us, k, name)
  <2>0. BackendOk(ts, k, name)
    BY DEF TableOk
  <2>1. \A addr : \A h \in 1..k :
           ListedSince(ts, name, addr, h, k) => ListedSince(us, name, addr, h, k)
    BY DEF ListedSince
  <2>2. QED BY <1>1, <2>0, <2>1 DEF BackendOk
<1>3. RuleOk(us, k)
  <2>0. RuleOk(ts, k)
    BY DEF TableOk
  <2>1. \A b : \A h \in 1..k : RoutedSince(ts, b, h, k) => RoutedSince(us, b, h, k)
    BY DEF RoutedSince
  <2>2. QED BY <1>1, <2>0, <2>1 DEF RuleOk
<1>4. QED BY <1>1, <1>2, <1>3 DEF TableOk

\* The table that generation k is built from.
Before(ts, k) == IF k = 1 THEN NoTable ELSE ts[k - 1]

\* RebuildSlot hands on the counter of an address that stays listed, and makes
\* one for any other.
LEMMA SlotOk ==
    ASSUME NEW ts, NEW k \in Nat \ {0}, NEW config \in Configs,
           ts[k] = Compile(config, k, Before(ts, k)),
           k = 1 \/ TableOk(ts, k - 1),
           NEW name \in DOMAIN config.backends
    PROVE  BackendOk(ts, k, name)
<1>1. PICK addrs : addrs = config.backends[name].addrs
  OBVIOUS
<1>2. PICK old : old = Before(ts, k).backends
  OBVIOUS
<1>3. PICK slot : slot = RebuildSlot(old, k, name, addrs)
  OBVIOUS
<1>4. /\ name \in DOMAIN ts[k].backends
      /\ ts[k].backends[name].addrs = addrs
      /\ ts[k].backends[name].slot = slot
  BY <1>1, <1>2, <1>3 DEF Compile
<1>5. addrs \in Seq(Range(addrs)) /\ IsInjective(addrs)
  BY <1>1, ConfigsAssumption
<1>6. k = 1 => name \notin DOMAIN old
  BY <1>2 DEF Before, NoTable
<1>7. k # 1 => old = ts[k - 1].backends
  BY <1>2 DEF Before
<1>8. name \in DOMAIN old => BackendOk(ts, k - 1, name) /\ k - 1 \in Nat \ {0}
  BY <1>6, <1>7 DEF TableOk
<1>9. \A n \in DOMAIN addrs : Lists(ts[k], name, addrs[n])
  BY <1>4 DEF Lists, Range
<1>10. \A n \in DOMAIN addrs : \A h \in 1..(k - 1) :
          ListedSince(ts, name, addrs[n], h, k - 1) => ListedSince(ts, name, addrs[n], h, k)
  BY <1>9 DEF ListedSince
<1>11. CASE name \in DOMAIN old /\ old[name].slot.addrs = addrs
  <2>1. slot = old[name].slot
    BY <1>3, <1>11 DEF RebuildSlot
  <2>2. /\ old[name].addrs = addrs
        /\ DOMAIN slot.cells = DOMAIN addrs
        /\ \A n \in DOMAIN addrs : \E h \in 1..(k - 1) :
              /\ slot.cells[n] = <<h, name, addrs[n]>>
              /\ ListedSince(ts, name, addrs[n], h, k - 1)
    BY <1>6, <1>7, <1>8, <1>11, <2>1 DEF BackendOk
  <2>3. \A n \in DOMAIN addrs : \E h \in 1..k :
              /\ slot.cells[n] = <<h, name, addrs[n]>>
              /\ ListedSince(ts, name, addrs[n], h, k)
    BY <1>10, <2>2
  <2>4. QED BY <1>4, <1>5, <1>11, <2>1, <2>2, <2>3 DEF BackendOk
<1>12. CASE ~(name \in DOMAIN old /\ old[name].slot.addrs = addrs)
  <2>1. PICK prev : prev = old[name].slot
    OBVIOUS
  <2>2. /\ slot.addrs = addrs
        /\ DOMAIN slot.cells = DOMAIN addrs
        /\ \A n \in DOMAIN addrs :
              slot.cells[n] =
                  IF name \in DOMAIN old /\ addrs[n] \in Range(prev.addrs)
                  THEN prev.cells[CHOOSE m \in DOMAIN prev.addrs : prev.addrs[m] = addrs[n]]
                  ELSE <<k, name, addrs[n]>>
    BY <1>3, <1>12, <2>1 DEF RebuildSlot
  <2>3. ASSUME NEW n \in DOMAIN addrs
        PROVE  \E h \in 1..k : /\ slot.cells[n] = <<h, name, addrs[n]>>
                               /\ ListedSince(ts, name, addrs[n], h, k)
    <3>1. CASE name \in DOMAIN old /\ addrs[n] \in Range(prev.addrs)
      <4>1. PICK m : m = CHOOSE x \in DOMAIN prev.addrs : prev.addrs[x] = addrs[n]
        OBVIOUS
      <4>2. m \in DOMAIN prev.addrs /\ prev.addrs[m] = addrs[n]
        BY <3>1, <4>1 DEF Range
      <4>3. slot.cells[n] = prev.cells[m]
        BY <2>2, <3>1, <4>1
      <4>4. PICK h \in 1..(k - 1) : /\ prev.cells[m] = <<h, name, prev.addrs[m]>>
                                    /\ ListedSince(ts, name, prev.addrs[m], h, k - 1)
        BY <1>6, <1>7, <1>8, <2>1, <3>1, <4>2 DEF BackendOk
      <4>5. QED BY <1>10, <4>2, <4>3, <4>4
    <3>2. CASE ~(name \in DOMAIN old /\ addrs[n] \in Range(prev.addrs))
      <4>1. slot.cells[n] = <<k, name, addrs[n]>>
        BY <2>2, <3>2
      <4>2. k = 1 \/ ~Lists(ts[k - 1], name, addrs[n])
        BY <1>7, <1>8, <2>1, <3>2 DEF Lists, BackendOk
      <4>3. ListedSince(ts, name, addrs[n], k, k)
        BY <1>9, <4>2 DEF ListedSince
      <4>4. QED BY <4>1, <4>3
    <3>3. QED BY <3>1, <3>2
  <2>4. QED BY <1>4, <1>5, <2>2, <2>3 DEF BackendOk
<1>13. QED BY <1>11, <1>12

\* RebuildRoute hands on the block of a rule that keeps its backend.
LEMMA RouteOk ==
    ASSUME NEW ts, NEW k \in 1..MaxGen, NEW config \in Configs,
           ts[k] = Compile(config, k, Before(ts, k)),
           k = 1 \/ TableOk(ts, k - 1)
    PROVE  RuleOk(ts, k)
<1>0. k \in Nat /\ k >= 1
  BY ForwardingAssumption
<1>1. /\ ts[k].default = config.default
      /\ DOMAIN ts[k].backends = DOMAIN config.backends
      /\ config.rule = None => ts[k].rule = None
  BY DEF Compile
<1>2. config.default \in DOMAIN config.backends \cup {None}
  BY ConfigsAssumption
<1>3. ASSUME config.rule # None
      PROVE  /\ ts[k].rule.backend \in DOMAIN ts[k].backends
             /\ ts[k].rule.block \in 1..k
             /\ RoutedSince(ts, ts[k].rule.backend, ts[k].rule.block, k)
  <2>1. PICK backend, old, block : /\ backend = config.rule.backend /\ old = Before(ts, k).rule
                                   /\ block = RebuildRoute(old, k, config.rule)
    OBVIOUS
  <2>2. ts[k].rule = RuleWith(config.rule, block)
    BY <1>3, <2>1 DEF Compile
  <2>3. ts[k].rule.backend = backend /\ ts[k].rule.block = block
    BY <2>1, <2>2 DEF RuleWith
  <2>4. backend \in DOMAIN ts[k].backends
    BY <1>1, <1>3, <2>1, ConfigsAssumption
  <2>5. CASE old # None /\ old.backend = backend
    <3>1. block = old.block /\ k # 1 /\ old = ts[k - 1].rule
      BY <2>1, <2>5 DEF RebuildRoute, Before, NoTable
    <3>2. block \in 1..(k - 1) /\ RoutedSince(ts, backend, block, k - 1)
      BY <2>5, <3>1 DEF TableOk, RuleOk
    <3>3. Routes(ts[k], backend)
      <4>1. ts[k].rule # None
        BY <1>0, <1>3, <2>2, <3>2, ConfigsAssumption, ForwardingAssumption
      <4>2. QED BY <2>3, <4>1 DEF Routes
    <3>4. RoutedSince(ts, backend, block, k)
      BY <1>0, <3>2, <3>3 DEF RoutedSince
    <3>5. QED BY <1>0, <2>3, <2>4, <3>2, <3>4
  <2>6. CASE ~(old # None /\ old.backend = backend)
    <3>1. block = k
      BY <2>1, <2>6 DEF RebuildRoute
    <3>2. Routes(ts[k], backend)
      <4>1. ts[k].rule # None
        BY <1>0, <1>3, <2>2, <3>1, ConfigsAssumption
      <4>2. QED BY <2>3, <4>1 DEF Routes
    <3>3. k = 1 \/ ~Routes(ts[k - 1], backend)
      BY <2>1, <2>6 DEF Before, Routes
    <3>4. RoutedSince(ts, backend, k, k)
      BY <1>0, <3>2, <3>3 DEF RoutedSince
    <3>5. QED BY <1>0, <2>3, <2>4, <3>1, <3>4
  <2>7. QED BY <2>5, <2>6
<1>4. QED BY <1>1, <1>2, <1>3 DEF RuleOk

LEMMA CompileOk ==
    ASSUME NEW ts, NEW k \in 1..MaxGen, NEW config \in Configs,
           ts[k] = Compile(config, k, Before(ts, k)),
           k = 1 \/ TableOk(ts, k - 1)
    PROVE  TableOk(ts, k)
<1>0. k \in Nat \ {0}
  BY ForwardingAssumption
<1>1. ts[k].gen = k /\ DOMAIN ts[k].backends = DOMAIN config.backends
  BY DEF Compile
<1>2. \A name \in DOMAIN ts[k].backends : BackendOk(ts, k, name)
  BY <1>0, <1>1, SlotOk
<1>3. QED BY <1>1, <1>2, RouteOk DEF TableOk

-----------------------------------------------------------------------------
(* Counting.                                                               *)

\* A request that starts to wait is counted once.
LEMMA Enters ==
    ASSUME NEW rq, NEW ct, DOMAIN rq = Requests, Counts(rq, ct),
           NEW r \in Requests, rq[r].pc # "attempt",
           NEW q, q.pc = "attempt", Cell(q) \in DOMAIN ct
    PROVE  Counts([rq EXCEPT ![r] = q], [ct EXCEPT ![Cell(q)] = @ + 1])
<1>1. PICK cell : cell = Cell(q)
  OBVIOUS
<1>2. PICK rq2, ct2 : rq2 = [rq EXCEPT ![r] = q] /\ ct2 = [ct EXCEPT ![cell] = @ + 1]
  OBVIOUS
<1>3. DOMAIN ct2 = DOMAIN ct /\ ct2[cell] = ct[cell] + 1 /\ cell \in DOMAIN ct
  BY <1>1, <1>2
<1>4. \A c \in DOMAIN ct : c # cell => ct2[c] = ct[c]
  BY <1>2
<1>5. rq2[r] = q /\ \A s \in Requests : s # r => rq2[s] = rq[s]
  BY <1>2
<1>6. On(rq2, cell) = On(rq, cell) \cup {r} /\ r \notin On(rq, cell)
  BY <1>1, <1>5 DEF On
<1>7. \A c \in DOMAIN ct : c # cell => On(rq2, c) = On(rq, c)
  BY <1>1, <1>5 DEF On
<1>8. IsFiniteSet(On(rq, cell)) /\ ct[cell] = Cardinality(On(rq, cell))
  BY <1>3 DEF Counts
<1>9. IsFiniteSet(On(rq2, cell)) /\ Cardinality(On(rq2, cell)) = Cardinality(On(rq, cell)) + 1
  BY <1>6, <1>8, FS_AddElement
<1>10. Counts(rq2, ct2)
  BY <1>3, <1>4, <1>7, <1>8, <1>9 DEF Counts
<1>11. QED BY <1>1, <1>2, <1>10

\* One that stops waiting is counted no more.
LEMMA Leaves ==
    ASSUME NEW rq, NEW ct, DOMAIN rq = Requests, Counts(rq, ct),
           NEW r \in Requests, rq[r].pc = "attempt", Cell(rq[r]) \in DOMAIN ct,
           NEW q, q.pc # "attempt"
    PROVE  Counts([rq EXCEPT ![r] = q], [ct EXCEPT ![Cell(rq[r])] = @ - 1])
<1>1. PICK cell : cell = Cell(rq[r])
  OBVIOUS
<1>2. PICK rq2, ct2 : rq2 = [rq EXCEPT ![r] = q] /\ ct2 = [ct EXCEPT ![cell] = @ - 1]
  OBVIOUS
<1>3. DOMAIN ct2 = DOMAIN ct /\ ct2[cell] = ct[cell] - 1 /\ cell \in DOMAIN ct
  BY <1>1, <1>2
<1>4. \A c \in DOMAIN ct : c # cell => ct2[c] = ct[c]
  BY <1>2
<1>5. rq2[r] = q /\ \A s \in Requests : s # r => rq2[s] = rq[s]
  BY <1>2
<1>6. On(rq2, cell) = On(rq, cell) \ {r} /\ r \in On(rq, cell)
  BY <1>1, <1>5 DEF On
<1>7. \A c \in DOMAIN ct : c # cell => On(rq2, c) = On(rq, c)
  BY <1>1, <1>5 DEF On
<1>8. IsFiniteSet(On(rq, cell)) /\ ct[cell] = Cardinality(On(rq, cell))
  BY <1>3 DEF Counts
<1>9. IsFiniteSet(On(rq2, cell)) /\ Cardinality(On(rq2, cell)) = Cardinality(On(rq, cell)) - 1
  BY <1>6, <1>8, FS_RemoveElement
<1>10. Counts(rq2, ct2)
  BY <1>3, <1>4, <1>7, <1>8, <1>9 DEF Counts
<1>11. QED BY <1>1, <1>2, <1>10

\* The failover releases one counter and takes the next.
LEMMA Moves ==
    ASSUME NEW rq, NEW ct, DOMAIN rq = Requests, Counts(rq, ct),
           NEW r \in Requests, rq[r].pc = "attempt", Cell(rq[r]) \in DOMAIN ct,
           NEW q, q.pc = "attempt", Cell(q) \in DOMAIN ct
    PROVE  Counts([rq EXCEPT ![r] = q],
                  [[ct EXCEPT ![Cell(rq[r])] = @ - 1] EXCEPT ![Cell(q)] = @ + 1])
<1>1. PICK rq1, ct1 : rq1 = [rq EXCEPT ![r] = Idle] /\ ct1 = [ct EXCEPT ![Cell(rq[r])] = @ - 1]
  OBVIOUS
<1>2. Idle.pc # "attempt"
  BY DEF Idle
<1>3. Counts(rq1, ct1)
  BY <1>1, <1>2, Leaves
<1>4. DOMAIN rq1 = Requests /\ rq1[r] = Idle /\ DOMAIN ct1 = DOMAIN ct
  BY <1>1
<1>5. Counts([rq1 EXCEPT ![r] = q], [ct1 EXCEPT ![Cell(q)] = @ + 1])
  BY <1>2, <1>3, <1>4, Enters
<1>6. [rq1 EXCEPT ![r] = q] = [rq EXCEPT ![r] = q]
  BY <1>1
<1>7. QED BY <1>1, <1>5, <1>6

\* A request that waits nowhere, before or after, changes no counter.
LEMMA Passes ==
    ASSUME NEW rq, NEW ct, DOMAIN rq = Requests, Counts(rq, ct),
           NEW r \in Requests, rq[r].pc # "attempt", NEW q, q.pc # "attempt"
    PROVE  Counts([rq EXCEPT ![r] = q], ct)
<1>1. PICK rq2 : rq2 = [rq EXCEPT ![r] = q]
  OBVIOUS
<1>2. rq2[r] = q /\ \A s \in Requests : s # r => rq2[s] = rq[s]
  BY <1>1
<1>3. \A c : On(rq2, c) = On(rq, c)
  BY <1>2 DEF On
<1>4. QED BY <1>1, <1>3 DEF Counts

\* A decrement finds a request to count off.
LEMMA CountsNat ==
    ASSUME NEW rq, NEW ct, Counts(rq, ct), NEW c \in DOMAIN ct
    PROVE  ct[c] \in Nat
BY FS_CardinalityType DEF Counts

-----------------------------------------------------------------------------
(* Recording.                                                              *)

\* The answer to a request is recorded once, in the block of its rule.
LEMMA Finishes ==
    ASSUME TotalsInv, DOMAIN req = Requests, NEW r \in Requests, req[r].pc # "done",
           NEW q, q.block = None \/ q.block \in DOMAIN totals,
           NEW d, d.pc = "done", d.block = q.block, d.status \in 0..599, d.canaried = q.canaried,
           None \notin DOMAIN totals
    PROVE  /\ Tallies([req EXCEPT ![r] = d], Recorded(q, d.status))
           /\ DOMAIN Recorded(q, d.status) = DOMAIN totals
           /\ Recorded(q, d.status) \in
                 [DOMAIN totals -> [all : Nat, errors : Nat, canary : Nat]]
<1>1. PICK rq : rq = [req EXCEPT ![r] = d]
  OBVIOUS
<1>2. PICK tot : tot = Recorded(q, d.status)
  OBVIOUS
<1>3. rq[r] = d /\ \A s \in Requests : s # r => rq[s] = req[s]
  BY <1>1
<1>4. \A b \in DOMAIN totals : b # q.block =>
         /\ DoneIn(rq, b) = DoneIn(req, b)
         /\ \A s \in DoneIn(req, b) : rq[s] = req[s]
  BY <1>3 DEF DoneIn
<1>5. CASE q.block = None
  <2>1. tot = totals
    BY <1>2, <1>5 DEF Recorded
  <2>2. \A b \in DOMAIN totals :
           /\ DoneIn(rq, b) = DoneIn(req, b)
           /\ ErrorsIn(rq, b) = ErrorsIn(req, b)
           /\ CanariedIn(rq, b) = CanariedIn(req, b)
    BY <1>4, <1>5 DEF ErrorsIn, CanariedIn
  <2>3. Tallies(rq, totals)
    BY <2>2 DEF TotalsInv, Tallies
  <2>4. QED BY <1>1, <1>2, <2>1, <2>3 DEF TotalsInv
<1>6. CASE q.block \in DOMAIN totals
  <2>0. PICK b : b = q.block /\ b \in DOMAIN totals /\ b # None
    BY <1>6
  <2>1. PICK e, c : /\ e = (IF d.status \in 500..599 THEN 1 ELSE 0)
                    /\ c = (IF q.canaried THEN 1 ELSE 0)
    OBVIOUS
  <2>2. /\ DOMAIN tot = DOMAIN totals
        /\ tot[b].all = totals[b].all + 1
        /\ tot[b].errors = totals[b].errors + e
        /\ tot[b].canary = totals[b].canary + c
        /\ DOMAIN tot[b] = {"all", "errors", "canary"}
        /\ \A x \in DOMAIN totals : x # b => tot[x] = totals[x]
    BY <1>2, <2>0, <2>1 DEF Recorded, TotalsInv
  <2>3. totals[b] \in [all : Nat, errors : Nat, canary : Nat]
    BY <2>0 DEF TotalsInv
  <2>4. PICK S, E, C : /\ S = DoneIn(req, b)
                       /\ E = ErrorsIn(req, b) /\ C = CanariedIn(req, b)
    OBVIOUS
  <2>5. /\ IsFiniteSet(S) /\ totals[b].all = Cardinality(S)
        /\ totals[b].errors = Cardinality(E) /\ totals[b].canary = Cardinality(C)
    BY <2>0, <2>4 DEF TotalsInv, Tallies
  <2>6. r \notin S /\ r \notin E /\ r \notin C /\ E \subseteq S /\ C \subseteq S
    BY <2>4 DEF DoneIn, ErrorsIn, CanariedIn
  <2>7. IsFiniteSet(E) /\ IsFiniteSet(C)
    BY <2>5, <2>6, FS_Subset
  <2>8. DoneIn(rq, b) = S \cup {r}
    BY <1>3, <2>0, <2>4 DEF DoneIn
  <2>9. /\ ErrorsIn(rq, b) = IF e = 1 THEN E \cup {r} ELSE E
        /\ CanariedIn(rq, b) = IF c = 1 THEN C \cup {r} ELSE C
    <3>1. \A s \in S : rq[s] = req[s] /\ s # r
      BY <1>3, <2>4, <2>6 DEF DoneIn
    <3>2. (e = 1 <=> rq[r].status >= 500) /\ (c = 1 <=> rq[r].canaried)
      BY <1>3, <2>1
    <3>3. QED BY <2>4, <2>8, <3>1, <3>2 DEF ErrorsIn, CanariedIn
  <2>10. /\ IsFiniteSet(S \cup {r}) /\ Cardinality(S \cup {r}) = totals[b].all + 1
         /\ Cardinality(E \cup {r}) = totals[b].errors + 1
         /\ Cardinality(C \cup {r}) = totals[b].canary + 1
    <3>1. IsFiniteSet(S \cup {r}) /\ Cardinality(S \cup {r}) = Cardinality(S) + 1
      BY <2>5, <2>6, FS_AddElement
    <3>2. Cardinality(E \cup {r}) = Cardinality(E) + 1
      BY <2>6, <2>7, FS_AddElement
    <3>3. Cardinality(C \cup {r}) = Cardinality(C) + 1
      BY <2>6, <2>7, FS_AddElement
    <3>4. QED BY <2>5, <3>1, <3>2, <3>3
  <2>11. /\ IsFiniteSet(DoneIn(rq, b))
         /\ tot[b].all = Cardinality(DoneIn(rq, b))
         /\ tot[b].errors = Cardinality(ErrorsIn(rq, b))
         /\ tot[b].canary = Cardinality(CanariedIn(rq, b))
    <3>1. tot[b].all = Cardinality(DoneIn(rq, b)) /\ IsFiniteSet(DoneIn(rq, b))
      BY <2>2, <2>8, <2>10
    <3>2. tot[b].errors = Cardinality(ErrorsIn(rq, b))
      BY <2>1, <2>2, <2>3, <2>5, <2>9, <2>10
    <3>3. tot[b].canary = Cardinality(CanariedIn(rq, b))
      BY <2>1, <2>2, <2>3, <2>5, <2>9, <2>10
    <3>4. QED BY <3>1, <3>2, <3>3
  <2>12. ASSUME NEW x \in DOMAIN totals, x # b
         PROVE  /\ IsFiniteSet(DoneIn(rq, x))
                /\ tot[x].all = Cardinality(DoneIn(rq, x))
                /\ tot[x].errors = Cardinality(ErrorsIn(rq, x))
                /\ tot[x].canary = Cardinality(CanariedIn(rq, x))
    <3>1. /\ DoneIn(rq, x) = DoneIn(req, x)
          /\ ErrorsIn(rq, x) = ErrorsIn(req, x)
          /\ CanariedIn(rq, x) = CanariedIn(req, x)
      BY <1>4, <2>0, <2>12 DEF ErrorsIn, CanariedIn
    <3>2. tot[x] = totals[x]
      BY <2>2, <2>12
    <3>3. QED BY <2>12, <3>1, <3>2 DEF TotalsInv, Tallies
  <2>13. Tallies(rq, tot)
    BY <2>2, <2>11, <2>12 DEF Tallies
  <2>14. tot \in [DOMAIN totals -> [all : Nat, errors : Nat, canary : Nat]]
    <3>1. tot[b] \in [all : Nat, errors : Nat, canary : Nat]
      <4>1. tot[b] = [all |-> totals[b].all + 1, errors |-> totals[b].errors + e,
                      canary |-> totals[b].canary + c]
        BY <1>2, <2>0, <2>1 DEF Recorded, TotalsInv
      <4>2. e \in Nat /\ c \in Nat
        BY <2>1
      <4>3. QED BY <2>3, <4>1, <4>2
    <3>2. tot = [x \in DOMAIN totals |-> tot[x]]
      BY <1>2, <2>0 DEF Recorded
    <3>3. \A x \in DOMAIN totals : tot[x] \in [all : Nat, errors : Nat, canary : Nat]
      BY <2>2, <3>1 DEF TotalsInv
    <3>4. QED BY <3>2, <3>3
  <2>15. QED BY <1>1, <1>2, <2>2, <2>13, <2>14
<1>7. QED BY <1>5, <1>6

\* A request that is answered neither before nor after changes no block.
LEMMA Unrecorded ==
    ASSUME NEW rq, NEW tot, DOMAIN rq = Requests, Tallies(rq, tot),
           NEW r \in Requests, rq[r].pc # "done", NEW q, q.pc # "done"
    PROVE  Tallies([rq EXCEPT ![r] = q], tot)
<1>1. PICK rq2 : rq2 = [rq EXCEPT ![r] = q]
  OBVIOUS
<1>2. rq2[r] = q /\ \A s \in Requests : s # r => rq2[s] = rq[s]
  BY <1>1
<1>3. \A b : DoneIn(rq2, b) = DoneIn(rq, b) /\ \A s \in DoneIn(rq, b) : rq2[s] = rq[s]
  BY <1>2 DEF DoneIn
<1>4. \A b : ErrorsIn(rq2, b) = ErrorsIn(rq, b) /\ CanariedIn(rq2, b) = CanariedIn(rq, b)
  BY <1>3 DEF ErrorsIn, CanariedIn
<1>5. QED BY <1>1, <1>3, <1>4 DEF Tallies

-----------------------------------------------------------------------------
(* Steps of a request.                                                     *)

LEMMA MinOfTwo ==
    ASSUME NEW a \in Int, NEW b \in Int
    PROVE  Min({a, b}) \in {a, b} /\ Min({a, b}) <= a /\ Min({a, b}) <= b
<1>1. \E x \in {a, b} : \A y \in {a, b} : x <= y
  OBVIOUS
<1>2. QED BY <1>1 DEF Min

LEMMA EndedFacts ==
    ASSUME NEW q, DOMAIN q = Fields, NEW pc, NEW status
    PROVE  LET e == Ended(q, pc)
               d == [Ended(q, pc) EXCEPT !.status = status]
           IN  /\ DOMAIN e = Fields /\ e.pc = pc /\ e.gen = q.gen /\ e.block = q.block
               /\ e.status = q.status /\ e.wrote = q.wrote /\ e.tried = <<>>
               /\ e.sent # None => e.sent = EmptyBody
               /\ DOMAIN d = Fields /\ d.pc = pc /\ d.gen = q.gen /\ d.block = q.block
               /\ d.status = status /\ d.wrote = q.wrote /\ d.tried = <<>>
               /\ d.sent # None => d.sent = EmptyBody
               /\ d.canaried = q.canaried
<1>1. PICK empty, sent : empty = EmptyBody /\ sent = IF q.sent = None THEN None ELSE empty
  OBVIOUS
<1>2. Ended(q, pc) = [q EXCEPT !.pc = pc, !.name = None, !.shadow = None, !.upgrade = FALSE,
                               !.index = 0, !.tried = <<>>, !.left = 0, !.body = empty,
                               !.sent = sent]
  BY <1>1 DEF Ended
<1>3. PICK e : e = Ended(q, pc)
  OBVIOUS
<1>4. /\ DOMAIN e = Fields /\ e.pc = pc /\ e.gen = q.gen /\ e.block = q.block
      /\ e.status = q.status /\ e.wrote = q.wrote /\ e.tried = <<>> /\ e.sent = sent
      /\ e.canaried = q.canaried
  BY <1>2, <1>3 DEF Fields
<1>5. PICK d : d = [e EXCEPT !.status = status]
  OBVIOUS
<1>6. /\ DOMAIN d = Fields /\ d.pc = e.pc /\ d.gen = e.gen /\ d.block = e.block
      /\ d.status = status /\ d.wrote = e.wrote /\ d.tried = e.tried /\ d.sent = e.sent
      /\ d.canaried = e.canaried
  BY <1>4, <1>5 DEF Fields
<1>7. QED BY <1>1, <1>3, <1>4, <1>5, <1>6

LEMMA AttemptFacts ==
    ASSUME NEW q, DOMAIN q = Fields, NEW index
    PROVE  LET a == Attempt(q, index)
           IN  /\ DOMAIN a = Fields /\ a.pc = "attempt" /\ a.gen = q.gen /\ a.name = q.name
               /\ a.block = q.block /\ a.status = q.status /\ a.wrote = q.wrote /\ a.sent = q.sent
               /\ a.index = index /\ a.left = q.left - 1
               /\ a.tried = Append(q.tried, Backend(q).addrs[index])
<1>1. PICK addr : addr = Backend(q).addrs[index]
  OBVIOUS
<1>2. Attempt(q, index) = [q EXCEPT !.pc = "attempt", !.index = index,
                                    !.tried = Append(@, addr), !.left = @ - 1]
  BY <1>1 DEF Attempt
<1>3. QED BY <1>1, <1>2 DEF Fields

\* The counter of an endpoint exists.
LEMMA CellHeld ==
    ASSUME TablesInv, HeldInv, NEW k \in 1..Len(tables), NEW name \in DOMAIN tables[k].backends,
           NEW n \in DOMAIN tables[k].backends[name].addrs
    PROVE  tables[k].backends[name].slot.cells[n] \in DOMAIN count
<1>1. BackendOk(tables, k, name)
  BY DEF TablesInv, TableOk
<1>2. n \in DOMAIN tables[k].backends[name].slot.cells
  BY <1>1 DEF BackendOk
<1>3. tables[k].backends[name].slot.cells[n] \in Cells(tables[k])
  BY <1>2 DEF Cells, Range
<1>4. QED BY <1>3 DEF HeldInv

\* What a request waiting on an endpoint holds.
LEMMA Waiting ==
    ASSUME TablesInv, HeldInv, NEW q, ReqOk(tables, q), q.pc = "attempt"
    PROVE  /\ BackendOk(tables, q.gen, q.name)
           /\ Len(Backend(q).addrs) \in Nat
           /\ DOMAIN Backend(q).addrs = 1..Len(Backend(q).addrs)
           /\ q.index \in DOMAIN Backend(q).addrs
           /\ Cell(q) \in DOMAIN count
<1>1. /\ q.gen \in 1..Len(tables) /\ q.name \in DOMAIN tables[q.gen].backends
      /\ TryOk(Backend(q).addrs, q)
  BY DEF ReqOk, Backend
<1>2. BackendOk(tables, q.gen, q.name)
  BY <1>1 DEF TablesInv, TableOk
<1>3. PICK addrs : addrs = Backend(q).addrs
  OBVIOUS
<1>4. addrs \in Seq(Range(addrs))
  BY <1>2, <1>3 DEF BackendOk, Backend
<1>5. q.index \in 1..Len(addrs)
  <2>1. PICK first \in 1..Len(addrs) : q.index = Wrap(first + Len(q.tried) - 1, Len(addrs))
    BY <1>1, <1>3 DEF TryOk
  <2>2. Len(addrs) \in Nat /\ Len(q.tried) \in 1..Len(addrs)
    BY <1>1, <1>3, <1>4 DEF TryOk
  <2>3. QED BY <2>1, <2>2 DEF Wrap
<1>6. Cell(q) \in DOMAIN count
  BY <1>1, <1>3, <1>4, <1>5, CellHeld DEF Cell, Backend
<1>7. QED BY <1>2, <1>3, <1>4, <1>5, <1>6

\* A step of one request, from its effects on the request and on the counters.
LEMMA RequestStep ==
    ASSUME IInv, UNCHANGED <<tables, serving>>,
           NEW r \in Requests, NEW q, ReqOk(tables, q), req' = [req EXCEPT ![r] = q],
           DOMAIN count' = DOMAIN count, count' \in [DOMAIN count -> Nat], Counts(req', count'),
           DOMAIN totals' = DOMAIN totals, Tallies(req', totals'),
           totals' \in [DOMAIN totals -> [all : Nat, errors : Nat, canary : Nat]],
           DOMAIN cursors' = DOMAIN cursors, RestInv'
    PROVE  IInv'
<1>1. TablesInv'
  BY DEF IInv, TablesInv
<1>2. HeldInv'
  BY DEF IInv, HeldInv
<1>3. ReqInv'
  <2>1. DOMAIN req' = Requests /\ req'[r] = q /\ \A s \in Requests : s # r => req'[s] = req[s]
    BY DEF IInv, ReqInv
  <2>2. QED BY <2>1 DEF IInv, ReqInv
<1>4. CountInv'
  BY DEF CountInv, Counts, On, Cell, Backend
<1>5. TotalsInv'
  BY DEF TotalsInv, Tallies, DoneIn, ErrorsIn, CanariedIn
<1>6. QED BY <1>1, <1>2, <1>3, <1>4, <1>5 DEF IInv

\* A request that is about to be dispatched.
Ready(q) ==
    /\ DOMAIN q = Fields
    /\ q.gen \in 1..Len(tables)
    /\ q.block = IF tables[q.gen].rule = None THEN None ELSE tables[q.gen].rule.block
    /\ q.status \in 0..599
    /\ q.name \in DOMAIN tables[q.gen].backends
    /\ q.wrote = 0 /\ q.tried = <<>>

LEMMA DrawnType ==
    ASSUME NEW backend, NEW D, NEW cs \in [D -> Nat]
    PROVE  Drawn(backend, cs) \in [D -> Nat]
<1>1. PICK c : c = backend.slot.cursor
  OBVIOUS
<1>2. Drawn(backend, cs) = IF backend.policy = "RoundRobin" THEN [cs EXCEPT ![c] = @ + 1] ELSE cs
  BY <1>1 DEF Drawn
<1>3. [cs EXCEPT ![c] = @ + 1] \in [D -> Nat]
  <2>1. CASE c \in D
    <3>1. cs[c] + 1 \in Nat
      BY <2>1
    <3>2. QED BY <3>1
  <2>2. CASE c \notin D
    BY <2>2
  <2>3. QED BY <2>1, <2>2
<1>4. QED BY <1>2, <1>3

\* There is an attempt, and no more than there are endpoints or than
\* max_connect_attempts; only an empty body may have several.
LEMMA AttemptsFacts ==
    ASSUME NEW backend, Len(backend.addrs) \in Nat \ {0}, NEW body
    PROVE  /\ Attempts(backend, body) \in 1..MaxAttempts
           /\ Attempts(backend, body) <= Len(backend.addrs)
           /\ ~KnownEmpty(body) => Attempts(backend, body) = 1
<1>1. MaxAttempts \in Nat \ {0}
  BY ForwardingAssumption
<1>2. PICK n \in Nat \ {0} : n = Len(backend.addrs)
  OBVIOUS
<1>3. PICK m : m = Min({n, MaxAttempts})
  OBVIOUS
<1>4. n \in Int /\ MaxAttempts \in Int
  BY <1>1
<1>5. m \in {n, MaxAttempts} /\ m <= n /\ m <= MaxAttempts
  BY <1>3, <1>4, MinOfTwo
<1>6. Attempts(backend, body) = IF KnownEmpty(body) THEN m ELSE 1
  BY <1>2, <1>3 DEF Attempts
<1>7. QED BY <1>1, <1>2, <1>5, <1>6

LEMMA DispatchStep ==
    ASSUME IInv, NEW r \in Requests, req[r].pc \in {"idle", "buffering"},
           NEW q, Ready(q), NEW body, NEW cs \in [DOMAIN cursors -> Nat],
           Dispatch(r, q, body, cs),
           UNCHANGED <<tables, serving, pinned, copying>>,
           queue' \in 0..QueueDepth,
           copies' \in [{"mirrored", "failed", "skipped", "dropped"} -> Nat]
    PROVE  IInv'
<1>1. PICK b, addrs : /\ b = Backend(q) /\ addrs = b.addrs
                      /\ b = tables[q.gen].backends[q.name]
  BY DEF Backend
<1>2. PICK q1 : q1 = [q EXCEPT !.left = Attempts(b, body),
                               !.sent = IF KnownEmpty(body) THEN EmptyBody ELSE body]
  OBVIOUS
<1>3. PICK index \in SelectEndpoint(b, cs[b.slot.cursor], Loads(b)) :
         /\ req' = [req EXCEPT ![r] = Attempt(q1, index)]
         /\ count' = [count EXCEPT ![b.slot.cells[index]] = @ + 1]
         /\ cursors' = Drawn(b, cs)
         /\ totals' = totals
  BY <1>1, <1>2 DEF Dispatch
<1>4. index \in DOMAIN addrs
  BY <1>1 DEF SelectEndpoint
<1>5. BackendOk(tables, q.gen, q.name)
  BY DEF IInv, TablesInv, TableOk, Ready
<1>6. addrs \in Seq(Range(addrs)) /\ index \in 1..Len(addrs) /\ Len(addrs) \in Nat \ {0}
  <2>1. addrs \in Seq(Range(addrs))
    BY <1>1, <1>5 DEF BackendOk
  <2>2. PICK S : addrs \in Seq(S)
    BY <2>1
  <2>3. QED BY <1>4, <2>1, <2>2
<1>7. /\ DOMAIN q1 = Fields /\ q1.gen = q.gen /\ q1.name = q.name /\ q1.block = q.block
      /\ q1.status = q.status /\ q1.wrote = 0 /\ q1.tried = <<>>
      /\ q1.left = Attempts(b, body)
      /\ q1.sent = IF KnownEmpty(body) THEN EmptyBody ELSE body
      /\ Backend(q1) = b
  <2>1. DOMAIN q = Fields /\ q.wrote = 0 /\ q.tried = <<>>
    BY DEF Ready
  <2>2. PICK left, sent : /\ left = Attempts(b, body)
                          /\ sent = IF KnownEmpty(body) THEN EmptyBody ELSE body
    OBVIOUS
  <2>3. q1 = [q EXCEPT !.left = left, !.sent = sent]
    BY <1>2, <2>2
  <2>4. /\ DOMAIN q1 = Fields /\ q1.gen = q.gen /\ q1.name = q.name /\ q1.block = q.block
        /\ q1.status = q.status /\ q1.wrote = 0 /\ q1.tried = <<>>
        /\ q1.left = left /\ q1.sent = sent
    BY <2>1, <2>3 DEF Fields
  <2>5. QED BY <1>1, <2>2, <2>4 DEF Backend
<1>8. PICK a : a = Attempt(q1, index)
  OBVIOUS
<1>9. /\ DOMAIN a = Fields /\ a.pc = "attempt" /\ a.gen = q.gen /\ a.name = q.name
      /\ a.block = q.block /\ a.status = q.status /\ a.wrote = 0 /\ a.sent = q1.sent
      /\ a.index = index /\ a.left = q1.left - 1
      /\ a.tried = Append(<<>>, addrs[index])
  BY <1>1, <1>7, <1>8, AttemptFacts
<1>10. /\ q1.left \in 1..MaxAttempts /\ q1.left <= Len(addrs)
       /\ q1.sent.frames = <<>> \/ q1.left = 1
  BY <1>1, <1>6, <1>7, AttemptsFacts DEF EmptyBody
<1>11. TryOk(addrs, a)
  <2>1. /\ Len(a.tried) = 1 /\ a.tried[1] = addrs[index]
        /\ a.tried \in Seq(Range(addrs)) /\ DOMAIN a.tried = 1..1
    BY <1>4, <1>9 DEF Range
  <2>2. Wrap(index + 1 - 1, Len(addrs)) = index
    BY <1>6 DEF Wrap
  <2>3. \A j \in 1..1 : a.tried[j] = addrs[Wrap(index + j - 1, Len(addrs))]
    BY <2>1, <2>2
  <2>4. a.left \in Nat /\ 1 + a.left = q1.left
    BY <1>9, <1>10, ForwardingAssumption
  <2>5. QED BY <1>6, <1>9, <1>10, <2>1, <2>2, <2>3, <2>4, ForwardingAssumption DEF TryOk
<1>12. ReqOk(tables, a)
  BY <1>1, <1>9, <1>11 DEF ReqOk, Ready
<1>13. Cell(a) = b.slot.cells[index] /\ Cell(a) \in DOMAIN count
  <2>1. Cell(a) = b.slot.cells[index]
    BY <1>1, <1>9 DEF Cell, Backend
  <2>2. QED BY <1>9, <1>12, <2>1, Waiting DEF IInv
<1>14. Counts(req', count')
  <2>1. DOMAIN req = Requests /\ Counts(req, count) /\ req[r].pc # "attempt"
    BY DEF IInv, ReqInv, CountInv
  <2>2. Counts([req EXCEPT ![r] = a], [count EXCEPT ![Cell(a)] = @ + 1])
    BY <1>9, <1>13, <2>1, Enters
  <2>3. QED BY <1>3, <1>8, <1>13, <2>2
<1>15. DOMAIN count' = DOMAIN count /\ count' \in [DOMAIN count -> Nat]
  BY <1>3, <1>13 DEF IInv, CountInv
<1>16. Tallies(req', totals')
  BY <1>3, <1>8, <1>9, Unrecorded DEF IInv, ReqInv, TotalsInv
<1>17. cursors' \in [DOMAIN cursors -> Nat]
  BY <1>3, DrawnType
<1>18. RestInv'
  BY <1>17 DEF IInv, RestInv
<1>19. QED BY <1>3, <1>8, <1>12, <1>14, <1>15, <1>16, <1>17, <1>18, RequestStep DEF IInv, TotalsInv

\* The mirror queue and its metrics after a copy is offered.
LEMMA EnqueueType ==
    ASSUME RestInv, Enqueue
    PROVE  /\ queue' \in 0..QueueDepth
           /\ copies' \in [{"mirrored", "failed", "skipped", "dropped"} -> Nat]
BY ForwardingAssumption DEF RestInv, Enqueue

\* A request matches one rule of one table, which names a backend of it.
LEMMA MatchedFacts ==
    ASSUME TablesInv, NEW g \in 1..Len(tables), NEW arrival, NEW roll, NEW mirrorRoll
    PROVE  LET m == Matched(tables[g], arrival, roll, mirrorRoll)
           IN  /\ m.name \in DOMAIN tables[g].backends \cup {None}
               /\ m.block = IF tables[g].rule = None THEN None ELSE tables[g].rule.block
<1>1. PICK table, rule : table = tables[g] /\ rule = table.rule
  OBVIOUS
<1>2. RuleOk(tables, g)
  BY DEF TablesInv, TableOk
<1>3. PICK diverted : diverted = (/\ rule.canary # None
                                  /\ Decide(rule.canary, arrival.header, None, roll)
                                  /\ rule.canary.backend \in DOMAIN table.backends)
  OBVIOUS
<1>4. PICK mirror : mirror = IF Sampled(rule.mirror, mirrorRoll) THEN rule.mirror.backend ELSE None
  OBVIOUS
<1>5. CASE rule = None
  <2>1. Matched(table, arrival, roll, mirrorRoll) =
           [name |-> table.default, canaried |-> FALSE, block |-> None, mirror |-> None]
    BY <1>1, <1>5 DEF Matched
  <2>2. QED BY <1>1, <1>2, <1>5, <2>1 DEF RuleOk
<1>6. CASE rule # None
  <2>1. Matched(table, arrival, roll, mirrorRoll) =
           [name |-> IF diverted THEN rule.canary.backend ELSE rule.backend,
            canaried |-> diverted, block |-> rule.block, mirror |-> mirror]
    BY <1>1, <1>3, <1>4, <1>6 DEF Matched
  <2>2. diverted => rule.canary.backend \in DOMAIN table.backends
    BY <1>3
  <2>3. QED BY <1>1, <1>2, <1>6, <2>1, <2>2 DEF RuleOk
<1>7. QED BY <1>5, <1>6

LEMMA RefusalFacts ==
    ASSUME NEW table, NEW name, NEW arrival
    PROVE  /\ Refusal(table, name, arrival) \in 0..599 \cup {None}
           /\ Refusal(table, name, arrival) = None => name # None
BY ForwardingAssumption DEF Refusal

\* The blocks of a rule exist.
LEMMA BlockHeld ==
    ASSUME TablesInv, HeldInv, NEW g \in 1..Len(tables), tables[g].rule # None
    PROVE  tables[g].rule.block \in DOMAIN totals
BY DEF HeldInv, Blocks

LEMMA AnsweredStep ==
    ASSUME IInv, NEW r \in Requests, NEW q, NEW status \in 0..599, Answered(r, q, status),
           req[r].pc # "done",
           DOMAIN q = Fields, q.gen \in 1..Len(tables), q.wrote \in 0..1,
           q.block = IF tables[q.gen].rule = None THEN None ELSE tables[q.gen].rule.block,
           UNCHANGED <<tables, serving>>,
           DOMAIN count' = DOMAIN count, count' \in [DOMAIN count -> Nat],
           \A d : d.pc # "attempt" => Counts([req EXCEPT ![r] = d], count'),
           DOMAIN cursors' = DOMAIN cursors, RestInv'
    PROVE  IInv'
<1>1. PICK d : d = [Ended(q, "done") EXCEPT !.status = status]
  OBVIOUS
<1>2. req' = [req EXCEPT ![r] = d] /\ totals' = Recorded(q, status)
  BY <1>1 DEF Answered
<1>3. /\ DOMAIN d = Fields /\ d.pc = "done" /\ d.gen = q.gen /\ d.block = q.block
      /\ d.status = status /\ d.wrote = q.wrote /\ d.tried = <<>>
      /\ d.sent # None => d.sent = EmptyBody
      /\ d.canaried = q.canaried
  BY <1>1, EndedFacts
<1>4. ReqOk(tables, d)
  BY <1>3 DEF ReqOk, EmptyBody
<1>5. q.block = None \/ q.block \in DOMAIN totals
  BY BlockHeld DEF IInv
<1>6. None \notin DOMAIN totals
  BY DEF IInv, HeldInv
<1>7. /\ Tallies(req', totals') /\ DOMAIN totals' = DOMAIN totals
      /\ totals' \in [DOMAIN totals -> [all : Nat, errors : Nat, canary : Nat]]
  <2>1. TotalsInv /\ DOMAIN req = Requests
    BY DEF IInv, ReqInv
  <2>2. /\ Tallies([req EXCEPT ![r] = d], Recorded(q, d.status))
        /\ DOMAIN Recorded(q, d.status) = DOMAIN totals
        /\ Recorded(q, d.status) \in
              [DOMAIN totals -> [all : Nat, errors : Nat, canary : Nat]]
    BY <1>3, <1>5, <1>6, <2>1, Finishes
  <2>3. QED BY <1>2, <1>3, <2>2
<1>8. Counts(req', count')
  BY <1>2, <1>3
<1>9. QED BY <1>2, <1>4, <1>7, <1>8, RequestStep

\* A copy is offered, and the request dispatched.
LEMMA CopiedStep ==
    ASSUME IInv, NEW r \in Requests, req[r].pc \in {"idle", "buffering"},
           NEW q, Ready(q), NEW body, Copied(r, q, body),
           UNCHANGED <<tables, serving, pinned, copying>>
    PROVE  IInv'
<1>1. PICK cs : cs = Drawn(tables[q.gen].backends[q.shadow], cursors)
  OBVIOUS
<1>2. cs \in [DOMAIN cursors -> Nat]
  BY <1>1, DrawnType DEF IInv, RestInv
<1>3. Enqueue /\ Dispatch(r, q, body, cs)
  BY <1>1 DEF Copied
<1>4. QED BY <1>2, <1>3, EnqueueType, DispatchStep DEF IInv

LEMMA BeginStep ==
    ASSUME IInv, NEW r \in Requests, NEW arrival \in Arrivals, Begin(r, arrival)
    PROVE  IInv'
<1>1. PICK roll \in Rolls, mirrorRoll \in Rolls :
        LET table == tables[serving]
            m == Matched(table, arrival, roll, mirrorRoll)
            body == RequestBody(arrival.body)
            shadow == IF m.mirror \in DOMAIN table.backends THEN m.mirror ELSE None
            live == shadow # None /\ table.backends[shadow].addrs # <<>>
            refusal == Refusal(table, m.name, arrival)
            q == [pc |-> "start", gen |-> serving, name |-> m.name, canaried |-> m.canaried,
                  block |-> m.block, shadow |-> shadow, upgrade |-> arrival.upgrade,
                  body |-> body, sent |-> None, index |-> 0, tried |-> <<>>, left |-> 0,
                  wrote |-> 0, copied |-> shadow # None /\ refusal = None, status |-> 0]
        IN  \/ /\ refusal # None
               /\ Answered(r, q, refusal)
               /\ UNCHANGED <<count, cursors, queue, copies>>
            \/ /\ refusal = None /\ ~live
               /\ copies' = IF q.copied THEN [copies EXCEPT !.failed = @ + 1] ELSE copies
               /\ Dispatch(r, q, body, cursors)
               /\ UNCHANGED queue
            \/ /\ refusal = None /\ live /\ KnownEmpty(body)
               /\ Copied(r, q, body)
            \/ /\ refusal = None /\ live /\ ~KnownEmpty(body)
               /\ req' = [req EXCEPT ![r] = [q EXCEPT !.pc = "buffering"]]
               /\ UNCHANGED <<count, cursors, totals, queue, copies>>
  BY DEF Begin
<1>2. PICK m : m = Matched(tables[serving], arrival, roll, mirrorRoll)
  OBVIOUS
<1>3. PICK body, shadow, refusal :
         /\ body = RequestBody(arrival.body)
         /\ shadow = IF m.mirror \in DOMAIN tables[serving].backends THEN m.mirror ELSE None
         /\ refusal = Refusal(tables[serving], m.name, arrival)
  OBVIOUS
<1>4. PICK copied : copied = (shadow # None /\ refusal = None)
  OBVIOUS
<1>5. PICK q : q = [pc |-> "start", gen |-> serving, name |-> m.name, canaried |-> m.canaried,
                    block |-> m.block, shadow |-> shadow, upgrade |-> arrival.upgrade,
                    body |-> body, sent |-> None, index |-> 0, tried |-> <<>>, left |-> 0,
                    wrote |-> 0, copied |-> copied, status |-> 0]
  OBVIOUS
<1>6. \/ refusal # None /\ Answered(r, q, refusal) /\ UNCHANGED <<count, cursors, queue, copies>>
      \/ /\ refusal = None
         /\ copies' = IF q.copied THEN [copies EXCEPT !.failed = @ + 1] ELSE copies
         /\ Dispatch(r, q, body, cursors)
         /\ UNCHANGED queue
      \/ refusal = None /\ Copied(r, q, body)
      \/ /\ refusal = None
         /\ req' = [req EXCEPT ![r] = [q EXCEPT !.pc = "buffering"]]
         /\ UNCHANGED <<count, cursors, totals, queue, copies>>
  BY <1>1, <1>2, <1>3, <1>4, <1>5
<1>7. req[r].pc = "idle" /\ UNCHANGED <<tables, serving, pinned, copying>>
  BY DEF Begin
<1>8. /\ DOMAIN q = Fields /\ q.gen = serving /\ q.name = m.name /\ q.block = m.block
      /\ q.status = 0 /\ q.wrote = 0 /\ q.tried = <<>> /\ q.sent = None
  BY <1>5 DEF Fields
<1>9. serving \in 1..Len(tables)
  BY DEF IInv, HeldInv
<1>10. /\ m.name \in DOMAIN tables[serving].backends \cup {None}
       /\ m.block = IF tables[serving].rule = None THEN None ELSE tables[serving].rule.block
  BY <1>2, <1>9, MatchedFacts DEF IInv
<1>11. refusal \in 0..599 \cup {None} /\ (refusal = None => m.name # None)
  BY <1>3, RefusalFacts
<1>12. CASE refusal # None /\ Answered(r, q, refusal) /\ UNCHANGED <<count, cursors, queue, copies>>
  <2>1. refusal \in 0..599
    BY <1>11, <1>12
  <2>2. DOMAIN count' = DOMAIN count /\ count' \in [DOMAIN count -> Nat]
    BY <1>12 DEF IInv, CountInv
  <2>3. ASSUME NEW d, d.pc # "attempt" PROVE Counts([req EXCEPT ![r] = d], count')
    BY <1>7, <1>12, <2>3, Passes DEF IInv, ReqInv, CountInv
  <2>4. RestInv' /\ DOMAIN cursors' = DOMAIN cursors
    BY <1>7, <1>12 DEF IInv, RestInv
  <2>5. /\ q.gen \in 1..Len(tables) /\ q.wrote \in 0..1 /\ req[r].pc # "done"
        /\ q.block = IF tables[q.gen].rule = None THEN None ELSE tables[q.gen].rule.block
    BY <1>7, <1>8, <1>9, <1>10
  <2>6. QED BY <1>7, <1>8, <1>12, <2>1, <2>2, <2>3, <2>4, <2>5, AnsweredStep
<1>13. CASE refusal = None
  <2>0. Ready(q)
    BY <1>8, <1>9, <1>10, <1>11, <1>13 DEF Ready
  <2>1. CASE /\ copies' = IF q.copied THEN [copies EXCEPT !.failed = @ + 1] ELSE copies
             /\ Dispatch(r, q, body, cursors)
             /\ UNCHANGED queue
    <3>1. /\ copies' \in [{"mirrored", "failed", "skipped", "dropped"} -> Nat]
          /\ queue' \in 0..QueueDepth /\ cursors \in [DOMAIN cursors -> Nat]
      BY <2>1 DEF IInv, RestInv
    <3>2. QED BY <1>7, <2>0, <2>1, <3>1, DispatchStep
  <2>2. CASE Copied(r, q, body)
    BY <1>7, <2>0, <2>2, CopiedStep
  <2>3. CASE /\ req' = [req EXCEPT ![r] = [q EXCEPT !.pc = "buffering"]]
             /\ UNCHANGED <<count, cursors, totals, queue, copies>>
    <3>1. PICK w : w = [q EXCEPT !.pc = "buffering"]
      OBVIOUS
    <3>2. /\ DOMAIN w = Fields /\ w.pc = "buffering" /\ w.gen = q.gen /\ w.name = q.name
          /\ w.block = q.block /\ w.status = q.status /\ w.wrote = q.wrote
          /\ w.tried = q.tried /\ w.sent = q.sent
      BY <1>8, <3>1 DEF Fields
    <3>3. ReqOk(tables, w)
      BY <1>8, <2>0, <3>2 DEF Ready, ReqOk
    <3>4. Counts(req', count') /\ DOMAIN count' = DOMAIN count /\ count' \in [DOMAIN count -> Nat]
      BY <1>7, <2>3, <3>1, <3>2, Passes DEF IInv, ReqInv, CountInv
    <3>5. /\ Tallies(req', totals') /\ DOMAIN totals' = DOMAIN totals
          /\ totals' \in [DOMAIN totals -> [all : Nat, errors : Nat, canary : Nat]]
      BY <1>7, <2>3, <3>1, <3>2, Unrecorded DEF IInv, ReqInv, TotalsInv
    <3>6. RestInv' /\ DOMAIN cursors' = DOMAIN cursors
      BY <1>7, <2>3 DEF IInv, RestInv
    <3>7. QED BY <1>7, <2>3, <3>1, <3>3, <3>4, <3>5, <3>6, RequestStep
  <2>4. QED BY <1>6, <1>13, <2>1, <2>2, <2>3
<1>14. QED BY <1>6, <1>12, <1>13

\* A request whose body was being read is ready to be dispatched.
LEMMA BufferedStep ==
    ASSUME IInv, NEW r \in Requests, Buffered(r)
    PROVE  IInv'
<1>1. PICK q : q = req[r]
  OBVIOUS
<1>2. q.pc = "buffering" /\ UNCHANGED <<tables, serving, pinned, copying>>
  BY <1>1 DEF Buffered
<1>3. ReqOk(tables, q)
  BY <1>1, <1>2 DEF IInv, ReqInv
<1>4. Ready(q)
  BY <1>2, <1>3 DEF ReqOk, Ready
<1>5. PICK b : b = Buffer(q.body)
  OBVIOUS
<1>6. \/ Copied(r, q, Once(b.prefix))
      \/ /\ copies' = [copies EXCEPT !.skipped = @ + 1]
         /\ Dispatch(r, q, Prefixed(b.prefix, b.rest), cursors)
         /\ UNCHANGED queue
  BY <1>1, <1>5 DEF Buffered
<1>7. CASE Copied(r, q, Once(b.prefix))
  BY <1>1, <1>2, <1>4, <1>7, CopiedStep
<1>8. CASE /\ copies' = [copies EXCEPT !.skipped = @ + 1]
           /\ Dispatch(r, q, Prefixed(b.prefix, b.rest), cursors)
           /\ UNCHANGED queue
  <2>1. /\ copies' \in [{"mirrored", "failed", "skipped", "dropped"} -> Nat]
        /\ queue' \in 0..QueueDepth /\ cursors \in [DOMAIN cursors -> Nat]
    BY <1>8 DEF IInv, RestInv
  <2>2. QED BY <1>1, <1>2, <1>4, <1>8, <2>1, DispatchStep
<1>9. QED BY <1>6, <1>7, <1>8

LEMMA NextIndex ==
    ASSUME NEW n \in Nat \ {0}, NEW i \in 1..n
    PROVE  (i % n) + 1 = IF i = n THEN 1 ELSE i + 1
<1>1. CASE i = n
  BY <1>1
<1>2. CASE i # n
  <2>1. i \in 0..(n - 1)
    BY <1>2
  <2>2. i % n = i
    BY <2>1
  <2>3. QED BY <1>2, <2>2
<1>3. QED BY <1>1, <1>2

\* The next endpoint of the backend is one that has not been tried.
LEMMA TryNext ==
    ASSUME NEW addrs, addrs \in Seq(Range(addrs)), NEW q, TryOk(addrs, q), q.left > 0,
           NEW a, a.index = (q.index % Len(addrs)) + 1, a.left = q.left - 1, a.sent = q.sent,
           a.tried = Append(q.tried, addrs[a.index])
    PROVE  TryOk(addrs, a)
<1>1. PICK n, k : n = Len(addrs) /\ k = Len(q.tried)
  OBVIOUS
<1>2. /\ n \in Nat /\ k \in Nat \ {0} /\ q.left \in Nat \ {0}
      /\ q.tried \in Seq(Range(addrs))
      /\ k + q.left <= MaxAttempts /\ k + q.left <= n
      /\ q.sent.frames = <<>> \/ k + q.left = 1
  BY <1>1 DEF TryOk
<1>3. PICK first \in 1..n : /\ q.index = Wrap(first + k - 1, n)
                            /\ \A j \in 1..k : q.tried[j] = addrs[Wrap(first + j - 1, n)]
  BY <1>1 DEF TryOk
<1>4. q.index \in 1..n /\ n \in Nat \ {0}
  BY <1>2, <1>3 DEF Wrap
<1>5. a.index = IF q.index = n THEN 1 ELSE q.index + 1
  BY <1>1, <1>4, NextIndex
<1>6. a.index = Wrap(first + (k + 1) - 1, n) /\ a.index \in 1..n
  BY <1>2, <1>3, <1>4, <1>5 DEF Wrap
<1>7. addrs[a.index] \in Range(addrs)
  BY <1>1, <1>6 DEF Range
<1>8. /\ a.tried \in Seq(Range(addrs)) /\ Len(a.tried) = k + 1
      /\ \A j \in 1..k : a.tried[j] = q.tried[j]
      /\ a.tried[k + 1] = addrs[a.index]
  <2>1. PICK S, t, x, u : S = Range(addrs) /\ t = q.tried /\ x = addrs[a.index] /\ u = a.tried
    OBVIOUS
  <2>2. t \in Seq(S) /\ x \in S /\ u = Append(t, x) /\ k = Len(t)
    BY <1>1, <1>2, <1>7, <2>1
  <2>3. u \in Seq(S) /\ Len(u) = k + 1 /\ (\A j \in 1..k : u[j] = t[j]) /\ u[k + 1] = x
    BY <2>2
  <2>4. QED BY <2>1, <2>3
<1>9. \A j \in 1..(k + 1) : a.tried[j] = addrs[Wrap(first + j - 1, n)]
  <2> SUFFICES ASSUME NEW j \in 1..(k + 1) PROVE a.tried[j] = addrs[Wrap(first + j - 1, n)]
    OBVIOUS
  <2>1. CASE j = k + 1
    BY <1>6, <1>8, <2>1
  <2>2. CASE j # k + 1
    <3>1. j \in 1..k
      BY <1>2, <2>2
    <3>2. QED BY <1>3, <1>8, <3>1
  <2>3. QED BY <2>1, <2>2
<1>10. a.left \in Nat /\ (k + 1) + a.left = k + q.left
  BY <1>2
<1>11. QED
  <2>1. PICK l \in Nat : l = Len(a.tried) /\ l = k + 1
    BY <1>2, <1>8
  <2>2. /\ l >= 1 /\ l + a.left <= MaxAttempts /\ l + a.left <= n
        /\ a.sent.frames = <<>> \/ l + a.left = 1
    BY <1>2, <1>10, <2>1
  <2>3. /\ a.index = Wrap(first + l - 1, n)
        /\ \A j \in 1..l : a.tried[j] = addrs[Wrap(first + j - 1, n)]
    BY <1>6, <1>9, <2>1
  <2>4. QED BY <1>1, <1>8, <1>10, <2>1, <2>2, <2>3 DEF TryOk

LEMMA AnswerStep ==
    ASSUME IInv, NEW r \in Requests, NEW outcome \in Outcomes, Answer(r, outcome)
    PROVE  IInv'
<1>1. PICK q, b : q = req[r] /\ b = Backend(q)
  OBVIOUS
<1>2. PICK seen : seen = [q EXCEPT !.wrote = @ + (IF outcome = "connect" THEN 0 ELSE 1)]
  OBVIOUS
<1>3. PICK index, released : /\ index = (q.index % Len(b.addrs)) + 1
                             /\ released = [count EXCEPT ![Cell(q)] = @ - 1]
  OBVIOUS
<1>4. /\ q.pc = "attempt"
      /\ UNCHANGED <<tables, serving, pinned, cursors, queue, copying, copies>>
      /\ \/ /\ outcome = "connect" /\ q.left > 0
            /\ req' = [req EXCEPT ![r] = Attempt(seen, index)]
            /\ count' = [released EXCEPT ![b.slot.cells[index]] = @ + 1]
            /\ UNCHANGED totals
         \/ count' = released /\ Answered(r, seen, StatusOf(q, outcome))
  BY <1>1, <1>2, <1>3 DEF Answer, Retryable
<1>5. ReqOk(tables, q) /\ DOMAIN req = Requests /\ Counts(req, count) /\ count \in [DOMAIN count -> Nat]
  BY <1>1, <1>4 DEF IInv, ReqInv, CountInv
<1>6. /\ BackendOk(tables, q.gen, q.name) /\ Len(b.addrs) \in Nat
      /\ DOMAIN b.addrs = 1..Len(b.addrs) /\ q.index \in DOMAIN b.addrs
      /\ Cell(q) \in DOMAIN count
  BY <1>1, <1>4, <1>5, Waiting DEF IInv
<1>7. /\ DOMAIN q = Fields /\ q.wrote = 0 /\ q.gen \in 1..Len(tables) /\ q.status \in 0..599
      /\ q.name \in DOMAIN tables[q.gen].backends
      /\ q.block = IF tables[q.gen].rule = None THEN None ELSE tables[q.gen].rule.block
      /\ TryOk(b.addrs, q) /\ b = tables[q.gen].backends[q.name]
  BY <1>1, <1>4, <1>5 DEF ReqOk, Backend
<1>8. /\ DOMAIN seen = Fields /\ seen.wrote = IF outcome = "connect" THEN 0 ELSE 1
      /\ seen.gen = q.gen /\ seen.name = q.name /\ seen.block = q.block
      /\ seen.status = q.status /\ seen.sent = q.sent /\ seen.left = q.left
      /\ seen.tried = q.tried
  BY <1>2, <1>7 DEF Fields
<1>9. RestInv' /\ DOMAIN cursors' = DOMAIN cursors
  BY <1>4 DEF IInv, RestInv
<1>10. CASE /\ outcome = "connect" /\ q.left > 0
            /\ req' = [req EXCEPT ![r] = Attempt(seen, index)]
            /\ count' = [released EXCEPT ![b.slot.cells[index]] = @ + 1]
            /\ UNCHANGED totals
  <2>1. PICK a : a = Attempt(seen, index)
    OBVIOUS
  <2>2. Backend(seen) = b
    BY <1>1, <1>8 DEF Backend
  <2>3. /\ DOMAIN a = Fields /\ a.pc = "attempt" /\ a.gen = q.gen /\ a.name = q.name
        /\ a.block = q.block /\ a.status = q.status /\ a.wrote = 0 /\ a.sent = q.sent
        /\ a.index = index /\ a.left = q.left - 1
        /\ a.tried = Append(q.tried, b.addrs[index])
    BY <1>8, <1>10, <2>1, <2>2, AttemptFacts
  <2>4. b.addrs \in Seq(Range(b.addrs))
    BY <1>6, <1>7 DEF BackendOk
  <2>5. TryOk(b.addrs, a)
    BY <1>3, <1>7, <1>10, <2>3, <2>4, TryNext
  <2>6. ReqOk(tables, a)
    BY <1>7, <2>3, <2>5 DEF ReqOk
  <2>7. Cell(a) = b.slot.cells[index] /\ Cell(a) \in DOMAIN count
    <3>1. Cell(a) = b.slot.cells[index]
      BY <1>7, <2>3 DEF Cell, Backend
    <3>2. QED BY <2>3, <2>6, <3>1, Waiting DEF IInv
  <2>8. Counts([req EXCEPT ![r] = a], [[count EXCEPT ![Cell(req[r])] = @ - 1] EXCEPT ![Cell(a)] = @ + 1])
    BY <1>1, <1>4, <1>5, <1>6, <2>3, <2>7, Moves
  <2>9. Counts(req', count') /\ DOMAIN count' = DOMAIN count
    BY <1>1, <1>3, <1>10, <2>1, <2>7, <2>8
  <2>10. count' \in [DOMAIN count -> Nat]
    <3>1. \A c \in DOMAIN count' : count'[c] \in Nat
      BY <2>9, CountsNat
    <3>2. count' = [c \in DOMAIN count |-> count'[c]]
      BY <1>3, <1>10
    <3>3. QED BY <2>9, <3>1, <3>2
  <2>11. /\ Tallies(req', totals') /\ DOMAIN totals' = DOMAIN totals
         /\ totals' \in [DOMAIN totals -> [all : Nat, errors : Nat, canary : Nat]]
    BY <1>1, <1>4, <1>5, <1>10, <2>1, <2>3, Unrecorded DEF IInv, TotalsInv
  <2>12. QED BY <1>4, <1>9, <1>10, <2>1, <2>6, <2>9, <2>10, <2>11, RequestStep
<1>11. CASE count' = released /\ Answered(r, seen, StatusOf(q, outcome))
  <2>1. ASSUME NEW d, d.pc # "attempt" PROVE Counts([req EXCEPT ![r] = d], count')
    BY <1>1, <1>3, <1>4, <1>5, <1>6, <1>11, <2>1, Leaves
  <2>2. DOMAIN count' = DOMAIN count
    BY <1>3, <1>11
  <2>3. count' \in [DOMAIN count -> Nat]
    <3>1. Idle.pc # "attempt"
      BY DEF Idle
    <3>2. \A c \in DOMAIN count' : count'[c] \in Nat
      BY <2>1, <3>1, CountsNat
    <3>3. count' = [c \in DOMAIN count |-> count'[c]]
      BY <1>3, <1>11
    <3>4. QED BY <2>2, <3>2, <3>3
  <2>4. PICK status \in 0..599 : status = StatusOf(q, outcome)
    BY DEF StatusOf
  <2>5. /\ req[r].pc # "done" /\ seen.wrote \in 0..1 /\ seen.gen \in 1..Len(tables)
        /\ seen.block = IF tables[seen.gen].rule = None THEN None ELSE tables[seen.gen].rule.block
    <3>0. q.pc = "attempt" /\ q.gen \in 1..Len(tables) /\ seen.gen = q.gen
      BY <1>4, <1>7, <1>8
    <3>1. req[r].pc # "done" /\ seen.gen \in 1..Len(tables)
      BY <1>1, <3>0
    <3>2. seen.wrote \in 0..1
      BY <1>8
    <3>3. seen.block = IF tables[seen.gen].rule = None THEN None ELSE tables[seen.gen].rule.block
      BY <1>7, <1>8
    <3>4. QED BY <3>1, <3>2, <3>3
  <2>6. QED BY <1>4, <1>8, <1>9, <1>11, <2>1, <2>2, <2>3, <2>4, <2>5, AnsweredStep
<1>12. QED BY <1>4, <1>10, <1>11

LEMMA CancelStep ==
    ASSUME IInv, NEW r \in Requests, Cancel(r)
    PROVE  IInv'
<1>1. PICK q, e : q = req[r] /\ e = Ended(q, "gone")
  OBVIOUS
<1>2. /\ q.pc \in {"buffering", "attempt"}
      /\ req' = [req EXCEPT ![r] = e]
      /\ count' = IF q.pc = "attempt" THEN [count EXCEPT ![Cell(q)] = @ - 1] ELSE count
      /\ UNCHANGED <<tables, serving, pinned, cursors, totals, queue, copying, copies>>
  BY <1>1 DEF Cancel, IInv, ReqInv
<1>3. ReqOk(tables, q) /\ DOMAIN req = Requests /\ Counts(req, count) /\ count \in [DOMAIN count -> Nat]
  BY <1>1, <1>2 DEF IInv, ReqInv, CountInv
<1>4. /\ DOMAIN q = Fields /\ q.wrote = 0 /\ q.gen \in 1..Len(tables) /\ q.status \in 0..599
      /\ q.block = IF tables[q.gen].rule = None THEN None ELSE tables[q.gen].rule.block
  BY <1>2, <1>3 DEF ReqOk
<1>5. /\ DOMAIN e = Fields /\ e.pc = "gone" /\ e.gen = q.gen /\ e.block = q.block
      /\ e.status = q.status /\ e.wrote = q.wrote /\ e.tried = <<>>
      /\ e.sent # None => e.sent = EmptyBody
  BY <1>1, <1>4, EndedFacts
<1>6. ReqOk(tables, e)
  <2>1. e.sent # None => e.sent.frames = <<>>
    BY <1>5 DEF EmptyBody
  <2>2. e.block = IF tables[e.gen].rule = None THEN None ELSE tables[e.gen].rule.block
    BY <1>4, <1>5
  <2>3. e.gen \in 1..Len(tables) /\ e.status \in 0..599 /\ e.wrote \in 0..1
    BY <1>4, <1>5
  <2>4. QED BY <1>5, <2>1, <2>2, <2>3 DEF ReqOk
<1>7. Counts(req', count') /\ DOMAIN count' = DOMAIN count
  <2>1. CASE q.pc = "attempt"
    <3>1. Cell(q) \in DOMAIN count
      BY <1>3, <2>1, Waiting DEF IInv
    <3>2. Counts([req EXCEPT ![r] = e], [count EXCEPT ![Cell(req[r])] = @ - 1])
      BY <1>1, <1>3, <1>5, <2>1, <3>1, Leaves
    <3>3. QED BY <1>1, <1>2, <2>1, <3>2
  <2>2. CASE q.pc # "attempt"
    BY <1>1, <1>2, <1>3, <1>5, <2>2, Passes
  <2>3. QED BY <2>1, <2>2
<1>8. count' \in [DOMAIN count -> Nat]
  <2>1. \A c \in DOMAIN count' : count'[c] \in Nat
    BY <1>7, CountsNat
  <2>2. count' = [c \in DOMAIN count |-> count'[c]]
    BY <1>2, <1>3
  <2>3. QED BY <1>7, <2>1, <2>2
<1>9. /\ Tallies(req', totals') /\ DOMAIN totals' = DOMAIN totals
      /\ totals' \in [DOMAIN totals -> [all : Nat, errors : Nat, canary : Nat]]
  BY <1>1, <1>2, <1>3, <1>5, Unrecorded DEF IInv, TotalsInv
<1>10. RestInv' /\ DOMAIN cursors' = DOMAIN cursors
  BY <1>2 DEF IInv, RestInv
<1>11. QED BY <1>2, <1>6, <1>7, <1>8, <1>9, <1>10, RequestStep

-----------------------------------------------------------------------------
(* The other steps.                                                        *)

\* Neither the tables nor the requests nor their counters change.
LEMMA QuietStep ==
    ASSUME IInv, UNCHANGED <<tables, count, cursors, totals, req>>, serving' \in 1..Len(tables), RestInv'
    PROVE  IInv'
<1>1. TablesInv'
  BY DEF IInv, TablesInv
<1>2. HeldInv'
  BY DEF IInv, HeldInv
<1>3. ReqInv'
  BY DEF IInv, ReqInv
<1>4. CountInv'
  BY DEF IInv, CountInv, Counts, On, Cell, Backend
<1>5. TotalsInv'
  BY DEF IInv, TotalsInv
<1>6. QED BY <1>1, <1>2, <1>3, <1>4, <1>5 DEF IInv

LEMMA PinsStep ==
    ASSUME IInv, Unpin \/ \E g \in DOMAIN tables : Pin(g)
    PROVE  IInv'
<1>1. DOMAIN tables = 1..Len(tables) /\ Len(tables) \in 1..Len(tables)
  <2>1. PICK S : tables \in Seq(S)
    BY DEF IInv, TablesInv
  <2>2. Len(tables) \in Nat \ {0}
    BY ForwardingAssumption DEF IInv, TablesInv
  <2>3. QED BY <2>1, <2>2
<1>2. /\ UNCHANGED <<tables, count, cursors, totals, req, queue, copying, copies>>
      /\ serving' \in 1..Len(tables) /\ pinned' \in BOOLEAN
  BY <1>1 DEF Unpin, Pin
<1>3. RestInv'
  BY <1>2 DEF IInv, RestInv
<1>4. QED BY <1>2, <1>3, QuietStep

LEMMA MirrorStep ==
    ASSUME IInv, MirrorTake \/ MirrorDone
    PROVE  IInv'
<1>1. UNCHANGED <<tables, count, cursors, totals, req, serving, pinned>>
  BY DEF MirrorTake, MirrorDone
<1>2. copying' \in BOOLEAN /\ queue' \in 0..QueueDepth
  <2>1. copying' \in BOOLEAN
    BY DEF MirrorTake, MirrorDone
  <2>2. queue' = queue \/ (queue > 0 /\ queue' = queue - 1)
    BY DEF MirrorTake, MirrorDone
  <2>3. QED BY <2>1, <2>2, ForwardingAssumption DEF IInv, RestInv
<1>3. copies' \in [{"mirrored", "failed", "skipped", "dropped"} -> Nat]
  BY DEF IInv, RestInv, MirrorTake, MirrorDone
<1>4. RestInv'
  BY <1>1, <1>2, <1>3 DEF IInv, RestInv
<1>5. serving' \in 1..Len(tables)
  BY <1>1 DEF IInv, HeldInv
<1>6. QED BY <1>1, <1>4, <1>5, QuietStep

\* A new table is built on the newest; the counters it adds start at zero, and
\* no request under an older table waits on them.
LEMMA PublishStep ==
    ASSUME IInv, NEW config \in Configs, Publish(config)
    PROVE  IInv'
<1>1. PICK L, table : L = Len(tables) /\ table = Compile(config, L + 1, Newest)
  OBVIOUS
<1>2. /\ L < MaxGen
      /\ tables' = Append(tables, table)
      /\ count' = [c \in DOMAIN count \cup Cells(table) |-> IF c \in DOMAIN count THEN count[c] ELSE 0]
      /\ cursors' = [c \in DOMAIN cursors \cup Cursors(table) |->
                        IF c \in DOMAIN cursors THEN cursors[c] ELSE CursorStart(table, Newest, c)]
      /\ totals' = [b \in DOMAIN totals \cup Blocks(table) |->
                        IF b \in DOMAIN totals THEN totals[b] ELSE NoTotals]
      /\ serving' = IF pinned THEN serving ELSE Len(tables')
      /\ UNCHANGED <<pinned, req, queue, copying, copies>>
  BY <1>1 DEF Publish
<1>3. L \in Nat \ {0} /\ L + 1 \in 1..MaxGen /\ L \in 1..MaxGen
  BY <1>1, <1>2, ForwardingAssumption DEF IInv, TablesInv
<1>4. /\ Len(tables') = L + 1 /\ tables'[L + 1] = table
      /\ \A k \in 1..L : tables'[k] = tables[k]
      /\ tables' \in Seq(Range(tables'))
      /\ DOMAIN tables = 1..L /\ DOMAIN tables' = 1..(L + 1)
  <2>1. PICK S : tables \in Seq(S) /\ S = Range(tables)
    BY DEF IInv, TablesInv
  <2>2. PICK T : T = S \cup {table}
    OBVIOUS
  <2>3. tables \in Seq(T) /\ table \in T
    BY <2>1, <2>2
  <2>4. PICK u : u = tables'
    OBVIOUS
  <2>5. /\ u \in Seq(T) /\ Len(u) = L + 1 /\ u[L + 1] = table /\ \A k \in 1..L : u[k] = tables[k]
        /\ DOMAIN tables = 1..L /\ DOMAIN u = 1..(L + 1)
    BY <1>1, <1>2, <2>3, <2>4
  <2>6. \A k \in 1..(L + 1) : u[k] \in Range(u)
    BY <2>5 DEF Range
  <2>7. u \in Seq(Range(u))
    BY <1>3, <2>5, <2>6
  <2>8. QED BY <2>4, <2>5, <2>7
<1>5. \A k \in 1..L : TableOk(tables', k)
  BY <1>1, <1>3, <1>4, TableKept DEF IInv, TablesInv
<1>6. TableOk(tables', L + 1)
  <2>1. Before(tables', L + 1) = Newest
    BY <1>1, <1>3, <1>4 DEF Before, Newest
  <2>2. TableOk(tables', (L + 1) - 1)
    BY <1>3, <1>5
  <2>3. PICK ts : ts = tables'
    OBVIOUS
  <2>4. ts[L + 1] = Compile(config, L + 1, Before(ts, L + 1)) /\ TableOk(ts, (L + 1) - 1)
    BY <1>1, <1>4, <2>1, <2>2, <2>3
  <2>5. TableOk(ts, L + 1)
    BY <1>3, <2>4, CompileOk
  <2>6. QED BY <2>3, <2>5
<1>7. TablesInv'
  BY <1>3, <1>4, <1>5, <1>6 DEF TablesInv
<1>8. HeldInv'
  <2>1. serving' \in 1..Len(tables')
    BY <1>1, <1>2, <1>3, <1>4 DEF IInv, HeldInv
  <2>2. DOMAIN count' = DOMAIN count \cup Cells(table)
        /\ DOMAIN cursors' = DOMAIN cursors \cup Cursors(table)
        /\ DOMAIN totals' = DOMAIN totals \cup Blocks(table)
    BY <1>2
  <2>3. None \notin Blocks(table)
    BY <1>3, <1>4, <1>6, ForwardingAssumption DEF Blocks, TableOk, RuleOk
  <2>4. ASSUME NEW k \in 1..(L + 1)
        PROVE  /\ Cells(tables'[k]) \subseteq DOMAIN count'
               /\ Cursors(tables'[k]) \subseteq DOMAIN cursors'
               /\ Blocks(tables'[k]) \subseteq DOMAIN totals'
    <3>1. CASE k = L + 1
      BY <1>4, <2>2, <3>1
    <3>2. CASE k \in 1..L
      <4>1. /\ Cells(tables[k]) \subseteq DOMAIN count
            /\ Cursors(tables[k]) \subseteq DOMAIN cursors
            /\ Blocks(tables[k]) \subseteq DOMAIN totals
        BY <1>1, <3>2 DEF IInv, HeldInv
      <4>2. tables'[k] = tables[k]
        BY <1>4, <3>2
      <4>3. QED BY <2>2, <4>1, <4>2
    <3>3. QED BY <1>3, <3>1, <3>2
  <2>5. None \notin DOMAIN totals'
    BY <2>2, <2>3 DEF IInv, HeldInv
  <2>6. QED BY <1>4, <2>1, <2>4, <2>5 DEF HeldInv
<1>9. ReqInv'
  <2>1. ASSUME NEW q, ReqOk(tables, q) PROVE ReqOk(tables', q)
    <3>1. q.gen \in 1..L /\ q.gen \in 1..(L + 1) /\ tables'[q.gen] = tables[q.gen]
      BY <1>1, <1>3, <1>4, <2>1 DEF ReqOk
    <3>2. PICK ts : ts = tables'
      OBVIOUS
    <3>3. q.gen \in 1..Len(ts) /\ ts[q.gen] = tables[q.gen]
      BY <1>4, <3>1, <3>2
    <3>4. ReqOk(ts, q)
      BY <2>1, <3>3 DEF ReqOk
    <3>5. QED BY <3>2, <3>4
  <2>2. QED BY <1>2, <2>1 DEF IInv, ReqInv
<1>10. CountInv'
  <2>1. \A r \in Requests : req[r].pc = "attempt" =>
           Cell(req[r])' = Cell(req[r]) /\ Cell(req[r]) \in DOMAIN count
    <3> SUFFICES ASSUME NEW r \in Requests, req[r].pc = "attempt"
                 PROVE  Cell(req[r])' = Cell(req[r]) /\ Cell(req[r]) \in DOMAIN count
      OBVIOUS
    <3>1. ReqOk(tables, req[r])
      BY DEF IInv, ReqInv
    <3>2. tables'[req[r].gen] = tables[req[r].gen]
      BY <1>1, <1>4, <3>1 DEF ReqOk
    <3>3. Cell(req[r]) \in DOMAIN count
      BY <3>1, Waiting DEF IInv
    <3>4. QED BY <1>2, <3>2, <3>3 DEF Cell, Backend
  <2>2. \A c : On(req, c)' = On(req, c)
    BY <1>2, <2>1 DEF On
  <2>3. \A c : c \notin DOMAIN count => On(req, c) = {}
    BY <2>1 DEF On
  <2>4. count' \in [DOMAIN count' -> Nat]
    BY <1>2 DEF IInv, CountInv
  <2>5. ASSUME NEW c \in DOMAIN count'
        PROVE  IsFiniteSet(On(req, c)) /\ count'[c] = Cardinality(On(req, c))
    <3>1. CASE c \in DOMAIN count
      BY <1>2, <2>5, <3>1 DEF IInv, CountInv, Counts
    <3>2. CASE c \notin DOMAIN count
      <4>1. count'[c] = 0 /\ On(req, c) = {}
        BY <1>2, <2>3, <2>5, <3>2
      <4>2. QED BY <4>1, FS_EmptySet
    <3>3. QED BY <3>1, <3>2
  <2>6. QED BY <2>2, <2>4, <2>5 DEF CountInv, Counts
<1>11. TotalsInv'
  <2>1. \A r \in Requests : req[r].pc = "done" => req[r].block = None \/ req[r].block \in DOMAIN totals
    <3> SUFFICES ASSUME NEW r \in Requests, req[r].pc = "done", req[r].block # None
                 PROVE  req[r].block \in DOMAIN totals
      OBVIOUS
    <3>1. ReqOk(tables, req[r])
      BY DEF IInv, ReqInv
    <3>2. PICK g \in 1..Len(tables) : tables[g].rule # None /\ req[r].block = tables[g].rule.block
      BY <3>1 DEF ReqOk
    <3>3. QED BY <3>2, BlockHeld DEF IInv
  <2>2. \A b : b \notin DOMAIN totals /\ b # None => DoneIn(req, b) = {}
    BY <2>1 DEF DoneIn
  <2>3. None \notin DOMAIN totals'
    BY <1>8 DEF HeldInv
  <2>4. totals' \in [DOMAIN totals' -> [all : Nat, errors : Nat, canary : Nat]]
    BY <1>2 DEF IInv, TotalsInv, NoTotals
  <2>5. ASSUME NEW b \in DOMAIN totals'
        PROVE  /\ IsFiniteSet(DoneIn(req, b))
               /\ totals'[b].all = Cardinality(DoneIn(req, b))
               /\ totals'[b].errors = Cardinality(ErrorsIn(req, b))
               /\ totals'[b].canary = Cardinality(CanariedIn(req, b))
    <3>1. CASE b \in DOMAIN totals
      <4>1. totals'[b] = totals[b]
        BY <1>2, <3>1
      <4>2. QED BY <3>1, <4>1 DEF IInv, TotalsInv, Tallies
    <3>2. CASE b \notin DOMAIN totals
      <4>1. DoneIn(req, b) = {}
        BY <2>2, <2>3, <2>5, <3>2
      <4>2. ErrorsIn(req, b) = {} /\ CanariedIn(req, b) = {}
        BY <4>1 DEF ErrorsIn, CanariedIn
      <4>3. totals'[b] = NoTotals
        BY <1>2, <2>5, <3>2
      <4>4. QED BY <4>1, <4>2, <4>3, FS_EmptySet DEF NoTotals
    <3>3. QED BY <3>1, <3>2
  <2>6. Tallies(req, totals')
    BY <2>5 DEF Tallies
  <2>7. QED BY <1>2, <2>4, <2>6 DEF TotalsInv
<1>12. RestInv'
  <2>1. ASSUME NEW c \in Cursors(table) PROVE CursorStart(table, Newest, c) \in Nat
    <3>1. PICK name : name = CHOOSE n \in DOMAIN table.backends : table.backends[n].slot.cursor = c
      OBVIOUS
    <3>2. CursorStart(table, Newest, c) =
             IF name \in DOMAIN Newest.backends THEN cursors[Newest.backends[name].slot.cursor] ELSE 0
      BY <3>1 DEF CursorStart
    <3>3. \A n \in DOMAIN Newest.backends : Newest.backends[n].slot.cursor \in DOMAIN cursors
      <4>1. Cursors(tables[L]) \subseteq DOMAIN cursors
        BY <1>1, <1>3 DEF IInv, HeldInv
      <4>2. QED BY <1>1, <4>1 DEF Newest, Cursors
    <3>4. QED BY <3>2, <3>3 DEF IInv, RestInv
  <2>2. cursors' \in [DOMAIN cursors' -> Nat]
    BY <1>2, <2>1 DEF IInv, RestInv
  <2>3. QED BY <1>2, <2>2 DEF IInv, RestInv
<1>13. QED BY <1>7, <1>8, <1>9, <1>10, <1>11, <1>12 DEF IInv

LEMMA InitInductive == Init => IInv
<1> SUFFICES ASSUME Init PROVE IInv
  OBVIOUS
<1>1. PICK config \in Configs :
        LET table == Compile(config, 1, NoTable)
        IN  /\ tables = <<table>>
            /\ serving = 1
            /\ pinned = FALSE
            /\ count = [c \in Cells(table) |-> 0]
            /\ cursors = [c \in Cursors(table) |-> 0]
            /\ totals = [b \in Blocks(table) |-> NoTotals]
            /\ req = [r \in Requests |-> Idle]
            /\ queue = 0
            /\ copying = FALSE
            /\ copies = [mirrored |-> 0, failed |-> 0, skipped |-> 0, dropped |-> 0]
  BY DEF Init
<1>2. PICK table : table = Compile(config, 1, NoTable)
  OBVIOUS
<1>3. /\ tables = <<table>> /\ serving = 1
      /\ count = [c \in Cells(table) |-> 0]
      /\ cursors = [c \in Cursors(table) |-> 0]
      /\ totals = [b \in Blocks(table) |-> NoTotals]
      /\ req = [r \in Requests |-> Idle]
  BY <1>1, <1>2
<1>4. tables \in Seq(Range(tables)) /\ Len(tables) = 1 /\ tables[1] = table
  <2>1. tables \in Seq({table}) /\ Len(tables) = 1 /\ tables[1] = table
    BY <1>3
  <2>2. Range(tables) = {table}
    BY <2>1 DEF Range
  <2>3. QED BY <2>1, <2>2
<1>5. 1 \in 1..MaxGen /\ 1 \in Nat
  BY ForwardingAssumption
<1>6. TableOk(tables, 1)
  <2>1. Before(tables, 1) = NoTable
    BY DEF Before
  <2>2. QED BY <1>2, <1>4, <1>5, <2>1, CompileOk
<1>7. TablesInv
  BY <1>4, <1>5, <1>6 DEF TablesInv
<1>8. HeldInv
  <2>1. None \notin Blocks(table)
    BY <1>4, <1>6, ForwardingAssumption DEF Blocks, TableOk, RuleOk
  <2>2. QED BY <1>3, <1>4, <2>1 DEF HeldInv
<1>9. Idle.pc = "idle"
  BY DEF Idle
<1>10. ReqInv
  BY <1>3, <1>9 DEF ReqInv
<1>11. CountInv
  <2>1. \A c : On(req, c) = {}
    BY <1>3, <1>9 DEF On
  <2>2. Counts(req, count)
    BY <1>3, <2>1, FS_EmptySet DEF Counts
  <2>3. QED BY <1>3, <2>2 DEF CountInv
<1>12. TotalsInv
  <2>1. \A b : DoneIn(req, b) = {}
    BY <1>3, <1>9 DEF DoneIn
  <2>2. \A b : ErrorsIn(req, b) = {} /\ CanariedIn(req, b) = {}
    BY <2>1 DEF ErrorsIn, CanariedIn
  <2>3. Tallies(req, totals)
    BY <1>3, <2>1, <2>2, FS_EmptySet DEF Tallies, NoTotals
  <2>4. QED BY <1>3, <2>3 DEF TotalsInv, NoTotals
<1>13. RestInv
  <2>1. copies \in [{"mirrored", "failed", "skipped", "dropped"} -> Nat]
    BY <1>1
  <2>2. queue \in 0..QueueDepth
    BY <1>1, ForwardingAssumption
  <2>3. pinned \in BOOLEAN /\ copying \in BOOLEAN
    BY <1>1
  <2>4. QED BY <1>3, <2>1, <2>2, <2>3 DEF RestInv
<1>14. QED BY <1>7, <1>8, <1>10, <1>11, <1>12, <1>13 DEF IInv

LEMMA NextInductive ==
    ASSUME IInv, [Next]_vars
    PROVE  IInv'
<1>1. CASE \E config \in Configs : Publish(config)
  BY <1>1, PublishStep
<1>2. CASE Unpin \/ \E g \in DOMAIN tables : Pin(g)
  BY <1>2, PinsStep
<1>3. ASSUME NEW r \in Requests, \E arrival \in Arrivals : Begin(r, arrival)
      PROVE  IInv'
  BY <1>3, BeginStep
<1>4. ASSUME NEW r \in Requests, \E outcome \in Outcomes : Answer(r, outcome)
      PROVE  IInv'
  BY <1>4, AnswerStep
<1>5. ASSUME NEW r \in Requests, Buffered(r) \/ Cancel(r)
      PROVE  IInv'
  BY <1>5, BufferedStep, CancelStep
<1>6. CASE MirrorTake \/ MirrorDone
  BY <1>6, MirrorStep
<1>7. CASE UNCHANGED vars
  <2>1. RestInv' /\ serving' \in 1..Len(tables)
    BY <1>7 DEF vars, IInv, RestInv, HeldInv
  <2>2. QED BY <1>7, <2>1, QuietStep DEF vars
<1>8. QED BY <1>1, <1>2, <1>3, <1>4, <1>5, <1>6, <1>7 DEF Next

-----------------------------------------------------------------------------
(***************************************************************************)
(* The invariant of the data plane: every counter is exact, under every    *)
(* table that holds it, and a counter is named by the generation since     *)
(* which its address has been listed.                                      *)
(***************************************************************************)
THEOREM Inductive == Spec => []IInv
<1>1. QED BY InitInductive, NextInductive, PTL DEF Spec

\* Two runs of generations of G that cannot be extended downwards, one to g and
\* one to L: they start together iff nothing is missing from g to L.
LEMMA SameStart ==
    ASSUME NEW G, NEW L \in Nat, NEW g \in 1..L, NEW h \in 1..g, NEW i \in 1..L,
           \A j \in h..g : j \in G, h = 1 \/ h - 1 \notin G,
           \A j \in i..L : j \in G, i = 1 \/ i - 1 \notin G
    PROVE  h = i <=> \A j \in g..L : j \in G
<1>1. ASSUME h = i PROVE \A j \in g..L : j \in G
  BY <1>1
<1>2. ASSUME \A j \in g..L : j \in G PROVE h = i
  <2>1. \A j \in h..L : j \in G
    BY <1>2
  <2>2. ~(i < h)
    <3> SUFFICES ASSUME i < h PROVE FALSE
      OBVIOUS
    <3>1. h - 1 \in i..L /\ h # 1
      OBVIOUS
    <3>2. QED BY <3>1
  <2>3. ~(h < i)
    <3> SUFFICES ASSUME h < i PROVE FALSE
      OBVIOUS
    <3>1. i - 1 \in h..L /\ i # 1
      OBVIOUS
    <3>2. QED BY <2>1, <3>1
  <2>4. QED BY <2>2, <2>3
<1>3. QED BY <1>1, <1>2

\* A request waits on the counter the newest table has for an address iff it
\* was sent there and the address has been listed ever since.
LEMMA SameCell ==
    ASSUME IInv, NEW name \in DOMAIN Newest.backends,
           NEW n \in DOMAIN Newest.backends[name].addrs,
           NEW r \in Requests, req[r].pc = "attempt"
    PROVE  Cell(req[r]) = Newest.backends[name].slot.cells[n] <=>
               /\ req[r].name = name
               /\ Backend(req[r]).addrs[req[r].index] = Newest.backends[name].addrs[n]
               /\ Listed(name, Newest.backends[name].addrs[n], req[r].gen)
<1>1. PICK L, addr, cell : /\ L = Len(tables) /\ addr = Newest.backends[name].addrs[n]
                           /\ cell = Newest.backends[name].slot.cells[n]
  OBVIOUS
<1>2. L \in Nat \ {0} /\ Newest = tables[L] /\ BackendOk(tables, L, name)
  BY <1>1, ForwardingAssumption DEF IInv, TablesInv, TableOk, Newest
<1>3. PICK i \in 1..L : cell = <<i, name, addr>> /\ ListedSince(tables, name, addr, i, L)
  BY <1>1, <1>2 DEF BackendOk
<1>4. PICK q, g, a : q = req[r] /\ g = q.gen /\ a = Backend(q).addrs[q.index]
  OBVIOUS
<1>5. /\ g \in 1..L /\ ReqOk(tables, q)
      /\ BackendOk(tables, g, q.name) /\ q.index \in DOMAIN Backend(q).addrs
  <2>1. ReqOk(tables, q)
    BY <1>4 DEF IInv, ReqInv
  <2>2. QED BY <1>1, <1>4, <2>1, Waiting DEF IInv, ReqOk
<1>6. PICK h \in 1..g : Cell(q) = <<h, q.name, a>> /\ ListedSince(tables, q.name, a, h, g)
  BY <1>4, <1>5 DEF BackendOk, Cell, Backend
<1>7. CASE q.name = name /\ a = addr
  <2>1. PICK G : G = {j \in 1..L : Lists(tables[j], name, addr)}
    OBVIOUS
  <2>2. (\A j \in i..L : j \in G) /\ (i = 1 \/ i - 1 \notin G)
    BY <1>2, <1>3, <2>1 DEF ListedSince
  <2>3. (\A j \in h..g : j \in G) /\ (h = 1 \/ h - 1 \notin G)
    BY <1>2, <1>5, <1>6, <1>7, <2>1 DEF ListedSince
  <2>4. h = i <=> \A j \in g..L : j \in G
    BY <1>2, <1>3, <1>5, <1>6, <2>2, <2>3, SameStart
  <2>5. (\A j \in g..L : j \in G) <=> Listed(name, addr, g)
    BY <1>1, <1>2, <1>5, <2>1 DEF Listed, Lists
  <2>6. Cell(q) = cell <=> h = i
    BY <1>3, <1>6, <1>7
  <2>7. QED BY <1>1, <1>4, <1>7, <2>4, <2>5, <2>6
<1>8. CASE ~(q.name = name /\ a = addr)
  <2>1. Cell(q) # cell
    BY <1>3, <1>6, <1>8
  <2>2. QED BY <1>1, <1>4, <1>8, <2>1
<1>9. QED BY <1>7, <1>8

LEMMA InflightHolds == IInv => InflightExact
<1> SUFFICES ASSUME IInv, NEW name \in DOMAIN Newest.backends,
                    NEW n \in DOMAIN Newest.backends[name].addrs
             PROVE  count[Newest.backends[name].slot.cells[n]] =
                        Cardinality({r \in InAttempt :
                            /\ req[r].name = name
                            /\ Backend(req[r]).addrs[req[r].index] = Newest.backends[name].addrs[n]
                            /\ Listed(name, Newest.backends[name].addrs[n], req[r].gen)})
  BY DEF InflightExact
<1>1. PICK cell : cell = Newest.backends[name].slot.cells[n]
  OBVIOUS
<1>2. On(req, cell) =
         {r \in InAttempt :
            /\ req[r].name = name
            /\ Backend(req[r]).addrs[req[r].index] = Newest.backends[name].addrs[n]
            /\ Listed(name, Newest.backends[name].addrs[n], req[r].gen)}
  BY <1>1, SameCell DEF On, InAttempt
<1>3. cell \in DOMAIN count
  <2>1. Len(tables) \in 1..Len(tables)
    BY ForwardingAssumption DEF IInv, TablesInv
  <2>2. QED BY <1>1, <2>1, CellHeld DEF IInv, Newest
<1>4. count[cell] = Cardinality(On(req, cell))
  BY <1>3 DEF IInv, CountInv, Counts
<1>5. QED BY <1>1, <1>2, <1>4

\* A request matched the rule whose block the newest table has iff the rule has
\* been there, with its backend, ever since.
LEMMA SameBlock ==
    ASSUME IInv, Newest.rule # None, NEW r \in Requests, req[r].pc = "done"
    PROVE  req[r].block = Newest.rule.block <=>
               /\ req[r].block # None
               /\ \A k \in req[r].gen..Len(tables) :
                     tables[k].rule # None /\ tables[k].rule.backend = Newest.rule.backend
<1>1. PICK L, backend, i : L = Len(tables) /\ backend = Newest.rule.backend /\ i = Newest.rule.block
  OBVIOUS
<1>2. L \in Nat \ {0} /\ Newest = tables[L] /\ RuleOk(tables, L)
  BY <1>1, ForwardingAssumption DEF IInv, TablesInv, TableOk, Newest
<1>3. i \in 1..L /\ RoutedSince(tables, backend, i, L)
  BY <1>1, <1>2 DEF RuleOk
<1>4. PICK q, g : q = req[r] /\ g = q.gen
  OBVIOUS
<1>5. g \in 1..L /\ q.block = IF tables[g].rule = None THEN None ELSE tables[g].rule.block
  BY <1>1, <1>4 DEF IInv, ReqInv, ReqOk
<1>6. i # None
  BY <1>2, <1>3, ForwardingAssumption
<1>7. CASE tables[g].rule = None
  <2>1. q.block = None
    BY <1>5, <1>7
  <2>2. QED BY <1>1, <1>4, <1>6, <2>1
<1>8. CASE tables[g].rule # None
  <2>1. PICK h, old : h = tables[g].rule.block /\ old = tables[g].rule.backend
    OBVIOUS
  <2>2. h \in 1..g /\ RoutedSince(tables, old, h, g) /\ q.block = h
    BY <1>1, <1>5, <1>8, <2>1 DEF IInv, TablesInv, TableOk, RuleOk
  <2>3. h # None
    BY <1>2, <1>5, <2>2, ForwardingAssumption
  <2>4. CASE old = backend
    <3>1. PICK G : G = {j \in 1..L : Routes(tables[j], backend)}
      OBVIOUS
    <3>2. (\A j \in i..L : j \in G) /\ (i = 1 \/ i - 1 \notin G)
      BY <1>2, <1>3, <3>1 DEF RoutedSince
    <3>3. (\A j \in h..g : j \in G) /\ (h = 1 \/ h - 1 \notin G)
      BY <1>2, <1>5, <2>2, <2>4, <3>1 DEF RoutedSince
    <3>4. h = i <=> \A j \in g..L : j \in G
      BY <1>2, <1>3, <1>5, <2>2, <3>2, <3>3, SameStart
    <3>5. (\A j \in g..L : j \in G) <=>
             \A j \in g..L : tables[j].rule # None /\ tables[j].rule.backend = backend
      BY <1>2, <1>5, <3>1 DEF Routes
    <3>6. QED BY <1>1, <1>4, <2>2, <2>3, <3>4, <3>5
  <2>5. CASE old # backend
    <3>1. h # i
      BY <1>2, <1>3, <1>5, <2>2, <2>5 DEF RoutedSince, Routes
    <3>2. g \in g..L /\ tables[g].rule.backend # backend
      BY <1>2, <1>5, <2>1, <2>5
    <3>3. QED BY <1>1, <1>4, <2>2, <3>1, <3>2
  <2>6. QED BY <2>4, <2>5
<1>9. QED BY <1>7, <1>8

LEMMA RecordsHold == IInv => RecordsSurviveSwap
<1> SUFFICES ASSUME IInv, Newest.rule # None
             PROVE  RecordsSurviveSwap
  BY DEF RecordsSurviveSwap
<1>1. PICK b : b = Newest.rule.block
  OBVIOUS
<1>2. PICK same : same = {r \in Started :
                            /\ req[r].pc = "done" /\ req[r].block # None
                            /\ \A k \in req[r].gen..Len(tables) :
                                  /\ tables[k].rule # None
                                  /\ tables[k].rule.backend = Newest.rule.backend}
  OBVIOUS
<1>3. same = DoneIn(req, b)
  BY <1>1, <1>2, SameBlock DEF DoneIn, Started
<1>4. b \in DOMAIN totals
  <2>1. Len(tables) \in 1..Len(tables)
    BY ForwardingAssumption DEF IInv, TablesInv
  <2>2. QED BY <1>1, <2>1, BlockHeld DEF IInv, Newest
<1>5. /\ totals[b].all = Cardinality(DoneIn(req, b))
      /\ totals[b].errors = Cardinality(ErrorsIn(req, b))
      /\ totals[b].canary = Cardinality(CanariedIn(req, b))
  BY <1>4 DEF IInv, TotalsInv, Tallies
<1>6. /\ totals[b].all = Cardinality(same)
      /\ totals[b].errors = Cardinality({r \in same : req[r].status >= 500})
      /\ totals[b].canary = Cardinality({r \in same : req[r].canaried})
  BY <1>3, <1>5 DEF ErrorsIn, CanariedIn
<1>7. QED BY <1>1, <1>2, <1>6 DEF RecordsSurviveSwap

LEMMA TypeHolds == IInv => TypeOK
<1> SUFFICES ASSUME IInv PROVE TypeOK
  OBVIOUS
<1>1. DOMAIN tables = 1..Len(tables)
  <2>1. PICK S : tables \in Seq(S)
    BY DEF IInv, TablesInv
  <2>2. QED BY <2>1
<1>2. \A g \in DOMAIN tables : tables[g].gen = g /\ Cells(tables[g]) \subseteq DOMAIN count
  BY <1>1 DEF IInv, TablesInv, TableOk, HeldInv
<1>3. \A r \in Requests : req[r].pc \in {"idle", "buffering", "attempt", "done", "gone"}
  BY DEF IInv, ReqInv, ReqOk
<1>4. serving \in DOMAIN tables
  BY <1>1 DEF IInv, HeldInv
<1>5. QED BY <1>2, <1>3, <1>4 DEF TypeOK, IInv, CountInv, TotalsInv, RestInv

(***************************************************************************)
(* The counters that balance the load and judge a canary are exact, across *)
(* every publication, rollback, retry and abandonment.                     *)
(***************************************************************************)
THEOREM Exact == Spec => []CountersExact
<1>1. IInv => CountersExact
  BY InflightHolds, RecordsHold, TypeHolds DEF CountersExact
<1>2. QED BY <1>1, Inductive, PTL

(***************************************************************************)
(* The failover of dispatch writes a request at most once and tries no     *)
(* endpoint twice.                                                         *)
(***************************************************************************)
THEOREM SentOnce == Spec => []TriedOnce
<1>1. ASSUME IInv, NEW r \in Started
      PROVE  /\ req[r].wrote <= 1
             /\ IsInjective(req[r].tried)
             /\ Len(req[r].tried) <= MaxAttempts
             /\ req[r].sent # None => (req[r].sent.frames = <<>> \/ Len(req[r].tried) = 1)
  <2>1. PICK q : q = req[r]
    OBVIOUS
  <2>2. ReqOk(tables, q)
    BY <1>1, <2>1 DEF IInv, ReqInv, Started
  <2>3. q.wrote <= 1
    BY <2>2 DEF ReqOk
  <2>4. CASE q.pc # "attempt"
    <3>1. q.tried = <<>> /\ (q.sent # None => q.sent.frames = <<>>)
      BY <2>2, <2>4 DEF ReqOk
    <3>2. IsInjective(<<>>) /\ Len(<<>>) = 0 /\ 0 <= MaxAttempts
      BY ForwardingAssumption DEF IsInjective
    <3>3. QED BY <2>1, <2>3, <3>1, <3>2
  <2>5. CASE q.pc = "attempt"
    <3>1. PICK addrs, n, k : addrs = Backend(q).addrs /\ n = Len(addrs) /\ k = Len(q.tried)
      OBVIOUS
    <3>2. /\ TryOk(addrs, q) /\ addrs \in Seq(Range(addrs)) /\ IsInjective(addrs)
      BY <1>1, <2>2, <2>5, <3>1, Waiting DEF IInv, ReqOk, Backend, BackendOk
    <3>3. /\ n \in Nat /\ k \in Nat \ {0} /\ q.left \in Nat /\ k <= n /\ k <= MaxAttempts
          /\ DOMAIN q.tried = 1..k /\ DOMAIN addrs = 1..n
          /\ q.sent.frames = <<>> \/ k = 1
      <4>1. /\ q.left \in Nat /\ q.tried \in Seq(Range(addrs)) /\ k >= 1
            /\ k + q.left <= MaxAttempts /\ k + q.left <= n
            /\ q.sent.frames = <<>> \/ k + q.left = 1
        BY <3>1, <3>2 DEF TryOk
      <4>2. n \in Nat /\ DOMAIN addrs = 1..n
        BY <3>1, <3>2
      <4>3. k \in Nat /\ DOMAIN q.tried = 1..k
        BY <3>1, <4>1
      <4>4. QED BY <4>1, <4>2, <4>3, ForwardingAssumption
    <3>4. PICK first \in 1..n : \A j \in 1..k : q.tried[j] = addrs[Wrap(first + j - 1, n)]
      BY <3>1, <3>2 DEF TryOk
    <3>5. ASSUME NEW i \in 1..k, NEW j \in 1..k, q.tried[i] = q.tried[j] PROVE i = j
      <4>1. Wrap(first + i - 1, n) \in 1..n /\ Wrap(first + j - 1, n) \in 1..n
        BY <3>3, <3>4 DEF Wrap
      <4>2. Wrap(first + i - 1, n) = Wrap(first + j - 1, n)
        BY <3>2, <3>3, <3>4, <3>5, <4>1 DEF IsInjective
      <4>3. QED BY <3>3, <3>4, <4>2 DEF Wrap
    <3>6. IsInjective(q.tried)
      BY <3>3, <3>5 DEF IsInjective
    <3>7. QED BY <2>1, <2>3, <3>1, <3>3, <3>6
  <2>6. QED BY <2>4, <2>5
<1>2. IInv => TriedOnce
  BY <1>1 DEF TriedOnce
<1>3. QED BY <1>2, Inductive, PTL
=============================================================================
