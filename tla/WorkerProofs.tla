---------------------------- MODULE WorkerProofs ----------------------------
(***************************************************************************)
(* What one core of the io_uring engine guarantees for every number of     *)
(* descriptors, endpoints, attempts and clients.                           *)
(*                                                                         *)
(* The invariant has three layers.  Core: shapes, the ages of tags, and    *)
(* what a handler needs of the request it runs for; every step keeps it.   *)
(* Table: slots, the client's side of the ring and the drain's count;      *)
(* kept as long as a live tag is its owner's (NoWrap).  Owned: who uses    *)
(* which upstream, the pool, the helper's jobs and the upstream's side of  *)
(* the ring; kept until the drain closes a tunnel and leaves its upstream  *)
(* behind (severed), after which the number may be taken for another.      *)
(*                                                                         *)
(* Each action has a lemma for Core and one for Table and Owned.  Those of *)
(* the second kind go through the few things an action does to the table:  *)
(* move one client (Turn), let upstreams go (Release), take one or give it *)
(* away (Swap), complete an operation (Delivered), drop what is no         *)
(* client's (Lapse), start a connection (Fresh).                           *)
(***************************************************************************)
EXTENDS Worker, FiniteSetTheorems, SequenceTheorems, WellFoundedInduction, TLAPS

-----------------------------------------------------------------------------
(* The invariant.                                                          *)

\* The kinds of operation a completion may be of.
Kinds == ReadKinds \cup WriteKinds
\* Where a handler may be.
Steps == {"wait", "advance", "open", "retry", "failed", "eof", "finish", "drive"}

\* The descriptors that have an operation of kind k in the ring, issued for
\* their present use.
Tagged(os) ==
    [k \in Kinds |-> {f \in Fds : \E o \in os : o.k = k /\ o.fd = f /\ o.age = 0}]

\* The same of the ring as it is.
Ring == Tagged(ops)

\* The shape of what a close changes.
TableShape ==
    /\ slot \in [Fds -> Slot] /\ conn \in [Fds -> Conn]
    /\ generations \in [Fds -> 0 .. GenModulus - 1] /\ ops \subseteq Op
    /\ open \subseteq Fds /\ drain_inflight \in Nat

\* The shape of everything else.
RestShape ==
    /\ away \subseteq Fds /\ jobs \subseteq Fds
    /\ pool \in [Endpoints -> Seq(Fds)] /\ inflight \in [Endpoints -> Int]
    /\ cur \in [at : Steps, fd : Fds \cup {NoFd}]
    /\ listen \in [Roles -> {"armed", "lost", "shut", "gone"}]
    /\ draining \in BOOLEAN /\ drain_expired \in BOOLEAN
    /\ stopped \in BOOLEAN /\ severed \in BOOLEAN
    /\ midbody \in [Fds -> BOOLEAN]
    /\ requests \in 0 .. MaxRequests /\ opens \in 0 .. MaxOpens
    /\ refusals \in 0 .. MaxRefusals

Shape == TableShape /\ RestShape

\* A tag and the generation of its descriptor differ by the bumps since, round
\* the modulus once at most.
Counted(o, gens) ==
    o.age < GenModulus =>
        o.gen + o.age \in {gens[o.fd], gens[o.fd] + GenModulus}

\* Every tag in the ring is accounted for by the bumps since it was issued.
BumpInv == \A o \in ops : Counted(o, generations)

\* What allows a request to be sent again is settled when it is routed.
Replays(c) ==
    /\ c.replayable => c.request_body = "done"
    /\ c.targets > 1 \/ c.attempt > 0 \/ c.pool_retry_used => c.replayable

\* A connection between requests has nothing of the last one left.
Settled(c) ==
    /\ Replays(c)
    /\ c.phase = "Head" =>
          /\ ~c.committed /\ ~c.replayable /\ ~c.inflight_held
          /\ c.upstream = NoFd /\ ~c.up_writing

\* What a connection is like when its handler is about to dial.
Ready(c, step) ==
    /\ step = "open" => /\ c.phase = "Exchanging" /\ ~c.committed
                        /\ ~c.up_writing /\ c.upstream = NoFd
    /\ step = "retry" => c.upstream = NoFd

\* The connections that hold endpoint e.
HeldFor(e) == {f \in Fds : conn[f].inflight_held /\ Target(conn[f]) = e}

\* Requests and holds: what a handler step needs of the connection it runs for,
\* and each counter at least the holds on its endpoint.
AttemptInv ==
    /\ \A f \in Fds : /\ Settled(conn[f])
                      /\ \A step \in Steps : At(step, f) => Ready(conn[f], step)
    /\ \A e \in Endpoints : inflight[e] >= Cardinality(HeldFor(e))

\* Numbers that are a connection's, or gone to the other engine.
Reserved == {f \in Fds : slot[f] \in {Client, Admin}} \cup away

\* A number that is no connection's has no connection's state; an admin
\* connection has no upstream and is nobody's.
SlotInv ==
    \A f \in Fds :
        /\ slot[f] \notin {Client, Admin} => conn[f] = NewConn
        /\ slot[f] = Admin => conn[f].upstream = NoFd
        /\ slot[f].is = "Upstream" => slot[slot[f].of] # Admin
        /\ f \in away => slot[f] = Empty

\* A reserved number is open, and neither a connecting nor an idle nor anybody's
\* upstream.
ReservedInv ==
    \A f \in Reserved :
        /\ f \in open /\ f \notin jobs /\ f \notin Pooled
        /\ \A g \in Fds : conn[g].upstream # f

\* On the client's side the flags say what the ring holds, and the ring holds
\* nothing for others.  This half of FlagsMatchRing survives a severed tunnel.
DownInv ==
    \A f \in Fds :
        /\ slot[f] = Client =>
              /\ conn[f].reading <=> f \in Ring["DOWN_READ"]
              /\ conn[f].writing <=> f \in Ring["DOWN_WRITE"]
        /\ f \in Ring["DOWN_READ"] \cup Ring["DOWN_WRITE"] => slot[f] = Client
        /\ f \in Ring["ADMIN_READ"] \cup Ring["ADMIN_WRITE"] => slot[f] = Admin

\* No listener is armed in a drain; no connection is counted before it; in it no
\* client waits for another request, so that nothing is counted late.
DrainInv ==
    /\ \A r \in Roles : listen[r] = "armed" => ~draining
    /\ severed => draining
    /\ ~draining => \A f \in Fds : ~conn[f].drain_counted
    /\ draining => \A f \in Fds : slot[f] = Client =>
                       conn[f].phase # "Head" /\ ~conn[f].client_keep_alive
    /\ DrainCountExact

\* A handler runs for a client that is there.
CurInv == cur # Wait => ~stopped /\ cur.fd \in Fds /\ slot[cur.fd] = Client

\* OwnersAgree and NoDescriptorLeaks, for every number.
UseInv ==
    \A f \in Fds :
        /\ slot[f] # Empty => f \in open \ away
        /\ f \in open => slot[f] # Empty \/ f \in away
        /\ slot[f].is = "Upstream" =>
              slot[slot[f].of] = Client /\ conn[slot[f].of].upstream = f
        /\ slot[f] = Client /\ conn[f].upstream # NoFd =>
              slot[conn[f].upstream] = Upstream(f)

\* The helper has borrowed exactly the connecting upstreams: those a connection
\* says are borrowed, and those their connections have abandoned.
JobsInv ==
    ~stopped => \A f \in Fds :
        f \in jobs <=> \/ slot[f] = Abandoned
                       \/ slot[f].is = "Upstream" /\ conn[slot[f].of].up_borrowed

\* The pool and the table agree on which upstreams are idle.
PoolInv ==
    \A e \in Endpoints :
        /\ Len(pool[e]) <= MaxIdle
        /\ \A i, j \in 1 .. Len(pool[e]) : pool[e][i] = pool[e][j] => i = j
        /\ \A f \in Fds : slot[f] = Idle(e) <=> \E i \in 1 .. Len(pool[e]) :
                                                    pool[e][i] = f

\* On the upstream's side the flags say what the ring holds, an idle upstream has
\* its parked read, and the ring holds nothing for others.
UpInv ==
    \A f \in Fds :
        /\ slot[f] = Client /\ conn[f].upstream # NoFd =>
              /\ conn[f].up_reading <=> conn[f].upstream \in Ring["UP_READ"]
              /\ conn[f].up_writing <=> conn[f].upstream \in Ring["UP_WRITE"]
        /\ slot[f].is = "Idle" => f \in Ring["UP_READ"] /\ f \notin Ring["UP_WRITE"]
        /\ f \in Ring["UP_READ"] \cup Ring["UP_WRITE"] =>
              slot[f].is \in {"Upstream", "Idle"}

\* A connecting upstream has nothing in the ring, and no step that closes,
\* replaces or pools the upstream runs while the helper has it.
BorrowInv ==
    \A f \in Fds :
        /\ conn[f].up_borrowed =>
              /\ conn[f].phase \in {"Connecting", "Closing"}
              /\ conn[f].upstream # NoFd =>
                    ~conn[f].up_reading /\ ~conn[f].up_writing /\ ~conn[f].up_ready
        /\ cur.fd = f /\ cur.at \in {"open", "retry", "eof", "failed", "finish"} =>
              ~conn[f].up_borrowed

\* What holds whatever the drain did.
Table == SlotInv /\ ReservedInv /\ DownInv /\ DrainInv /\ CurInv
\* What holds until the drain severs a tunnel.
Owned == UseInv /\ JobsInv /\ PoolInv /\ UpInv /\ BorrowInv

Accounts == Table /\ (~severed => Owned)

-----------------------------------------------------------------------------
(* The records of the model.                                               *)

\* A connection with one field replaced is a connection.
LEMMA SetField ==
    ASSUME NEW c \in Conn
    PROVE  /\ \A v \in Phase : [c EXCEPT !.phase = v] \in Conn
           /\ \A v \in {"none", "data", "body", "badbody"} \cup Requests :
                 [c EXCEPT !.inbox = v] \in Conn
           /\ \A v \in {"done", "more"} : [c EXCEPT !.request_body = v] \in Conn
           /\ \A v \in Fds \cup {NoFd} : [c EXCEPT !.upstream = v] \in Conn
           /\ \A v \in {"none", "rest", "restMore", "extra", "garbage"} \cup Responses :
                 [c EXCEPT !.up_inbox = v] \in Conn
           /\ \A v \in {"done", "more", "until-close"} :
                 [c EXCEPT !.response_body = v] \in Conn
           /\ \A v \in Endpoints : [c EXCEPT !.endpoint_index = v] \in Conn
           /\ \A v \in 0 .. NEndpoints : [c EXCEPT !.targets = v] \in Conn
           /\ \A v \in Endpoints : [c EXCEPT !.attempt = v] \in Conn
           /\ \A v \in BOOLEAN :
                 /\ [c EXCEPT !.tls = v] \in Conn
                 /\ [c EXCEPT !.outbox = v] \in Conn
                 /\ [c EXCEPT !.reading = v] \in Conn
                 /\ [c EXCEPT !.writing = v] \in Conn
                 /\ [c EXCEPT !.client_eof = v] \in Conn
                 /\ [c EXCEPT !.client_keep_alive = v] \in Conn
                 /\ [c EXCEPT !.upgrade = v] \in Conn
                 /\ [c EXCEPT !.up_outbox = v] \in Conn
                 /\ [c EXCEPT !.up_reading = v] \in Conn
                 /\ [c EXCEPT !.up_writing = v] \in Conn
                 /\ [c EXCEPT !.up_ready = v] \in Conn
                 /\ [c EXCEPT !.up_borrowed = v] \in Conn
                 /\ [c EXCEPT !.response_head_seen = v] \in Conn
                 /\ [c EXCEPT !.upstream_keep_alive = v] \in Conn
                 /\ [c EXCEPT !.upstream_eof = v] \in Conn
                 /\ [c EXCEPT !.replayable = v] \in Conn
                 /\ [c EXCEPT !.from_pool = v] \in Conn
                 /\ [c EXCEPT !.pool_retry_used = v] \in Conn
                 /\ [c EXCEPT !.committed = v] \in Conn
                 /\ [c EXCEPT !.inflight_held = v] \in Conn
                 /\ [c EXCEPT !.deadline = v] \in Conn
                 /\ [c EXCEPT !.drain_counted = v] \in Conn
<1>1. \A v \in Phase : [c EXCEPT !.phase = v] \in Conn
  BY DEF Conn
<1>2. \A v \in {"none", "data", "body", "badbody"} \cup Requests :
          [c EXCEPT !.inbox = v] \in Conn
  BY DEF Conn
<1>3. \A v \in {"done", "more"} : [c EXCEPT !.request_body = v] \in Conn
  BY DEF Conn
<1>4. \A v \in Fds \cup {NoFd} : [c EXCEPT !.upstream = v] \in Conn
  BY DEF Conn
<1>5. \A v \in {"none", "rest", "restMore", "extra", "garbage"} \cup Responses :
          [c EXCEPT !.up_inbox = v] \in Conn
  BY DEF Conn
<1>6. \A v \in {"done", "more", "until-close"} : [c EXCEPT !.response_body = v] \in Conn
  BY DEF Conn
<1>7. \A v \in Endpoints : [c EXCEPT !.endpoint_index = v] \in Conn
  BY DEF Conn
<1>8. \A v \in 0 .. NEndpoints : [c EXCEPT !.targets = v] \in Conn
  BY DEF Conn
<1>9. \A v \in Endpoints : [c EXCEPT !.attempt = v] \in Conn
  BY DEF Conn
<1>10. \A v \in BOOLEAN : [c EXCEPT !.tls = v] \in Conn
  BY DEF Conn
<1>11. \A v \in BOOLEAN : [c EXCEPT !.outbox = v] \in Conn
  BY DEF Conn
<1>12. \A v \in BOOLEAN : [c EXCEPT !.reading = v] \in Conn
  BY DEF Conn
<1>13. \A v \in BOOLEAN : [c EXCEPT !.writing = v] \in Conn
  BY DEF Conn
<1>14. \A v \in BOOLEAN : [c EXCEPT !.client_eof = v] \in Conn
  BY DEF Conn
<1>15. \A v \in BOOLEAN : [c EXCEPT !.client_keep_alive = v] \in Conn
  BY DEF Conn
<1>16. \A v \in BOOLEAN : [c EXCEPT !.upgrade = v] \in Conn
  BY DEF Conn
<1>17. \A v \in BOOLEAN : [c EXCEPT !.up_outbox = v] \in Conn
  BY DEF Conn
<1>18. \A v \in BOOLEAN : [c EXCEPT !.up_reading = v] \in Conn
  BY DEF Conn
<1>19. \A v \in BOOLEAN : [c EXCEPT !.up_writing = v] \in Conn
  BY DEF Conn
<1>20. \A v \in BOOLEAN : [c EXCEPT !.up_ready = v] \in Conn
  BY DEF Conn
<1>21. \A v \in BOOLEAN : [c EXCEPT !.up_borrowed = v] \in Conn
  BY DEF Conn
<1>22. \A v \in BOOLEAN : [c EXCEPT !.response_head_seen = v] \in Conn
  BY DEF Conn
<1>23. \A v \in BOOLEAN : [c EXCEPT !.upstream_keep_alive = v] \in Conn
  BY DEF Conn
<1>24. \A v \in BOOLEAN : [c EXCEPT !.upstream_eof = v] \in Conn
  BY DEF Conn
<1>25. \A v \in BOOLEAN : [c EXCEPT !.replayable = v] \in Conn
  BY DEF Conn
<1>26. \A v \in BOOLEAN : [c EXCEPT !.from_pool = v] \in Conn
  BY DEF Conn
<1>27. \A v \in BOOLEAN : [c EXCEPT !.pool_retry_used = v] \in Conn
  BY DEF Conn
<1>28. \A v \in BOOLEAN : [c EXCEPT !.committed = v] \in Conn
  BY DEF Conn
<1>29. \A v \in BOOLEAN : [c EXCEPT !.inflight_held = v] \in Conn
  BY DEF Conn
<1>30. \A v \in BOOLEAN : [c EXCEPT !.deadline = v] \in Conn
  BY DEF Conn
<1>31. \A v \in BOOLEAN : [c EXCEPT !.drain_counted = v] \in Conn
  BY DEF Conn
<1> QED
  BY <1>1, <1>2, <1>3, <1>4, <1>5, <1>6, <1>7, <1>8, <1>9, <1>10,
     <1>11, <1>12, <1>13, <1>14, <1>15, <1>16, <1>17, <1>18, <1>19, <1>20,
     <1>21, <1>22, <1>23, <1>24, <1>25, <1>26, <1>27, <1>28, <1>29, <1>30,
     <1>31

\* An empty entry is a connection.
LEMMA NewConnType == NewConn \in Conn
  BY SizesAssumption DEF Conn, NewConn, Phase, Endpoints

\* The kinds of slot are told apart by is.
LEMMA SlotKinds ==
    /\ Empty.is = "Empty" /\ Client.is = "Client" /\ Admin.is = "Admin"
    /\ Abandoned.is = "Abandoned"
    /\ \A x : Upstream(x).is = "Upstream" /\ Upstream(x).of = x
    /\ \A x : Idle(x).is = "Idle" /\ Idle(x).of = x
    /\ {Empty, Client, Admin, Abandoned} \subseteq Slot
    /\ \A f \in Fds : Upstream(f) \in Slot
    /\ \A e \in Endpoints : Idle(e) \in Slot
  BY DEF Slot, Empty, Client, Admin, Abandoned, Upstream, Idle

\* A slot is known by its kind, and an upstream or an idle one by whose it is.
LEMMA SlotCases ==
    ASSUME NEW s \in Slot
    PROVE  /\ s.is \in {"Empty", "Client", "Admin", "Abandoned", "Upstream", "Idle"}
           /\ s.is = "Empty" => s = Empty
           /\ s.is = "Client" => s = Client
           /\ s.is = "Admin" => s = Admin
           /\ s.is = "Abandoned" => s = Abandoned
           /\ s.is = "Upstream" => s.of \in Fds /\ s = Upstream(s.of)
           /\ s.is = "Idle" => s.of \in Endpoints /\ s = Idle(s.of)
  BY DEF Slot, Empty, Client, Admin, Abandoned, Upstream, Idle

\* A generation after a bump.
LEMMA BumpStep ==
    ASSUME NEW g \in 0 .. GenModulus - 1
    PROVE  /\ BumpGeneration(g) \in 0 .. GenModulus - 1
           /\ BumpGeneration(g) = IF g + 1 = GenModulus THEN 0 ELSE g + 1
  BY SizesAssumption DEF BumpGeneration

\* An attempt is at an endpoint of the backend.
LEMMA TargetRange ==
    ASSUME NEW c \in Conn
    PROVE  Target(c) \in Endpoints
<1>1. c.endpoint_index \in Nat /\ c.attempt \in Nat
  BY SizesAssumption DEF Conn, Endpoints
<1> QED
  BY <1>1, SizesAssumption DEF Target, Endpoints

\* The records the operations of a connection make of it.
LEMMA MadeConns ==
    ASSUME NEW c \in Conn
    PROVE  /\ ResetConn(c) \in Conn
           /\ Detach(c) \in Conn
           /\ Resend(c) \in Conn
           /\ \A close \in BOOLEAN : Refused(c, close) \in Conn
<1>1. /\ 0 \in Endpoints /\ 0 \in 0 .. NEndpoints
      /\ {"Head", "Closing", "Exchanging"} \subseteq Phase
  BY SizesAssumption DEF Endpoints, Phase
<1>2. ASSUME NEW d \in Conn PROVE ResetConn(d) \in Conn
  <2> DEFINE x == [d EXCEPT !.phase = "Head", !.request_body = "done",
                            !.response_body = "done", !.response_head_seen = FALSE,
                            !.upstream_keep_alive = TRUE, !.upstream_eof = FALSE]
             y == [x EXCEPT !.upgrade = FALSE, !.targets = 0, !.attempt = 0,
                            !.replayable = FALSE, !.from_pool = FALSE]
             z == [y EXCEPT !.pool_retry_used = FALSE, !.committed = FALSE,
                            !.deadline = FALSE, !.up_inbox = "none",
                            !.up_outbox = FALSE]
  <2>1. ResetConn(d) = z
    BY DEF ResetConn
  <2>2. x \in Conn
    BY <1>1, SetField
  <2> HIDE DEF x
  <2>3. y \in Conn
    BY <2>2, <1>1, SetField
  <2> HIDE DEF y
  <2>4. z \in Conn
    BY <2>3, SetField
  <2> QED
    BY <2>1, <2>4
<1>3. Detach(c) \in Conn
  BY SetField DEF Detach
<1>4. Resend(c) \in Conn
  BY <1>1, SetField DEF Resend
<1>5. ASSUME NEW close \in BOOLEAN PROVE Refused(c, close) \in Conn
  <2> DEFINE d == [Detach(c) EXCEPT !.outbox = TRUE, !.inflight_held = FALSE,
                                    !.inbox = "none"]
  <2>1. d \in Conn
    BY <1>3, SetField
  <2>2. [d EXCEPT !.phase = "Closing"] \in Conn /\ ResetConn(d) \in Conn
    BY <2>1, <1>1, <1>2, SetField
  <2> QED
    BY <2>2 DEF Refused
<1> QED
  BY <1>2, <1>3, <1>4, <1>5

-----------------------------------------------------------------------------
(* Closing descriptors.                                                    *)

\* The generations of all numbers.
Gens == [Fds -> 0 .. GenModulus - 1]

\* The generations after a close.
Bumped(gens, closed) ==
    [f \in Fds |-> IF f \in closed THEN BumpGeneration(gens[f]) ELSE gens[f]]

\* Bumping the generations of some descriptors takes their operations out of the
\* ring's present, and keeps the ages true.
LEMMA AgedFacts ==
    ASSUME NEW os \in SUBSET Op, NEW closed \in SUBSET Fds, NEW gens \in Gens
    PROVE  /\ Aged(os, closed) \in SUBSET Op
           /\ Bumped(gens, closed) \in Gens
           /\ \A k \in Kinds : Tagged(Aged(os, closed))[k] = Tagged(os)[k] \ closed
           /\ (\A o \in os : Counted(o, gens)) =>
                 \A o \in Aged(os, closed) : Counted(o, Bumped(gens, closed))
<1> DEFINE New(o) == [o EXCEPT !.age = IF o.fd \in closed THEN @ + 1 ELSE @]
<1>1. ASSUME NEW o \in Op
      PROVE  /\ New(o) \in Op /\ New(o).k = o.k /\ New(o).fd = o.fd
             /\ New(o).gen = o.gen
             /\ New(o).age = IF o.fd \in closed THEN o.age + 1 ELSE o.age
             /\ o.age \in Nat /\ o.fd \in Fds /\ o.gen \in 0 .. GenModulus - 1
             /\ o.k \in Kinds
  BY DEF Op, Kinds
<1>2. Aged(os, closed) = {New(o) : o \in os}
  BY DEF Aged
<1> HIDE DEF New
<1>3. Aged(os, closed) \in SUBSET Op
  BY <1>1, <1>2
<1>4. Bumped(gens, closed) \in Gens
  BY BumpStep DEF Gens, Bumped
<1>5. ASSUME NEW k \in Kinds
      PROVE  Tagged(Aged(os, closed))[k] = Tagged(os)[k] \ closed
  <2>1. ASSUME NEW f \in Fds
        PROVE  f \in Tagged(Aged(os, closed))[k] <=> f \in Tagged(os)[k] \ closed
    BY <1>1, <1>2 DEF Tagged
  <2> QED
    BY <2>1 DEF Tagged
<1>6. ASSUME \A o \in os : Counted(o, gens), NEW o \in os
      PROVE  Counted(New(o), Bumped(gens, closed))
  <2>1. /\ Bumped(gens, closed)[o.fd] =
              (IF o.fd \in closed THEN BumpGeneration(gens[o.fd]) ELSE gens[o.fd])
        /\ gens[o.fd] \in 0 .. GenModulus - 1
    BY <1>1 DEF Bumped, Gens
  <2>2. Counted(o, gens)
    BY <1>6
  <2>3. CASE o.fd \notin closed
    BY <2>1, <2>2, <2>3, <1>1 DEF Counted
  <2>4. CASE o.fd \in closed
    <3>1. ASSUME NEW g \in 0 .. GenModulus - 1, NEW h \in 0 .. GenModulus - 1,
                 NEW n \in 0 .. GenModulus - 1, NEW a \in Nat,
                 h = (IF g + 1 = GenModulus THEN 0 ELSE g + 1),
                 a + 1 < GenModulus, n + a \in {g, g + GenModulus}
          PROVE  n + (a + 1) \in {h, h + GenModulus}
      BY <3>1, SizesAssumption
    <3>2. /\ New(o).gen = o.gen /\ New(o).age = o.age + 1 /\ New(o).fd = o.fd
          /\ o.gen \in 0 .. GenModulus - 1 /\ o.age \in Nat
      BY <1>1, <2>4
    <3>3. BumpGeneration(gens[o.fd]) \in 0 .. GenModulus - 1
      BY <2>1, BumpStep
    <3> QED
      BY <2>1, <2>2, <2>4, <3>1, <3>2, <3>3, BumpStep, SizesAssumption DEF Counted
  <2> QED
    BY <2>3, <2>4
<1> QED
  BY <1>2, <1>3, <1>4, <1>5, <1>6

\* Closing keeps the shape of the table.
LEMMA CloseShape ==
    ASSUME TableShape, BumpInv,
           NEW closed \in SUBSET Fds, NEW s \in [Fds -> Slot],
           NEW cs \in [Fds -> Conn], NEW os \in SUBSET Op, NEW ks \in SUBSET Fds,
           \A o \in os : Counted(o, generations),
           Close(closed, s, cs, os, ks)
    PROVE  TableShape' /\ BumpInv'
<1>1. IsFiniteSet({f \in closed : cs[f].drain_counted})
  BY KindsAssumption, FS_Subset
<1>2. Cardinality({f \in closed : cs[f].drain_counted}) \in Nat
  BY <1>1, FS_CardinalityType
<1>3. drain_inflight' \in Nat
  BY <1>2 DEF Close, TableShape
<1>4. slot' \in [Fds -> Slot] /\ conn' \in [Fds -> Conn] /\ open' \subseteq Fds
  BY SlotKinds, NewConnType DEF Close
<1>5. generations \in Gens
  BY DEF TableShape, Gens
<1>6. generations' = Bumped(generations, closed) /\ ops' = Aged(os, closed)
  BY DEF Close, Bumped
<1>7. generations' \in Gens /\ ops' \in SUBSET Op
      /\ \A o \in ops' : Counted(o, generations')
  BY <1>5, <1>6, AgedFacts
<1> QED
  BY <1>3, <1>4, <1>7 DEF TableShape, Gens, BumpInv

\* What closing leaves in the ring.
LEMMA CloseRing ==
    ASSUME TableShape,
           NEW closed \in SUBSET Fds, NEW s, NEW cs, NEW os \in SUBSET Op, NEW ks,
           Close(closed, s, cs, os, ks)
    PROVE  \A k \in Kinds : Ring'[k] = Tagged(os)[k] \ closed
<1>1. generations \in Gens
  BY DEF TableShape, Gens
<1>2. ops' = Aged(os, closed)
  BY DEF Close
<1> QED
  BY <1>1, <1>2, AgedFacts DEF Ring

\* A step that changes one connection and nothing else of the table.
LEMMA UpdateFacts ==
    ASSUME TableShape, NEW f \in Fds, NEW c \in Conn, Update(f, c)
    PROVE  /\ slot' = slot /\ conn' = [conn EXCEPT ![f] = c]
           /\ generations' = generations /\ ops' = ops /\ open' = open
           /\ drain_inflight' = drain_inflight
<1>1. Cardinality({g \in {} : [conn EXCEPT ![f] = c][g].drain_counted}) = 0
  <2>1. {g \in {} : [conn EXCEPT ![f] = c][g].drain_counted} = {}
    OBVIOUS
  <2> QED
    BY <2>1, FS_EmptySet
<1>2. Aged(ops, {}) = ops
  <2>1. ASSUME NEW o \in ops
        PROVE  [o EXCEPT !.age = IF o.fd \in {} THEN @ + 1 ELSE @] = o
    BY DEF TableShape, Op
  <2> QED
    BY <2>1 DEF Aged
<1>3. Close({}, slot, [conn EXCEPT ![f] = c], ops, open)
  BY DEF Update
<1>4. /\ slot' = [g \in Fds |-> slot[g]]
      /\ conn' = [g \in Fds |-> [conn EXCEPT ![f] = c][g]]
      /\ generations' = [g \in Fds |-> generations[g]]
      /\ open' = open
  BY <1>3 DEF Close
<1>5. drain_inflight' = drain_inflight
  BY <1>1, <1>3 DEF Close, TableShape
<1> QED
  BY <1>2, <1>3, <1>4, <1>5 DEF Close, TableShape

-----------------------------------------------------------------------------
(* The shape of the state, and the ages.                                   *)

\* Shapes and ages: what every step keeps without knowing what it is for.
Sound == Shape /\ BumpInv

\* A core that starts has the shape.
LEMMA InitSound == Init => Sound
<1> SUFFICES ASSUME Init PROVE Sound
  OBVIOUS
<1>1. TableShape
  BY SlotKinds, NewConnType, SizesAssumption DEF Init, TableShape
<1>2. RestShape
  <2>1. pool \in [Endpoints -> Seq(Fds)]
    BY DEF Init
  <2>2. cur \in [at : Steps, fd : Fds \cup {NoFd}]
    BY DEF Init, Wait, Steps
  <2>3. /\ inflight \in [Endpoints -> Int] /\ away \subseteq Fds /\ jobs \subseteq Fds
        /\ requests \in 0 .. MaxRequests /\ opens \in 0 .. MaxOpens
        /\ refusals \in 0 .. MaxRefusals
    BY SizesAssumption DEF Init
  <2>4. listen \in [Roles -> {"armed", "lost", "shut", "gone"}]
    BY DEF Init
  <2>5. /\ draining \in BOOLEAN /\ drain_expired \in BOOLEAN
        /\ stopped \in BOOLEAN /\ severed \in BOOLEAN
        /\ midbody \in [Fds -> BOOLEAN]
    BY DEF Init
  <2> QED
    BY <2>1, <2>2, <2>3, <2>4, <2>5 DEF RestShape
<1> QED
  BY <1>1, <1>2 DEF Init, Sound, Shape, BumpInv

\* What the handlers leave alone.
LEMMA RestKept ==
    ASSUME RestShape, UNCHANGED <<drain, world, pool, jobs>>,
           inflight' \in [Endpoints -> Int],
           cur' \in [at : Steps, fd : Fds \cup {NoFd}]
    PROVE  RestShape'
  BY DEF RestShape, drain, world, counts

\* A step that changes one connection keeps the table's shape and the ages.
LEMMA UpdateSound ==
    ASSUME TableShape, BumpInv, NEW f \in Fds, NEW c \in Conn, Update(f, c)
    PROVE  TableShape' /\ BumpInv'
<1>1. [conn EXCEPT ![f] = c] \in [Fds -> Conn]
  BY DEF TableShape
<1>2. Close({}, slot, [conn EXCEPT ![f] = c], ops, open)
  BY DEF Update
<1> QED
  BY <1>1, <1>2, CloseShape DEF TableShape, BumpInv

\* A handler goes on at a step of its own.
LEMMA GotoShape ==
    ASSUME NEW f \in Fds, NEW step \in Steps, Goto(step, f)
    PROVE  cur' \in [at : Steps, fd : Fds \cup {NoFd}]
  BY DEF Goto

\* Waiting is a place to be.
LEMMA WaitShape == Wait \in [at : Steps, fd : Fds \cup {NoFd}]
  BY DEF Wait, Steps

\* Holding and releasing keep the counters numbers.
LEMMA CountShape ==
    ASSUME RestShape, NEW c \in Conn
    PROVE  Held(c) \in [Endpoints -> Int] /\ Released(c) \in [Endpoints -> Int]
  BY TargetRange DEF RestShape, Held, Released

\* The upstream of a connection, closed or abandoned.
LEMMA LetGo ==
    ASSUME NEW c \in Conn
    PROVE  /\ Dropped(c) \in SUBSET Fds /\ Kept(c) \in SUBSET Fds
           /\ c.upstream \in Fds \cup {NoFd}
  BY DEF Dropped, Kept, Conn

\* Answering a failed request itself keeps shapes and ages.
LEMMA FailSound ==
    ASSUME Sound, NEW f \in Fds, NEW c \in Conn, NEW close \in BOOLEAN,
           Fail(f, c, close), UNCHANGED <<drain, world, pool, jobs>>
    PROVE  Sound'
<1> USE DEF Sound, Shape
<1>1. Refused(c, close) \in Conn
  BY MadeConns
<1>2. [conn EXCEPT ![f] = Refused(c, close)] \in [Fds -> Conn]
  BY <1>1 DEF TableShape
<1>3. [u \in Fds |-> IF u \in Kept(c) THEN Abandoned ELSE slot[u]] \in [Fds -> Slot]
  BY SlotKinds DEF TableShape
<1>4. TableShape' /\ BumpInv'
  BY <1>2, <1>3, LetGo, CloseShape DEF Fail, TableShape, BumpInv
<1>5. inflight' \in [Endpoints -> Int]
  BY CountShape DEF Fail
<1>6. "drive" \in Steps /\ Goto("drive", f)
  BY DEF Steps, Fail
<1> QED
  BY <1>4, <1>5, <1>6, GotoShape, RestKept

\* The phases, the steps, and that no number is NoFd.
LEMMA Names ==
    /\ {"Head", "Connecting", "Exchanging", "Relaying", "Tunnel", "Closing"} = Phase
    /\ {"wait", "advance", "open", "retry", "failed", "eof", "finish", "drive"} = Steps
    /\ Fds \cup {NoFd} # {} /\ NoFd \notin Fds
  BY KindsAssumption DEF Phase, Steps

\* A handler step that changes one connection.
LEMMA HandlerSound ==
    ASSUME Sound, NEW f \in Fds, NEW c \in Conn, NEW step \in Steps, Update(f, c),
           Goto(step, f), inflight' \in [Endpoints -> Int],
           UNCHANGED <<drain, world, pool, jobs>>
    PROVE  Sound'
  BY UpdateSound, GotoShape, RestKept DEF Sound, Shape

-----------------------------------------------------------------------------
(* Attempts and holds.                                                     *)

\* The invariant of the attempts.
Core == Sound /\ AttemptInv

\* The inductive invariant.
IInv == Core /\ Accounts

\* How a step accounts for the hold of the connection d that becomes c.
Balances(d, c) ==
    \/ /\ inflight' = inflight
       /\ c.inflight_held => d.inflight_held /\ Target(c) = Target(d)
    \/ inflight' = Released(d) /\ ~c.inflight_held
    \/ inflight' = Held(d) /\ Target(c) = Target(d)

\* An empty entry holds nothing.
LEMMA NewConnSettled == Settled(NewConn) /\ ~NewConn.inflight_held
  BY DEF NewConn, Settled, Replays

\* A step that changes one connection, and closes others, keeps the counters
\* above the holds.
LEMMA HoldsKept ==
    ASSUME Core, conn' \in [Fds -> Conn], NEW f \in Fds,
           \A g \in Fds \ {f} : conn'[g] \in {conn[g], NewConn},
           Balances(conn[f], conn'[f])
    PROVE  \A e \in Endpoints : inflight'[e] >= Cardinality(HeldFor(e)')
<1> SUFFICES ASSUME NEW e \in Endpoints
             PROVE  inflight'[e] >= Cardinality(HeldFor(e)')
  OBVIOUS
<1> DEFINE H == HeldFor(e)
           d == conn[f]
<1>1. /\ inflight \in [Endpoints -> Int] /\ d \in Conn /\ conn'[f] \in Conn
      /\ inflight[e] >= Cardinality(H)
  BY DEF Core, Sound, Shape, TableShape, RestShape, AttemptInv
<1>2. /\ Target(d) \in Endpoints
  BY <1>1, TargetRange
<1>3. /\ H \subseteq Fds /\ H' \subseteq Fds /\ IsFiniteSet(Fds)
      /\ H' \subseteq H \cup {f}
  BY KindsAssumption, NewConnSettled DEF HeldFor
<1>4. /\ IsFiniteSet(H) /\ IsFiniteSet(H')
      /\ IsFiniteSet(H \cup {f}) /\ IsFiniteSet(H \ {f})
      /\ Cardinality(H) \in Nat /\ Cardinality(H') \in Nat
      /\ Cardinality(H \cup {f}) \in Nat
      /\ Cardinality(H \cup {f}) <= Cardinality(H) + 1
      /\ f \in H => Cardinality(H \ {f}) = Cardinality(H) - 1
  <2>1. IsFiniteSet(H) /\ IsFiniteSet(H')
    BY <1>3, FS_Subset
  <2> HIDE DEF H
  <2>2. /\ IsFiniteSet(H \cup {f}) /\ IsFiniteSet(H \ {f})
        /\ Cardinality(H) \in Nat /\ Cardinality(H') \in Nat
    BY <2>1, FS_AddElement, FS_RemoveElement, FS_CardinalityType
  <2>3. /\ Cardinality(H \cup {f}) \in Nat
        /\ Cardinality(H \cup {f}) <= Cardinality(H) + 1
    BY <2>1, <2>2, FS_AddElement
  <2>4. f \in H => Cardinality(H \ {f}) = Cardinality(H) - 1
    BY <2>1, FS_RemoveElement
  <2> QED
    BY <2>1, <2>2, <2>3, <2>4
<1>5. /\ H' \subseteq H => Cardinality(H') <= Cardinality(H)
      /\ H' \subseteq H \ {f} => Cardinality(H') <= Cardinality(H \ {f})
      /\ Cardinality(H') <= Cardinality(H \cup {f})
  BY <1>3, <1>4, FS_Subset
<1>6. f \in H <=> d.inflight_held /\ Target(d) = e
  BY DEF HeldFor
<1>7. f \in H' <=> conn'[f].inflight_held /\ Target(conn'[f]) = e
  BY DEF HeldFor, Target
<1> SUFFICES inflight'[e] >= Cardinality(H')
  OBVIOUS
<1> HIDE DEF H, d
<1>8. CASE /\ inflight' = inflight
           /\ conn'[f].inflight_held => /\ d.inflight_held
                                        /\ Target(conn'[f]) = Target(d)
  <2>1. H' \subseteq H
    BY <1>3, <1>6, <1>7, <1>8
  <2> QED
    BY <2>1, <1>1, <1>4, <1>5, <1>8
<1>9. CASE inflight' = Released(d) /\ ~conn'[f].inflight_held
  <2>1. H' \subseteq H \ {f}
    BY <1>3, <1>7, <1>9
  <2>2. inflight'[e] = IF f \in H THEN inflight[e] - 1 ELSE inflight[e]
    BY <1>1, <1>2, <1>6, <1>9 DEF Released
  <2> QED
    BY <2>1, <2>2, <1>1, <1>4, <1>5
<1>10. CASE inflight' = Held(d) /\ Target(conn'[f]) = Target(d)
  <2>1. inflight'[e] = IF ~d.inflight_held /\ Target(d) = e THEN inflight[e] + 1
                       ELSE inflight[e]
    BY <1>1, <1>2, <1>10 DEF Held
  <2>2. CASE ~d.inflight_held /\ Target(d) = e
    BY <2>1, <2>2, <1>1, <1>4, <1>5
  <2>3. CASE ~(~d.inflight_held /\ Target(d) = e)
    <3>1. H' \subseteq H
      BY <2>3, <1>3, <1>6, <1>7, <1>10
    <3> QED
      BY <3>1, <2>1, <2>3, <1>1, <1>4, <1>5
  <2> QED
    BY <2>2, <2>3
<1> QED
  BY <1>8, <1>9, <1>10 DEF Balances, d

\* One connection moves, others are closed at most: the holds still add up.
LEMMA AttemptKept ==
    ASSUME Core, conn' \in [Fds -> Conn], NEW f \in Fds,
           \A g \in Fds \ {f} : conn'[g] \in {conn[g], NewConn},
           Settled(conn'[f]), Balances(conn[f], conn'[f]),
           \/ cur' = Wait
           \/ \E step \in Steps : Goto(step, f) /\ Ready(conn'[f], step)
    PROVE  AttemptInv'
<1>1. ASSUME NEW g \in Fds PROVE Settled(conn'[g])
  BY NewConnSettled DEF Core, AttemptInv
<1>2. ASSUME NEW g \in Fds, NEW step \in Steps, cur' = [at |-> step, fd |-> g]
      PROVE  Ready(conn'[g], step)
  <2>1. cur'.fd = g /\ cur'.at = step
    BY <1>2
  <2> QED
    BY <2>1, Names DEF Wait, Goto
<1>3. \A e \in Endpoints : inflight'[e] >= Cardinality(HeldFor(e)')
  BY HoldsKept
<1> QED
  BY <1>1, <1>2, <1>3 DEF AttemptInv, At

\* A handler step that changes one connection.
LEMMA HandlerCore ==
    ASSUME Core, NEW f \in Fds, NEW c \in Conn, NEW step \in Steps, Update(f, c),
           Goto(step, f), UNCHANGED <<drain, world, pool, jobs>>,
           Settled(c), Ready(c, step), Balances(conn[f], c)
    PROVE  Core'
<1>1. conn[f] \in Conn /\ inflight \in [Endpoints -> Int]
  BY DEF Core, Sound, Shape, TableShape, RestShape
<1>2. inflight' \in [Endpoints -> Int]
  BY <1>1, CountShape DEF Balances, Core, Sound, Shape
<1>3. Sound'
  BY <1>2, HandlerSound DEF Core
<1>4. conn' = [conn EXCEPT ![f] = c]
  BY UpdateFacts DEF Core, Sound, Shape
<1>5. conn \in [Fds -> Conn]
  BY DEF Core, Sound, Shape, TableShape
<1>6. /\ conn' \in [Fds -> Conn] /\ conn'[f] = c
      /\ \A g \in Fds \ {f} : conn'[g] = conn[g]
  BY <1>4, <1>5
<1>7. AttemptInv'
  BY <1>6, AttemptKept
<1> QED
  BY <1>3, <1>7 DEF Core

\* An answer of the proxy's own leaves a connection settled.
LEMMA RefusedSettled ==
    ASSUME NEW c \in Conn, NEW close \in BOOLEAN, Replays(c)
    PROVE  Settled(Refused(c, close)) /\ ~Refused(c, close).inflight_held
<1> DEFINE d == [Detach(c) EXCEPT !.outbox = TRUE, !.inflight_held = FALSE,
                                  !.inbox = "none"]
           e == [d EXCEPT !.phase = "Closing"]
<1>1. d \in Conn
  BY MadeConns, SetField
<1>2. /\ d.replayable = c.replayable /\ d.request_body = c.request_body
      /\ d.targets = c.targets /\ d.attempt = c.attempt
      /\ d.pool_retry_used = c.pool_retry_used /\ ~d.inflight_held
      /\ d.upstream = NoFd /\ ~d.up_writing
  BY DEF Conn, Detach
<1> HIDE DEF d
<1>3. /\ e.replayable = d.replayable /\ e.request_body = d.request_body
      /\ e.targets = d.targets /\ e.attempt = d.attempt
      /\ e.pool_retry_used = d.pool_retry_used /\ ~e.inflight_held
      /\ e.phase = "Closing"
  BY <1>1, <1>2 DEF Conn
<1>4. Settled(e)
  BY <1>2, <1>3 DEF Settled, Replays
<1>5. Settled(ResetConn(d)) /\ ~ResetConn(d).inflight_held
  BY <1>1, <1>2 DEF Conn, ResetConn, Settled, Replays
<1> QED
  BY <1>3, <1>4, <1>5 DEF Refused, d

\* Answering a failed request releases what the request held, once.
LEMMA FailCore ==
    ASSUME Core, NEW f \in Fds, NEW c \in Conn, NEW close \in BOOLEAN,
           Fail(f, c, close), UNCHANGED <<drain, world, pool, jobs>>,
           Replays(c), c.inflight_held = conn[f].inflight_held,
           Target(c) = Target(conn[f])
    PROVE  Core'
<1>1. Sound'
  BY FailSound DEF Core
<1>2. conn \in [Fds -> Conn] /\ conn' \in [Fds -> Conn]
  BY <1>1 DEF Core, Sound, Shape, TableShape
<1>3. \A g \in Fds : conn'[g] = IF g \in Dropped(c) THEN NewConn
                                ELSE [conn EXCEPT ![f] = Refused(c, close)][g]
  BY DEF Fail, Close
<1>4. /\ conn'[f] \in {NewConn, Refused(c, close)}
      /\ \A g \in Fds \ {f} : conn'[g] \in {conn[g], NewConn}
  BY <1>2, <1>3
<1>5. Settled(conn'[f]) /\ ~conn'[f].inflight_held
  BY <1>4, RefusedSettled, NewConnSettled
<1>6. inflight' = Released(conn[f])
  BY DEF Fail, Released
<1>7. Goto("drive", f) /\ Ready(conn'[f], "drive") /\ "drive" \in Steps
  BY Names DEF Fail, Ready
<1>8. AttemptInv'
  BY <1>2, <1>4, <1>5, <1>6, <1>7, AttemptKept DEF Balances
<1> QED
  BY <1>1, <1>8 DEF Core

\* What the invariant says of one connection.
LEMMA CoreFacts ==
    ASSUME Core, NEW f \in Fds
    PROVE  /\ conn[f] \in Conn /\ inflight \in [Endpoints -> Int]
           /\ Settled(conn[f]) /\ Replays(conn[f])
           /\ \A step \in Steps : At(step, f) => Ready(conn[f], step)
  BY DEF Core, Sound, Shape, TableShape, RestShape, AttemptInv, Settled

\* A read that completes no head leaves the attempt alone.
LEMMA ParseNothingCore ==
    ASSUME Core, NEW f \in Fds, ParseNothing(f)
    PROVE  Core'
<1> DEFINE c == IF conn[f].client_eof THEN [conn[f] EXCEPT !.phase = "Closing"]
                ELSE conn[f]
<1>1. c \in Conn
  BY CoreFacts, SetField, Names
<1>2. Settled(c) /\ c.inflight_held = conn[f].inflight_held /\ Target(c) = Target(conn[f])
  BY CoreFacts DEF Settled, Replays, Target, Conn
<1>3. Ready(c, "drive") /\ Balances(conn[f], c)
  BY <1>2 DEF Ready, Balances, ParseNothing
<1>4. Update(f, c) /\ Goto("drive", f) /\ UNCHANGED <<drain, world, pool, jobs>>
  BY DEF ParseNothing
<1> HIDE DEF c
<1> QED
  BY <1>1, <1>2, <1>3, <1>4, HandlerCore, Names

\* A head that does not parse is answered before there is an attempt.
LEMMA ParseErrorCore ==
    ASSUME Core, NEW f \in Fds, ParseError(f)
    PROVE  Core'
  BY CoreFacts, FailCore DEF ParseError

\* A routed request is told apart here: only one without a body may be replayed.
LEMMA RouteRequestCore ==
    ASSUME Core, NEW f \in Fds, RouteRequest(f)
    PROVE  Core'
<1>1. PICK keep \in BOOLEAN :
         LET c == Parsed(conn[f], keep) IN
         \/ Fail(f, c, FALSE)
         \/ \E first \in Endpoints :
              /\ Update(f, [c EXCEPT !.inbox = "none", !.phase = "Exchanging",
                                     !.up_outbox = TRUE,
                                     !.endpoint_index = first, !.attempt = 0,
                                     !.targets = Attempts(c.request_body),
                                     !.replayable = c.request_body = "done"])
              /\ Goto("open", f)
              /\ UNCHANGED inflight
  BY DEF RouteRequest
<1> DEFINE c == Parsed(conn[f], keep)
<1>2. c \in Conn
  BY CoreFacts, SetField DEF Parsed
<1>3. /\ Replays(c) /\ ~c.inflight_held /\ c.inflight_held = conn[f].inflight_held
      /\ Target(c) = Target(conn[f]) /\ ~c.committed /\ ~c.pool_retry_used
      /\ ~c.up_writing /\ c.upstream = NoFd
  <2>1. conn[f].phase = "Head"
    BY DEF RouteRequest
  <2>2. /\ ~conn[f].committed /\ ~conn[f].replayable /\ ~conn[f].inflight_held
        /\ conn[f].upstream = NoFd /\ ~conn[f].up_writing /\ Replays(conn[f])
    BY <2>1, CoreFacts DEF Settled
  <2>3. /\ c.committed = conn[f].committed /\ c.replayable = conn[f].replayable
        /\ c.inflight_held = conn[f].inflight_held /\ c.upstream = conn[f].upstream
        /\ c.up_writing = conn[f].up_writing /\ c.targets = conn[f].targets
        /\ c.attempt = conn[f].attempt /\ c.pool_retry_used = conn[f].pool_retry_used
        /\ c.endpoint_index = conn[f].endpoint_index
    BY CoreFacts DEF Parsed, Conn
  <2> HIDE DEF c
  <2> QED
    BY <2>2, <2>3 DEF Replays, Target
<1>4. /\ Attempts(c.request_body) \in 0 .. NEndpoints
      /\ Attempts(c.request_body) > 1 => c.request_body = "done"
  BY SizesAssumption DEF Attempts
<1>5. 0 \in Endpoints
  BY SizesAssumption DEF Endpoints
<1>6. UNCHANGED <<drain, world, pool, jobs>>
  BY DEF RouteRequest
<1> HIDE DEF c
<1>7. CASE Fail(f, c, FALSE)
  BY <1>2, <1>3, <1>6, <1>7, FailCore
<1>8. ASSUME NEW first \in Endpoints,
             Update(f, [c EXCEPT !.inbox = "none", !.phase = "Exchanging",
                                 !.up_outbox = TRUE,
                                 !.endpoint_index = first, !.attempt = 0,
                                 !.targets = Attempts(c.request_body),
                                 !.replayable = c.request_body = "done"]),
             Goto("open", f), UNCHANGED inflight
      PROVE  Core'
  <2> DEFINE d == [c EXCEPT !.inbox = "none", !.phase = "Exchanging",
                            !.up_outbox = TRUE,
                            !.endpoint_index = first, !.attempt = 0,
                            !.targets = Attempts(c.request_body),
                            !.replayable = c.request_body = "done"]
  <2>1. d \in Conn
    <3> DEFINE x == [c EXCEPT !.inbox = "none", !.phase = "Exchanging",
                              !.up_outbox = TRUE]
               y == [x EXCEPT !.endpoint_index = first, !.attempt = 0,
                              !.targets = Attempts(c.request_body),
                              !.replayable = c.request_body = "done"]
    <3>1. d = y
      OBVIOUS
    <3>2. "Exchanging" \in Phase
      BY Names
    <3>3. x \in Conn
      BY <1>2, <3>2, SetField
    <3> HIDE DEF x
    <3>4. y \in Conn
      BY <3>3, <1>4, <1>5, SetField
    <3> QED
      BY <3>1, <3>4
  <2>2. /\ d.phase = "Exchanging" /\ ~d.committed /\ ~d.up_writing /\ d.upstream = NoFd
        /\ ~d.inflight_held /\ ~d.pool_retry_used /\ d.attempt = 0
        /\ d.targets = Attempts(c.request_body) /\ d.request_body = c.request_body
        /\ d.replayable <=> c.request_body = "done"
    BY <1>2, <1>3 DEF Conn
  <2> HIDE DEF d
  <2>3. Settled(d) /\ Ready(d, "open")
    BY <2>2, <1>4 DEF Settled, Replays, Ready
  <2>4. Balances(conn[f], d)
    BY <2>2, <1>8 DEF Balances
  <2> QED
    BY <2>1, <2>3, <2>4, <1>6, <1>8, HandlerCore, Names DEF d
<1> QED
  BY <1>1, <1>7, <1>8 DEF c

\* The connection d becomes c within one attempt of one request.
SameAttempt(d, c) ==
    /\ c.replayable <=> d.replayable
    /\ c.inflight_held <=> d.inflight_held
    /\ c.pool_retry_used <=> d.pool_retry_used
    /\ c.targets = d.targets /\ c.attempt = d.attempt
    /\ c.endpoint_index = d.endpoint_index
    /\ c.request_body \in {d.request_body, "done"}
    /\ c.phase = "Head" => /\ d.phase = "Head" /\ c.upstream = d.upstream
                           /\ c.up_writing => d.up_writing
                           /\ c.committed => d.committed

\* A change that leaves the attempt alone keeps what is known of it.
LEMMA SameAttemptFacts ==
    ASSUME NEW c, NEW d, SameAttempt(d, c)
    PROVE  /\ Replays(d) => Replays(c)
           /\ Settled(d) => Settled(c)
           /\ Target(c) = Target(d)
           /\ inflight' = inflight => Balances(d, c)
<1>1. Target(c) = Target(d)
  BY DEF SameAttempt, Target
<1>2. Replays(d) => Replays(c)
  BY DEF SameAttempt, Replays
<1>3. Settled(d) => Settled(c)
  BY <1>2 DEF SameAttempt, Settled
<1> QED
  BY <1>1, <1>2, <1>3 DEF SameAttempt, Balances

\* A handler step within one attempt.
LEMMA QuietCore ==
    ASSUME Core, NEW f \in Fds, NEW c \in Conn, NEW step \in Steps, Update(f, c),
           Goto(step, f), UNCHANGED <<drain, world, pool, jobs, inflight>>,
           SameAttempt(conn[f], c), Ready(c, step)
    PROVE  Core'
  BY CoreFacts, SameAttemptFacts, HandlerCore

\* An upstream's end of stream leaves the attempt to the next step.
LEMMA UpstreamEofCore ==
    ASSUME Core, NEW f \in Fds, UpstreamEof(f)
    PROVE  Core'
<1> DEFINE c == conn[f]
           tunnel == [c EXCEPT !.upstream_eof = TRUE]
           ended == [c EXCEPT !.outbox = @ \/ c.up_inbox # "none",
                              !.up_inbox = "none", !.response_body = "done",
                              !.upstream_keep_alive = FALSE]
<1>1. c \in Conn /\ tunnel \in Conn /\ ended \in Conn
  BY CoreFacts, SetField
<1>2. SameAttempt(c, c) /\ SameAttempt(c, tunnel) /\ SameAttempt(c, ended)
  BY <1>1 DEF SameAttempt, Conn
<1>3. \A d : Ready(d, "advance") /\ Ready(d, "finish") /\ Ready(d, "failed")
  BY DEF Ready
<1>4. UNCHANGED <<drain, world, pool, jobs, inflight>>
  BY DEF UpstreamEof
<1>5. \/ Update(f, tunnel) /\ Goto("advance", f)
      \/ Update(f, ended) /\ Goto("finish", f)
      \/ Update(f, c) /\ Goto("failed", f)
  BY DEF UpstreamEof
<1> HIDE DEF c, tunnel, ended
<1> QED
  BY <1>1, <1>2, <1>3, <1>4, <1>5, QuietCore, Names DEF c

\* A body that is sent, or does not parse, leaves the attempt or ends it.
LEMMA PumpRequestBodyCore ==
    ASSUME Core, NEW f \in Fds, PumpRequestBody(f)
    PROVE  Core'
<1> DEFINE c == conn[f]
           sent == [c EXCEPT !.inbox = "none", !.request_body = "done",
                             !.up_outbox = TRUE]
<1>1. c \in Conn /\ sent \in Conn
  BY CoreFacts, SetField
<1>2. SameAttempt(c, sent) /\ Ready(sent, "advance")
  BY <1>1 DEF SameAttempt, Ready, Conn
<1>3. UNCHANGED <<drain, world, pool, jobs>>
  BY DEF PumpRequestBody
<1>4. \/ Update(f, sent) /\ Goto("advance", f) /\ UNCHANGED inflight
      \/ Fail(f, c, TRUE)
  BY DEF PumpRequestBody
<1> HIDE DEF sent
<1> QED
  BY <1>1, <1>2, <1>3, <1>4, CoreFacts, QuietCore, FailCore, Names

\* With nothing to relay the attempt stays.
LEMMA PumpNothingCore ==
    ASSUME Core, NEW f \in Fds, PumpNothing(f)
    PROVE  Core'
<1>1. Goto("drive", f)
      /\ UNCHANGED <<table, drain_inflight, drain, world, pool, jobs, inflight>>
  BY DEF PumpNothing
<1>2. Sound'
  <2>1. TableShape' /\ BumpInv'
    BY <1>1 DEF Core, Sound, Shape, TableShape, BumpInv, table
  <2> QED
    BY <2>1, <1>1, RestKept, GotoShape, CoreFacts, Names DEF Core, Sound, Shape
<1>3. conn' = conn /\ inflight' = inflight
  BY <1>1 DEF table
<1>4. Ready(conn'[f], "drive") /\ Balances(conn[f], conn'[f])
  BY <1>3 DEF Ready, Balances
<1>5. conn' \in [Fds -> Conn]
  BY <1>2 DEF Sound, Shape, TableShape
<1>6. AttemptInv'
  BY <1>1, <1>3, <1>4, <1>5, AttemptKept, CoreFacts, Names
<1> QED
  BY <1>2, <1>6 DEF Core

\* The connection once the response's head is relayed.
LEMMA AnsweredType ==
    ASSUME NEW c \in Conn, NEW keep \in BOOLEAN, NEW stays \in BOOLEAN,
           NEW left \in {"none", "rest", "restMore", "extra", "garbage"} \cup Responses,
           NEW body \in {"done", "more", "until-close"}
    PROVE  [c EXCEPT !.up_inbox = left, !.response_body = body,
                     !.upstream_keep_alive = keep, !.client_keep_alive = stays,
                     !.outbox = TRUE, !.phase = "Relaying",
                     !.response_head_seen = TRUE, !.committed = TRUE,
                     !.deadline = TRUE] \in Conn
<1> DEFINE a == [c EXCEPT !.up_inbox = left, !.response_body = body,
                          !.upstream_keep_alive = keep, !.client_keep_alive = stays]
           b == [a EXCEPT !.outbox = TRUE, !.phase = "Relaying",
                          !.response_head_seen = TRUE, !.committed = TRUE,
                          !.deadline = TRUE]
<1>1. a \in Conn
  BY SetField
<1> HIDE DEF a
<1>2. b \in Conn
  BY <1>1, SetField DEF Phase
<1> QED
  BY <1>2 DEF a

\* A relayed head commits the request.
LEMMA RelayHeadCore ==
    ASSUME Core, NEW f \in Fds, RelayHead(f)
    PROVE  Core'
<1> DEFINE c == conn[f]
           whole == c.up_inbox \in {"full", "fullMore"}
           ends == c.up_inbox = "close"
           left == IF c.up_inbox = "fullMore" THEN "extra" ELSE "none"
           body == IF whole THEN "done" ELSE IF ends THEN "until-close" ELSE "more"
           stays == c.client_keep_alive /\ ~ends
           d(keep) == [c EXCEPT !.up_inbox = left, !.response_body = body,
                                !.upstream_keep_alive = keep,
                                !.client_keep_alive = stays,
                                !.outbox = TRUE, !.phase = "Relaying",
                                !.response_head_seen = TRUE, !.committed = TRUE,
                                !.deadline = TRUE]
<1>1. PICK keep \in BOOLEAN : Update(f, d(keep))
  <2>1. PICK k \in BOOLEAN : Update(f, d(k /\ ~ends))
    BY DEF RelayHead
  <2>2. (k /\ ~ends) \in BOOLEAN
    OBVIOUS
  <2> QED
    BY <2>1, <2>2
<1>2. /\ left \in {"none", "rest", "restMore", "extra", "garbage"} \cup Responses
      /\ body \in {"done", "more", "until-close"} /\ stays \in BOOLEAN
  BY CoreFacts DEF Conn
<1> HIDE DEF left, body, stays
<1>3. c \in Conn /\ "Relaying" \in Phase
  BY CoreFacts, Names
<1> HIDE DEF c
<1>4. d(keep) \in Conn
  BY <1>2, <1>3, AnsweredType
<1>5. SameAttempt(c, d(keep))
  BY <1>3 DEF SameAttempt, Conn
<1>6. Ready(d(keep), "advance") /\ Ready(d(keep), "finish")
  BY DEF Ready
<1>7. /\ Goto("finish", f) \/ Goto("advance", f)
      /\ UNCHANGED <<drain, world, pool, jobs, inflight>>
  BY DEF RelayHead
<1> HIDE DEF d
<1> QED
  BY <1>1, <1>4, <1>5, <1>6, <1>7, QuietCore, Names DEF c

\* A relayed body keeps the attempt.
LEMMA RelayBodyCore ==
    ASSUME Core, NEW f \in Fds, RelayBody(f)
    PROVE  Core'
<1> DEFINE c == conn[f]
           ends == c.response_body = "more"
           d == [c EXCEPT !.up_inbox = IF @ = "restMore" THEN "extra" ELSE "none",
                          !.outbox = TRUE,
                          !.response_body = IF ends THEN "done" ELSE @]
<1>1. c \in Conn /\ c.response_body \in {"done", "more", "until-close"}
  BY CoreFacts DEF Conn
<1>2. d \in Conn
  BY <1>1, SetField
<1>3. SameAttempt(c, d) /\ Ready(d, "advance") /\ Ready(d, "finish")
  BY <1>1 DEF SameAttempt, Ready, Conn
<1>4. /\ Goto("finish", f) \/ Goto("advance", f)
      /\ Update(f, d)
      /\ UNCHANGED <<drain, world, pool, jobs, inflight>>
  BY DEF RelayBody
<1> HIDE DEF d
<1> QED
  BY <1>2, <1>3, <1>4, QuietCore, Names

\* An answer that does not parse ends the attempt.
LEMMA UpstreamGarbageCore ==
    ASSUME Core, NEW f \in Fds, UpstreamGarbage(f)
    PROVE  Core'
<1> DEFINE c == conn[f]
           d == [c EXCEPT !.committed = TRUE]
<1>1. c \in Conn /\ d \in Conn
  BY CoreFacts, SetField
<1>2. /\ Replays(d) /\ d.inflight_held = c.inflight_held /\ Target(d) = Target(c)
      /\ SameAttempt(c, c) /\ Ready(c, "failed")
  BY <1>1, CoreFacts DEF Replays, Target, SameAttempt, Ready, Conn
<1>3. UNCHANGED <<drain, world, pool, jobs>>
  BY DEF UpstreamGarbage
<1>4. \/ Update(f, c) /\ Goto("failed", f) /\ UNCHANGED inflight
      \/ Fail(f, d, TRUE)
  BY DEF UpstreamGarbage
<1> HIDE DEF d
<1> QED
  BY <1>1, <1>2, <1>3, <1>4, QuietCore, FailCore, Names

\* A tunnel keeps its hold.
LEMMA BeginTunnelCore ==
    ASSUME Core, NEW f \in Fds, BeginTunnel(f)
    PROVE  Core'
<1> DEFINE c == conn[f]
           more == c.up_outbox \/ c.inbox # "none"
           d == [c EXCEPT !.outbox = TRUE, !.up_inbox = "none",
                          !.up_outbox = more,
                          !.inbox = "none", !.response_head_seen = TRUE,
                          !.committed = TRUE, !.phase = "Tunnel",
                          !.deadline = FALSE,
                          !.upstream_keep_alive = FALSE]
<1>1. UNCHANGED <<drain, world, pool, jobs>>
  BY DEF BeginTunnel
<1>2. \/ Update(f, d) /\ Goto("advance", f) /\ UNCHANGED inflight
      \/ Fail(f, c, TRUE)
  BY DEF BeginTunnel
<1>3. c \in Conn /\ Replays(c) /\ more \in BOOLEAN /\ "Tunnel" \in Phase
  BY CoreFacts, Names
<1> HIDE DEF c, more
<1>4. d \in Conn
  BY <1>3, SetField
<1>5. SameAttempt(c, d) /\ Ready(d, "advance")
  BY <1>3 DEF SameAttempt, Ready, Conn
<1> HIDE DEF d
<1> QED
  BY <1>1, <1>2, <1>3, <1>4, <1>5, QuietCore, FailCore, Names DEF c

\* A tunnel's bytes leave the attempt alone.
LEMMA PumpTunnelCore ==
    ASSUME Core, NEW f \in Fds, PumpTunnel(f)
    PROVE  Core'
<1> DEFINE c == conn[f]
           out == c.up_outbox \/ c.inbox # "none"
           in == c.outbox \/ c.up_inbox # "none"
           d == [c EXCEPT !.up_outbox = out, !.inbox = "none",
                          !.outbox = in, !.up_inbox = "none"]
           over == [d EXCEPT !.phase = "Closing", !.outbox = d.tls]
<1>1. UNCHANGED <<drain, world, pool, jobs, inflight>>
  BY DEF PumpTunnel
<1>2. /\ Update(f, d) \/ Update(f, over)
      /\ Goto("advance", f) \/ Goto("drive", f)
  BY DEF PumpTunnel
<1>3. c \in Conn /\ out \in BOOLEAN /\ in \in BOOLEAN /\ "Closing" \in Phase
  BY CoreFacts, Names
<1> HIDE DEF c, out, in
<1>4. d \in Conn
  BY <1>3, SetField
<1>5. SameAttempt(c, d)
  BY <1>3 DEF SameAttempt, Conn
<1>6. d.tls \in BOOLEAN
  BY <1>4 DEF Conn
<1> HIDE DEF d
<1>7. over \in Conn
  BY <1>3, <1>4, <1>6, SetField
<1>8. SameAttempt(c, over)
  BY <1>4, <1>5 DEF SameAttempt, Conn
<1>9. \A x : Ready(x, "advance") /\ Ready(x, "drive")
  BY DEF Ready
<1> HIDE DEF over
<1> QED
  BY <1>1, <1>2, <1>4, <1>5, <1>7, <1>8, <1>9, QuietCore, Names DEF c

\* A step that closes some descriptors and changes the connection on f.
LEMMA CloseCore ==
    ASSUME Core, NEW f \in Fds, NEW closed \in SUBSET Fds, NEW s \in [Fds -> Slot],
           NEW c \in Conn, NEW os \in SUBSET Op, NEW ks \in SUBSET Fds,
           \A o \in os : Counted(o, generations),
           Close(closed, s, [conn EXCEPT ![f] = c], os, ks), RestShape',
           \/ cur' = Wait
           \/ \E step \in Steps : /\ Goto(step, f) /\ Ready(c, step)
                                  /\ f \in closed => Ready(NewConn, step),
           Settled(c), Balances(conn[f], c),
           f \in closed => Balances(conn[f], NewConn)
    PROVE  Core'
<1>1. conn \in [Fds -> Conn]
  BY DEF Core, Sound, Shape, TableShape
<1>2. [conn EXCEPT ![f] = c] \in [Fds -> Conn]
  BY <1>1
<1>3. TableShape' /\ BumpInv'
  BY <1>2, CloseShape DEF Core, Sound, Shape
<1>4. \A g \in Fds : conn'[g] = IF g \in closed THEN NewConn
                                ELSE [conn EXCEPT ![f] = c][g]
  BY DEF Close
<1>5. /\ conn'[f] = IF f \in closed THEN NewConn ELSE c
      /\ \A g \in Fds \ {f} : conn'[g] \in {conn[g], NewConn}
  BY <1>1, <1>4
<1>6. Settled(conn'[f]) /\ Balances(conn[f], conn'[f])
  BY <1>5, NewConnSettled
<1>7. \/ cur' = Wait
      \/ \E step \in Steps : Goto(step, f) /\ Ready(conn'[f], step)
  <2>1. CASE cur' = Wait
    BY <2>1
  <2>2. CASE cur' # Wait
    <3>1. PICK step \in Steps : /\ Goto(step, f) /\ Ready(c, step)
                                /\ f \in closed => Ready(NewConn, step)
      BY <2>2
    <3>2. f \in closed => conn'[f] = NewConn
      BY <1>5
    <3>3. f \notin closed => conn'[f] = c
      BY <1>5
    <3> QED
      BY <3>1, <3>2, <3>3
  <2> QED
    BY <2>1, <2>2
<1>8. conn' \in [Fds -> Conn]
  BY <1>3 DEF TableShape
<1>9. AttemptInv'
  BY <1>5, <1>6, <1>7, <1>8, AttemptKept
<1> QED
  BY <1>3, <1>9 DEF Core, Sound, Shape

\* A step of the handler of f that changes slots and operations too.
LEMMA MoveCore ==
    ASSUME Core, NEW f \in Fds, NEW s \in [Fds -> Slot], NEW c \in Conn,
           NEW os \in SUBSET Op, NEW ks \in SUBSET Fds, NEW step \in Steps,
           \A o \in os : Counted(o, generations),
           Close({}, s, [conn EXCEPT ![f] = c], os, ks), RestShape',
           Goto(step, f), Ready(c, step), Settled(c), Balances(conn[f], c)
    PROVE  Core'
<1>1. {} \in SUBSET Fds /\ f \notin {}
  OBVIOUS
<1>2. \E x \in Steps : /\ Goto(x, f) /\ Ready(c, x)
                       /\ f \in {} => Ready(NewConn, x)
  BY <1>1
<1> QED
  BY <1>1, <1>2, CloseCore

\* An empty entry has no upstream.
LEMMA NewConnReady == NewConn.upstream = NoFd
  BY DEF NewConn

\* A failed upstream leaves the hold to the step that follows.
LEMMA UpstreamFailedCore ==
    ASSUME Core, NEW f \in Fds, UpstreamFailed(f)
    PROVE  Core'
<1> DEFINE c == conn[f]
           d == [c EXCEPT !.upstream = NoFd]
           over == [d EXCEPT !.phase = "Closing"]
           closed == IF c.upstream = NoFd THEN {} ELSE {c.upstream}
<1>1. \/ /\ Close(closed, slot, [conn EXCEPT ![f] = over], ops, open)
         /\ Goto("drive", f)
      \/ /\ Close(closed, slot, [conn EXCEPT ![f] = d], ops, open)
         /\ Goto("retry", f)
  BY DEF UpstreamFailed
<1>2. UNCHANGED <<drain, world, pool, jobs, inflight>>
  BY DEF UpstreamFailed
<1>3. /\ c \in Conn /\ Settled(c) /\ closed \in SUBSET Fds /\ "Closing" \in Phase
      /\ slot \in [Fds -> Slot] /\ ops \in SUBSET Op /\ open \in SUBSET Fds
      /\ \A o \in ops : Counted(o, generations)
      /\ inflight \in [Endpoints -> Int]
  BY CoreFacts, LetGo, Names DEF Core, Sound, Shape, TableShape, BumpInv
<1> HIDE DEF c, closed
<1>4. d \in Conn
  BY <1>3, SetField
<1>5. over \in Conn
  BY <1>3, <1>4, SetField
<1>6. SameAttempt(c, d) /\ SameAttempt(c, over) /\ d.upstream = NoFd
  BY <1>3 DEF SameAttempt, Conn, Settled
<1> HIDE DEF d, over
<1>7. Settled(d) /\ Settled(over) /\ Balances(c, d) /\ Balances(c, over)
  BY <1>2, <1>3, <1>6, SameAttemptFacts
<1>8. Balances(c, NewConn)
  BY <1>2, NewConnSettled DEF Balances
<1>9. /\ Ready(over, "drive") /\ Ready(d, "retry")
      /\ Ready(NewConn, "drive") /\ Ready(NewConn, "retry")
  BY <1>6, NewConnReady DEF Ready
<1>10. RestShape'
  BY <1>1, <1>2, <1>3, GotoShape, RestKept, Names DEF Core, Sound, Shape
<1> QED
  BY <1>1, <1>3, <1>4, <1>5, <1>7, <1>8, <1>9, <1>10, CloseCore, Names DEF c

\* Another attempt, at the same endpoint or the next, gives the hold back first
\* and is for a request that may be replayed.
LEMMA RetryOrFailCore ==
    ASSUME Core, NEW f \in Fds, RetryOrFail(f)
    PROVE  Core'
<1> DEFINE b == conn[f]
           c == [b EXCEPT !.inflight_held = FALSE]
           p == [c EXCEPT !.from_pool = FALSE, !.pool_retry_used = TRUE]
           q == [c EXCEPT !.attempt = @ + 1]
<1>1. UNCHANGED <<drain, world, pool, jobs>>
  BY DEF RetryOrFail
<1>2. \/ /\ PooledRace(c) /\ Update(f, Resend(p))
         /\ inflight' = Released(b) /\ Goto("open", f)
      \/ /\ CanRetry(c) /\ Update(f, Resend(q))
         /\ inflight' = Released(b) /\ Goto("open", f)
      \/ Fail(f, b, FALSE)
  BY DEF RetryOrFail
<1>3. b \in Conn /\ Replays(b) /\ b.upstream = NoFd
  BY CoreFacts, Names DEF RetryOrFail, Ready
<1> HIDE DEF b
<1>4. c \in Conn
  BY <1>3, SetField
<1>5. /\ ~c.inflight_held /\ Replays(c) /\ c.upstream = NoFd
      /\ c.attempt \in Endpoints /\ c.targets \in 0 .. NEndpoints
  BY <1>3, <1>4 DEF Replays, Conn
<1> HIDE DEF c
<1>6. ASSUME NEW x \in Conn, Replays(x), ~x.inflight_held, ~x.committed,
             x.upstream = NoFd
      PROVE  /\ Resend(x) \in Conn /\ Settled(Resend(x))
             /\ Ready(Resend(x), "open") /\ ~Resend(x).inflight_held
  <2>1. /\ Resend(x).phase = "Exchanging" /\ ~Resend(x).committed
        /\ ~Resend(x).up_writing /\ Resend(x).upstream = NoFd
        /\ ~Resend(x).inflight_held
    BY <1>6 DEF Resend, Conn
  <2>2. Replays(Resend(x))
    BY <1>6 DEF Resend, Conn, Replays
  <2> QED
    BY <2>1, <2>2, MadeConns DEF Settled, Ready
<1>7. ASSUME PooledRace(c)
      PROVE  p \in Conn /\ Replays(p) /\ ~p.inflight_held /\ ~p.committed
             /\ p.upstream = NoFd
  <2>1. c.replayable /\ ~c.committed
    BY <1>7 DEF PooledRace
  <2>2. p \in Conn
    BY <1>4, SetField
  <2> QED
    BY <2>1, <2>2, <1>4, <1>5 DEF Replays, Conn
<1>8. ASSUME CanRetry(c)
      PROVE  q \in Conn /\ Replays(q) /\ ~q.inflight_held /\ ~q.committed
             /\ q.upstream = NoFd
  <2>1. ~c.committed /\ c.attempt + 1 < c.targets
    BY <1>8 DEF CanRetry
  <2>2. c.attempt + 1 \in Endpoints /\ c.targets > 1
    BY <2>1, <1>5, SizesAssumption DEF Endpoints
  <2>3. q \in Conn
    BY <2>2, <1>4, SetField
  <2> QED
    BY <2>1, <2>2, <2>3, <1>4, <1>5 DEF Replays, Conn
<1> HIDE DEF p, q
<1>9. CASE Fail(f, b, FALSE)
  BY <1>1, <1>3, <1>9, FailCore DEF b
<1>10. ASSUME NEW x \in Conn, Replays(x), ~x.inflight_held, ~x.committed,
              x.upstream = NoFd, Update(f, Resend(x)), inflight' = Released(b),
              Goto("open", f)
       PROVE  Core'
  <2>1. /\ Resend(x) \in Conn /\ Settled(Resend(x))
        /\ Ready(Resend(x), "open") /\ ~Resend(x).inflight_held
    BY <1>6, <1>10
  <2> QED
    BY <2>1, <1>1, <1>10, HandlerCore, Names DEF Balances, b
<1> QED
  BY <1>2, <1>7, <1>8, <1>9, <1>10

\* A connection handed off had no attempt.
LEMMA HandOffCore ==
    ASSUME Core, NEW f \in Fds, HandOff(f)
    PROVE  Core'
<1>1. /\ slot \in [Fds -> Slot] /\ conn \in [Fds -> Conn] /\ generations \in Gens
      /\ ops \in SUBSET Op /\ \A o \in ops : Counted(o, generations)
  BY DEF Core, Sound, Shape, TableShape, BumpInv, Gens
<1>2. /\ slot' = [slot EXCEPT ![f] = Empty] /\ conn' = [conn EXCEPT ![f] = NewConn]
      /\ ops' = Aged(ops, {f}) /\ away' = away \cup {f} /\ cur' = Wait
      /\ UNCHANGED <<open, drain_inflight, drain, listen, midbody, counts, pool,
                     jobs, inflight>>
  BY DEF HandOff
<1>3. generations' = Bumped(generations, {f})
  BY <1>1 DEF HandOff, Bumped, Gens
<1>4. /\ ops' \in SUBSET Op /\ generations' \in Gens
      /\ \A o \in ops' : Counted(o, generations')
  BY <1>1, <1>2, <1>3, AgedFacts
<1>5. slot' \in [Fds -> Slot] /\ conn' \in [Fds -> Conn]
  BY <1>1, <1>2, SlotKinds, NewConnType
<1>6. TableShape' /\ BumpInv'
  BY <1>2, <1>4, <1>5 DEF Core, Sound, Shape, TableShape, BumpInv, Gens
<1>7. RestShape'
  BY <1>2, WaitShape DEF Core, Sound, Shape, RestShape, drain, counts
<1>8. /\ conn'[f] = NewConn
      /\ \A g \in Fds \ {f} : conn'[g] \in {conn[g], NewConn}
  BY <1>1, <1>2
<1>9. Settled(conn'[f]) /\ Balances(conn[f], conn'[f])
  BY <1>2, <1>8, NewConnSettled DEF Balances
<1>10. AttemptInv'
  BY <1>2, <1>5, <1>8, <1>9, AttemptKept
<1> QED
  BY <1>6, <1>7, <1>10 DEF Core, Sound, Shape

\* What the table's variables are, for a step that closes.
LEMMA TableFacts ==
    ASSUME Core
    PROVE  /\ slot \in [Fds -> Slot] /\ conn \in [Fds -> Conn]
           /\ generations \in Gens /\ ops \in SUBSET Op
           /\ \A o \in ops : Counted(o, generations)
           /\ open \in SUBSET Fds /\ away \in SUBSET Fds /\ jobs \in SUBSET Fds
           /\ pool \in [Endpoints -> Seq(Fds)]
           /\ inflight \in [Endpoints -> Int]
           /\ RestShape /\ TableShape /\ BumpInv
  BY DEF Core, Sound, Shape, TableShape, RestShape, BumpInv, Gens

\* Taking the last idle upstream of an endpoint.
LEMMA PoolTaken ==
    ASSUME NEW q \in Seq(Fds), q # <<>>
    PROVE  /\ q[Len(q)] \in Fds /\ SubSeq(q, 1, Len(q) - 1) \in Seq(Fds)
           /\ Len(q) \in Nat \ {0} /\ Len(SubSeq(q, 1, Len(q) - 1)) = Len(q) - 1
           /\ \A i \in 1 .. Len(q) - 1 : SubSeq(q, 1, Len(q) - 1)[i] = q[i]
<1>1. Len(q) \in Nat \ {0}
  BY EmptySeq
<1>2. \A i \in 1 .. Len(q) : q[i] \in Fds
  OBVIOUS
<1>3. \A i \in 1 .. Len(q) - 1 : q[i] \in Fds
  BY <1>1, <1>2
<1>4. Len(q) - 1 \in Int /\ 1 \in Int
  BY <1>1
<1> DEFINE r == SubSeq(q, 1, Len(q) - 1)
<1>5. /\ r \in Seq(Fds) /\ Len(r) = IF 1 <= Len(q) - 1 THEN Len(q) - 1 - 1 + 1 ELSE 0
      /\ \A i \in 1 .. Len(q) - 1 - 1 + 1 : r[i] = q[1 + i - 1]
  BY <1>3, <1>4, SubSeqProperties
<1> HIDE DEF r
<1>6. Len(r) = Len(q) - 1
  <2>1. ASSUME NEW n \in Nat \ {0}, NEW m,
               m = IF 1 <= n - 1 THEN n - 1 - 1 + 1 ELSE 0
        PROVE  m = n - 1
    BY <2>1
  <2> QED
    BY <2>1, <1>1, <1>5
<1>7. Len(q) \in 1 .. Len(q)
  BY <1>1
<1>8. ASSUME NEW i \in 1 .. Len(q) - 1 PROVE r[i] = q[i]
  <2>1. i \in 1 .. Len(q) - 1 - 1 + 1 /\ 1 + i - 1 = i
    BY <1>1
  <2> QED
    BY <2>1, <1>5
<1> QED
  BY <1>1, <1>2, <1>5, <1>6, <1>7, <1>8 DEF r

\* An attempt takes its hold when it is dialled or drawn from the pool.
LEMMA OpenUpstreamCore ==
    ASSUME Core, NEW f \in Fds, OpenUpstream(f)
    PROVE  Core'
<1> DEFINE b == conn[f]
           e == Target(b)
           c == [b EXCEPT !.deadline = TRUE, !.inflight_held = TRUE]
           taken(u) == [c EXCEPT !.upstream = u, !.up_reading = TRUE,
                                 !.up_ready = TRUE, !.from_pool = TRUE,
                                 !.phase = "Exchanging"]
           phase(x) == IF x THEN "Exchanging" ELSE "Connecting"
           lent(x) == c.up_borrowed \/ ~x
           dialled(u, x) == [c EXCEPT !.upstream = u, !.up_reading = FALSE,
                                      !.up_ready = x, !.from_pool = FALSE,
                                      !.up_borrowed = lent(x), !.phase = phase(x)]
<1>1. /\ b \in Conn /\ Settled(b) /\ Ready(b, "open")
  BY CoreFacts, Names DEF OpenUpstream
<1>2. /\ inflight' = Held(b) /\ drain' = drain /\ UNCHANGED <<away, listen, midbody>>
      /\ UNCHANGED <<requests, refusals>>
  BY DEF OpenUpstream
<1>3. \/ /\ pool[e] # <<>>
         /\ pool' = [pool EXCEPT ![e] = SubSeq(@, 1, Len(@) - 1)]
         /\ Close({}, [slot EXCEPT ![pool[e][Len(pool[e])]] = Upstream(f)],
                  [conn EXCEPT ![f] = taken(pool[e][Len(pool[e])])], ops, open)
         /\ Goto("advance", f) /\ UNCHANGED <<jobs, opens>>
      \/ /\ pool' = pool /\ Update(f, c) /\ Goto("retry", f)
         /\ UNCHANGED <<jobs, opens>>
      \/ \E u \in Fds \ open, x \in BOOLEAN :
            /\ pool' = pool /\ opens < MaxOpens /\ opens' = opens + 1
            /\ Close({}, [slot EXCEPT ![u] = Upstream(f)],
                     [conn EXCEPT ![f] = dialled(u, x)], ops, open \cup {u})
            /\ jobs' = IF x THEN jobs ELSE jobs \cup {u}
            /\ Goto(IF x THEN "advance" ELSE "drive", f)
  BY DEF OpenUpstream
<1>4. e \in Endpoints /\ inflight' \in [Endpoints -> Int]
  BY <1>1, <1>2, TargetRange, CountShape, TableFacts
<1>5. /\ \A x : phase(x) \in Phase /\ phase(x) # "Head"
      /\ "Exchanging" \in Phase
  BY Names
<1> HIDE DEF b, phase
<1>6. c \in Conn
  BY <1>1, SetField
<1>7. /\ c.replayable <=> b.replayable
      /\ c.pool_retry_used <=> b.pool_retry_used
      /\ c.targets = b.targets /\ c.attempt = b.attempt
      /\ c.endpoint_index = b.endpoint_index /\ c.request_body = b.request_body
      /\ c.upstream = NoFd /\ c.phase = "Exchanging" /\ c.up_borrowed \in BOOLEAN
  BY <1>1 DEF Ready, Conn
<1> HIDE DEF c
<1>8. Settled(c) /\ Target(c) = Target(b)
  BY <1>1, <1>7 DEF Settled, Replays, Target
<1>9. \A x : lent(x) \in BOOLEAN
  BY <1>7
<1> HIDE DEF lent
<1>10. ASSUME NEW u \in Fds, NEW x \in BOOLEAN
       PROVE  dialled(u, x) \in Conn /\ SameAttempt(c, dialled(u, x))
  <2>1. dialled(u, x) \in Conn
    BY <1>5, <1>6, <1>9, SetField
  <2> QED
    BY <2>1, <1>5, <1>6 DEF SameAttempt, Conn
<1>11. ASSUME NEW u \in Fds
       PROVE  taken(u) \in Conn /\ SameAttempt(c, taken(u))
  <2>1. taken(u) \in Conn
    BY <1>5, <1>6, SetField
  <2> QED
    BY <2>1, <1>6 DEF SameAttempt, Conn
<1> HIDE DEF dialled, taken
<1>12. ASSUME NEW d, SameAttempt(c, d) PROVE Settled(d) /\ Balances(b, d)
  BY <1>2, <1>8, <1>12, SameAttemptFacts DEF Balances
<1>13. Balances(b, c)
  BY <1>2, <1>8 DEF Balances
<1>14. CASE /\ pool[e] # <<>>
            /\ pool' = [pool EXCEPT ![e] = SubSeq(@, 1, Len(@) - 1)]
            /\ Close({}, [slot EXCEPT ![pool[e][Len(pool[e])]] = Upstream(f)],
                     [conn EXCEPT ![f] = taken(pool[e][Len(pool[e])])], ops, open)
            /\ Goto("advance", f) /\ UNCHANGED <<jobs, opens>>
  <2> DEFINE u == pool[e][Len(pool[e])]
  <2>1. u \in Fds /\ pool' \in [Endpoints -> Seq(Fds)]
    BY <1>4, <1>14, PoolTaken, TableFacts
  <2>2. [slot EXCEPT ![u] = Upstream(f)] \in [Fds -> Slot]
    BY <2>1, TableFacts, SlotKinds
  <2>3. RestShape'
    BY <2>1, <1>2, <1>4, <1>14, GotoShape, Names, TableFacts DEF RestShape, drain
  <2>4. Ready(taken(u), "advance")
    BY DEF Ready
  <2>5. taken(u) \in Conn /\ Settled(taken(u)) /\ Balances(b, taken(u))
    BY <2>1, <1>11, <1>12
  <2> HIDE DEF u
  <2> QED
    BY <2>1, <2>2, <2>3, <2>4, <2>5, <1>14, MoveCore, TableFacts, Names DEF b, u
<1>15. CASE /\ pool' = pool /\ Update(f, c) /\ Goto("retry", f)
            /\ UNCHANGED <<jobs, opens>>
  <2>1. UNCHANGED <<drain, world, pool, jobs>>
    BY <1>2, <1>15 DEF drain, world, counts
  <2>2. Ready(c, "retry")
    BY <1>7 DEF Ready
  <2> QED
    BY <2>1, <2>2, <1>6, <1>8, <1>13, <1>15, HandlerCore, Names DEF b
<1>16. ASSUME NEW u \in Fds \ open, NEW x \in BOOLEAN,
              pool' = pool, opens < MaxOpens, opens' = opens + 1,
              Close({}, [slot EXCEPT ![u] = Upstream(f)],
                    [conn EXCEPT ![f] = dialled(u, x)], ops, open \cup {u}),
              jobs' = IF x THEN jobs ELSE jobs \cup {u},
              Goto(IF x THEN "advance" ELSE "drive", f)
       PROVE  Core'
  <2>1. [slot EXCEPT ![u] = Upstream(f)] \in [Fds -> Slot]
        /\ open \cup {u} \in SUBSET Fds
    BY TableFacts, SlotKinds
  <2>2. jobs' \in SUBSET Fds /\ opens' \in 0 .. MaxOpens
    BY <1>16, TableFacts, SizesAssumption DEF RestShape
  <2>3. PICK step \in Steps : Goto(step, f) /\ step \notin {"open", "retry"}
    BY <1>16, Names
  <2>4. RestShape'
    BY <2>2, <2>3, <1>2, <1>4, <1>16, GotoShape, TableFacts DEF RestShape, drain
  <2>5. Ready(dialled(u, x), step)
    BY <2>3 DEF Ready
  <2>6. dialled(u, x) \in Conn /\ Settled(dialled(u, x)) /\ Balances(b, dialled(u, x))
    BY <1>10, <1>12
  <2> QED
    BY <2>1, <2>3, <2>4, <2>5, <2>6, <1>16, MoveCore, TableFacts DEF b
<1> QED
  BY <1>3, <1>14, <1>15, <1>16

\* A submission carries the generation of its descriptor.
LEMMA SubmitFacts ==
    ASSUME TableShape, NEW k \in Kinds, NEW f \in Fds
    PROVE  /\ Submit(k, f) \in Op /\ Counted(Submit(k, f), generations)
           /\ Submit(k, f).k = k /\ Submit(k, f).fd = f /\ Submit(k, f).age = 0
<1>1. generations[f] \in 0 .. GenModulus - 1
  BY DEF TableShape
<1>2. Submit(k, f) \in Op
  BY <1>1 DEF Submit, Op, Kinds
<1>3. /\ Submit(k, f).k = k /\ Submit(k, f).fd = f /\ Submit(k, f).age = 0
      /\ Submit(k, f).gen = generations[f]
  BY DEF Submit
<1>4. generations[f] + 0 = generations[f]
  BY <1>1
<1> QED
  BY <1>2, <1>3, <1>4 DEF Counted

\* The kinds of operation by name.
LEMMA KindNames ==
    /\ ReadKinds = {"DOWN_READ", "UP_READ", "ADMIN_READ"}
    /\ WriteKinds = {"DOWN_WRITE", "UP_WRITE", "ADMIN_WRITE"}
    /\ Kinds = {"DOWN_READ", "UP_READ", "ADMIN_READ", "DOWN_WRITE", "UP_WRITE",
                "ADMIN_WRITE"}
  BY DEF Kinds, ReadKinds, WriteKinds

\* Refused submissions stay within their bound.
LEMMA RefusesShape ==
    ASSUME RestShape, NEW ok \in BOOLEAN, Refuses(ok)
    PROVE  refusals' \in 0 .. MaxRefusals
  BY SizesAssumption DEF Refuses, RestShape

\* What finish_response makes of the client's connection.
NextRequest(c) ==
    IF c.client_keep_alive
    THEN ResetConn([Detach(c) EXCEPT !.inflight_held = FALSE])
    ELSE [ResetConn([Detach(c) EXCEPT !.inflight_held = FALSE]) EXCEPT
              !.phase = "Closing"]

\* A connection ready for its next request has settled the last.
LEMMA NextRequestFacts ==
    ASSUME NEW c \in Conn
    PROVE  /\ NextRequest(c) \in Conn /\ Settled(NextRequest(c))
           /\ ~NextRequest(c).inflight_held
<1> DEFINE x == [Detach(c) EXCEPT !.inflight_held = FALSE]
           d == ResetConn(x)
           e == [d EXCEPT !.phase = "Closing"]
<1>1. x \in Conn
  BY MadeConns, SetField
<1>2. ~x.inflight_held /\ x.upstream = NoFd /\ ~x.up_writing
  BY DEF Detach, Conn
<1> HIDE DEF x
<1>3. d \in Conn
  BY <1>1, MadeConns
<1>4. /\ ~d.inflight_held /\ ~d.replayable /\ d.targets = 0 /\ d.attempt = 0
      /\ ~d.pool_retry_used /\ ~d.committed /\ d.upstream = NoFd /\ ~d.up_writing
  BY <1>1, <1>2 DEF ResetConn, Conn
<1> HIDE DEF d
<1>5. e \in Conn
  BY <1>3, SetField, Names
<1>6. /\ ~e.inflight_held /\ ~e.replayable /\ e.targets = 0 /\ e.attempt = 0
      /\ ~e.pool_retry_used /\ e.phase = "Closing"
  BY <1>3, <1>4 DEF Conn
<1> HIDE DEF e
<1>7. Settled(d) /\ Settled(e)
  BY <1>4, <1>6 DEF Settled, Replays
<1>8. NextRequest(c) = IF c.client_keep_alive THEN d ELSE e
  BY DEF NextRequest, d, e, x
<1> QED
  BY <1>3, <1>4, <1>5, <1>6, <1>7, <1>8

\* The two ways a response ends: its upstream is pooled, or closed.
LEMMA FinishCases ==
    ASSUME NEW f \in Fds, FinishResponse(f)
    PROVE  LET c == conn[f]
               u == c.upstream
               e == Target(c) IN
           /\ inflight' = Released(c) /\ Goto("advance", f)
           /\ UNCHANGED <<drain, away, listen, midbody, requests, opens, jobs>>
           /\ \E ok \in BOOLEAN : Refuses(ok)
           /\ \/ /\ u # NoFd /\ Reusable(c) /\ PoolTakes(e)
                 /\ pool' = [pool EXCEPT ![e] = Append(@, u)]
                 /\ Close({}, [slot EXCEPT ![u] = Idle(e)],
                          [conn EXCEPT ![f] = NextRequest(c)],
                          IF c.up_reading THEN ops
                          ELSE ops \cup {Submit("UP_READ", u)}, open)
              \/ /\ pool' = pool
                 /\ Close(IF u = NoFd THEN {} ELSE {u}, slot,
                          [conn EXCEPT ![f] = NextRequest(c)], ops, open)
  BY DEF FinishResponse, NextRequest

\* A finished exchange releases its hold.
LEMMA FinishResponseCore ==
    ASSUME Core, NEW f \in Fds, FinishResponse(f)
    PROVE  Core'
<1> DEFINE c == conn[f]
           u == c.upstream
           e == Target(c)
           n == NextRequest(c)
           os == IF c.up_reading THEN ops ELSE ops \cup {Submit("UP_READ", u)}
           closed == IF u = NoFd THEN {} ELSE {u}
<1>1. /\ inflight' = Released(c) /\ Goto("advance", f)
      /\ UNCHANGED <<drain, away, listen, midbody, requests, opens, jobs>>
      /\ \E ok \in BOOLEAN : Refuses(ok)
      /\ \/ /\ u # NoFd
            /\ pool' = [pool EXCEPT ![e] = Append(@, u)]
            /\ Close({}, [slot EXCEPT ![u] = Idle(e)], [conn EXCEPT ![f] = n], os, open)
         \/ /\ pool' = pool
            /\ Close(closed, slot, [conn EXCEPT ![f] = n], ops, open)
  BY FinishCases
<1>2. c \in Conn /\ u \in Fds \cup {NoFd} /\ e \in Endpoints /\ closed \in SUBSET Fds
  BY CoreFacts, LetGo, TargetRange
<1>3. n \in Conn /\ Settled(n) /\ ~n.inflight_held
  BY <1>2, NextRequestFacts
<1>4. Balances(c, n) /\ Balances(c, NewConn)
  BY <1>1, <1>3, NewConnSettled DEF Balances
<1>5. u # NoFd => os \in SUBSET Op /\ \A o \in os : Counted(o, generations)
  BY <1>2, SubmitFacts, TableFacts, KindNames
<1>6. inflight' \in [Endpoints -> Int] /\ refusals' \in 0 .. MaxRefusals
  BY <1>1, <1>2, CountShape, RefusesShape, TableFacts
<1>7. pool' \in [Endpoints -> Seq(Fds)]
  <2>1. pool \in [Endpoints -> Seq(Fds)]
    BY TableFacts
  <2>2. u # NoFd => Append(pool[e], u) \in Seq(Fds)
    BY <2>1, <1>2, AppendProperties
  <2>3. \/ u # NoFd /\ pool' = [pool EXCEPT ![e] = Append(@, u)]
        \/ pool' = pool
    BY <1>1
  <2> HIDE DEF u, e
  <2> QED
    BY <2>1, <2>2, <2>3
<1>8. cur' \in [at : Steps, fd : Fds \cup {NoFd}]
  BY <1>1, GotoShape, Names
<1>9. RestShape'
  BY <1>1, <1>6, <1>7, <1>8, TableFacts DEF RestShape, drain
<1>10. \A x : Ready(x, "advance")
  BY DEF Ready
<1> HIDE DEF n, os, closed, e
<1>11. CASE /\ u # NoFd
            /\ Close({}, [slot EXCEPT ![u] = Idle(e)], [conn EXCEPT ![f] = n], os, open)
  <2>1. [slot EXCEPT ![u] = Idle(e)] \in [Fds -> Slot]
    BY <1>2, <1>11, SlotKinds, TableFacts
  <2> QED
    BY <2>1, <1>1, <1>3, <1>4, <1>5, <1>9, <1>10, <1>11, MoveCore, TableFacts, Names
<1>12. CASE Close(closed, slot, [conn EXCEPT ![f] = n], ops, open)
  <2>1. \E step \in Steps : /\ Goto(step, f) /\ Ready(n, step)
                            /\ f \in closed => Ready(NewConn, step)
    BY <1>1, <1>10, Names
  <2> QED
    BY <2>1, <1>2, <1>3, <1>4, <1>9, <1>12, CloseCore, TableFacts
<1> QED
  BY <1>1, <1>11, <1>12

\* Adding submissions to the ring.
LEMMA TaggedUnion ==
    ASSUME NEW os, NEW more, NEW k \in Kinds
    PROVE  Tagged(os \cup more)[k] = Tagged(os)[k] \cup Tagged(more)[k]
  BY DEF Tagged

\* One pass of drive over a connection b: the submissions the ring took, each of
\* which had its flag down, and what becomes of the connection.
Driven(f, b, n, os, w, uw, ur, r, finished) ==
    /\ Close(IF finished THEN Dropped(b) \cup {f} ELSE {},
             [g \in Fds |-> IF finished /\ g \in Kept(b) THEN Abandoned
                            ELSE slot[g]],
             [conn EXCEPT ![f] = n], os, open)
    /\ \A o \in os : Counted(o, generations)
    /\ \A k \in Kinds :
          Tagged(os)[k] = Ring[k] \cup
              (IF (k = "DOWN_WRITE" /\ w) \/ (k = "DOWN_READ" /\ r) THEN {f}
               ELSE IF (k = "UP_WRITE" /\ uw) \/ (k = "UP_READ" /\ ur)
               THEN {b.upstream} ELSE {})
    /\ n.writing <=> b.writing \/ w
    /\ n.reading <=> b.reading \/ r
    /\ n.up_writing <=> b.up_writing \/ uw
    /\ n.up_reading <=> b.up_reading \/ ur
    /\ uw \/ ur => b.upstream # NoFd /\ b.up_ready
    /\ n.upstream = b.upstream /\ n.phase \in {b.phase, "Closing"}
    /\ n.up_ready <=> b.up_ready
    /\ n.up_borrowed <=> b.up_borrowed
    /\ n.drain_counted <=> b.drain_counted
    /\ n.client_keep_alive <=> b.client_keep_alive
    /\ SameAttempt(b, n)

\* drive as the operations it submits and the flags it sets for them.
LEMMA DriveFacts ==
    ASSUME Core, NEW f \in Fds, Drive(f)
    PROVE  /\ cur' = Wait /\ refusals' \in 0 .. MaxRefusals
           /\ UNCHANGED <<drain, away, listen, midbody, requests, opens, pool, jobs,
                          inflight>>
           /\ \E n \in Conn, os \in SUBSET Op, w \in BOOLEAN, uw \in BOOLEAN,
                 ur \in BOOLEAN, r \in BOOLEAN, finished \in BOOLEAN :
                 Driven(f, conn[f], n, os, w, uw, ur, r, finished)
<1> DEFINE b == conn[f]
           u == b.upstream
           write == ~b.writing /\ b.outbox
           upWrite == u # NoFd /\ b.up_ready /\ ~b.up_writing /\ b.up_outbox
           d(x) == [b EXCEPT !.writing = @ \/ (write /\ x # "DOWN_WRITE"),
                             !.outbox = @ /\ ~write,
                             !.up_writing = @ \/ (upWrite /\ x # "UP_WRITE"),
                             !.up_outbox = @ /\ ~upWrite,
                             !.phase = IF x \in WriteKinds THEN "Closing" ELSE @]
           upRead(x) == ~d(x).up_reading /\ WantsUpstreamBytes(d(x))
           read(x) == ~d(x).reading /\ WantsClientBytes(d(x))
           submitted(x) ==
               (IF write THEN {Submit("DOWN_WRITE", f)} ELSE {}) \cup
               (IF upWrite THEN {Submit("UP_WRITE", u)} ELSE {}) \cup
               (IF upRead(x) THEN {Submit("UP_READ", u)} ELSE {}) \cup
               (IF read(x) THEN {Submit("DOWN_READ", f)} ELSE {})
           taken(x) == {o \in submitted(x) : o.k # x}
           finished(x) == d(x).phase = "Closing" /\ ~d(x).writing /\ ~d(x).outbox
           n(x) == [d(x) EXCEPT !.up_reading = @ \/ (upRead(x) /\ x # "UP_READ"),
                                !.reading = @ \/ (read(x) /\ x # "DOWN_READ")]
<1>1. /\ cur' = Wait
      /\ UNCHANGED <<drain, away, listen, midbody, requests, opens, pool, jobs,
                     inflight>>
  BY DEF Drive
<1>2. PICK x \in {"none"} \cup ReadKinds \cup WriteKinds :
         /\ Refuses(x = "none")
         /\ Close(IF finished(x) THEN Dropped(b) \cup {f} ELSE {},
                  [g \in Fds |-> IF finished(x) /\ g \in Kept(b) THEN Abandoned
                                 ELSE slot[g]],
                  [conn EXCEPT ![f] = n(x)], ops \cup taken(x), open)
  BY DEF Drive
<1>3. refusals' \in 0 .. MaxRefusals
  <2>1. (x = "none") \in BOOLEAN
    OBVIOUS
  <2> QED
    BY <2>1, <1>2, RefusesShape, TableFacts
<1>4. b \in Conn /\ Settled(b) /\ u \in Fds \cup {NoFd}
  BY CoreFacts, LetGo
<1> DEFINE w == write /\ x # "DOWN_WRITE"
           uw == upWrite /\ x # "UP_WRITE"
           ur == upRead(x) /\ x # "UP_READ"
           r == read(x) /\ x # "DOWN_READ"
           a1 == b.writing \/ w
           a2 == b.outbox /\ ~write
           a3 == b.up_writing \/ uw
           a4 == b.up_outbox /\ ~upWrite
           a5 == IF x \in WriteKinds THEN "Closing" ELSE b.phase
           e == [b EXCEPT !.writing = a1, !.outbox = a2, !.up_writing = a3,
                          !.up_outbox = a4, !.phase = a5]
<1>5. d(x) = e
  OBVIOUS
<1>6. /\ a1 \in BOOLEAN /\ a2 \in BOOLEAN /\ a3 \in BOOLEAN /\ a4 \in BOOLEAN
      /\ a5 \in Phase
  BY <1>4, Names DEF Conn
<1>7. /\ a1 <=> b.writing \/ w
      /\ a3 <=> b.up_writing \/ uw
      /\ a5 \in {b.phase, "Closing"}
      /\ uw => u # NoFd /\ b.up_ready
  OBVIOUS
<1>8. w \in BOOLEAN /\ uw \in BOOLEAN /\ ur \in BOOLEAN /\ r \in BOOLEAN
      /\ finished(x) \in BOOLEAN
  OBVIOUS
<1> DEFINE c1 == e.up_reading \/ ur
           c2 == e.reading \/ r
           m == [e EXCEPT !.up_reading = c1, !.reading = c2]
           F == finished(x)
           os == ops \cup taken(x)
<1>9. n(x) = m /\ c1 \in BOOLEAN /\ c2 \in BOOLEAN
      /\ (c1 <=> e.up_reading \/ ur) /\ (c2 <=> e.reading \/ r)
  OBVIOUS
<1>10. ur => e.upstream # NoFd /\ e.up_ready
  BY DEF WantsUpstreamBytes
<1>11. /\ os \in SUBSET Op /\ \A o \in os : Counted(o, generations)
       /\ \A k \in Kinds :
              Tagged(os)[k] = Ring[k] \cup
                  (IF (k = "DOWN_WRITE" /\ w) \/ (k = "DOWN_READ" /\ r) THEN {f}
                   ELSE IF (k = "UP_WRITE" /\ uw) \/ (k = "UP_READ" /\ ur)
                   THEN {u} ELSE {})
  <2> HIDE DEF write, upWrite, upRead, read
  <2>1. /\ upWrite \/ upRead(x) => u \in Fds
        /\ taken(x) \in SUBSET Op /\ \A o \in taken(x) : Counted(o, generations)
    BY <1>4, SubmitFacts, TableFacts, KindNames DEF upWrite, upRead, WantsUpstreamBytes
  <2>2. \A o : o \in taken(x) <=> \/ w /\ o = Submit("DOWN_WRITE", f)
                                  \/ uw /\ o = Submit("UP_WRITE", u)
                                  \/ ur /\ o = Submit("UP_READ", u)
                                  \/ r /\ o = Submit("DOWN_READ", f)
    BY <1>4, <2>1, SubmitFacts, TableFacts, KindNames
  <2>3. uw \/ ur => u \in Fds
    BY <2>1
  <2> HIDE DEF taken, w, uw, ur, r, b
  <2>4. ASSUME NEW k \in Kinds
        PROVE  Tagged(taken(x))[k] =
                 (IF (k = "DOWN_WRITE" /\ w) \/ (k = "DOWN_READ" /\ r) THEN {f}
                  ELSE IF (k = "UP_WRITE" /\ uw) \/ (k = "UP_READ" /\ ur)
                  THEN {u} ELSE {})
    <3>1. ASSUME NEW g \in Fds
          PROVE  g \in Tagged(taken(x))[k] <=>
                    \/ k = "DOWN_WRITE" /\ w /\ g = f
                    \/ k = "UP_WRITE" /\ uw /\ g = u
                    \/ k = "UP_READ" /\ ur /\ g = u
                    \/ k = "DOWN_READ" /\ r /\ g = f
      <4>1. \A o \in taken(x) : o.age = 0 /\
                /\ w /\ o = Submit("DOWN_WRITE", f) => o.k = "DOWN_WRITE" /\ o.fd = f
                /\ r /\ o = Submit("DOWN_READ", f) => o.k = "DOWN_READ" /\ o.fd = f
                /\ uw /\ o = Submit("UP_WRITE", u) => o.k = "UP_WRITE" /\ o.fd = u
                /\ ur /\ o = Submit("UP_READ", u) => o.k = "UP_READ" /\ o.fd = u
        BY <2>2, <2>3, SubmitFacts, TableFacts, KindNames
      <4>2. g \in Tagged(taken(x))[k] <=>
               \E o \in taken(x) : o.k = k /\ o.fd = g /\ o.age = 0
        BY DEF Tagged
      <4> QED
        BY <4>1, <4>2, <2>2
    <3>2. Tagged(taken(x))[k] \in SUBSET Fds
      BY DEF Tagged
    <3>3. CASE k = "DOWN_WRITE"
      BY <3>1, <3>2, <3>3
    <3>4. CASE k = "DOWN_READ"
      BY <3>1, <3>2, <3>4
    <3>5. CASE k = "UP_WRITE"
      BY <3>1, <3>2, <3>5, <2>3
    <3>6. CASE k = "UP_READ"
      BY <3>1, <3>2, <3>6, <2>3
    <3>7. CASE k \notin {"DOWN_WRITE", "DOWN_READ", "UP_WRITE", "UP_READ"}
      BY <3>1, <3>2, <3>7
    <3> QED
      BY <3>3, <3>4, <3>5, <3>6, <3>7
  <2>5. os \in SUBSET Op /\ \A o \in os : Counted(o, generations)
    BY <2>1, TableFacts
  <2>6. \A k \in Kinds : Tagged(os)[k] = Ring[k] \cup Tagged(taken(x))[k]
    BY TaggedUnion DEF Ring
  <2> QED
    BY <2>4, <2>5, <2>6
<1>12. Close(IF F THEN Dropped(b) \cup {f} ELSE {},
             [g \in Fds |-> IF F /\ g \in Kept(b) THEN Abandoned ELSE slot[g]],
             [conn EXCEPT ![f] = m], os, open)
  BY <1>2
<1> HIDE DEF b, w, uw, ur, r, a1, a2, a3, a4, a5, c1, c2, F, os
<1>13. e \in Conn
  <2>1. [b EXCEPT !.writing = a1] \in Conn
    BY <1>4, <1>6, SetField
  <2>2. [b EXCEPT !.writing = a1, !.outbox = a2] \in Conn
    BY <2>1, <1>6, SetField
  <2>3. [b EXCEPT !.writing = a1, !.outbox = a2, !.up_writing = a3] \in Conn
    BY <2>2, <1>6, SetField
  <2>4. [b EXCEPT !.writing = a1, !.outbox = a2, !.up_writing = a3,
                  !.up_outbox = a4] \in Conn
    BY <2>3, <1>6, SetField
  <2> QED
    BY <2>4, <1>6, SetField
<1>14. /\ e.writing <=> a1
       /\ e.up_writing <=> a3
       /\ e.reading <=> b.reading
       /\ e.up_reading <=> b.up_reading
       /\ e.upstream = b.upstream /\ e.phase = a5
       /\ e.up_ready <=> b.up_ready
       /\ e.up_borrowed <=> b.up_borrowed
       /\ e.drain_counted <=> b.drain_counted
       /\ e.client_keep_alive <=> b.client_keep_alive
       /\ e.committed <=> b.committed
       /\ e.replayable <=> b.replayable
       /\ e.inflight_held <=> b.inflight_held
       /\ e.pool_retry_used <=> b.pool_retry_used
       /\ e.targets = b.targets /\ e.attempt = b.attempt
       /\ e.endpoint_index = b.endpoint_index /\ e.request_body = b.request_body
  BY <1>4, <1>6 DEF Conn
<1>15. SameAttempt(b, e)
  BY <1>4, <1>7, <1>14 DEF SameAttempt, Settled
<1> HIDE DEF e
<1>16. m \in Conn
  BY <1>9, <1>13, SetField
<1>17. /\ m.writing <=> e.writing
       /\ m.up_writing <=> e.up_writing
       /\ m.reading <=> c2
       /\ m.up_reading <=> c1
       /\ m.upstream = e.upstream /\ m.phase = e.phase
       /\ m.up_ready <=> e.up_ready
       /\ m.up_borrowed <=> e.up_borrowed
       /\ m.drain_counted <=> e.drain_counted
       /\ m.client_keep_alive <=> e.client_keep_alive
       /\ SameAttempt(b, m)
  BY <1>9, <1>13, <1>15 DEF Conn, SameAttempt
<1> HIDE DEF m
<1>18. Driven(f, b, m, os, w, uw, ur, r, F)
  BY <1>7, <1>9, <1>10, <1>11, <1>12, <1>14, <1>17 DEF Driven
<1>19. F \in BOOLEAN /\ w \in BOOLEAN /\ uw \in BOOLEAN /\ ur \in BOOLEAN /\ r \in BOOLEAN
       /\ os \in SUBSET Op
  BY <1>8, <1>11 DEF F
<1>20. \E n1 \in Conn, os1 \in SUBSET Op, w1 \in BOOLEAN, uw1 \in BOOLEAN,
          ur1 \in BOOLEAN, r1 \in BOOLEAN, F1 \in BOOLEAN :
          Driven(f, b, n1, os1, w1, uw1, ur1, r1, F1)
  BY <1>16, <1>18, <1>19
<1> QED
  BY <1>1, <1>3, <1>20 DEF b

\* Submitting leaves the attempt alone.
LEMMA DriveCore ==
    ASSUME Core, NEW f \in Fds, Drive(f)
    PROVE  Core'
<1>1. /\ cur' = Wait /\ refusals' \in 0 .. MaxRefusals
      /\ UNCHANGED <<drain, away, listen, midbody, requests, opens, pool, jobs,
                     inflight>>
  BY DriveFacts
<1>2. PICK n \in Conn, os \in SUBSET Op, w \in BOOLEAN, uw \in BOOLEAN,
           ur \in BOOLEAN, r \in BOOLEAN, finished \in BOOLEAN :
           Driven(f, conn[f], n, os, w, uw, ur, r, finished)
  BY DriveFacts
<1> DEFINE closed == IF finished THEN Dropped(conn[f]) \cup {f} ELSE {}
           s == [g \in Fds |-> IF finished /\ g \in Kept(conn[f]) THEN Abandoned
                               ELSE slot[g]]
<1>3. /\ Close(closed, s, [conn EXCEPT ![f] = n], os, open)
      /\ \A o \in os : Counted(o, generations)
      /\ SameAttempt(conn[f], n)
  BY <1>2 DEF Driven
<1>4. closed \in SUBSET Fds /\ s \in [Fds -> Slot]
  BY LetGo, CoreFacts, SlotKinds, TableFacts
<1>5. Settled(n) /\ Balances(conn[f], n) /\ Balances(conn[f], NewConn)
  BY <1>1, <1>3, CoreFacts, SameAttemptFacts, NewConnSettled DEF Balances
<1>6. RestShape'
  BY <1>1, WaitShape, TableFacts DEF RestShape, drain
<1> HIDE DEF closed, s
<1> QED
  BY <1>1, <1>3, <1>4, <1>5, <1>6, CloseCore, TableFacts

-----------------------------------------------------------------------------
(* The same for completions, notes, the clock and the drain.               *)

\* The parts of an operation.
LEMMA OpFacts ==
    ASSUME NEW o \in Op
    PROVE  /\ o.fd \in Fds /\ o.k \in Kinds /\ o.age \in Nat
           /\ o.gen \in 0 .. GenModulus - 1
  BY DEF Op, Kinds

\* A completion that changes one connection and leaves the ring.
LEMMA CompletionCore ==
    ASSUME Core, NEW f \in Fds, NEW c \in Conn, NEW o, NEW step \in Steps,
           Close({}, slot, [conn EXCEPT ![f] = c], ops \ {o}, open),
           Goto(step, f), Ready(c, step), RestShape', inflight' = inflight,
           SameAttempt(conn[f], c)
    PROVE  Core'
<1>1. ops \ {o} \in SUBSET Op /\ \A p \in ops \ {o} : Counted(p, generations)
  BY TableFacts
<1>2. Settled(c) /\ Balances(conn[f], c)
  BY CoreFacts, SameAttemptFacts
<1> QED
  BY <1>1, <1>2, MoveCore, TableFacts

\* Bytes from a client leave its attempt alone.
LEMMA OnClientReadCore ==
    ASSUME Core, NEW o \in ops, OnClientRead(o)
    PROVE  Core'
<1> DEFINE f == o.fd
           b == conn[f]
           c == [b EXCEPT !.reading = FALSE]
           got(t) == [c EXCEPT !.inbox = t, !.deadline = TRUE]
           ended == [c EXCEPT !.client_eof = TRUE]
           reset == [c EXCEPT !.client_eof = TRUE, !.outbox = FALSE,
                              !.phase = "Closing"]
           alert == [c EXCEPT !.outbox = TRUE, !.deadline = TRUE,
                              !.phase = "Closing"]
<1>1. /\ Goto("advance", f)
      /\ UNCHANGED <<drain, away, listen, opens, refusals, pool, jobs, inflight>>
      /\ \/ \E t \in Tokens(f) :
               /\ Close({}, slot, [conn EXCEPT ![f] = got(t)], ops \ {o}, open)
               /\ midbody' = [midbody EXCEPT ![f] = t = "post"]
               /\ requests' = IF t \in Requests THEN requests + 1 ELSE requests
         \/ /\ Close({}, slot, [conn EXCEPT ![f] = ended], ops \ {o}, open)
            /\ UNCHANGED <<midbody, requests>>
         \/ /\ Close({}, slot, [conn EXCEPT ![f] = reset], ops \ {o}, open)
            /\ UNCHANGED <<midbody, requests>>
         \/ /\ Close({}, slot, [conn EXCEPT ![f] = alert], ops \ {o}, open)
            /\ UNCHANGED <<midbody, requests>>
  BY DEF OnClientRead
<1>2. f \in Fds /\ o \in Op
  BY OpFacts, TableFacts
<1>3. b \in Conn /\ "Closing" \in Phase /\ "advance" \in Steps
  BY <1>2, CoreFacts, Names
<1>4. ASSUME NEW t \in Tokens(f)
      PROVE  /\ t \in {"none", "data", "body", "badbody"} \cup Requests
             /\ t \in Requests => requests < MaxRequests
  BY KindsAssumption DEF Tokens
<1>5. inflight' \in [Endpoints -> Int] /\ cur' \in [at : Steps, fd : Fds \cup {NoFd}]
  BY <1>1, <1>2, <1>3, GotoShape, TableFacts
<1>6. RestShape'
  <2>1. UNCHANGED <<midbody, requests>> => RestShape'
    BY <1>1, <1>5, TableFacts DEF RestShape, drain
  <2>2. ASSUME NEW t \in Tokens(f), midbody' = [midbody EXCEPT ![f] = t = "post"],
               requests' = IF t \in Requests THEN requests + 1 ELSE requests
        PROVE  RestShape'
    <3>1. requests' \in 0 .. MaxRequests
      BY <2>2, <1>4, TableFacts, SizesAssumption DEF RestShape
    <3>2. midbody' \in [Fds -> BOOLEAN]
      BY <2>2, <1>2, TableFacts DEF RestShape
    <3> QED
      BY <3>1, <3>2, <1>1, <1>5, TableFacts DEF RestShape, drain
  <2> QED
    BY <2>1, <2>2, <1>1
<1> HIDE DEF f, b
<1>7. c \in Conn
  BY <1>3, SetField
<1>8. SameAttempt(b, c)
  BY <1>3 DEF SameAttempt, Conn
<1> HIDE DEF c
<1>9. /\ ended \in Conn /\ reset \in Conn /\ alert \in Conn
      /\ \A t \in {"none", "data", "body", "badbody"} \cup Requests : got(t) \in Conn
  BY <1>3, <1>7, SetField
<1>10. SameAttempt(b, ended) /\ SameAttempt(b, reset) /\ SameAttempt(b, alert)
  BY <1>7, <1>8 DEF SameAttempt, Conn
<1>11. \A t : SameAttempt(b, got(t))
  BY <1>7, <1>8 DEF SameAttempt, Conn
<1>12. \A x : Ready(x, "advance")
  BY DEF Ready
<1> HIDE DEF got, ended, reset, alert
<1>13. ASSUME NEW x \in Conn, SameAttempt(b, x),
              Close({}, slot, [conn EXCEPT ![f] = x], ops \ {o}, open)
       PROVE  Core'
  BY <1>1, <1>2, <1>3, <1>6, <1>12, <1>13, CompletionCore DEF b
<1> QED
  BY <1>1, <1>4, <1>9, <1>10, <1>11, <1>13

\* A connection left alone is at the same attempt.
LEMMA SameAttemptSelf ==
    ASSUME NEW c \in Conn
    PROVE  SameAttempt(c, c)
  BY DEF SameAttempt

\* A step outside the handlers, in which every connection is closed or stays in
\* its attempt.
LEMMA SweepCore ==
    ASSUME Core, TableShape', BumpInv', RestShape', cur' = Wait, inflight' = inflight,
           \A g \in Fds : conn'[g] = NewConn \/ SameAttempt(conn[g], conn'[g])
    PROVE  Core'
<1>1. ASSUME NEW g \in Fds
      PROVE  /\ Settled(conn'[g])
             /\ conn'[g].inflight_held => /\ conn[g].inflight_held
                                          /\ Target(conn'[g]) = Target(conn[g])
  <2>1. CASE conn'[g] = NewConn
    BY <2>1, NewConnSettled
  <2>2. CASE SameAttempt(conn[g], conn'[g])
    BY <2>2, CoreFacts, SameAttemptFacts DEF SameAttempt
  <2> QED
    BY <2>1, <2>2
<1>2. ASSUME NEW e \in Endpoints
      PROVE  inflight'[e] >= Cardinality(HeldFor(e)')
  <2>1. HeldFor(e)' \subseteq HeldFor(e)
    BY <1>1 DEF HeldFor, Target
  <2>2. IsFiniteSet(HeldFor(e)) /\ IsFiniteSet(HeldFor(e)')
    BY <2>1, KindsAssumption, FS_Subset DEF HeldFor
  <2>3. /\ Cardinality(HeldFor(e)') <= Cardinality(HeldFor(e))
        /\ Cardinality(HeldFor(e)) \in Nat /\ Cardinality(HeldFor(e)') \in Nat
    BY <2>1, <2>2, FS_Subset, FS_CardinalityType
  <2>4. inflight[e] \in Int /\ inflight[e] >= Cardinality(HeldFor(e))
    BY TableFacts DEF Core, AttemptInv
  <2> QED
    BY <2>3, <2>4
<1>3. \A step \in Steps, g \in Fds : cur' # [at |-> step, fd |-> g]
  BY Names DEF Wait
<1> QED
  BY <1>1, <1>2, <1>3 DEF Core, Sound, Shape, AttemptInv, At

\* A close outside the handlers.
LEMMA DropCore ==
    ASSUME Core, NEW closed \in SUBSET Fds, NEW s \in [Fds -> Slot],
           NEW os \in SUBSET Op, NEW ks \in SUBSET Fds,
           \A o \in os : Counted(o, generations),
           Close(closed, s, conn, os, ks), RestShape', cur' = Wait,
           inflight' = inflight
    PROVE  Core'
<1>1. TableShape' /\ BumpInv'
  BY CloseShape, TableFacts
<1>2. \A g \in Fds : conn'[g] = IF g \in closed THEN NewConn ELSE conn[g]
  BY DEF Close
<1>3. \A g \in Fds : conn'[g] = NewConn \/ SameAttempt(conn[g], conn'[g])
  BY <1>2, SameAttemptSelf, TableFacts
<1> QED
  BY <1>1, <1>3, SweepCore

\* So does a finished write.
LEMMA OnClientWriteCore ==
    ASSUME Core, NEW o \in ops, OnClientWrite(o)
    PROVE  Core'
<1> DEFINE f == o.fd
           b == conn[f]
           c == [b EXCEPT !.writing = FALSE]
           reset == [c EXCEPT !.outbox = FALSE, !.phase = "Closing"]
<1>1. /\ Goto("advance", f)
      /\ UNCHANGED <<drain, world, pool, jobs, inflight>>
      /\ \E d \in {c, reset} : Close({}, slot, [conn EXCEPT ![f] = d], ops \ {o}, open)
  BY DEF OnClientWrite
<1>2. f \in Fds
  BY OpFacts, TableFacts
<1>3. b \in Conn /\ "Closing" \in Phase /\ "advance" \in Steps
  BY <1>2, CoreFacts, Names
<1>4. RestShape'
  BY <1>1, <1>2, <1>3, GotoShape, RestKept, TableFacts
<1> HIDE DEF f, b
<1>5. c \in Conn
  BY <1>3, SetField
<1>6. SameAttempt(b, c)
  BY <1>3 DEF SameAttempt, Conn
<1> HIDE DEF c
<1>7. reset \in Conn
  BY <1>3, <1>5, SetField
<1>8. SameAttempt(b, reset)
  BY <1>5, <1>6 DEF SameAttempt, Conn
<1> HIDE DEF reset
<1>9. \A x : Ready(x, "advance")
  BY DEF Ready
<1> QED
  BY <1>1, <1>2, <1>3, <1>4, <1>5, <1>6, <1>7, <1>8, <1>9, CompletionCore DEF b

\* What an upstream sends fits the buffer.
LEMMA UpTokenNames ==
    ASSUME NEW c \in Conn, NEW t \in UpTokens(c)
    PROVE  t \in {"none", "rest", "restMore", "extra", "garbage"} \cup Responses
  BY DEF UpTokens

\* Bytes from an upstream leave the attempt alone.
LEMMA OnUpstreamReadCore ==
    ASSUME Core, NEW o \in ops, OnUpstreamRead(o)
    PROVE  Core'
<1> DEFINE d == slot[o.fd].of
           b == conn[d]
           c == [b EXCEPT !.up_reading = FALSE]
           got(t) == [c EXCEPT !.up_inbox = t]
<1>1. /\ slot[o.fd].is = "Upstream"
      /\ UNCHANGED <<drain, world, pool, jobs, inflight>>
      /\ \/ \E t \in UpTokens(c) :
               /\ Close({}, slot, [conn EXCEPT ![d] = got(t)], ops \ {o}, open)
               /\ Goto("advance", d)
         \/ /\ Close({}, slot, [conn EXCEPT ![d] = c], ops \ {o}, open)
            /\ \E step \in {"eof", "failed"} : Goto(step, d)
  BY DEF OnUpstreamRead
<1>2. d \in Fds
  BY <1>1, OpFacts, SlotCases, TableFacts
<1>3. b \in Conn /\ {"advance", "eof", "failed"} \subseteq Steps
  BY <1>2, CoreFacts, Names
<1>4. RestShape'
  BY <1>1, <1>2, <1>3, GotoShape, RestKept, TableFacts
<1> HIDE DEF d, b
<1>5. c \in Conn
  BY <1>3, SetField
<1>6. SameAttempt(b, c)
  BY <1>3 DEF SameAttempt, Conn
<1> HIDE DEF c
<1>7. \A t \in UpTokens(c) : got(t) \in Conn
  BY <1>5, UpTokenNames, SetField
<1>8. \A t : SameAttempt(b, got(t))
  BY <1>5, <1>6 DEF SameAttempt, Conn
<1> HIDE DEF got
<1>9. \A x : Ready(x, "advance") /\ Ready(x, "eof") /\ Ready(x, "failed")
  BY DEF Ready
<1>10. ASSUME NEW x \in Conn, SameAttempt(b, x), NEW step \in {"advance", "eof", "failed"},
              Close({}, slot, [conn EXCEPT ![d] = x], ops \ {o}, open), Goto(step, d)
       PROVE  Core'
  BY <1>1, <1>2, <1>3, <1>4, <1>9, <1>10, CompletionCore DEF b
<1> QED
  BY <1>1, <1>5, <1>6, <1>7, <1>8, <1>10

\* A finished or failed write to an upstream leaves it alone.
LEMMA OnUpstreamWriteCore ==
    ASSUME Core, NEW o \in ops, OnUpstreamWrite(o)
    PROVE  Core'
<1> DEFINE d == slot[o.fd].of
           b == conn[d]
           c == [b EXCEPT !.up_writing = FALSE]
           sent == [c EXCEPT !.up_ready = TRUE]
<1>1. /\ slot[o.fd].is = "Upstream"
      /\ UNCHANGED <<drain, world, pool, jobs, inflight>>
      /\ \/ /\ Close({}, slot, [conn EXCEPT ![d] = sent], ops \ {o}, open)
            /\ Goto("advance", d)
         \/ /\ Close({}, slot, [conn EXCEPT ![d] = c], ops \ {o}, open)
            /\ Goto("failed", d)
  BY DEF OnUpstreamWrite
<1>2. d \in Fds
  BY <1>1, OpFacts, SlotCases, TableFacts
<1>3. b \in Conn /\ {"advance", "failed"} \subseteq Steps
  BY <1>2, CoreFacts, Names
<1>4. RestShape'
  BY <1>1, <1>2, <1>3, GotoShape, RestKept, TableFacts
<1> HIDE DEF d, b
<1>5. c \in Conn
  BY <1>3, SetField
<1>6. SameAttempt(b, c)
  BY <1>3 DEF SameAttempt, Conn
<1> HIDE DEF c
<1>7. sent \in Conn
  BY <1>5, SetField
<1>8. SameAttempt(b, sent)
  BY <1>5, <1>6 DEF SameAttempt, Conn
<1> HIDE DEF sent
<1>9. \A x : Ready(x, "advance") /\ Ready(x, "failed")
  BY DEF Ready
<1> QED
  BY <1>1, <1>2, <1>3, <1>4, <1>5, <1>6, <1>7, <1>8, <1>9, CompletionCore DEF b

\* A set of numbers has a least one.
LEMMA Least ==
    ASSUME NEW at \in SUBSET Nat, at # {}
    PROVE  \E i \in at : \A j \in at : i <= j
<1> DEFINE R == {p \in Nat \X Nat : p[1] < p[2]}
<1>1. OpToRel(<, Nat) = R
  BY DEF OpToRel
<1>2. IsWellFoundedOn(R, Nat)
  BY <1>1, NatLessThanWellFounded
<1> HIDE DEF R
<1>3. \E x \in at : \A y \in at : ~ (<<y, x>> \in R)
  BY <1>2, WFMin
<1>4. \A x, y \in Nat : <<y, x>> \in R <=> y < x
  BY DEF R
<1>5. \A x, y \in Nat : ~(y < x) => x <= y
  OBVIOUS
<1> QED
  BY <1>3, <1>4, <1>5

\* p is q without its first f, if it has one.
Shrinks(q, p, f) ==
    \/ p = q /\ \A i \in 1 .. Len(q) : q[i] # f
    \/ \E k \in 1 .. Len(q) :
          /\ q[k] = f /\ Len(p) = Len(q) - 1
          /\ \A i \in 1 .. Len(q) - 1 : p[i] = IF i < k THEN q[i] ELSE q[i + 1]

\* Taking an idle upstream out of the middle of its endpoint's list.
LEMMA PoolRemoved ==
    ASSUME pool \in [Endpoints -> Seq(Fds)], NEW e \in Endpoints, NEW f
    PROVE  /\ PoolRemove(e, f) \in [Endpoints -> Seq(Fds)]
           /\ \A d \in Endpoints \ {e} : PoolRemove(e, f)[d] = pool[d]
           /\ Shrinks(pool[e], PoolRemove(e, f)[e], f)
<1> DEFINE q == pool[e]
           n == Len(q)
           at == {i \in 1 .. n : q[i] = f}
           k == CHOOSE i \in at : \A j \in at : i <= j
           r == [i \in 1 .. n - 1 |-> IF i < k THEN q[i] ELSE q[i + 1]]
<1>1. q \in Seq(Fds) /\ n \in Nat /\ \A i \in 1 .. n : q[i] \in Fds
  <2>1. q \in Seq(Fds)
    OBVIOUS
  <2> QED
    BY <2>1
<1>2. PoolRemove(e, f) = IF at = {} THEN pool ELSE [pool EXCEPT ![e] = r]
  BY DEF PoolRemove
<1>3. CASE at = {}
  BY <1>2, <1>3 DEF Shrinks
<1>4. CASE at # {}
  <2>1. \E i \in at : \A j \in at : i <= j
    <3>1. at \in SUBSET Nat
      BY <1>1
    <3> HIDE DEF at
    <3> QED
      BY <3>1, <1>4, Least
  <2>2. k \in 1 .. n /\ q[k] = f
    BY <2>1
  <2> HIDE DEF k, q
  <2>3. \A i \in 1 .. n - 1 : (IF i < k THEN q[i] ELSE q[i + 1]) \in Fds
    BY <1>1, <2>2
  <2>4. n - 1 \in Nat
    BY <1>1, <2>2
  <2>5. r \in Seq(Fds) /\ Len(r) = n - 1
        /\ \A i \in 1 .. n - 1 : r[i] = IF i < k THEN q[i] ELSE q[i + 1]
    <3>1. r \in [1 .. n - 1 -> Fds]
      BY <2>3
    <3>2. r \in Seq(Fds)
      BY <3>1, <2>4
    <3>3. DOMAIN r = 1 .. n - 1
      OBVIOUS
    <3>4. Len(r) = n - 1
      BY <3>2, <3>3, <2>4, LenProperties
    <3> QED
      BY <3>2, <3>4
  <2> HIDE DEF r, n
  <2>6. PoolRemove(e, f) = [pool EXCEPT ![e] = r]
    BY <1>2, <1>4
  <2>7. /\ PoolRemove(e, f) \in [Endpoints -> Seq(Fds)]
        /\ PoolRemove(e, f)[e] = r
        /\ \A d \in Endpoints \ {e} : PoolRemove(e, f)[d] = pool[d]
    BY <2>5, <2>6
  <2> QED
    BY <2>2, <2>5, <2>7 DEF q, n, Shrinks
<1> QED
  BY <1>3, <1>4

\* An idle upstream is nobody's attempt.
LEMMA OnIdleReadCore ==
    ASSUME Core, NEW o \in ops, OnIdleRead(o)
    PROVE  Core'
<1>1. /\ slot[o.fd].is = "Idle" /\ pool' = PoolRemove(slot[o.fd].of, o.fd)
      /\ Close({o.fd}, slot, conn, ops \ {o}, open) /\ cur = Wait
      /\ UNCHANGED <<drain, world, jobs, inflight, cur>>
  BY DEF OnIdleRead, Completes, Waiting
<1>2. o.fd \in Fds
  BY OpFacts, TableFacts
<1>3. slot[o.fd].of \in Endpoints
  BY <1>1, <1>2, SlotCases, TableFacts
<1>4. pool' \in [Endpoints -> Seq(Fds)]
  BY <1>1, <1>3, PoolRemoved, TableFacts
<1>5. RestShape'
  BY <1>1, <1>4, TableFacts DEF RestShape, drain, world, counts
<1>6. ops \ {o} \in SUBSET Op /\ \A p \in ops \ {o} : Counted(p, generations)
  BY TableFacts
<1> QED
  BY <1>1, <1>2, <1>5, <1>6, DropCore, TableFacts

\* An expired upstream is nobody's attempt.
LEMMA TickExpireCore ==
    ASSUME Core, NEW u \in Fds, TickExpire(u)
    PROVE  Core'
<1>1. /\ slot[u].is = "Idle" /\ pool' = PoolRemove(slot[u].of, u)
      /\ Close({u}, slot, conn, ops, open) /\ cur = Wait
      /\ UNCHANGED <<drain, world, jobs, inflight, cur>>
  BY DEF TickExpire, Waiting
<1>2. slot[u].of \in Endpoints
  BY <1>1, SlotCases, TableFacts
<1>3. pool' \in [Endpoints -> Seq(Fds)]
  BY <1>1, <1>2, PoolRemoved, TableFacts
<1>4. RestShape'
  BY <1>1, <1>3, TableFacts DEF RestShape, drain, world, counts
<1> QED
  BY <1>1, <1>4, DropCore, TableFacts

\* What the steps outside the handlers leave alone.
LEMMA RestStays ==
    ASSUME RestShape, UNCHANGED <<drain, world, pool, inflight, cur>>,
           jobs' \in SUBSET Fds
    PROVE  RestShape'
  BY DEF RestShape, drain, world, counts

\* An upstream without its client is nobody's attempt.
LEMMA OnOrphanCore ==
    ASSUME Core, NEW o \in ops, OnOrphan(o)
    PROVE  Core'
<1> DEFINE s == [slot EXCEPT ![slot[o.fd].of] = Empty]
<1>1. /\ Close({}, s, conn, ops \ {o}, open) /\ cur = Wait
      /\ UNCHANGED <<drain, world, pool, jobs, inflight, cur>>
  BY DEF OnOrphan, Completes, Waiting
<1>2. s \in [Fds -> Slot]
  BY SlotKinds, TableFacts
<1>3. ops \ {o} \in SUBSET Op /\ \A p \in ops \ {o} : Counted(p, generations)
  BY TableFacts
<1>4. RestShape' /\ {} \in SUBSET Fds
  BY <1>1, RestStays, TableFacts
<1> HIDE DEF s
<1> QED
  BY <1>1, <1>2, <1>3, <1>4, DropCore, TableFacts

\* The three answers of the helper: connected, failed, and nobody waits for it.
LEMMA ConnectedCases ==
    ASSUME NEW u, OnConnected(u)
    PROVE  LET d == slot[u].of IN
           /\ Waiting /\ u \in jobs /\ jobs' = jobs \ {u}
           /\ UNCHANGED <<drain, world, pool, inflight>>
           /\ \/ /\ slot[u].is = "Upstream" /\ slot[d] = Client
                 /\ Close({}, slot, [conn EXCEPT ![d] =
                        [conn[d] EXCEPT !.up_borrowed = FALSE, !.up_ready = TRUE,
                                        !.phase = "Exchanging"]], ops, open)
                 /\ Goto("advance", d)
              \/ /\ slot[u].is = "Upstream" /\ slot[d] = Client
                 /\ Close({}, [slot EXCEPT ![u] = Empty],
                          [conn EXCEPT ![d].up_borrowed = FALSE,
                                       ![d].upstream = NoFd],
                          ops, open \ {u})
                 /\ Goto("retry", d)
              \/ /\ slot[u].is = "Upstream" => slot[d] # Client
                 /\ Close({}, [g \in Fds |-> IF g = u \/ slot[u] = Upstream(g)
                                             THEN Empty ELSE slot[g]],
                          conn, ops, open \ {u})
                 /\ UNCHANGED cur
  BY DEF OnConnected, Update

\* A connect that succeeded or failed leaves the hold to the step that follows.
LEMMA OnConnectedCore ==
    ASSUME Core, NEW u \in Fds, OnConnected(u)
    PROVE  Core'
<1> DEFINE d == slot[u].of
           b == conn[d]
           up == [b EXCEPT !.up_borrowed = FALSE, !.up_ready = TRUE,
                           !.phase = "Exchanging"]
           down == [b EXCEPT !.up_borrowed = FALSE, !.upstream = NoFd]
           s2 == [slot EXCEPT ![u] = Empty]
           s3 == [g \in Fds |-> IF g = u \/ slot[u] = Upstream(g) THEN Empty
                                ELSE slot[g]]
<1>1. cur = Wait /\ jobs' \in SUBSET Fds /\ UNCHANGED <<drain, world, pool, inflight>>
  BY ConnectedCases, TableFacts DEF Waiting
<1>2. slot[u].is = "Upstream" => d \in Fds /\ b \in Conn /\ Settled(b)
  BY SlotCases, TableFacts, CoreFacts
<1>3. \/ /\ slot[u].is = "Upstream"
         /\ Close({}, slot, [conn EXCEPT ![d] = up], ops, open) /\ Goto("advance", d)
      \/ /\ slot[u].is = "Upstream"
         /\ Close({}, s2, [conn EXCEPT ![d] = down], ops, open \ {u})
         /\ Goto("retry", d)
      \/ Close({}, s3, conn, ops, open \ {u}) /\ UNCHANGED cur
  <2>1. slot[u].is = "Upstream" =>
            [conn EXCEPT ![d].up_borrowed = FALSE, ![d].upstream = NoFd] =
                [conn EXCEPT ![d] = down]
    BY <1>2, TableFacts
  <2> QED
    BY <2>1, ConnectedCases
<1>4. s2 \in [Fds -> Slot] /\ s3 \in [Fds -> Slot] /\ open \ {u} \in SUBSET Fds
  BY SlotKinds, TableFacts
<1>5. ASSUME b \in Conn, Settled(b)
      PROVE  /\ up \in Conn /\ down \in Conn /\ down.upstream = NoFd
             /\ SameAttempt(b, up) /\ SameAttempt(b, down)
  <2> HIDE DEF b
  <2>1. up \in Conn /\ down \in Conn
    BY <1>5, SetField, Names
  <2> QED
    BY <2>1, <1>5 DEF SameAttempt, Conn, Settled
<1>6. ASSUME NEW x \in Conn, NEW step \in Steps, Goto(step, d), d \in Fds,
             SameAttempt(b, x)
      PROVE  RestShape' /\ Settled(x) /\ Balances(b, x)
  <2>1. RestShape'
    BY <1>1, <1>6, GotoShape, TableFacts DEF RestShape, drain, world, counts
  <2>2. Settled(b)
    BY <1>6, CoreFacts
  <2> QED
    BY <2>1, <2>2, <1>1, <1>6, SameAttemptFacts
<1>7. Ready(up, "advance")
  BY DEF Ready
<1>8. down.upstream = NoFd => Ready(down, "retry")
  BY DEF Ready
<1> HIDE DEF d, b, up, down, s2, s3
<1>9. CASE /\ slot[u].is = "Upstream"
           /\ Close({}, slot, [conn EXCEPT ![d] = up], ops, open) /\ Goto("advance", d)
  BY <1>2, <1>5, <1>6, <1>7, <1>9, MoveCore, TableFacts, Names DEF b
<1>10. CASE /\ slot[u].is = "Upstream"
            /\ Close({}, s2, [conn EXCEPT ![d] = down], ops, open \ {u})
            /\ Goto("retry", d)
  BY <1>2, <1>4, <1>5, <1>6, <1>8, <1>10, MoveCore, TableFacts, Names DEF b
<1>11. CASE Close({}, s3, conn, ops, open \ {u}) /\ UNCHANGED cur
  <2>1. RestShape' /\ {} \in SUBSET Fds
    BY <1>1, <1>11, RestStays, TableFacts
  <2> QED
    BY <2>1, <1>1, <1>4, <1>11, DropCore, TableFacts
<1> QED
  BY <1>3, <1>9, <1>10, <1>11

\* A dropped completion changes nobody's attempt.
LEMMA DropStaleCore ==
    ASSUME Core, NEW o \in ops, DropStale(o)
    PROVE  Core'
<1>1. /\ ops' = ops \ {o} /\ cur = Wait
      /\ UNCHANGED <<slot, conn, generations, open, drain_inflight, drain, world,
                     pool, jobs, inflight, cur>>
  BY DEF DropStale, Waiting
<1>2. TableShape' /\ BumpInv'
  BY <1>1, TableFacts DEF TableShape, BumpInv
<1>3. RestShape'
  BY <1>1, RestStays, TableFacts
<1>4. \A g \in Fds : SameAttempt(conn[g], conn'[g])
  BY <1>1, SameAttemptSelf, TableFacts
<1> QED
  BY <1>1, <1>2, <1>3, <1>4, SweepCore

\* A new connection on a free number.
LEMMA StartConnFacts ==
    ASSUME Core, NEW f \in Fds, NEW kind \in Slot, NEW c \in Conn,
           NEW submitted \in SUBSET Op, \A o \in submitted : o.fd = f /\ o.age = 0
                                  /\ o.gen = BumpGeneration(generations[f]),
           drain_inflight' = drain_inflight, opens < MaxOpens,
           StartConn(f, kind, c, submitted)
    PROVE  /\ TableShape' /\ BumpInv'
           /\ midbody' \in [Fds -> BOOLEAN] /\ opens' \in 0 .. MaxOpens
<1>1. /\ slot' = [slot EXCEPT ![f] = kind] /\ conn' = [conn EXCEPT ![f] = c]
      /\ ops' = Aged(ops, {f}) \cup submitted /\ open' = open \cup {f}
      /\ midbody' = [midbody EXCEPT ![f] = FALSE] /\ opens' = opens + 1
  BY DEF StartConn
<1>2. generations' = Bumped(generations, {f})
  BY TableFacts DEF StartConn, Bumped, Gens
<1>3. /\ Aged(ops, {f}) \in SUBSET Op /\ generations' \in Gens
      /\ \A o \in Aged(ops, {f}) : Counted(o, generations')
  BY <1>2, AgedFacts, TableFacts
<1>4. generations'[f] = BumpGeneration(generations[f])
  BY <1>2 DEF Bumped
<1>5. ASSUME NEW o \in submitted PROVE Counted(o, generations')
  <2>1. o.gen \in Nat /\ o.gen = generations'[o.fd] /\ o.age = 0
    BY <1>4, OpFacts
  <2> QED
    BY <2>1 DEF Counted
<1>6. slot' \in [Fds -> Slot] /\ conn' \in [Fds -> Conn]
  BY <1>1, TableFacts
<1>7. midbody' \in [Fds -> BOOLEAN] /\ opens' \in 0 .. MaxOpens
  BY <1>1, TableFacts, SizesAssumption DEF RestShape
<1> QED
  BY <1>1, <1>3, <1>5, <1>6, <1>7, TableFacts DEF TableShape, BumpInv, Gens

\* A new client has no attempt.
LEMMA AcceptClientCore ==
    ASSUME Core, NEW f \in Fds, AcceptClient(f)
    PROVE  Core'
<1> DEFINE c(x) == [NewConn EXCEPT !.tls = x, !.deadline = TRUE]
<1>1. PICK x \in Lanes : StartConn(f, Client, c(x), {})
  BY DEF AcceptClient
<1>2. /\ opens < MaxOpens /\ Goto("drive", f) /\ drain_inflight' = drain_inflight
      /\ UNCHANGED <<drain_inflight, drain, away, listen, requests, refusals,
                     pool, jobs, inflight>>
  BY DEF AcceptClient
<1>3. x \in BOOLEAN
  BY KindsAssumption
<1>4. c(x) \in Conn
  BY <1>3, NewConnType, SetField
<1>5. Settled(c(x)) /\ ~c(x).inflight_held
  BY DEF NewConn, Settled, Replays
<1> HIDE DEF c
<1>6. /\ TableShape' /\ BumpInv'
      /\ midbody' \in [Fds -> BOOLEAN] /\ opens' \in 0 .. MaxOpens
  BY <1>1, <1>2, <1>4, StartConnFacts, SlotKinds
<1>7. RestShape'
  BY <1>2, <1>6, GotoShape, Names, TableFacts DEF RestShape, drain
<1>8. conn' = [conn EXCEPT ![f] = c(x)]
  BY <1>1 DEF StartConn
<1>9. /\ conn' \in [Fds -> Conn] /\ conn'[f] = c(x)
      /\ \A g \in Fds \ {f} : conn'[g] \in {conn[g], NewConn}
  BY <1>4, <1>8, TableFacts
<1>10. Balances(conn[f], conn'[f]) /\ Ready(conn'[f], "drive")
  BY <1>2, <1>5, <1>9 DEF Balances, Ready
<1>11. AttemptInv'
  BY <1>2, <1>5, <1>9, <1>10, AttemptKept, Names
<1> QED
  BY <1>6, <1>7, <1>11 DEF Core, Sound, Shape

\* The first read of an admin connection, if the ring takes it.
LEMMA AdminReadFacts ==
    ASSUME Core, NEW f \in Fds, NEW ok \in BOOLEAN
    PROVE  LET o == [Submit("ADMIN_READ", f) EXCEPT
                         !.gen = BumpGeneration(generations[f])]
               os == {o : x \in {ok} \ {FALSE}} IN
           /\ os \in SUBSET Op
           /\ os = IF ok THEN {o} ELSE {}
           /\ o.fd = f /\ o.age = 0 /\ o.gen = BumpGeneration(generations[f])
           /\ o.k = "ADMIN_READ"
<1> DEFINE o == [Submit("ADMIN_READ", f) EXCEPT
                     !.gen = BumpGeneration(generations[f])]
           os == {o : x \in {ok} \ {FALSE}}
<1>1. BumpGeneration(generations[f]) \in 0 .. GenModulus - 1
  BY BumpStep, TableFacts DEF Gens
<1>2. Submit("ADMIN_READ", f) \in Op
  BY SubmitFacts, KindNames, TableFacts
<1>3. o \in Op
  BY <1>1, <1>2 DEF Op
<1>4. /\ o.fd = f /\ o.age = 0 /\ o.gen = BumpGeneration(generations[f])
      /\ o.k = "ADMIN_READ"
  BY DEF Submit
<1> HIDE DEF o
<1>5. os = IF ok THEN {o} ELSE {}
  OBVIOUS
<1> QED
  BY <1>3, <1>4, <1>5 DEF o

\* An admin connection never has one.
LEMMA AcceptAdminCore ==
    ASSUME Core, NEW f \in Fds, AcceptAdmin(f)
    PROVE  Core'
<1> DEFINE o == [Submit("ADMIN_READ", f) EXCEPT
                     !.gen = BumpGeneration(generations[f])]
           os(ok) == {o : x \in {ok} \ {FALSE}}
           c(ok) == [NewConn EXCEPT !.reading = ok]
<1>1. PICK ok \in BOOLEAN : Refuses(ok) /\ StartConn(f, Admin, c(ok), os(ok))
  BY DEF AcceptAdmin
<1>2. /\ opens < MaxOpens /\ cur = Wait
      /\ UNCHANGED <<drain_inflight, drain, away, listen, requests, pool, jobs,
                     inflight, cur>>
  BY DEF AcceptAdmin, Waiting
<1>3. c(ok) \in Conn
  BY NewConnType, SetField
<1>4. Settled(c(ok)) /\ ~c(ok).inflight_held
  BY DEF NewConn, Settled, Replays
<1>5. /\ os(ok) \in SUBSET Op
      /\ \A p \in os(ok) : p.fd = f /\ p.age = 0
                           /\ p.gen = BumpGeneration(generations[f])
  BY AdminReadFacts
<1> HIDE DEF c, os
<1>6. /\ TableShape' /\ BumpInv'
      /\ midbody' \in [Fds -> BOOLEAN] /\ opens' \in 0 .. MaxOpens
  BY <1>1, <1>2, <1>3, <1>5, StartConnFacts, SlotKinds
<1>7. refusals' \in 0 .. MaxRefusals
  BY <1>1, RefusesShape, TableFacts
<1>8. RestShape'
  BY <1>2, <1>6, <1>7, TableFacts DEF RestShape, drain
<1>9. conn' = [conn EXCEPT ![f] = c(ok)]
  BY <1>1 DEF StartConn
<1>10. /\ conn' \in [Fds -> Conn] /\ conn'[f] = c(ok)
       /\ \A g \in Fds \ {f} : conn'[g] \in {conn[g], NewConn}
  BY <1>3, <1>9, TableFacts
<1>11. Balances(conn[f], conn'[f])
  BY <1>2, <1>4, <1>10 DEF Balances
<1>12. AttemptInv'
  BY <1>2, <1>4, <1>10, <1>11, AttemptKept, Names
<1> QED
  BY <1>6, <1>8, <1>12 DEF Core, Sound, Shape

\* Steps that touch no connection.
LEMMA StillCore ==
    ASSUME Core, UNCHANGED <<slot, conn, generations, ops, drain_inflight, inflight>>,
           open' \in SUBSET Fds, RestShape', cur' = cur
    PROVE  Core'
<1>1. TableShape' /\ BumpInv'
  BY TableFacts DEF TableShape, BumpInv
<1>2. AttemptInv'
  BY DEF Core, AttemptInv, HeldFor, Target, At
<1> QED
  BY <1>1, <1>2 DEF Core, Sound, Shape

\* The listeners know of no attempt.
LEMMA ListenersCore ==
    ASSUME Core, NEW r \in Roles,
           AcceptExhausted(r) \/ \E f \in Fds : DropStaleAccept(r, f)
    PROVE  Core'
<1>1. /\ listen' \in [Roles -> {"armed", "lost", "shut", "gone"}]
      /\ open' = open /\ cur' = cur
      /\ UNCHANGED <<slot, conn, generations, ops, drain_inflight, inflight>>
      /\ UNCHANGED <<drain, away, midbody, counts, pool, jobs>>
  BY TableFacts DEF AcceptExhausted, DropStaleAccept, AfterStaleAccept, table, RestShape
<1>2. RestShape'
  BY <1>1, TableFacts DEF RestShape, drain, counts
<1> QED
  BY <1>1, <1>2, StillCore, TableFacts

\* What the other engine closes had no attempt here.
LEMMA OtherClosesCore ==
    ASSUME Core, NEW f \in Fds, OtherCloses(f)
    PROVE  Core'
<1>1. /\ away' = away \ {f} /\ open' = open \ {f} /\ cur' = cur
      /\ UNCHANGED <<slot, conn, generations, ops, drain_inflight, inflight>>
      /\ UNCHANGED <<drain, listen, midbody, counts, pool, jobs>>
  BY DEF OtherCloses
<1>2. RestShape' /\ open' \in SUBSET Fds
  BY <1>1, TableFacts DEF RestShape, drain, counts
<1> QED
  BY <1>1, <1>2, StillCore, TableFacts

\* The drain's deadline leaves every attempt alone.
LEMMA TickGraceCore ==
    ASSUME Core, TickGrace
    PROVE  Core'
<1>1. /\ drain_expired' = TRUE /\ cur' = cur /\ open' = open
      /\ UNCHANGED <<slot, conn, generations, ops, drain_inflight, inflight>>
      /\ UNCHANGED <<draining, stopped, severed, world, pool, jobs>>
  BY DEF TickGrace, table
<1>2. RestShape'
  BY <1>1, TableFacts DEF RestShape, world, counts
<1> QED
  BY <1>1, <1>2, StillCore, TableFacts

\* An overdue request ends its attempt, an overdue head has none.
LEMMA TickOverdueCore ==
    ASSUME Core, NEW f \in Fds, TickOverdue(f)
    PROVE  Core'
<1>1. UNCHANGED <<drain, world, pool, jobs>> /\ cur = Wait
  BY DEF TickOverdue, Waiting
<1>2. CASE Fail(f, conn[f], TRUE)
  BY <1>1, <1>2, FailCore, CoreFacts
<1>3. CASE Close({f}, slot, conn, ops, open) /\ UNCHANGED <<inflight, cur>>
  <2>1. RestShape'
    BY <1>1, <1>3, RestStays, TableFacts
  <2> QED
    BY <2>1, <1>1, <1>3, DropCore, TableFacts
<1> QED
  BY <1>2, <1>3 DEF TickOverdue

\* The two ways an admin connection's read ends.
LEMMA OnAdminReadCases ==
    ASSUME NEW o, OnAdminRead(o)
    PROVE  LET f == o.fd IN
           /\ Completes(o, "ADMIN_READ")
           /\ UNCHANGED <<drain, away, listen, midbody, requests, opens, pool, jobs,
                          inflight, cur>>
           /\ \/ Close({f}, slot, conn, ops \ {o}, open) /\ UNCHANGED refusals
              \/ \E ok \in BOOLEAN :
                    /\ Refuses(ok)
                    /\ Close({}, slot, [conn EXCEPT ![f].reading = FALSE,
                                                    ![f].writing = ok],
                             (ops \ {o}) \cup (IF ok THEN {Submit("ADMIN_WRITE", f)}
                                               ELSE {}), open)
  BY DEF OnAdminRead

\* An admin request is no attempt.
LEMMA OnAdminReadCore ==
    ASSUME Core, NEW o \in ops, OnAdminRead(o)
    PROVE  Core'
<1> DEFINE f == o.fd
           b == conn[f]
           c(ok) == [b EXCEPT !.reading = FALSE, !.writing = ok]
           os(ok) == (ops \ {o}) \cup (IF ok THEN {Submit("ADMIN_WRITE", f)} ELSE {})
<1>1. /\ cur = Wait
      /\ UNCHANGED <<drain, away, listen, midbody, requests, opens, pool, jobs,
                     inflight, cur>>
  BY OnAdminReadCases DEF Completes, Waiting
<1>2. f \in Fds
  BY OpFacts, TableFacts
<1>3. \/ Close({f}, slot, conn, ops \ {o}, open) /\ UNCHANGED refusals
      \/ \E ok \in BOOLEAN : /\ Refuses(ok)
                             /\ Close({}, slot, [conn EXCEPT ![f] = c(ok)], os(ok), open)
  <2>1. \A ok : [conn EXCEPT ![f].reading = FALSE, ![f].writing = ok] =
                    [conn EXCEPT ![f] = c(ok)]
    <3> HIDE DEF f
    <3> QED
      BY <1>2, TableFacts
  <2> QED
    BY <2>1, OnAdminReadCases
<1>4. \A ok \in BOOLEAN : os(ok) \in SUBSET Op /\ \A p \in os(ok) : Counted(p, generations)
  BY <1>2, SubmitFacts, TableFacts, KindNames
<1>5. b \in Conn
  BY <1>2, TableFacts
<1> HIDE DEF os, f, b
<1>6. ASSUME NEW ok \in BOOLEAN PROVE c(ok) \in Conn /\ SameAttempt(b, c(ok))
  <2>1. c(ok) \in Conn
    BY <1>5, SetField
  <2> QED
    BY <2>1, <1>5 DEF SameAttempt, Conn
<1>7. refusals' \in 0 .. MaxRefusals => RestShape'
  BY <1>1, TableFacts DEF RestShape, drain
<1>8. CASE Close({f}, slot, conn, ops \ {o}, open) /\ UNCHANGED refusals
  <2>1. ops \ {o} \in SUBSET Op /\ \A p \in ops \ {o} : Counted(p, generations)
    BY TableFacts
  <2>2. RestShape'
    BY <1>7, <1>8, TableFacts DEF RestShape
  <2> QED
    BY <2>1, <2>2, <1>1, <1>2, <1>8, DropCore, TableFacts
<1>9. ASSUME NEW ok \in BOOLEAN, Refuses(ok),
             Close({}, slot, [conn EXCEPT ![f] = c(ok)], os(ok), open)
      PROVE  Core'
  <2>1. RestShape'
    BY <1>7, <1>9, RefusesShape, TableFacts
  <2>2. Settled(c(ok)) /\ Balances(b, c(ok))
    BY <1>1, <1>2, <1>6, SameAttemptFacts, CoreFacts DEF b
  <2>3. {} \in SUBSET Fds /\ f \notin {} /\ cur' = Wait
    BY <1>1
  <2> HIDE DEF c
  <2> QED
    BY <2>1, <2>2, <2>3, <1>2, <1>4, <1>6, <1>9, CloseCore, TableFacts DEF b
<1> QED
  BY <1>3, <1>8, <1>9

\* Nor is its answer.
LEMMA OnAdminWriteCore ==
    ASSUME Core, NEW o \in ops, OnAdminWrite(o)
    PROVE  Core'
<1>1. /\ Close({o.fd}, slot, conn, ops \ {o}, open) /\ cur = Wait
      /\ UNCHANGED <<drain, world, pool, jobs, inflight, cur>>
  BY DEF OnAdminWrite, Completes, Waiting
<1>2. o.fd \in Fds
  BY OpFacts, TableFacts
<1>3. ops \ {o} \in SUBSET Op /\ \A p \in ops \ {o} : Counted(p, generations)
  BY TableFacts
<1>4. RestShape'
  BY <1>1, RestStays, TableFacts
<1> QED
  BY <1>1, <1>2, <1>3, <1>4, DropCore, TableFacts

\* What the drain makes of a connection it waits for.
LEMMA DrainConnFacts ==
    ASSUME Core, NEW f \in Fds
    PROVE  /\ DrainConn(f) \in Conn /\ SameAttempt(conn[f], DrainConn(f))
           /\ DrainConn(f).reading = conn[f].reading
           /\ DrainConn(f).writing = conn[f].writing
           /\ DrainConn(f).upstream = conn[f].upstream
           /\ DrainConn(f).up_reading = conn[f].up_reading
           /\ DrainConn(f).up_writing = conn[f].up_writing
           /\ DrainConn(f).up_ready = conn[f].up_ready
           /\ DrainConn(f).up_borrowed = conn[f].up_borrowed
           /\ DrainConn(f).drain_counted <=> Waited(f) \/ conn[f].drain_counted
           /\ DrainConn(f).phase \in {conn[f].phase, "Closing"}
           /\ ~Waited(f) => DrainConn(f) = conn[f]
           /\ Waited(f) /\ slot[f] = Client => /\ DrainConn(f).phase # "Head"
                                               /\ ~DrainConn(f).client_keep_alive
<1> DEFINE c == conn[f]
           a == [c EXCEPT !.drain_counted = TRUE]
           p == IF c.phase = "Head" THEN "Closing" ELSE c.phase
           d == [c EXCEPT !.drain_counted = TRUE, !.client_keep_alive = FALSE,
                          !.phase = p]
<1>1. DrainConn(f) = IF ~Waited(f) THEN c ELSE IF slot[f] = Admin THEN a ELSE d
  BY DEF DrainConn
<1>2. Client # Admin
  BY SlotKinds
<1>3. c \in Conn /\ p \in Phase /\ p # "Head" /\ p \in {c.phase, "Closing"}
  BY CoreFacts, Names DEF Conn
<1> HIDE DEF c, p
<1>4. a \in Conn /\ d \in Conn
  BY <1>3, SetField
<1>5. /\ SameAttempt(c, c) /\ SameAttempt(c, a) /\ SameAttempt(c, d)
  BY <1>3 DEF SameAttempt, Conn
<1>6. /\ a.reading = c.reading /\ a.writing = c.writing /\ a.upstream = c.upstream
      /\ a.up_reading = c.up_reading /\ a.up_writing = c.up_writing
      /\ a.up_ready = c.up_ready /\ a.up_borrowed = c.up_borrowed
      /\ a.drain_counted /\ a.phase = c.phase
  BY <1>3 DEF Conn
<1>7. /\ d.reading = c.reading /\ d.writing = c.writing /\ d.upstream = c.upstream
      /\ d.up_reading = c.up_reading /\ d.up_writing = c.up_writing
      /\ d.up_ready = c.up_ready /\ d.up_borrowed = c.up_borrowed
      /\ d.drain_counted /\ d.phase = p /\ ~d.client_keep_alive
  BY <1>3 DEF Conn
<1> HIDE DEF a, d
<1>8. CASE ~Waited(f)
  BY <1>1, <1>3, <1>5, <1>8 DEF c
<1>9. CASE Waited(f) /\ slot[f] = Admin
  BY <1>1, <1>2, <1>4, <1>5, <1>6, <1>9 DEF c
<1>10. CASE Waited(f) /\ slot[f] # Admin
  BY <1>1, <1>3, <1>4, <1>5, <1>7, <1>10 DEF c
<1> QED
  BY <1>8, <1>9, <1>10

\* The drain closes connections or leaves their attempts alone.
LEMMA BeginDrainCore ==
    ASSUME Core, BeginDrain
    PROVE  Core'
<1> DEFINE held == {f \in Fds : slot[f] \in {Client, Admin}}
           waited == {f \in held : Waited(f)}
           closed == Pooled \cup (held \ waited)
<1>1. /\ slot' = [f \in Fds |-> IF f \in closed THEN Empty ELSE slot[f]]
      /\ conn' = [f \in Fds |-> IF f \in closed THEN NewConn ELSE DrainConn(f)]
      /\ generations' = Bumped(generations, closed)
      /\ ops' = Aged(ops, closed)
      /\ open' = open \ closed
      /\ drain_inflight' = Cardinality(waited)
  BY DEF BeginDrain, Bumped
<1>2. /\ cur = Wait /\ draining' = TRUE
      /\ listen' = [r \in Roles |-> IF listen[r] = "armed" THEN "shut" ELSE "gone"]
      /\ pool' = [e \in Endpoints |-> <<>>]
      /\ severed' = \E f \in held \ waited : conn[f].upstream # NoFd
      /\ UNCHANGED <<drain_expired, stopped, away, midbody, counts, jobs, inflight,
                     cur>>
  BY DEF BeginDrain, Waiting
<1>3. closed \in SUBSET Fds /\ IsFiniteSet(waited) /\ Cardinality(waited) \in Nat
  BY KindsAssumption, FS_Subset, FS_CardinalityType DEF Pooled
<1> HIDE DEF closed, waited, held
<1>4. slot' \in [Fds -> Slot] /\ conn' \in [Fds -> Conn]
  BY <1>1, SlotKinds, NewConnType, DrainConnFacts, TableFacts
<1>5. /\ ops' \in SUBSET Op /\ generations' \in Gens
      /\ \A o \in ops' : Counted(o, generations')
  BY <1>1, <1>3, AgedFacts, TableFacts
<1>6. TableShape' /\ BumpInv'
  BY <1>1, <1>3, <1>4, <1>5, TableFacts DEF TableShape, BumpInv, Gens
<1>7. /\ severed' \in BOOLEAN
      /\ listen' \in [Roles -> {"armed", "lost", "shut", "gone"}]
      /\ pool' \in [Endpoints -> Seq(Fds)]
  BY <1>2
<1>8. RestShape'
  BY <1>2, <1>7, TableFacts DEF RestShape, counts
<1>9. \A g \in Fds : conn'[g] = NewConn \/ SameAttempt(conn[g], conn'[g])
  BY <1>1, DrainConnFacts
<1> QED
  BY <1>2, <1>6, <1>8, <1>9, SweepCore

\* Teardown closes every connection.
LEMMA TeardownCore ==
    ASSUME Core, Teardown
    PROVE  Core'
<1> DEFINE closed == {f \in Fds : slot[f].is \in {"Client", "Admin", "Upstream", "Idle"}}
<1>1. /\ Close(closed, slot, conn, ops, open) /\ cur = Wait
      /\ pool' = [e \in Endpoints |-> <<>>] /\ stopped' = TRUE
      /\ UNCHANGED <<draining, drain_expired, severed, world, jobs, inflight, cur>>
  BY DEF Teardown, Waiting
<1>2. closed \in SUBSET Fds /\ pool' \in [Endpoints -> Seq(Fds)]
  BY <1>1
<1>3. RestShape'
  BY <1>1, <1>2, TableFacts DEF RestShape, world, counts
<1> HIDE DEF closed
<1> QED
  BY <1>1, <1>2, <1>3, DropCore, TableFacts

\* A core that starts has no attempt and no hold.
LEMMA InitCore == Init => Core
<1> SUFFICES ASSUME Init PROVE Core
  OBVIOUS
<1>1. /\ conn = [f \in Fds |-> NewConn] /\ cur = Wait
      /\ inflight = [e \in Endpoints |-> 0]
  BY DEF Init
<1>2. \A f \in Fds : Settled(conn[f]) /\ \A step \in Steps : ~At(step, f)
  BY <1>1, NewConnSettled, Names DEF At, Wait
<1>3. ASSUME NEW e \in Endpoints PROVE inflight[e] >= Cardinality(HeldFor(e))
  <2>1. HeldFor(e) = {}
    BY <1>1, NewConnSettled DEF HeldFor
  <2> QED
    BY <2>1, <1>1, FS_EmptySet
<1> QED
  BY <1>2, <1>3, InitSound DEF Core, AttemptInv

\* Every step of a handler keeps the attempts accounted for.
LEMMA StepCore ==
    ASSUME Core, NEW f \in Fds, Step(f)
    PROVE  Core'
  BY ParseNothingCore, ParseErrorCore, HandOffCore, RouteRequestCore,
     OpenUpstreamCore, RetryOrFailCore, UpstreamFailedCore, UpstreamEofCore,
     FinishResponseCore, PumpRequestBodyCore, PumpNothingCore, RelayHeadCore,
     RelayBodyCore, UpstreamGarbageCore, BeginTunnelCore, PumpTunnelCore,
     DriveCore DEF Step

\* So does every completion.
LEMMA DispatchedCore ==
    ASSUME Core, NEW o \in ops, Dispatched(o)
    PROVE  Core'
  BY DropStaleCore, OnClientReadCore, OnClientWriteCore, OnUpstreamReadCore,
     OnIdleReadCore, OnUpstreamWriteCore, OnOrphanCore, OnAdminReadCore,
     OnAdminWriteCore DEF Dispatched

\* So does every step of the core.
LEMMA NextCore ==
    ASSUME Core, [Next]_vars
    PROVE  Core'
<1>1. ASSUME NEW f \in Fds, \/ Step(f) \/ AcceptClient(f) \/ AcceptAdmin(f)
                            \/ OnConnected(f) \/ OtherCloses(f) \/ TickOverdue(f)
                            \/ TickExpire(f)
      PROVE  Core'
  BY <1>1, StepCore, AcceptClientCore, AcceptAdminCore, OnConnectedCore,
     OtherClosesCore, TickOverdueCore, TickExpireCore
<1>2. ASSUME NEW r \in Roles,
             AcceptExhausted(r) \/ \E f \in Fds : DropStaleAccept(r, f)
      PROVE  Core'
  BY <1>2, ListenersCore
<1>3. ASSUME NEW o \in ops, Dispatched(o) PROVE Core'
  BY <1>3, DispatchedCore
<1>4. CASE TickGrace \/ BeginDrain \/ Teardown
  BY <1>4, TickGraceCore, BeginDrainCore, TeardownCore
<1>5. CASE UNCHANGED vars
  <2>1. /\ UNCHANGED <<slot, conn, generations, ops, drain_inflight, inflight>>
        /\ open' = open /\ cur' = cur /\ RestShape'
    BY <1>5, TableFacts DEF vars, table, RestShape, drain, world, counts
  <2> QED
    BY <2>1, StillCore, TableFacts
<1> QED
  BY <1>1, <1>2, <1>3, <1>4, <1>5 DEF Next

\* The shapes, the ages and the attempts, in every state of every core: the
\* invariant holds at the start and every step keeps it.
THEOREM SpecCore == Spec => []Core
<1>1. Init => Core
  BY InitCore
<1>2. Core /\ [Next]_vars => Core'
  BY NextCore
<1> QED
  BY <1>1, <1>2, PTL DEF Spec

\* The invariant is enough for NeverSentTwice and NeverReleasedTwice: a hold of a
\* client is a hold.
LEMMA CoreAttempts == Core => AttemptsAccounted
<1> SUFFICES ASSUME Core PROVE AttemptsAccounted
  OBVIOUS
<1>1. ASSUME NEW f \in Fds, At("open", f)
      PROVE  /\ ~conn[f].committed
             /\ conn[f].attempt > 0 \/ conn[f].pool_retry_used =>
                   conn[f].replayable /\ conn[f].request_body = "done"
  BY <1>1, CoreFacts, Names DEF Ready, Replays
<1>2. ASSUME NEW e \in Endpoints
      PROVE  inflight[e] >= Cardinality({f \in Fds : /\ slot[f] = Client
                                                     /\ conn[f].inflight_held
                                                     /\ Target(conn[f]) = e})
  <2> DEFINE H == {f \in Fds : /\ slot[f] = Client /\ conn[f].inflight_held
                               /\ Target(conn[f]) = e}
  <2>1. H \subseteq HeldFor(e) /\ HeldFor(e) \subseteq Fds
    BY DEF HeldFor
  <2>2. IsFiniteSet(HeldFor(e)) /\ IsFiniteSet(H)
    BY <2>1, KindsAssumption, FS_Subset
  <2> HIDE DEF H
  <2>3. /\ Cardinality(H) <= Cardinality(HeldFor(e))
        /\ Cardinality(H) \in Nat /\ Cardinality(HeldFor(e)) \in Nat
    BY <2>1, <2>2, FS_Subset, FS_CardinalityType
  <2>4. inflight[e] \in Int /\ inflight[e] >= Cardinality(HeldFor(e))
    BY TableFacts DEF Core, AttemptInv
  <2>5. inflight[e] >= Cardinality(H)
    BY <2>3, <2>4
  <2> QED
    BY <2>5 DEF H
<1>3. NeverSentTwice
  BY <1>1 DEF NeverSentTwice
<1>4. NeverReleasedTwice
  BY <1>2 DEF NeverReleasedTwice
<1> QED
  BY <1>3, <1>4 DEF AttemptsAccounted

\* No request that may have been acted on is sent to a second place, and no
\* attempt gives back a hold it did not have (retry_or_fail, upstream_failed,
\* hold_inflight, release_inflight), whatever the number of descriptors,
\* endpoints, attempts and clients, generations wrapping or not.
THEOREM AttemptsTheorem == Spec => []AttemptsAccounted
  BY SpecCore, CoreAttempts, PTL

\* While no operation outlives a whole round of its descriptor's generations,
\* the tags tell the present operations from the old ones.
LEMMA LiveIsCurrent ==
    ASSUME Core, NoWrap, NEW o \in ops
    PROVE  IsLive(o) <=> o.age = 0
<1>1. /\ o.fd \in Fds /\ o.age \in Nat /\ o.gen \in 0 .. GenModulus - 1
      /\ generations[o.fd] \in 0 .. GenModulus - 1
      /\ o.age < GenModulus
      /\ o.gen + o.age \in {generations[o.fd], generations[o.fd] + GenModulus}
  BY OpFacts, TableFacts DEF Gens, NoWrap, Counted
<1>2. ASSUME NEW a \in Nat, NEW n \in 0 .. GenModulus - 1, NEW g \in 0 .. GenModulus - 1,
             a < GenModulus, n + a \in {g, g + GenModulus}
      PROVE  n = g <=> a = 0
  BY <1>2, SizesAssumption
<1> QED
  BY <1>1, <1>2 DEF IsLive

\* The tag of an operation issued before a close is never the tag of the number's
\* new owner (dispatch, bump_generation), as long as no operation is in the ring
\* for as many bumps as generations there are.
THEOREM StaleTheorem == Spec /\ []NoWrap => []NoStaleDelivery
<1>1. Core /\ NoWrap => NoStaleDelivery
  <2> SUFFICES ASSUME Core, NoWrap, NEW o \in ops, o.age > 0 PROVE ~IsLive(o)
    BY DEF NoStaleDelivery
  <2>1. o.age # 0
    BY OpFacts, TableFacts
  <2> QED
    BY <2>1, LiveIsCurrent
<1> QED
  BY <1>1, SpecCore, PTL

-----------------------------------------------------------------------------
(* The table of descriptors.                                               *)

\* The steps that close, replace or pool the upstream.
Unlent == {"open", "retry", "eof", "failed", "finish"}
\* The operations on a client's, an admin connection's and an upstream's socket.
DownKinds == {"DOWN_READ", "DOWN_WRITE"}
AdminKinds == {"ADMIN_READ", "ADMIN_WRITE"}
UpKinds == {"UP_READ", "UP_WRITE"}

\* A step that changes the connection on f, and its operations in the ring.
Turn(f, c) ==
    /\ slot' = slot /\ open' = open /\ away' = away /\ listen' = listen
    /\ pool' = pool /\ drain' = drain /\ conn' = [conn EXCEPT ![f] = c]
    /\ jobs' \subseteq jobs /\ DrainCountExact' /\ ~stopped
    /\ cur' = Wait \/ cur'.fd = f
    /\ c.upstream = conn[f].upstream
    /\ c.drain_counted <=> conn[f].drain_counted
    /\ c.phase = "Head" => conn[f].phase = "Head"
    /\ c.client_keep_alive => conn[f].client_keep_alive \/ conn[f].phase = "Head"
    /\ \A k \in DownKinds \cup AdminKinds, g \in Fds \ {f} :
          g \in Ring'[k] <=> g \in Ring[k]
    /\ \A k \in AdminKinds : f \notin Ring'[k]
    /\ c.reading <=> f \in Ring'["DOWN_READ"]
    /\ c.writing <=> f \in Ring'["DOWN_WRITE"]

\* The same of its upstream.
TurnUp(f, c) ==
    /\ \A k \in UpKinds, g \in Fds \ {c.upstream} : g \in Ring'[k] <=> g \in Ring[k]
    /\ c.upstream # NoFd => /\ c.up_reading <=> c.upstream \in Ring'["UP_READ"]
                            /\ c.up_writing <=> c.upstream \in Ring'["UP_WRITE"]
    /\ c.up_borrowed =>
          /\ conn[f].up_borrowed /\ c.phase \in {"Connecting", "Closing"}
          /\ c.upstream # NoFd => ~c.up_reading /\ ~c.up_writing /\ ~c.up_ready
          /\ cur'.at \notin Unlent
    /\ jobs' = IF conn[f].up_borrowed /\ ~c.up_borrowed THEN jobs \ {c.upstream}
               ELSE jobs

\* The drain's flags are truth values.
LEMMA DrainType ==
    ASSUME Core
    PROVE  draining \in BOOLEAN /\ stopped \in BOOLEAN /\ severed \in BOOLEAN
  BY DEF Core, Sound, Shape, RestShape

\* Slots and upstreams name descriptors.
LEMMA SlotFacts ==
    ASSUME slot \in [Fds -> Slot], conn \in [Fds -> Conn]
    PROVE  \A g \in Fds :
              /\ slot[g].is = "Upstream" => /\ slot[g].of \in Fds
                                            /\ slot[g] = Upstream(slot[g].of)
              /\ slot[g].is = "Idle" => slot[g].of \in Endpoints /\ slot[g] = Idle(slot[g].of)
              /\ conn[g].upstream \in Fds \cup {NoFd}
  BY SlotCases, LetGo

\* A step that moves one client and its operations keeps the table.
LEMMA TurnStep ==
    ASSUME IInv, NEW f \in Fds, slot[f] = Client, NEW c \in Conn, Turn(f, c),
           ~severed => TurnUp(f, c)
    PROVE  Accounts'
<1> USE SlotKinds
<1>1. conn \in [Fds -> Conn] /\ slot \in [Fds -> Slot] /\ Table
  BY TableFacts DEF IInv, Accounts
<1>2. /\ slot' = slot /\ open' = open /\ away' = away /\ listen' = listen
      /\ pool' = pool /\ draining' = draining /\ stopped' = stopped
      /\ severed' = severed /\ jobs' \subseteq jobs /\ DrainCountExact' /\ ~stopped
      /\ cur' = Wait \/ cur'.fd = f
  BY DEF Turn, drain
<1>3. /\ conn'[f] = c /\ \A g \in Fds \ {f} : conn'[g] = conn[g]
      /\ \A g \in Fds : conn'[g].upstream = conn[g].upstream
      /\ \A g \in Fds : conn'[g].drain_counted <=> conn[g].drain_counted
  BY <1>1 DEF Turn
<1>4. SlotInv'
  BY <1>1, <1>2, <1>3 DEF Table, SlotInv
<1>5. ReservedInv'
  BY <1>1, <1>2, <1>3 DEF Table, ReservedInv, Reserved, Pooled
<1>6. DownInv'
  <2>1. /\ \A k \in DownKinds \cup AdminKinds, g \in Fds \ {f} :
              g \in Ring'[k] <=> g \in Ring[k]
        /\ \A k \in AdminKinds : f \notin Ring'[k]
        /\ c.reading <=> f \in Ring'["DOWN_READ"]
        /\ c.writing <=> f \in Ring'["DOWN_WRITE"]
    BY DEF Turn
  <2> QED
    BY <2>1, <1>1, <1>2, <1>3 DEF Table, DownInv, DownKinds, AdminKinds
<1>7. DrainInv'
  <2>1. /\ c.phase = "Head" => conn[f].phase = "Head"
        /\ c.client_keep_alive => conn[f].client_keep_alive \/ conn[f].phase = "Head"
    BY DEF Turn
  <2> QED
    BY <2>1, <1>1, <1>2, <1>3 DEF Table, DrainInv
<1>8. CurInv'
  BY <1>1, <1>2 DEF Table, CurInv
<1>9. ASSUME ~severed
      PROVE  Owned'
  <2>1. Owned
    BY <1>9 DEF IInv, Accounts
  <2>2. /\ \A k \in UpKinds, g \in Fds \ {c.upstream} : g \in Ring'[k] <=> g \in Ring[k]
        /\ c.upstream # NoFd => /\ c.up_reading <=> c.upstream \in Ring'["UP_READ"]
                                /\ c.up_writing <=> c.upstream \in Ring'["UP_WRITE"]
        /\ c.up_borrowed =>
              /\ conn[f].up_borrowed /\ c.phase \in {"Connecting", "Closing"}
              /\ c.upstream # NoFd => ~c.up_reading /\ ~c.up_writing /\ ~c.up_ready
              /\ cur'.at \notin Unlent
        /\ jobs' = IF conn[f].up_borrowed /\ ~c.up_borrowed THEN jobs \ {c.upstream}
                   ELSE jobs
    BY <1>9 DEF TurnUp
  <2>3. UseInv'
    BY <2>1, <1>1, <1>2, <1>3, SlotFacts DEF Owned, UseInv
  <2>4. ASSUME NEW g \in Fds, slot[g].is = "Upstream"
        PROVE  slot[g].of = f <=> g = c.upstream
    BY <2>1, <2>4, <1>1, <1>3, SlotFacts, Names DEF Owned, UseInv
  <2>5. JobsInv'
    <3> SUFFICES ASSUME NEW g \in Fds
                 PROVE  g \in jobs' <=> \/ slot[g] = Abandoned
                                        \/ /\ slot[g].is = "Upstream"
                                           /\ conn'[slot[g].of].up_borrowed
      BY <1>2 DEF JobsInv
    <3>1. g \in jobs <=> \/ slot[g] = Abandoned
                         \/ slot[g].is = "Upstream" /\ conn[slot[g].of].up_borrowed
      BY <2>1, <1>2 DEF Owned, JobsInv
    <3>2. CASE g = c.upstream
      <4>1. slot[g].is = "Upstream" /\ slot[g].of = f /\ slot[g] # Abandoned
        BY <3>2, <2>1, <1>3, Names DEF Owned, UseInv
      <4> QED
        BY <4>1, <3>1, <3>2, <2>2, <1>3
    <3>3. CASE g # c.upstream
      BY <3>1, <3>3, <2>2, <2>4, <1>1, <1>3, SlotFacts
    <3> QED
      BY <3>2, <3>3
  <2>6. PoolInv'
    BY <2>1, <1>2 DEF Owned, PoolInv
  <2>7. UpInv'
    <3> SUFFICES ASSUME NEW g \in Fds
                 PROVE  /\ slot[g] = Client /\ conn'[g].upstream # NoFd =>
                              /\ conn'[g].up_reading <=> conn'[g].upstream \in Ring'["UP_READ"]
                              /\ conn'[g].up_writing <=> conn'[g].upstream \in Ring'["UP_WRITE"]
                        /\ slot[g].is = "Idle" => /\ g \in Ring'["UP_READ"]
                                                  /\ g \notin Ring'["UP_WRITE"]
                        /\ g \in Ring'["UP_READ"] \cup Ring'["UP_WRITE"] =>
                              slot[g].is \in {"Upstream", "Idle"}
      BY <1>2 DEF UpInv
    <3>1. /\ slot[g] = Client /\ conn[g].upstream # NoFd =>
                /\ conn[g].up_reading <=> conn[g].upstream \in Ring["UP_READ"]
                /\ conn[g].up_writing <=> conn[g].upstream \in Ring["UP_WRITE"]
          /\ slot[g].is = "Idle" => /\ g \in Ring["UP_READ"]
                                    /\ g \notin Ring["UP_WRITE"]
          /\ g \in Ring["UP_READ"] \cup Ring["UP_WRITE"] =>
                slot[g].is \in {"Upstream", "Idle"}
      BY <2>1 DEF Owned, UpInv
    <3>2. \A h \in Fds : h # c.upstream => /\ h \in Ring'["UP_READ"] <=> h \in Ring["UP_READ"]
                                           /\ h \in Ring'["UP_WRITE"] <=> h \in Ring["UP_WRITE"]
      BY <2>2 DEF UpKinds
    <3>3. g = c.upstream => slot[g].is = "Upstream"
      BY <2>1, <1>3, Names DEF Owned, UseInv
    <3>4. g # f /\ slot[g] = Client /\ conn[g].upstream # NoFd =>
              conn[g].upstream # c.upstream /\ conn[g].upstream \in Fds
      BY <2>1, <1>1, <1>3, SlotFacts, Names DEF Owned, UseInv
    <3> QED
      BY <3>1, <3>2, <3>3, <3>4, <2>2, <1>3
  <2>8. BorrowInv'
    BY <2>1, <2>2, <1>1, <1>2, <1>3, Names DEF Owned, BorrowInv, Wait, Unlent
  <2> QED
    BY <2>3, <2>5, <2>6, <2>7, <2>8 DEF Owned
<1> QED
  BY <1>2, <1>4, <1>5, <1>6, <1>7, <1>8, <1>9 DEF Accounts, Table

\* The drain's counter over a close.
LEMMA CountClosed ==
    ASSUME DrainCountExact, NEW closed \in SUBSET Fds, NEW s,
           NEW cs, NEW os, NEW ks, Close(closed, s, cs, os, ks),
           \A g \in Fds : cs[g].drain_counted <=> conn[g].drain_counted
    PROVE  DrainCountExact'
<1> DEFINE C == {g \in Fds : conn[g].drain_counted}
           K == {g \in closed : cs[g].drain_counted}
           D == {g \in Fds : conn'[g].drain_counted}
<1>1. ~NewConn.drain_counted
  BY DEF NewConn
<1>2. /\ conn' = [g \in Fds |-> IF g \in closed THEN NewConn ELSE cs[g]]
      /\ drain_inflight' = IF Cardinality(K) > drain_inflight THEN 0
                           ELSE drain_inflight - Cardinality(K)
      /\ drain_inflight = Cardinality(C)
  BY DEF Close, DrainCountExact
<1>3. K = C \cap closed /\ D = C \ closed
  BY <1>1, <1>2
<1>4. IsFiniteSet(C)
  BY KindsAssumption, FS_Subset
<1>5. IsFiniteSet(K) /\ Cardinality(C) \in Nat /\ Cardinality(K) \in Nat
      /\ Cardinality(K) <= Cardinality(C)
      /\ Cardinality(D) = Cardinality(C) - Cardinality(K)
  BY <1>3, <1>4, FS_Subset, FS_CardinalityType, FS_Difference
<1> HIDE DEF C, K, D
<1>6. drain_inflight' = Cardinality(D)
  BY <1>2, <1>5
<1> QED
  BY <1>6 DEF DrainCountExact, D

\* d becomes c with nothing changed of what the table knows of it.
SameFlags(d, c) ==
    /\ c.upstream = d.upstream
    /\ c.reading <=> d.reading
    /\ c.writing <=> d.writing
    /\ c.upstream # NoFd => /\ c.up_reading <=> d.up_reading
                            /\ c.up_writing <=> d.up_writing
    /\ c.up_borrowed <=> d.up_borrowed
    /\ c.drain_counted <=> d.drain_counted
    /\ c.phase = "Head" => d.phase = "Head"
    /\ c.client_keep_alive => d.client_keep_alive \/ d.phase = "Head"

\* An upstream the helper has is left alone until it answers.
StaysLent(d, c, step) ==
    c.up_borrowed => /\ c.phase \in {d.phase, "Closing"}
                     /\ c.up_ready => d.up_ready
                     /\ step \notin Unlent

\* A step of a handler that changes only the connection it runs for.
LEMMA QuietStep ==
    ASSUME IInv, NEW f \in Fds, NEW c \in Conn, NEW step \in Steps, Update(f, c),
           Goto(step, f), UNCHANGED <<drain, world, pool, jobs>>,
           cur # Wait, cur.fd = f, SameFlags(conn[f], c),
           ~severed => StaysLent(conn[f], c, step)
    PROVE  Accounts'
<1>1. Core /\ Table
  BY DEF IInv, Accounts
<1>2. slot[f] = Client /\ ~stopped
  BY <1>1 DEF Table, CurInv
<1>3. /\ slot' = slot /\ conn' = [conn EXCEPT ![f] = c] /\ ops' = ops /\ open' = open
  BY <1>1, UpdateFacts, TableFacts
<1>4. Ring' = Ring /\ jobs' = jobs
  BY <1>3 DEF Ring
<1>5. \A g \in Fds : [conn EXCEPT ![f] = c][g].drain_counted <=> conn[g].drain_counted
  BY <1>1, TableFacts DEF SameFlags
<1>6. DrainCountExact'
  BY <1>1, <1>5, CountClosed DEF Update, Table, DrainInv
<1>7. cur' = [at |-> step, fd |-> f] /\ cur'.fd = f /\ cur'.at = step
  BY DEF Goto
<1>8. Turn(f, c)
  <2>1. /\ \A k \in AdminKinds : f \notin Ring[k]
        /\ conn[f].reading <=> f \in Ring["DOWN_READ"]
        /\ conn[f].writing <=> f \in Ring["DOWN_WRITE"]
    BY <1>1, <1>2, SlotKinds DEF Table, DownInv, AdminKinds
  <2> QED
    BY <2>1, <1>2, <1>3, <1>4, <1>6, <1>7 DEF Turn, SameFlags, world, drain
<1>9. ASSUME ~severed PROVE TurnUp(f, c)
  <2>1. Owned
    BY <1>9 DEF IInv, Accounts
  <2>2. /\ conn[f].upstream # NoFd =>
             /\ conn[f].up_reading <=> conn[f].upstream \in Ring["UP_READ"]
             /\ conn[f].up_writing <=> conn[f].upstream \in Ring["UP_WRITE"]
        /\ conn[f].up_borrowed =>
              /\ conn[f].phase \in {"Connecting", "Closing"}
              /\ conn[f].upstream # NoFd =>
                    ~conn[f].up_reading /\ ~conn[f].up_writing /\ ~conn[f].up_ready
    BY <2>1, <1>2 DEF Owned, UpInv, BorrowInv
  <2> QED
    BY <2>2, <1>4, <1>7, <1>9 DEF TurnUp, SameFlags, StaysLent
<1> QED
  BY <1>2, <1>8, <1>9, TurnStep

\* A handler that is somewhere is not waiting.
LEMMA AtFacts ==
    ASSUME NEW f, NEW step, At(step, f), step # "wait"
    PROVE  cur # Wait /\ cur.fd = f /\ cur.at = step
  BY DEF At, Wait

\* When no upstream can be lent.
LEMMA NotLent ==
    ASSUME IInv, ~severed, NEW f \in Fds,
           \/ conn[f].phase \notin {"Connecting", "Closing"}
           \/ cur.fd = f /\ cur.at \in Unlent
    PROVE  ~conn[f].up_borrowed
  BY DEF IInv, Accounts, Owned, BorrowInv, Unlent

\* A step that changes nothing of the table is an update with what is there.
LEMMA StillUpdate ==
    ASSUME TableShape, NEW f \in Fds, UNCHANGED <<table, drain_inflight>>
    PROVE  Update(f, conn[f])
<1>1. {g \in {} : [conn EXCEPT ![f] = conn[f]][g].drain_counted} = {}
  OBVIOUS
<1>2. Cardinality({g \in {} : [conn EXCEPT ![f] = conn[f]][g].drain_counted}) = 0
  BY <1>1, FS_EmptySet
<1>3. Aged(ops, {}) = ops
  <2>1. ASSUME NEW o \in ops
        PROVE  [o EXCEPT !.age = IF o.fd \in {} THEN @ + 1 ELSE @] = o
    BY DEF TableShape, Op
  <2> QED
    BY <2>1 DEF Aged
<1>4. /\ slot' = [g \in Fds |-> slot[g]]
      /\ conn' = [g \in Fds |-> [conn EXCEPT ![f] = conn[f]][g]]
      /\ generations' = [g \in Fds |-> generations[g]]
      /\ ops' = ops /\ open' = open /\ drain_inflight' = drain_inflight
      /\ drain_inflight \in Nat
  BY DEF table, TableShape
<1> QED
  BY <1>2, <1>3, <1>4 DEF Update, Close

\* Nothing of the table changes but the phase of one connection.
LEMMA ParseNothingStep ==
    ASSUME IInv, NEW f \in Fds, ParseNothing(f)
    PROVE  Accounts'
<1> DEFINE d == conn[f]
           c == IF d.client_eof THEN [d EXCEPT !.phase = "Closing"] ELSE d
<1>1. /\ At("advance", f) /\ d.phase = "Head" /\ Update(f, c) /\ Goto("drive", f)
      /\ UNCHANGED <<drain, world, pool, jobs>>
  BY DEF ParseNothing
<1>2. d \in Conn /\ c \in Conn
  BY CoreFacts, SetField, Names DEF IInv
<1>3. SameFlags(d, c)
  BY <1>2 DEF SameFlags, Conn
<1>4. ~severed => StaysLent(d, c, "drive")
  BY <1>1, <1>3, NotLent DEF StaysLent, SameFlags
<1> HIDE DEF c
<1> QED
  BY <1>1, <1>2, <1>3, <1>4, AtFacts, QuietStep, Names

\* An upstream's end of stream changes no link.
LEMMA UpstreamEofStep ==
    ASSUME IInv, NEW f \in Fds, UpstreamEof(f)
    PROVE  Accounts'
<1> DEFINE c == conn[f]
           tunnel == [c EXCEPT !.upstream_eof = TRUE]
           ended == [c EXCEPT !.outbox = @ \/ c.up_inbox # "none",
                              !.up_inbox = "none", !.response_body = "done",
                              !.upstream_keep_alive = FALSE]
<1>1. c \in Conn /\ tunnel \in Conn /\ ended \in Conn
  BY CoreFacts, SetField DEF IInv
<1>2. SameFlags(c, c) /\ SameFlags(c, tunnel) /\ SameFlags(c, ended)
  BY <1>1 DEF SameFlags, Conn
<1>3. UNCHANGED <<drain, world, pool, jobs>> /\ At("eof", f)
  BY DEF UpstreamEof
<1>4. \/ Update(f, tunnel) /\ Goto("advance", f)
      \/ Update(f, ended) /\ Goto("finish", f)
      \/ Update(f, c) /\ Goto("failed", f)
  BY DEF UpstreamEof
<1>5. ~severed => ~c.up_borrowed
  BY <1>3, AtFacts, NotLent DEF Unlent
<1> HIDE DEF c, tunnel, ended
<1>6. ~severed => \A step : /\ StaysLent(c, c, step) /\ StaysLent(c, tunnel, step)
                            /\ StaysLent(c, ended, step)
  BY <1>2, <1>5 DEF StaysLent, SameFlags
<1> QED
  BY <1>1, <1>2, <1>3, <1>4, <1>6, AtFacts, QuietStep, Names DEF c

\* With nothing to relay the table stays.
LEMMA PumpNothingStep ==
    ASSUME IInv, NEW f \in Fds, PumpNothing(f)
    PROVE  Accounts'
<1>1. /\ At("advance", f) /\ Goto("drive", f)
      /\ UNCHANGED <<table, drain_inflight>> /\ UNCHANGED <<drain, world, pool, jobs>>
  BY DEF PumpNothing
<1>2. Update(f, conn[f])
  BY <1>1, StillUpdate, TableFacts DEF IInv
<1>3. conn[f] \in Conn /\ SameFlags(conn[f], conn[f])
  BY CoreFacts DEF IInv, SameFlags
<1>4. StaysLent(conn[f], conn[f], "drive")
  BY DEF StaysLent, Unlent
<1> QED
  BY <1>1, <1>2, <1>3, <1>4, AtFacts, QuietStep, Names

\* A relayed head changes no link and no flag.
LEMMA RelayHeadStep ==
    ASSUME IInv, NEW f \in Fds, RelayHead(f)
    PROVE  Accounts'
<1> DEFINE c == conn[f]
           whole == c.up_inbox \in {"full", "fullMore"}
           ends == c.up_inbox = "close"
           left == IF c.up_inbox = "fullMore" THEN "extra" ELSE "none"
           body == IF whole THEN "done" ELSE IF ends THEN "until-close" ELSE "more"
           stays == c.client_keep_alive /\ ~ends
           d(keep) == [c EXCEPT !.up_inbox = left, !.response_body = body,
                                !.upstream_keep_alive = keep,
                                !.client_keep_alive = stays,
                                !.outbox = TRUE, !.phase = "Relaying",
                                !.response_head_seen = TRUE, !.committed = TRUE,
                                !.deadline = TRUE]
<1>1. PICK keep \in BOOLEAN : Update(f, d(keep))
  <2>1. PICK k \in BOOLEAN : Update(f, d(k /\ ~ends))
    BY DEF RelayHead
  <2>2. (k /\ ~ends) \in BOOLEAN
    OBVIOUS
  <2> QED
    BY <2>1, <2>2
<1>2. /\ left \in {"none", "rest", "restMore", "extra", "garbage"} \cup Responses
      /\ body \in {"done", "more", "until-close"} /\ stays \in BOOLEAN
  BY CoreFacts DEF IInv, Conn
<1>3. stays => c.client_keep_alive
  OBVIOUS
<1> HIDE DEF left, body, stays
<1>4. c \in Conn /\ "Relaying" \in Phase
  BY CoreFacts, Names DEF IInv
<1>5. /\ At("advance", f) /\ c.phase \in {"Exchanging", "Relaying"}
      /\ Goto("finish", f) \/ Goto("advance", f)
      /\ UNCHANGED <<drain, world, pool, jobs>>
  BY DEF RelayHead, Pumping
<1>6. ~severed => ~c.up_borrowed
  BY <1>5, NotLent
<1> HIDE DEF c
<1>7. d(keep) \in Conn
  BY <1>2, <1>4, AnsweredType
<1>8. SameFlags(c, d(keep))
  BY <1>2, <1>3, <1>4 DEF SameFlags, Conn
<1> HIDE DEF d
<1>9. ~severed => \A step : StaysLent(c, d(keep), step)
  BY <1>6, <1>8 DEF StaysLent, SameFlags
<1> QED
  BY <1>1, <1>5, <1>7, <1>8, <1>9, AtFacts, QuietStep, Names DEF c

\* Nor does a relayed body.
LEMMA RelayBodyStep ==
    ASSUME IInv, NEW f \in Fds, RelayBody(f)
    PROVE  Accounts'
<1> DEFINE c == conn[f]
           ends == c.response_body = "more"
           d == [c EXCEPT !.up_inbox = IF @ = "restMore" THEN "extra" ELSE "none",
                          !.outbox = TRUE,
                          !.response_body = IF ends THEN "done" ELSE @]
<1>1. c \in Conn /\ c.response_body \in {"done", "more", "until-close"}
  BY CoreFacts DEF IInv, Conn
<1>2. d \in Conn
  BY <1>1, SetField
<1>3. SameFlags(c, d)
  BY <1>1 DEF SameFlags, Conn
<1>4. /\ At("advance", f) /\ c.phase \in {"Exchanging", "Relaying"}
      /\ Goto("finish", f) \/ Goto("advance", f)
      /\ Update(f, d)
      /\ UNCHANGED <<drain, world, pool, jobs>>
  BY DEF RelayBody, Pumping
<1>5. ~severed => ~c.up_borrowed
  BY <1>4, NotLent
<1> HIDE DEF c, d
<1>6. ~severed => \A step : StaysLent(c, d, step)
  BY <1>3, <1>5 DEF StaysLent, SameFlags
<1> QED
  BY <1>2, <1>3, <1>4, <1>6, AtFacts, QuietStep, Names DEF c

\* Nor do a tunnel's bytes.
LEMMA PumpTunnelStep ==
    ASSUME IInv, NEW f \in Fds, PumpTunnel(f)
    PROVE  Accounts'
<1> DEFINE c == conn[f]
           out == c.up_outbox \/ c.inbox # "none"
           in == c.outbox \/ c.up_inbox # "none"
           d == [c EXCEPT !.up_outbox = out, !.inbox = "none",
                          !.outbox = in, !.up_inbox = "none"]
           over == [d EXCEPT !.phase = "Closing", !.outbox = d.tls]
<1>1. /\ At("advance", f) /\ c.phase = "Tunnel"
      /\ UNCHANGED <<drain, world, pool, jobs>>
  BY DEF PumpTunnel
<1>2. /\ Update(f, d) \/ Update(f, over)
      /\ Goto("advance", f) \/ Goto("drive", f)
  BY DEF PumpTunnel
<1>3. c \in Conn /\ out \in BOOLEAN /\ in \in BOOLEAN /\ "Closing" \in Phase
  BY CoreFacts, Names DEF IInv
<1>4. ~severed => ~c.up_borrowed
  BY <1>1, NotLent
<1> HIDE DEF c, out, in
<1>5. d \in Conn
  BY <1>3, SetField
<1>6. SameFlags(c, d)
  BY <1>3 DEF SameFlags, Conn
<1>7. d.tls \in BOOLEAN
  BY <1>5 DEF Conn
<1> HIDE DEF d
<1>8. over \in Conn
  BY <1>3, <1>5, <1>7, SetField
<1>9. SameFlags(c, over)
  BY <1>5, <1>6 DEF SameFlags, Conn
<1> HIDE DEF over
<1>10. ~severed => \A step : StaysLent(c, d, step) /\ StaysLent(c, over, step)
  BY <1>4, <1>6, <1>9 DEF StaysLent, SameFlags
<1> QED
  BY <1>1, <1>2, <1>5, <1>6, <1>8, <1>9, <1>10, AtFacts, QuietStep, Names DEF c

-----------------------------------------------------------------------------
(* Letting go of an upstream, or of the connection itself.                 *)

\* Number g is as it was.
Untouched(g) ==
    /\ slot'[g] = slot[g] /\ conn'[g] = conn[g] /\ (g \in open' <=> g \in open)
    /\ \A k \in Kinds : g \in Ring'[k] <=> g \in Ring[k]

\* Number g is closed.
Gone(g) ==
    /\ slot'[g] = Empty /\ conn'[g] = NewConn /\ g \notin open'
    /\ \A k \in Kinds : g \notin Ring'[k]

\* The connection on f stays, without an upstream.
Alone(f) ==
    /\ slot[f] = Client /\ slot'[f] = Client /\ f \in open'
    /\ conn'[f].upstream = NoFd
    /\ conn'[f].drain_counted <=> conn[f].drain_counted
    /\ draining => conn'[f].phase # "Head" /\ ~conn'[f].client_keep_alive
    /\ \A k \in Kinds : f \in Ring'[k] <=> f \in Ring[k]
    /\ conn'[f].reading <=> conn[f].reading
    /\ conn'[f].writing <=> conn[f].writing

\* A step that lets go of the upstreams U and leaves or closes the client f.
Release(f, U) ==
    /\ slot[f] \in {Client, Admin} /\ U \cap Reserved = {}
    /\ \A g \in Fds \ (U \cup {f}) : Untouched(g)
    /\ \A g \in U : \/ Gone(g)
                    \/ /\ slot'[g] = Abandoned /\ conn'[g] = conn[g]
                       /\ g \in open' <=> g \in open
                       /\ \A k \in DownKinds \cup AdminKinds :
                             g \in Ring'[k] <=> g \in Ring[k]
    /\ Gone(f) \/ Alone(f)
    /\ away' = away /\ listen' = listen /\ pool' = pool /\ drain' = drain
    /\ jobs' \subseteq jobs /\ DrainCountExact' /\ ~stopped
    /\ cur' = Wait \/ (cur'.fd = f /\ slot'[f] = Client)

\* What is let go is the upstream of f, abandoned if the helper has it.
ReleaseUp(f, U) ==
    /\ U = {conn[f].upstream} \ {NoFd}
    /\ \A g \in Fds \ U : g \in jobs' <=> g \in jobs
    /\ \A g \in U : /\ g \in jobs' <=> slot'[g] = Abandoned
                    /\ slot'[g] = Abandoned =>
                          /\ conn[f].up_borrowed
                          /\ \A k \in UpKinds : g \in Ring'[k] <=> g \in Ring[k]
    /\ conn'[f].up_borrowed => /\ conn'[f].phase \in {"Connecting", "Closing"}
                               /\ cur'.at \notin Unlent

\* A step that lets upstreams go, and perhaps their client, keeps the table.
LEMMA ReleaseStep ==
    ASSUME IInv, NEW f \in Fds, NEW U \in SUBSET Fds, Release(f, U),
           ~severed => ReleaseUp(f, U)
    PROVE  Accounts'
<1> USE SlotKinds
<1>1. conn \in [Fds -> Conn] /\ slot \in [Fds -> Slot] /\ Table
      /\ SlotInv /\ ReservedInv /\ DownInv /\ DrainInv /\ CurInv
  BY TableFacts DEF IInv, Accounts, Table
<1>2. /\ away' = away /\ listen' = listen /\ pool' = pool
      /\ draining' = draining /\ stopped' = stopped /\ severed' = severed
      /\ jobs' \subseteq jobs /\ DrainCountExact' /\ ~stopped
      /\ cur' = Wait \/ (cur'.fd = f /\ slot'[f] = Client)
  BY DEF Release, drain
<1>3. /\ slot[f] \in {Client, Admin} /\ f \notin U
      /\ \A g \in U : g \notin Reserved /\ slot[g] \notin {Client, Admin} /\ g \notin away
                      /\ conn[g] = NewConn
  <2>1. U \cap Reserved = {} /\ slot[f] \in {Client, Admin}
    BY DEF Release
  <2>2. \A g \in U : g \notin Reserved /\ slot[g] \notin {Client, Admin} /\ g \notin away
    BY <2>1 DEF Reserved
  <2> QED
    BY <2>1, <2>2, <1>1 DEF SlotInv
<1>4. NewConn.upstream = NoFd /\ ~NewConn.drain_counted /\ ~NewConn.up_borrowed
  BY DEF NewConn
<1>5. ASSUME NEW g \in Fds \ (U \cup {f})
      PROVE  Untouched(g)
  BY DEF Release
<1>6. ASSUME NEW g \in U
      PROVE  /\ slot'[g] \in {Empty, Abandoned} /\ conn'[g] = NewConn
             /\ slot'[g] = Empty => g \notin open' /\ \A k \in Kinds : g \notin Ring'[k]
             /\ slot'[g] = Abandoned => /\ g \in open' <=> g \in open
                                        /\ \A k \in DownKinds \cup AdminKinds :
                                              g \in Ring'[k] <=> g \in Ring[k]
  BY <1>3 DEF Release, Gone
<1>7. \/ /\ slot'[f] = Empty /\ conn'[f] = NewConn /\ f \notin open'
         /\ \A k \in Kinds : f \notin Ring'[k]
      \/ Alone(f)
  BY DEF Release, Gone
<1>8. \A g \in Fds : conn'[g].upstream \in {conn[g].upstream, NoFd}
  BY <1>4, <1>5, <1>6, <1>7 DEF Untouched, Alone
<1>9. \A g \in Fds : slot'[g] \in {Client, Admin} => slot'[g] = slot[g] /\ g \notin U
  BY <1>3, <1>5, <1>6, <1>7 DEF Untouched, Alone
<1>10. \A g \in Fds : slot'[g].is \in {"Upstream", "Idle"} =>
                         g \notin U /\ g # f /\ slot'[g] = slot[g]
  BY <1>5, <1>6, <1>7 DEF Untouched, Alone
<1>11. SlotInv'
  <2> SUFFICES ASSUME NEW g \in Fds
               PROVE  /\ slot'[g] \notin {Client, Admin} => conn'[g] = NewConn
                      /\ slot'[g] = Admin => conn'[g].upstream = NoFd
                      /\ slot'[g].is = "Upstream" => slot'[slot'[g].of] # Admin
                      /\ g \in away' => slot'[g] = Empty
    BY DEF SlotInv
  <2>1. slot'[g] \notin {Client, Admin} => conn'[g] = NewConn
    BY <1>1, <1>5, <1>6, <1>7 DEF SlotInv, Untouched, Alone
  <2>2. slot'[g] = Admin => conn'[g].upstream = NoFd
    BY <1>1, <1>5, <1>8, <1>9 DEF SlotInv, Untouched
  <2>3. slot'[g].is = "Upstream" => slot'[slot'[g].of] # Admin
    BY <1>1, <1>9, <1>10, SlotFacts DEF SlotInv
  <2>4. g \in away' => slot'[g] = Empty
    BY <1>1, <1>2, <1>3, <1>5, <1>7 DEF SlotInv, Untouched, Alone
  <2> QED
    BY <2>1, <2>2, <2>3, <2>4
<1>12. ReservedInv'
  <2>1. ASSUME NEW g \in Reserved'
        PROVE  g \in Reserved /\ g \in open' /\ g \in Fds
    <3>1. g \in Fds
      BY TableFacts, <1>2 DEF IInv, Reserved
    <3>2. g \in Reserved
      BY <3>1, <1>2, <1>9 DEF Reserved
    <3>3. g \in open /\ g \notin U
      BY <3>2, <1>1, <1>3 DEF ReservedInv
    <3>4. g = f => g \in open'
      <4>1. f \in away => slot[f] = Empty
        BY <1>1 DEF SlotInv
      <4>2. f \in Reserved' => slot'[f] \in {Client, Admin}
        BY <4>1, <1>2, <1>3 DEF Reserved
      <4> QED
        BY <4>2, <1>7 DEF Alone
    <3> QED
      BY <3>1, <3>2, <3>3, <3>4, <1>5 DEF Untouched
  <2>2. Pooled' = Pooled
    BY <1>2 DEF Pooled
  <2>3. ASSUME NEW g \in Reserved' PROVE g # NoFd
    BY <2>1, Names
  <2> QED
    BY <2>1, <2>2, <2>3, <1>1, <1>2, <1>8 DEF ReservedInv
<1>13. DownInv'
  <2> SUFFICES ASSUME NEW g \in Fds
               PROVE  /\ slot'[g] = Client =>
                            /\ conn'[g].reading <=> g \in Ring'["DOWN_READ"]
                            /\ conn'[g].writing <=> g \in Ring'["DOWN_WRITE"]
                      /\ g \in Ring'["DOWN_READ"] \cup Ring'["DOWN_WRITE"] => slot'[g] = Client
                      /\ g \in Ring'["ADMIN_READ"] \cup Ring'["ADMIN_WRITE"] => slot'[g] = Admin
    BY DEF DownInv
  <2>1. /\ slot[g] = Client =>
              /\ conn[g].reading <=> g \in Ring["DOWN_READ"]
              /\ conn[g].writing <=> g \in Ring["DOWN_WRITE"]
        /\ g \in Ring["DOWN_READ"] \cup Ring["DOWN_WRITE"] => slot[g] = Client
        /\ g \in Ring["ADMIN_READ"] \cup Ring["ADMIN_WRITE"] => slot[g] = Admin
    BY <1>1 DEF DownInv
  <2>2. CASE g \in U
    BY <2>1, <2>2, <1>3, <1>6, KindNames DEF DownKinds, AdminKinds
  <2>3. CASE g = f
    BY <2>1, <2>3, <1>7, KindNames DEF Alone
  <2>4. CASE g \notin U \cup {f}
    <3>1. Untouched(g)
      BY <2>4, <1>5
    <3> QED
      BY <3>1, <2>1, KindNames DEF Untouched
  <2> QED
    BY <2>2, <2>3, <2>4
<1>14. DrainInv'
  <2>1. \A g \in Fds : conn'[g].drain_counted => conn[g].drain_counted
    BY <1>4, <1>5, <1>6, <1>7 DEF Untouched, Alone
  <2>2. draining => \A g \in Fds : slot'[g] = Client =>
                       conn'[g].phase # "Head" /\ ~conn'[g].client_keep_alive
    BY <1>1, <1>5, <1>7, <1>9 DEF DrainInv, Untouched, Alone
  <2> QED
    BY <2>1, <2>2, <1>1, <1>2 DEF DrainInv
<1>15. CurInv'
  BY <1>2 DEF CurInv
<1>16. ASSUME ~severed PROVE Owned'
  <2>1. Owned /\ UseInv /\ JobsInv /\ PoolInv /\ UpInv /\ BorrowInv
    BY <1>16 DEF IInv, Accounts, Owned
  <2>2. /\ U = {conn[f].upstream} \ {NoFd}
        /\ \A g \in Fds \ U : g \in jobs' <=> g \in jobs
        /\ \A g \in U : /\ g \in jobs' <=> slot'[g] = Abandoned
                        /\ slot'[g] = Abandoned =>
                              /\ conn[f].up_borrowed
                              /\ \A k \in UpKinds : g \in Ring'[k] <=> g \in Ring[k]
        /\ conn'[f].up_borrowed => /\ conn'[f].phase \in {"Connecting", "Closing"}
                                   /\ cur'.at \notin Unlent
    BY <1>16 DEF ReleaseUp
  <2>3. ASSUME NEW g \in Fds, slot'[g].is = "Upstream"
        PROVE  /\ slot[g] = slot'[g] /\ slot[g].of \in Fds /\ slot[g].of # f
               /\ slot[g].of \notin U /\ slot[slot[g].of] = Client
               /\ conn[slot[g].of].upstream = g
               /\ slot'[slot[g].of] = Client /\ conn'[slot[g].of] = conn[slot[g].of]
    <3>1. slot[g] = slot'[g] /\ g \notin U
      BY <2>3, <1>10
    <3>2. /\ slot[g].of \in Fds /\ slot[slot[g].of] = Client
          /\ conn[slot[g].of].upstream = g
      BY <3>1, <2>1, <2>3, <1>1, SlotFacts DEF UseInv
    <3>3. slot[g].of # f /\ slot[g].of \notin U
      BY <3>1, <3>2, <2>2, <1>3, Names
    <3> QED
      BY <3>1, <3>2, <3>3, <1>5 DEF Untouched
  <2>4. ASSUME NEW g \in Fds, slot'[g] = Client, conn'[g].upstream # NoFd
        PROVE  /\ g # f /\ g \notin U /\ conn'[g] = conn[g] /\ slot[g] = Client
               /\ conn[g].upstream \in Fds \ (U \cup {f})
               /\ slot[conn[g].upstream] = Upstream(g)
               /\ slot'[conn[g].upstream] = Upstream(g)
    <3>1. g # f /\ g \notin U /\ slot[g] = Client
      BY <2>4, <1>4, <1>7, <1>9 DEF Alone
    <3>2. Untouched(g)
      BY <3>1, <1>5
    <3>3. conn'[g] = conn[g] /\ conn[g].upstream \in Fds
          /\ slot[conn[g].upstream] = Upstream(g)
      BY <3>1, <3>2, <2>1, <2>4, <1>1, SlotFacts DEF UseInv, Untouched
    <3>4. conn[g].upstream \notin U
      <4>1. CASE slot[f] = Client
        BY <4>1, <3>1, <3>3, <2>1, <2>2 DEF UseInv
      <4>2. CASE slot[f] = Admin
        BY <4>2, <2>2, <1>1 DEF SlotInv
      <4> QED
        BY <4>1, <4>2, <1>3
    <3>5. conn[g].upstream # f
      BY <3>3, <1>3
    <3> QED
      BY <3>1, <3>3, <3>4, <3>5, <1>5 DEF Untouched
  <2>5. ASSUME NEW u \in U PROVE slot[f] = Client /\ slot[u] = Upstream(f) /\ u \in open
    <3>1. slot[f] = Client
      BY <2>2, <1>1, <1>3 DEF SlotInv
    <3> QED
      BY <3>1, <2>1, <2>2 DEF UseInv
  <2>6. UseInv'
    <3> SUFFICES ASSUME NEW g \in Fds
                 PROVE  /\ slot'[g] # Empty => g \in open' \ away'
                        /\ g \in open' => slot'[g] # Empty \/ g \in away'
                        /\ slot'[g].is = "Upstream" =>
                              slot'[slot'[g].of] = Client /\ conn'[slot'[g].of].upstream = g
                        /\ slot'[g] = Client /\ conn'[g].upstream # NoFd =>
                              slot'[conn'[g].upstream] = Upstream(g)
      BY DEF UseInv
    <3>1. /\ slot'[g].is = "Upstream" =>
                slot'[slot'[g].of] = Client /\ conn'[slot'[g].of].upstream = g
          /\ slot'[g] = Client /\ conn'[g].upstream # NoFd =>
                slot'[conn'[g].upstream] = Upstream(g)
      BY <2>3, <2>4
    <3>2. /\ slot[g] # Empty => g \in open \ away
          /\ g \in open => slot[g] # Empty \/ g \in away
      BY <2>1 DEF UseInv
    <3>3. CASE g \in U
      BY <3>1, <3>2, <3>3, <2>5, <1>2, <1>3, <1>6
    <3>4. CASE g = f
      BY <3>1, <3>2, <3>4, <1>2, <1>3, <1>7 DEF Alone
    <3>5. CASE g \notin U \cup {f}
      <4>1. Untouched(g)
        BY <3>5, <1>5
      <4> QED
        BY <4>1, <3>1, <3>2, <1>2 DEF Untouched
    <3> QED
      BY <3>3, <3>4, <3>5
  <2>7. JobsInv'
    <3> SUFFICES ASSUME NEW g \in Fds
                 PROVE  g \in jobs' <=> \/ slot'[g] = Abandoned
                                        \/ /\ slot'[g].is = "Upstream"
                                           /\ conn'[slot'[g].of].up_borrowed
      BY DEF JobsInv
    <3>1. g \in jobs <=> \/ slot[g] = Abandoned
                         \/ slot[g].is = "Upstream" /\ conn[slot[g].of].up_borrowed
      BY <2>1, <1>2 DEF JobsInv
    <3>2. CASE g \in U
      BY <3>2, <2>2, <1>10
    <3>3. CASE g = f
      BY <3>1, <3>3, <2>2, <1>3, <1>7 DEF Alone
    <3>4. CASE g \notin U \cup {f}
      <4>1. slot'[g] = slot[g] /\ (g \in jobs' <=> g \in jobs)
        BY <3>4, <2>2, <1>5 DEF Untouched
      <4>2. slot[g].is = "Upstream" => conn'[slot[g].of] = conn[slot[g].of]
        BY <4>1, <2>3
      <4> QED
        BY <3>1, <4>1, <4>2
    <3> QED
      BY <3>2, <3>3, <3>4
  <2>8. PoolInv'
    <3>1. \A g \in Fds, e \in Endpoints : slot'[g] = Idle(e) <=> slot[g] = Idle(e)
      <4> SUFFICES ASSUME NEW g \in Fds, NEW e \in Endpoints
                   PROVE  slot'[g] = Idle(e) <=> slot[g] = Idle(e)
        OBVIOUS
      <4>1. Idle(e).is = "Idle" /\ Idle(e) # Client /\ Idle(e) # Admin
            /\ Idle(e) # Upstream(f) /\ Idle(e) # Empty /\ Idle(e) # Abandoned
        OBVIOUS
      <4>2. g \in U \cup {f} => slot'[g] # Idle(e) /\ slot[g] # Idle(e)
        BY <4>1, <2>5, <1>3, <1>6, <1>7 DEF Alone
      <4> QED
        BY <4>2, <1>5 DEF Untouched
    <3> QED
      BY <3>1, <2>1, <1>2 DEF PoolInv
  <2>9. UpInv'
    <3> SUFFICES ASSUME NEW g \in Fds
                 PROVE  /\ slot'[g] = Client /\ conn'[g].upstream # NoFd =>
                              /\ conn'[g].up_reading <=> conn'[g].upstream \in Ring'["UP_READ"]
                              /\ conn'[g].up_writing <=> conn'[g].upstream \in Ring'["UP_WRITE"]
                        /\ slot'[g].is = "Idle" => /\ g \in Ring'["UP_READ"]
                                                   /\ g \notin Ring'["UP_WRITE"]
                        /\ g \in Ring'["UP_READ"] \cup Ring'["UP_WRITE"] =>
                              slot'[g].is \in {"Upstream", "Idle"}
      BY DEF UpInv
    <3>1. \A h \in Fds :
            /\ slot[h] = Client /\ conn[h].upstream # NoFd =>
                /\ conn[h].up_reading <=> conn[h].upstream \in Ring["UP_READ"]
                /\ conn[h].up_writing <=> conn[h].upstream \in Ring["UP_WRITE"]
            /\ slot[h].is = "Idle" => /\ h \in Ring["UP_READ"]
                                      /\ h \notin Ring["UP_WRITE"]
            /\ h \in Ring["UP_READ"] \cup Ring["UP_WRITE"] =>
                  slot[h].is \in {"Upstream", "Idle"}
      BY <2>1 DEF UpInv
    <3>2. \A h \in Fds \ (U \cup {f}) :
            /\ h \in Ring'["UP_READ"] <=> h \in Ring["UP_READ"]
            /\ h \in Ring'["UP_WRITE"] <=> h \in Ring["UP_WRITE"]
            /\ slot'[h] = slot[h]
      BY <1>5, KindNames DEF Untouched
    <3>3. slot'[g] = Client /\ conn'[g].upstream # NoFd =>
              /\ conn'[g].up_reading <=> conn'[g].upstream \in Ring'["UP_READ"]
              /\ conn'[g].up_writing <=> conn'[g].upstream \in Ring'["UP_WRITE"]
      BY <3>1, <3>2, <2>4
    <3>4. CASE g \in U
      <4>1. conn[f].up_borrowed =>
               g \notin Ring["UP_READ"] /\ g \notin Ring["UP_WRITE"]
        BY <3>1, <3>4, <2>1, <2>2, <2>5 DEF BorrowInv
      <4> QED
        BY <4>1, <3>3, <3>4, <2>2, <1>6, KindNames DEF UpKinds
    <3>5. CASE g = f
      BY <3>1, <3>3, <3>5, <1>3, <1>7, KindNames DEF Alone
    <3>6. CASE g \notin U \cup {f}
      BY <3>1, <3>2, <3>3, <3>6
    <3> QED
      BY <3>4, <3>5, <3>6
  <2>10. BorrowInv'
    <3> SUFFICES ASSUME NEW g \in Fds
                 PROVE  /\ conn'[g].up_borrowed =>
                              /\ conn'[g].phase \in {"Connecting", "Closing"}
                              /\ conn'[g].upstream # NoFd =>
                                    /\ ~conn'[g].up_reading /\ ~conn'[g].up_writing
                                    /\ ~conn'[g].up_ready
                        /\ cur'.fd = g /\ cur'.at \in Unlent => ~conn'[g].up_borrowed
      BY DEF BorrowInv, Unlent
    <3>1. \A h \in Fds : conn[h].up_borrowed =>
              /\ conn[h].phase \in {"Connecting", "Closing"}
              /\ conn[h].upstream # NoFd =>
                    ~conn[h].up_reading /\ ~conn[h].up_writing /\ ~conn[h].up_ready
      BY <2>1 DEF BorrowInv
    <3>2. g # f => cur'.fd # g \/ cur'.at \notin Unlent
      BY <1>2 DEF Wait, Unlent
    <3>3. CASE g \in U
      BY <3>3, <1>4, <1>6
    <3>4. CASE g = f
      BY <3>4, <2>2, <1>4, <1>7 DEF Alone
    <3>5. CASE g \notin U \cup {f}
      BY <3>1, <3>2, <3>5, <1>5 DEF Untouched
    <3> QED
      BY <3>3, <3>4, <3>5
  <2> QED
    BY <2>6, <2>7, <2>8, <2>9, <2>10 DEF Owned
<1> QED
  BY <1>2, <1>11, <1>12, <1>13, <1>14, <1>15, <1>16 DEF Accounts, Table

\* Opaque to the provers where only the operations' type matters.
Operations(os) == os \subseteq Op

\* What a close makes of each descriptor.
LEMMA CloseFacts ==
    ASSUME Core, NEW closed \in SUBSET Fds, NEW s, NEW cs, NEW os, NEW ks,
           Operations(os), Close(closed, s, cs, os, ks), NEW g \in Fds
    PROVE  /\ slot'[g] = IF g \in closed THEN Empty ELSE s[g]
           /\ conn'[g] = IF g \in closed THEN NewConn ELSE cs[g]
           /\ g \in open' <=> g \in ks /\ g \notin closed
           /\ \A k \in Kinds : g \in Ring'[k] <=> g \in Tagged(os)[k] /\ g \notin closed
<1>1. ops' = Aged(os, closed) /\ os \in SUBSET Op /\ generations \in Gens
  BY TableFacts DEF Close, Operations
<1>2. \A k \in Kinds : Ring'[k] = Tagged(os)[k] \ closed
  BY <1>1, AgedFacts DEF Ring
<1>3. /\ slot' = [f \in Fds |-> IF f \in closed THEN Empty ELSE s[f]]
      /\ conn' = [f \in Fds |-> IF f \in closed THEN NewConn ELSE cs[f]]
      /\ open' = ks \ closed
  BY DEF Close
<1> QED
  BY <1>2, <1>3

\* A step that closes nothing.
LEMMA MoveFacts ==
    ASSUME Core, NEW s, NEW cs, NEW os, NEW ks, Operations(os),
           Close({}, s, cs, os, ks), NEW g \in Fds
    PROVE  /\ slot'[g] = s[g] /\ conn'[g] = cs[g] /\ (g \in open' <=> g \in ks)
           /\ \A k \in Kinds : g \in Ring'[k] <=> g \in Tagged(os)[k]
<1>1. ops' = Aged(os, {}) /\ os \in SUBSET Op /\ generations \in Gens /\ {} \in SUBSET Fds
  BY TableFacts DEF Close, Operations
<1>2. \A k \in Kinds : Ring'[k] = Tagged(os)[k] \ {}
  BY <1>1, AgedFacts DEF Ring
<1>3. /\ slot' = [f \in Fds |-> s[f]] /\ conn' = [f \in Fds |-> cs[f]] /\ open' = ks
  BY DEF Close
<1> QED
  BY <1>2, <1>3

\* The parts of the invariant.
LEMMA TableParts ==
    ASSUME IInv
    PROVE  /\ Core /\ SlotInv /\ ReservedInv /\ DownInv /\ DrainInv /\ CurInv
           /\ DrainCountExact
           /\ ~severed => Owned /\ UseInv /\ JobsInv /\ PoolInv /\ UpInv /\ BorrowInv
           /\ slot \in [Fds -> Slot] /\ conn \in [Fds -> Conn] /\ ops \in SUBSET Op
           /\ open \in SUBSET Fds /\ Operations(ops)
  BY TableFacts DEF IInv, Accounts, Table, Owned, DrainInv, Operations

\* The upstream of a connection is no client, no admin connection and not away.
LEMMA UpstreamFree ==
    ASSUME IInv, NEW f \in Fds
    PROVE  /\ ({conn[f].upstream} \ {NoFd}) \cap Reserved = {}
           /\ {conn[f].upstream} \ {NoFd} \in SUBSET Fds
           /\ slot[f] \in {Client, Admin} => f # conn[f].upstream
           /\ conn[f].upstream # NoFd => conn[conn[f].upstream] = NewConn
<1>1. ReservedInv /\ conn[f].upstream \in Fds \cup {NoFd} /\ SlotInv
  BY TableParts, SlotFacts
<1>2. \A g \in Reserved : conn[f].upstream # g
  BY <1>1 DEF ReservedInv
<1>3. conn[f].upstream # NoFd => slot[conn[f].upstream] \notin {Client, Admin}
  BY <1>1, <1>2 DEF Reserved
<1> QED
  BY <1>1, <1>2, <1>3 DEF SlotInv, Reserved

\* An answer of the proxy's own keeps what the table knows of the client's side.
LEMMA RefusedFlags ==
    ASSUME NEW c \in Conn, NEW close \in BOOLEAN
    PROVE  LET r == Refused(c, close) IN
           /\ r.upstream = NoFd /\ r.reading = c.reading /\ r.writing = c.writing
           /\ r.drain_counted = c.drain_counted /\ r.up_borrowed = c.up_borrowed
           /\ r.client_keep_alive = c.client_keep_alive
           /\ r.phase \in {"Head", "Closing"}
           /\ r.phase = "Head" => ~close /\ c.client_keep_alive
<1> DEFINE d == [Detach(c) EXCEPT !.outbox = TRUE, !.inflight_held = FALSE,
                                  !.inbox = "none"]
           e == [d EXCEPT !.phase = "Closing"]
           h == ResetConn(d)
<1>1. d \in Conn
  BY MadeConns, SetField
<1>2. /\ d.upstream = NoFd /\ d.reading = c.reading /\ d.writing = c.writing
      /\ d.drain_counted = c.drain_counted /\ d.up_borrowed = c.up_borrowed
      /\ d.client_keep_alive = c.client_keep_alive
  BY DEF Conn, Detach
<1> HIDE DEF d
<1>3. /\ e.upstream = NoFd /\ e.reading = c.reading /\ e.writing = c.writing
      /\ e.drain_counted = c.drain_counted /\ e.up_borrowed = c.up_borrowed
      /\ e.client_keep_alive = c.client_keep_alive /\ e.phase = "Closing"
  BY <1>1, <1>2 DEF Conn
<1>4. /\ h.upstream = NoFd /\ h.reading = c.reading /\ h.writing = c.writing
      /\ h.drain_counted = c.drain_counted /\ h.up_borrowed = c.up_borrowed
      /\ h.client_keep_alive = c.client_keep_alive /\ h.phase = "Head"
  BY <1>1, <1>2 DEF Conn, ResetConn
<1>5. Refused(c, close) = IF close \/ ~c.client_keep_alive \/ c.request_body # "done"
                          THEN e ELSE h
  BY DEF Refused, d
<1> HIDE DEF e, h
<1> QED
  BY <1>3, <1>4, <1>5

\* The connection on f as it was, or with what a request's head says of it.
SameLink(d, c) ==
    /\ c.upstream = d.upstream
    /\ c.reading <=> d.reading
    /\ c.writing <=> d.writing
    /\ c.up_borrowed <=> d.up_borrowed
    /\ c.drain_counted <=> d.drain_counted
    /\ c.client_keep_alive => d.client_keep_alive \/ d.phase = "Head"


\* A connection that stays lets go of its upstream: it is closed, or abandoned to
\* the helper.
LEMMA LetGoStep ==
    ASSUME IInv, NEW f \in Fds, slot[f] = Client, ~stopped, NEW c \in Conn,
           NEW closed \in SUBSET Fds, NEW kept \in SUBSET Fds, NEW step \in Steps,
           Close(closed, [u \in Fds |-> IF u \in kept THEN Abandoned ELSE slot[u]],
                 [conn EXCEPT ![f] = c], ops, open),
           Goto(step, f), away' = away, listen' = listen, pool' = pool, drain' = drain,
           jobs' = jobs,
           closed \cup kept = {conn[f].upstream} \ {NoFd}, closed \cap kept = {},
           c.upstream = NoFd, c.reading <=> conn[f].reading,
           c.writing <=> conn[f].writing, c.drain_counted <=> conn[f].drain_counted,
           draining => c.phase # "Head" /\ ~c.client_keep_alive,
           ~severed => /\ conn[f].up_borrowed => closed = {}
                       /\ ~conn[f].up_borrowed => kept = {}
                       /\ c.up_borrowed => c.phase = "Closing" /\ step \notin Unlent
    PROVE  Accounts'
<1> DEFINE s == [u \in Fds |-> IF u \in kept THEN Abandoned ELSE slot[u]]
           cs == [conn EXCEPT ![f] = c]
           U == {conn[f].upstream} \ {NoFd}
<1>1. Close(closed, s, cs, ops, open)
  OBVIOUS
<1>2. /\ Core /\ DownInv /\ DrainInv /\ DrainCountExact /\ ReservedInv
      /\ conn \in [Fds -> Conn] /\ Operations(ops)
  BY TableParts
<1>3. U \in SUBSET Fds /\ U \cap Reserved = {} /\ f \notin U /\ closed \cup kept = U
  BY UpstreamFree
<1>4. /\ cs[f] = c /\ \A g \in Fds \ {f} : cs[g] = conn[g]
      /\ \A g \in Fds : s[g] = IF g \in kept THEN Abandoned ELSE slot[g]
  BY <1>2
<1>5. \A g \in Fds : cs[g].drain_counted <=> conn[g].drain_counted
  BY <1>4
<1> HIDE DEF s, cs, U
<1>6. DrainCountExact'
  BY <1>1, <1>2, <1>5, CountClosed
<1>7. Tagged(ops) = Ring
  BY DEF Ring
<1>8. ASSUME NEW g \in Fds
       PROVE  /\ slot'[g] = IF g \in closed THEN Empty ELSE s[g]
              /\ conn'[g] = IF g \in closed THEN NewConn ELSE cs[g]
              /\ g \in open' <=> g \in open /\ g \notin closed
              /\ \A k \in Kinds : g \in Ring'[k] <=> g \in Ring[k] /\ g \notin closed
  <2>1. /\ slot'[g] = IF g \in closed THEN Empty ELSE s[g]
        /\ conn'[g] = IF g \in closed THEN NewConn ELSE cs[g]
        /\ g \in open' <=> g \in open /\ g \notin closed
        /\ \A k \in Kinds : g \in Ring'[k] <=> g \in Tagged(ops)[k] /\ g \notin closed
    BY <1>1, <1>2, CloseFacts
  <2> QED
    BY <2>1, <1>7
<1>9. cur'.fd = f /\ cur'.at = step
  BY DEF Goto
<1>10. Alone(f)
  <2>1. f \in open
    BY <1>2 DEF ReservedInv, Reserved
  <2>2. /\ slot'[f] = Client /\ conn'[f] = c /\ f \in open'
        /\ \A k \in Kinds : f \in Ring'[k] <=> f \in Ring[k]
    BY <2>1, <1>3, <1>4, <1>8
  <2> QED
    BY <2>2 DEF Alone
<1>11. ASSUME NEW g \in Fds \ (U \cup {f}) PROVE Untouched(g)
  BY <1>3, <1>4, <1>8 DEF Untouched
<1>12. ASSUME NEW g \in U
       PROVE  \/ Gone(g)
              \/ /\ slot'[g] = Abandoned /\ conn'[g] = conn[g]
                 /\ g \in open' <=> g \in open
                 /\ \A k \in DownKinds \cup AdminKinds : g \in Ring'[k] <=> g \in Ring[k]
  <2>1. g \in Fds /\ g # f /\ (g \in kept <=> g \notin closed)
    BY <1>3
  <2>2. CASE g \in kept
    BY <2>1, <2>2, <1>4, <1>8, KindNames DEF DownKinds, AdminKinds
  <2>3. CASE g \in closed
    BY <2>1, <2>3, <1>4, <1>8 DEF Gone
  <2> QED
    BY <2>1, <2>2, <2>3
<1>13. Release(f, U)
  BY <1>3, <1>6, <1>9, <1>10, <1>11, <1>12 DEF Release, Alone
<1>14. ASSUME ~severed PROVE ReleaseUp(f, U)
  <2>1. conn'[f] = c
    BY <1>3, <1>4, <1>8
  <2>2. ASSUME NEW g \in U
        PROVE  (g \in jobs <=> conn[f].up_borrowed)
               /\ (slot'[g] = Abandoned <=> conn[f].up_borrowed)
               /\ (conn[f].up_borrowed => \A k \in UpKinds : g \in Ring'[k] <=> g \in Ring[k])
    <3>1. g \in Fds /\ g = conn[f].upstream /\ g # NoFd
      BY <1>3 DEF U
    <3>2. slot[g] = Upstream(f)
      BY <3>1, <1>14, TableParts DEF UseInv
    <3>3. g \in jobs <=> conn[f].up_borrowed
      BY <3>1, <3>2, <1>14, TableParts, SlotKinds DEF JobsInv
    <3>4. (g \in kept <=> conn[f].up_borrowed) /\ (g \in closed <=> g \notin kept)
      BY <1>3, <1>14
    <3>5. slot'[g] = Abandoned <=> conn[f].up_borrowed
      BY <3>1, <3>2, <3>4, <1>4, <1>8, SlotKinds
    <3>6. conn[f].up_borrowed => \A k \in UpKinds : g \in Ring'[k] <=> g \in Ring[k]
      BY <3>1, <3>4, <1>8, KindNames DEF UpKinds
    <3> QED
      BY <3>3, <3>5, <3>6
  <2>3. c.up_borrowed => c.phase \in {"Connecting", "Closing"} /\ step \notin Unlent
    BY <1>14
  <2> QED
    BY <2>1, <2>2, <2>3, <1>9 DEF ReleaseUp, U
<1> QED
  BY <1>3, <1>13, <1>14, ReleaseStep

\* Answering a failed request closes or abandons its upstream and keeps the
\* client.
LEMMA FailStep ==
    ASSUME IInv, NEW f \in Fds, slot[f] = Client, ~stopped, NEW c \in Conn,
           NEW close \in BOOLEAN, Fail(f, c, close),
           UNCHANGED <<drain, world, pool, jobs>>, SameLink(conn[f], c),
           ~severed /\ ~close => ~c.up_borrowed
    PROVE  Accounts'
<1> DEFINE r == Refused(c, close)
           U == {conn[f].upstream} \ {NoFd}
<1>1. /\ Close(Dropped(c), [u \in Fds |-> IF u \in Kept(c) THEN Abandoned ELSE slot[u]],
               [conn EXCEPT ![f] = r], ops, open)
      /\ Goto("drive", f)
  BY DEF Fail
<1>2. DrainInv
  BY TableParts
<1>3. /\ r.upstream = NoFd /\ r.reading = c.reading /\ r.writing = c.writing
      /\ r.drain_counted = c.drain_counted /\ r.up_borrowed = c.up_borrowed
      /\ r.client_keep_alive = c.client_keep_alive
      /\ r.phase \in {"Head", "Closing"}
      /\ r.phase = "Head" => ~close /\ c.client_keep_alive
  BY RefusedFlags
<1>4. /\ c.upstream = conn[f].upstream
      /\ Dropped(c) = (IF conn[f].up_borrowed THEN {} ELSE U)
      /\ Kept(c) = (IF conn[f].up_borrowed THEN U ELSE {})
  BY DEF Dropped, Kept, SameLink
<1>5. U \in SUBSET Fds
  BY UpstreamFree
<1>6. r \in Conn
  BY MadeConns
<1> HIDE DEF r
<1>7. draining => conn[f].phase # "Head" /\ ~conn[f].client_keep_alive
  BY <1>2 DEF DrainInv
<1>8. /\ r.reading <=> conn[f].reading
      /\ r.writing <=> conn[f].writing
      /\ r.drain_counted <=> conn[f].drain_counted
      /\ draining => r.phase # "Head" /\ ~r.client_keep_alive
      /\ ~severed /\ r.up_borrowed => r.phase = "Closing" /\ "drive" \notin Unlent
  BY <1>3, <1>7 DEF SameLink, Unlent
<1>9. /\ Dropped(c) \in SUBSET Fds /\ Kept(c) \in SUBSET Fds
      /\ Dropped(c) \cup Kept(c) = U /\ Dropped(c) \cap Kept(c) = {}
      /\ conn[f].up_borrowed => Dropped(c) = {}
      /\ ~conn[f].up_borrowed => Kept(c) = {}
  BY <1>4, <1>5
<1>10. away' = away /\ listen' = listen /\ pool' = pool /\ drain' = drain /\ jobs' = jobs
  BY DEF world
<1> QED
  BY <1>1, <1>3, <1>6, <1>8, <1>9, <1>10, LetGoStep, Names

\* The connection a handler runs for is there.
LEMMA RunFacts ==
    ASSUME IInv, NEW f \in Fds, NEW step, At(step, f), step # "wait"
    PROVE  /\ slot[f] = Client /\ ~stopped /\ conn[f] \in Conn
           /\ cur # Wait /\ cur.fd = f /\ cur.at = step
           /\ conn[f].phase = "Head" => ~draining /\ ~severed
<1>1. cur # Wait /\ cur.fd = f /\ cur.at = step
  BY AtFacts
<1>2. CurInv /\ DrainInv /\ conn \in [Fds -> Conn]
  BY TableParts
<1> QED
  BY <1>1, <1>2 DEF CurInv, DrainInv

\* A connection left alone has the flags and the upstream it had.
LEMMA SameSelf ==
    ASSUME NEW c
    PROVE  SameLink(c, c) /\ SameFlags(c, c)
  BY DEF SameLink, SameFlags

\* A request that does not parse has no upstream to let go.
LEMMA ParseErrorStep ==
    ASSUME IInv, NEW f \in Fds, ParseError(f)
    PROVE  Accounts'
<1>1. /\ At("advance", f) /\ Fail(f, conn[f], TRUE)
      /\ UNCHANGED <<drain, world, pool, jobs>>
  BY DEF ParseError
<1> QED
  BY <1>1, RunFacts, SameSelf, FailStep

\* A routed request has none yet.
LEMMA RouteRequestStep ==
    ASSUME IInv, NEW f \in Fds, RouteRequest(f)
    PROVE  Accounts'
<1>1. PICK keep \in BOOLEAN :
         LET c == Parsed(conn[f], keep) IN
         \/ Fail(f, c, FALSE)
         \/ \E first \in Endpoints :
              /\ Update(f, [c EXCEPT !.inbox = "none", !.phase = "Exchanging",
                                     !.up_outbox = TRUE,
                                     !.endpoint_index = first, !.attempt = 0,
                                     !.targets = Attempts(c.request_body),
                                     !.replayable = c.request_body = "done"])
              /\ Goto("open", f)
              /\ UNCHANGED inflight
  BY DEF RouteRequest
<1> DEFINE d == conn[f]
           c == Parsed(d, keep)
<1>2. At("advance", f) /\ d.phase = "Head" /\ UNCHANGED <<drain, world, pool, jobs>>
  BY DEF RouteRequest
<1>3. d \in Conn
  BY <1>2, RunFacts
<1>4. ~severed => ~d.up_borrowed
  BY <1>2, NotLent
<1> HIDE DEF d
<1>5. c \in Conn
  <2>1. (keep /\ ~d.client_eof) \in BOOLEAN /\ (d.inbox = "upgrade") \in BOOLEAN
        /\ (IF d.inbox = "post" THEN "more" ELSE "done") \in {"done", "more"}
    OBVIOUS
  <2> QED
    BY <2>1, <1>3, SetField DEF Parsed
<1>6. SameLink(d, c) /\ SameFlags(d, c)
  BY <1>2, <1>3 DEF SameLink, SameFlags, Parsed, Conn
<1> HIDE DEF c
<1>7. CASE Fail(f, c, FALSE)
  BY <1>2, <1>4, <1>5, <1>6, <1>7, RunFacts, FailStep DEF SameLink, d
<1>8. ASSUME NEW first \in Endpoints, NEW n,
             n = [c EXCEPT !.inbox = "none", !.phase = "Exchanging",
                           !.up_outbox = TRUE,
                           !.endpoint_index = first, !.attempt = 0,
                           !.targets = Attempts(c.request_body),
                           !.replayable = c.request_body = "done"],
             Update(f, n), Goto("open", f)
      PROVE  Accounts'
  <2>1. n \in Conn
    <3>1. Attempts(c.request_body) \in 0 .. NEndpoints /\ 0 \in Endpoints
      BY SizesAssumption DEF Attempts, Endpoints
    <3>2. (c.request_body = "done") \in BOOLEAN
      OBVIOUS
    <3> QED
      BY <3>1, <3>2, <1>5, <1>8, SetField, Names
  <2>2. SameFlags(d, n)
    BY <1>5, <1>6, <1>8 DEF SameFlags, Conn
  <2>3. ~severed => StaysLent(d, n, "open")
    BY <2>2, <1>4 DEF StaysLent, SameFlags
  <2> QED
    BY <2>1, <2>2, <2>3, <1>2, <1>8, RunFacts, QuietStep, Names DEF d
<1> QED
  BY <1>1, <1>7, <1>8 DEF c, d

\* A body that does not parse costs the request its upstream.
LEMMA PumpRequestBodyStep ==
    ASSUME IInv, NEW f \in Fds, PumpRequestBody(f)
    PROVE  Accounts'
<1> DEFINE c == conn[f]
           d == [c EXCEPT !.inbox = "none", !.request_body = "done",
                          !.up_outbox = TRUE]
<1>1. /\ At("advance", f) /\ c.phase \in {"Exchanging", "Relaying"}
      /\ UNCHANGED <<drain, world, pool, jobs>>
      /\ (Update(f, d) /\ Goto("advance", f)) \/ Fail(f, c, TRUE)
  BY DEF PumpRequestBody
<1>2. c \in Conn /\ d \in Conn
  BY <1>1, RunFacts, SetField
<1>3. SameFlags(c, d)
  BY <1>2 DEF SameFlags, Conn
<1>4. ~severed => ~c.up_borrowed
  BY <1>1, NotLent
<1> HIDE DEF d
<1>5. ~severed => StaysLent(c, d, "advance")
  BY <1>3, <1>4 DEF StaysLent, SameFlags
<1>6. CASE Update(f, d) /\ Goto("advance", f)
  BY <1>1, <1>2, <1>3, <1>5, <1>6, RunFacts, QuietStep, Names
<1>7. CASE Fail(f, c, TRUE)
  BY <1>1, <1>2, <1>7, RunFacts, SameSelf, FailStep
<1> QED
  BY <1>1, <1>6, <1>7

\* So does an answer that does not parse, here or in upstream_failed.
LEMMA UpstreamGarbageStep ==
    ASSUME IInv, NEW f \in Fds, UpstreamGarbage(f)
    PROVE  Accounts'
<1> DEFINE c == conn[f]
           d == [c EXCEPT !.committed = TRUE]
<1>1. /\ At("advance", f) /\ c.phase \in {"Exchanging", "Relaying"}
      /\ UNCHANGED <<drain, world, pool, jobs>>
      /\ (Update(f, c) /\ Goto("failed", f)) \/ Fail(f, d, TRUE)
  BY DEF UpstreamGarbage, Pumping
<1>2. c \in Conn /\ d \in Conn
  BY <1>1, RunFacts, SetField
<1>3. SameLink(c, d)
  BY <1>2 DEF SameLink, Conn
<1>4. ~severed => ~c.up_borrowed
  BY <1>1, NotLent
<1> HIDE DEF d
<1>5. ~severed => StaysLent(c, c, "failed")
  BY <1>4 DEF StaysLent
<1>6. CASE Update(f, c) /\ Goto("failed", f)
  BY <1>1, <1>2, <1>5, <1>6, RunFacts, SameSelf, QuietStep, Names
<1>7. CASE Fail(f, d, TRUE)
  BY <1>1, <1>2, <1>3, <1>7, RunFacts, FailStep
<1> QED
  BY <1>1, <1>6, <1>7

\* A tunnel keeps its upstream.
LEMMA BeginTunnelStep ==
    ASSUME IInv, NEW f \in Fds, BeginTunnel(f)
    PROVE  Accounts'
<1> DEFINE c == conn[f]
           out == c.up_outbox \/ c.inbox # "none"
           d == [c EXCEPT !.outbox = TRUE, !.up_inbox = "none",
                          !.up_outbox = out,
                          !.inbox = "none", !.response_head_seen = TRUE,
                          !.committed = TRUE, !.phase = "Tunnel",
                          !.deadline = FALSE, !.upstream_keep_alive = FALSE]
<1>1. /\ At("advance", f) /\ c.phase \in {"Exchanging", "Relaying"}
      /\ UNCHANGED <<drain, world, pool, jobs>>
      /\ (Update(f, d) /\ Goto("advance", f)) \/ Fail(f, c, TRUE)
  BY DEF BeginTunnel, Pumping
<1>2. c \in Conn /\ out \in BOOLEAN
  BY <1>1, RunFacts
<1>3. ~severed => ~c.up_borrowed
  BY <1>1, NotLent
<1> HIDE DEF c, out
<1>4. d \in Conn
  BY <1>2, SetField, Names
<1>5. SameFlags(c, d)
  BY <1>2 DEF SameFlags, Conn
<1> HIDE DEF d
<1>6. ~severed => StaysLent(c, d, "advance")
  BY <1>3, <1>5 DEF StaysLent, SameFlags
<1>7. CASE Update(f, d) /\ Goto("advance", f)
  BY <1>1, <1>4, <1>5, <1>6, <1>7, RunFacts, QuietStep, Names DEF c
<1>8. CASE Fail(f, c, TRUE)
  BY <1>1, <1>2, <1>8, RunFacts, SameSelf, FailStep DEF c
<1> QED
  BY <1>1, <1>7, <1>8

\* An attempt that failed has let its upstream go already.
LEMMA RetryOrFailStep ==
    ASSUME IInv, NEW f \in Fds, RetryOrFail(f)
    PROVE  Accounts'
<1> DEFINE b == conn[f]
           c == [b EXCEPT !.inflight_held = FALSE]
           p == [c EXCEPT !.from_pool = FALSE, !.pool_retry_used = TRUE]
           q == [c EXCEPT !.attempt = @ + 1]
<1>1. UNCHANGED <<drain, world, pool, jobs>> /\ At("retry", f)
  BY DEF RetryOrFail
<1>2. \/ Update(f, Resend(p)) /\ Goto("open", f)
      \/ CanRetry(c) /\ Update(f, Resend(q)) /\ Goto("open", f)
      \/ Fail(f, b, FALSE)
  BY DEF RetryOrFail
<1>3. b \in Conn /\ b.upstream = NoFd
  BY <1>1, CoreFacts, Names DEF Ready, IInv
<1>4. ~severed => ~b.up_borrowed
  BY <1>1, AtFacts, NotLent DEF Unlent
<1> HIDE DEF b
<1>5. c \in Conn
  BY <1>3, SetField
<1>6. c.attempt \in Endpoints /\ c.targets \in 0 .. NEndpoints /\ SameFlags(b, c)
  BY <1>3, <1>5 DEF SameFlags, Conn
<1> HIDE DEF c
<1>7. p \in Conn /\ SameFlags(b, p)
  <2>1. p \in Conn
    BY <1>5, SetField
  <2> QED
    BY <2>1, <1>5, <1>6 DEF SameFlags, Conn
<1>8. ASSUME CanRetry(c)
      PROVE  q \in Conn /\ SameFlags(b, q)
  <2>1. c.attempt + 1 < c.targets
    BY <1>8 DEF CanRetry
  <2>2. c.attempt + 1 \in Endpoints
    BY <2>1, <1>6, SizesAssumption DEF Endpoints
  <2>3. q \in Conn
    BY <2>2, <1>5, SetField
  <2> QED
    BY <2>3, <1>5, <1>6 DEF SameFlags, Conn
<1> HIDE DEF p, q
<1>9. ASSUME NEW x \in Conn, SameFlags(b, x), Update(f, Resend(x)), Goto("open", f)
      PROVE  Accounts'
  <2>1. Resend(x) \in Conn
    BY MadeConns
  <2>2. /\ Resend(x).upstream = x.upstream /\ Resend(x).reading = x.reading
        /\ Resend(x).writing = x.writing /\ Resend(x).up_borrowed = x.up_borrowed
        /\ Resend(x).drain_counted = x.drain_counted
        /\ Resend(x).client_keep_alive = x.client_keep_alive
        /\ Resend(x).phase = "Exchanging"
    BY DEF Resend, Conn
  <2>3. SameFlags(b, Resend(x))
    BY <2>2, <1>3, <1>9 DEF SameFlags
  <2>4. ~severed => StaysLent(b, Resend(x), "open")
    BY <2>3, <1>4 DEF StaysLent, SameFlags
  <2> QED
    BY <2>1, <2>3, <2>4, <1>1, <1>9, RunFacts, QuietStep, Names DEF b
<1>10. CASE Fail(f, b, FALSE)
  BY <1>1, <1>3, <1>4, <1>10, RunFacts, SameSelf, FailStep DEF b
<1> QED
  BY <1>2, <1>7, <1>8, <1>9, <1>10

\* A close of the upstream with nothing abandoned.
LEMMA LoseStep ==
    ASSUME IInv, NEW f \in Fds, NEW at \in Unlent, At(at, f), NEW c \in Conn,
           NEW step \in Steps,
           Close(IF conn[f].upstream = NoFd THEN {} ELSE {conn[f].upstream}, slot,
                 [conn EXCEPT ![f] = c], ops, open),
           Goto(step, f), away' = away, listen' = listen, pool' = pool, drain' = drain,
           jobs' = jobs,
           c.upstream = NoFd, c.reading <=> conn[f].reading,
           c.writing <=> conn[f].writing, c.drain_counted <=> conn[f].drain_counted,
           c.up_borrowed <=> conn[f].up_borrowed,
           draining => c.phase # "Head" /\ ~c.client_keep_alive
    PROVE  Accounts'
<1> DEFINE s == [u \in Fds |-> IF u \in {} THEN Abandoned ELSE slot[u]]
           closed == IF conn[f].upstream = NoFd THEN {} ELSE {conn[f].upstream}
<1>1. s = slot
  BY TableParts
<1>2. closed = {conn[f].upstream} \ {NoFd} /\ closed \in SUBSET Fds
  BY UpstreamFree
<1>3. at # "wait"
  BY DEF Unlent
<1>4. ~severed => ~conn[f].up_borrowed
  BY <1>3, AtFacts, NotLent
<1>5. Close(closed, s, [conn EXCEPT ![f] = c], ops, open)
  BY <1>1
<1>6. closed \cup {} = {conn[f].upstream} \ {NoFd} /\ closed \cap {} = {}
      /\ {} \in SUBSET Fds
  BY <1>2
<1> HIDE DEF closed
<1> QED
  BY <1>2, <1>3, <1>4, <1>5, <1>6, RunFacts, LetGoStep

\* A failed upstream is closed and its client kept.
LEMMA UpstreamFailedStep ==
    ASSUME IInv, NEW f \in Fds, UpstreamFailed(f)
    PROVE  Accounts'
<1> DEFINE c == conn[f]
           d == [c EXCEPT !.upstream = NoFd]
           e == [d EXCEPT !.phase = "Closing"]
           closed == IF c.upstream = NoFd THEN {} ELSE {c.upstream}
<1>1. At("failed", f) /\ UNCHANGED <<drain, world, pool, jobs>>
  BY DEF UpstreamFailed
<1>2. \/ /\ Close(closed, slot, [conn EXCEPT ![f] = e], ops, open)
         /\ Goto("drive", f)
      \/ /\ Close(closed, slot, [conn EXCEPT ![f] = d], ops, open)
         /\ Goto("retry", f)
  BY DEF UpstreamFailed
<1>3. c \in Conn /\ d \in Conn /\ e \in Conn
  BY <1>1, RunFacts, SetField, Names
<1>4. draining => c.phase # "Head" /\ ~c.client_keep_alive
  BY <1>1, RunFacts, TableParts DEF DrainInv
<1>5. /\ d.upstream = NoFd /\ d.reading = c.reading /\ d.writing = c.writing
      /\ d.drain_counted = c.drain_counted /\ d.up_borrowed = c.up_borrowed
      /\ d.phase = c.phase /\ d.client_keep_alive = c.client_keep_alive
  BY <1>3 DEF Conn
<1>6. /\ e.upstream = NoFd /\ e.reading = c.reading /\ e.writing = c.writing
      /\ e.drain_counted = c.drain_counted /\ e.up_borrowed = c.up_borrowed
      /\ e.phase = "Closing" /\ e.client_keep_alive = c.client_keep_alive
  BY <1>3 DEF Conn
<1>7. away' = away /\ listen' = listen /\ pool' = pool /\ drain' = drain /\ jobs' = jobs
  BY <1>1 DEF world
<1>8. "failed" \in Unlent
  BY DEF Unlent
<1> HIDE DEF d, e
<1> QED
  BY <1>1, <1>2, <1>3, <1>4, <1>5, <1>6, <1>7, <1>8, LoseStep, Names

\* What reset keeps: the client's flags, and whether the drain counts it.
LEMMA NextRequestFlags ==
    ASSUME NEW c \in Conn
    PROVE  LET n == NextRequest(c) IN
           /\ n.upstream = NoFd /\ n.reading = c.reading /\ n.writing = c.writing
           /\ n.drain_counted = c.drain_counted /\ n.up_borrowed = c.up_borrowed
           /\ n.client_keep_alive = c.client_keep_alive
           /\ n.phase \in {"Head", "Closing"}
           /\ n.phase = "Head" => c.client_keep_alive
<1> DEFINE a == [Detach(c) EXCEPT !.inflight_held = FALSE]
           d == ResetConn(a)
           e == [d EXCEPT !.phase = "Closing"]
<1>1. a \in Conn
  BY MadeConns, SetField
<1>2. /\ a.upstream = NoFd /\ a.reading = c.reading /\ a.writing = c.writing
      /\ a.drain_counted = c.drain_counted /\ a.up_borrowed = c.up_borrowed
      /\ a.client_keep_alive = c.client_keep_alive
  BY DEF Conn, Detach
<1>3. NextRequest(c) = IF c.client_keep_alive THEN d ELSE e
  BY DEF NextRequest
<1> HIDE DEF a
<1>4. d \in Conn
  BY <1>1, MadeConns
<1>5. /\ d.upstream = NoFd /\ d.reading = c.reading /\ d.writing = c.writing
      /\ d.drain_counted = c.drain_counted /\ d.up_borrowed = c.up_borrowed
      /\ d.client_keep_alive = c.client_keep_alive /\ d.phase = "Head"
  BY <1>1, <1>2 DEF Conn, ResetConn
<1> HIDE DEF d
<1>6. /\ e.upstream = NoFd /\ e.reading = c.reading /\ e.writing = c.writing
      /\ e.drain_counted = c.drain_counted /\ e.up_borrowed = c.up_borrowed
      /\ e.client_keep_alive = c.client_keep_alive /\ e.phase = "Closing"
  BY <1>4, <1>5 DEF Conn
<1> HIDE DEF e
<1> QED
  BY <1>3, <1>5, <1>6

\* A connection without an upstream is closed.
LEMMA CloseOneStep ==
    ASSUME IInv, NEW f \in Fds, slot[f] \in {Client, Admin}, ~stopped,
           conn[f].upstream = NoFd, NEW os, Operations(os),
           Close({f}, slot, conn, os, open),
           \A k \in Kinds, g \in Fds \ {f} : g \in Tagged(os)[k] <=> g \in Ring[k],
           cur' = Wait, away' = away, listen' = listen, pool' = pool, drain' = drain,
           jobs' = jobs
    PROVE  Accounts'
<1>1. Core /\ DrainCountExact /\ {f} \in SUBSET Fds
  BY TableParts
<1>2. DrainCountExact'
  BY <1>1, CountClosed
<1>3. ASSUME NEW g \in Fds
      PROVE  /\ slot'[g] = IF g \in {f} THEN Empty ELSE slot[g]
             /\ conn'[g] = IF g \in {f} THEN NewConn ELSE conn[g]
             /\ g \in open' <=> g \in open /\ g \notin {f}
             /\ \A k \in Kinds : g \in Ring'[k] <=> g \in Tagged(os)[k] /\ g \notin {f}
  <2> DEFINE K == {f}
  <2>1. K \in SUBSET Fds /\ Close(K, slot, conn, os, open)
    BY <1>1
  <2> HIDE DEF K
  <2>2. /\ slot'[g] = IF g \in K THEN Empty ELSE slot[g]
        /\ conn'[g] = IF g \in K THEN NewConn ELSE conn[g]
        /\ g \in open' <=> g \in open /\ g \notin K
        /\ \A k \in Kinds : g \in Ring'[k] <=> g \in Tagged(os)[k] /\ g \notin K
    BY <2>1, <1>1, CloseFacts
  <2> QED
    BY <2>2 DEF K
<1>4. Gone(f)
  BY <1>3 DEF Gone
<1>5. ASSUME NEW g \in Fds \ {f} PROVE Untouched(g)
  BY <1>3 DEF Untouched
<1>6. Release(f, {})
  BY <1>2, <1>4, <1>5 DEF Release
<1>7. ~conn'[f].up_borrowed
  BY <1>3 DEF NewConn
<1>8. ReleaseUp(f, {})
  BY <1>7 DEF ReleaseUp
<1> QED
  BY <1>6, <1>8, ReleaseStep

\* An overdue connect is abandoned to the helper, an overdue exchange closed.
LEMMA TickOverdueStep ==
    ASSUME IInv, NEW f \in Fds, TickOverdue(f)
    PROVE  Accounts'
<1>1. /\ Waiting /\ slot[f] = Client /\ ~stopped
      /\ UNCHANGED <<drain, world, pool, jobs>> /\ cur = Wait
      /\ \/ Fail(f, conn[f], TRUE)
         \/ /\ conn[f].phase = "Head" /\ Close({f}, slot, conn, ops, open)
            /\ UNCHANGED <<inflight, cur>>
  BY DEF TickOverdue, Waiting
<1>2. conn[f] \in Conn /\ Settled(conn[f]) /\ Operations(ops) /\ Tagged(ops) = Ring
  BY CoreFacts, TableParts DEF IInv, Ring
<1>3. CASE Fail(f, conn[f], TRUE)
  BY <1>1, <1>2, <1>3, SameSelf, FailStep
<1>4. CASE /\ conn[f].phase = "Head" /\ Close({f}, slot, conn, ops, open)
           /\ UNCHANGED <<inflight, cur>>
  <2>1. conn[f].upstream = NoFd
    BY <1>2, <1>4 DEF Settled
  <2>2. away' = away /\ listen' = listen /\ pool' = pool /\ drain' = drain /\ jobs' = jobs
    BY <1>1 DEF world
  <2> QED
    BY <2>1, <2>2, <1>1, <1>2, <1>4, CloseOneStep
<1> QED
  BY <1>1, <1>3, <1>4

-----------------------------------------------------------------------------
(* Taking an upstream, or giving it to the pool.                           *)

\* The connection on f changes its hold on u, an idle, new or used upstream.
Swap(f, u) ==
    /\ slot[f] = Client /\ slot'[f] = Client /\ u \notin Reserved
    /\ \A g \in Fds \ {f, u} : Untouched(g)
    /\ conn'[u] = conn[u] /\ (f \in open' <=> f \in open)
    /\ slot'[u] = Upstream(f) \/ \E e \in Endpoints : slot'[u] = Idle(e)
    /\ conn'[f].upstream \in {u, NoFd}
    /\ conn'[f].drain_counted <=> conn[f].drain_counted
    /\ draining => conn'[f].phase # "Head" /\ ~conn'[f].client_keep_alive
    /\ \A k \in Kinds : f \in Ring'[k] <=> f \in Ring[k]
    /\ \A k \in DownKinds \cup AdminKinds : u \in Ring'[k] <=> u \in Ring[k]
    /\ conn'[f].reading <=> conn[f].reading
    /\ conn'[f].writing <=> conn[f].writing
    /\ jobs' \subseteq jobs \cup {u} /\ Pooled' \subseteq Pooled \cup {u}
    /\ away' = away /\ listen' = listen /\ drain' = drain
    /\ DrainCountExact' /\ ~stopped /\ cur'.fd = f

\* The same of the upstream u.
SwapUp(f, u) ==
    /\ conn[f].upstream \in {u, NoFd}
    /\ slot[u] = Upstream(f) \/ slot[u].is \in {"Idle", "Empty"}
    /\ u \in open' /\ (slot'[u] = Upstream(f) <=> conn'[f].upstream = u)
    /\ conn'[f].upstream = u => /\ conn'[f].up_reading <=> u \in Ring'["UP_READ"]
                                /\ conn'[f].up_writing <=> u \in Ring'["UP_WRITE"]
    /\ slot'[u].is = "Idle" => u \in Ring'["UP_READ"] /\ u \notin Ring'["UP_WRITE"]
    /\ \A g \in Fds \ {u} : g \in jobs' <=> g \in jobs
    /\ u \in jobs' <=> slot'[u] = Upstream(f) /\ conn'[f].up_borrowed
    /\ PoolInv'
    /\ conn'[f].up_borrowed =>
          /\ conn'[f].phase \in {"Connecting", "Closing"}
          /\ ~conn'[f].up_reading /\ ~conn'[f].up_writing /\ ~conn'[f].up_ready
          /\ cur'.at \notin Unlent

\* A step that takes an upstream or gives one away keeps the table.
LEMMA SwapStep ==
    ASSUME IInv, NEW f \in Fds, NEW u \in Fds, Swap(f, u), ~severed => SwapUp(f, u)
    PROVE  Accounts'
<1> USE SlotKinds
<1>1. /\ conn \in [Fds -> Conn] /\ slot \in [Fds -> Slot]
      /\ SlotInv /\ ReservedInv /\ DownInv /\ DrainInv /\ CurInv
  BY TableParts
<1>2. /\ away' = away /\ listen' = listen
      /\ draining' = draining /\ stopped' = stopped /\ severed' = severed
      /\ jobs' \subseteq jobs \cup {u} /\ Pooled' \subseteq Pooled \cup {u}
      /\ DrainCountExact' /\ ~stopped /\ cur'.fd = f
  BY DEF Swap, drain
<1>3. /\ slot[f] = Client /\ slot'[f] = Client /\ u \notin Reserved /\ u # f
      /\ slot[u] \notin {Client, Admin} /\ u \notin away /\ conn[u] = NewConn
      /\ conn'[u] = NewConn /\ f \notin away
      /\ NewConn.upstream = NoFd /\ ~NewConn.drain_counted /\ ~NewConn.up_borrowed
  <2>1. slot[f] = Client /\ slot'[f] = Client /\ u \notin Reserved /\ conn'[u] = conn[u]
    BY DEF Swap
  <2>2. u # f /\ slot[u] \notin {Client, Admin} /\ u \notin away
    BY <2>1 DEF Reserved
  <2> QED
    BY <2>1, <2>2, <1>1 DEF SlotInv, NewConn
<1>4. ASSUME NEW g \in Fds \ {f, u} PROVE Untouched(g)
  BY DEF Swap
<1>5. /\ slot'[u] = Upstream(f) \/ \E e \in Endpoints : slot'[u] = Idle(e)
      /\ slot'[u] \notin {Client, Admin, Empty, Abandoned}
  BY DEF Swap
<1>6. /\ conn'[f].upstream \in {u, NoFd}
      /\ conn'[f].drain_counted <=> conn[f].drain_counted
      /\ draining => conn'[f].phase # "Head" /\ ~conn'[f].client_keep_alive
      /\ \A k \in Kinds : f \in Ring'[k] <=> f \in Ring[k]
      /\ \A k \in DownKinds \cup AdminKinds : u \in Ring'[k] <=> u \in Ring[k]
      /\ conn'[f].reading <=> conn[f].reading
      /\ conn'[f].writing <=> conn[f].writing
      /\ f \in open' <=> f \in open
  BY DEF Swap
<1>7. \A g \in Fds : slot'[g] \in {Client, Admin} => slot'[g] = slot[g] /\ g # u
  BY <1>3, <1>4, <1>5 DEF Untouched
<1>8. SlotInv'
  <2> SUFFICES ASSUME NEW g \in Fds
               PROVE  /\ slot'[g] \notin {Client, Admin} => conn'[g] = NewConn
                      /\ slot'[g] = Admin => conn'[g].upstream = NoFd
                      /\ slot'[g].is = "Upstream" => slot'[slot'[g].of] # Admin
                      /\ g \in away' => slot'[g] = Empty
    BY DEF SlotInv
  <2>1. CASE g \in {f, u}
    BY <2>1, <1>2, <1>3, <1>5
  <2>2. CASE g \notin {f, u}
    <3>1. Untouched(g)
      BY <2>2, <1>4
    <3>2. slot'[g].is = "Upstream" => slot'[slot'[g].of] # Admin
      BY <3>1, <1>1, <1>7, SlotFacts DEF SlotInv, Untouched
    <3> QED
      BY <3>1, <3>2, <1>1, <1>2 DEF SlotInv, Untouched
  <2> QED
    BY <2>1, <2>2
<1>9. ReservedInv'
  <2>1. ASSUME NEW g \in Reserved'
        PROVE  g \in Reserved /\ g # u /\ g \in Fds /\ g # NoFd /\ g \in open'
    <3>1. g \in Fds
      BY TableFacts, <1>2 DEF IInv, Reserved
    <3>2. g \in Reserved /\ g # u
      BY <3>1, <1>2, <1>3, <1>7 DEF Reserved
    <3>3. g \in open
      BY <3>2, <1>1 DEF ReservedInv
    <3> QED
      BY <3>1, <3>2, <3>3, <1>4, <1>6, Names DEF Untouched
  <2>2. ASSUME NEW g \in Reserved', NEW h \in Fds
        PROVE  conn'[h].upstream # g
    BY <2>1, <1>1, <1>3, <1>4, <1>6 DEF ReservedInv, Untouched
  <2> QED
    BY <2>1, <2>2, <1>1, <1>2 DEF ReservedInv
<1>10. DownInv'
  <2> SUFFICES ASSUME NEW g \in Fds
               PROVE  /\ slot'[g] = Client =>
                            /\ conn'[g].reading <=> g \in Ring'["DOWN_READ"]
                            /\ conn'[g].writing <=> g \in Ring'["DOWN_WRITE"]
                      /\ g \in Ring'["DOWN_READ"] \cup Ring'["DOWN_WRITE"] => slot'[g] = Client
                      /\ g \in Ring'["ADMIN_READ"] \cup Ring'["ADMIN_WRITE"] => slot'[g] = Admin
    BY DEF DownInv
  <2>1. /\ slot[g] = Client =>
              /\ conn[g].reading <=> g \in Ring["DOWN_READ"]
              /\ conn[g].writing <=> g \in Ring["DOWN_WRITE"]
        /\ g \in Ring["DOWN_READ"] \cup Ring["DOWN_WRITE"] => slot[g] = Client
        /\ g \in Ring["ADMIN_READ"] \cup Ring["ADMIN_WRITE"] => slot[g] = Admin
    BY <1>1 DEF DownInv
  <2>2. CASE g = u
    BY <2>1, <2>2, <1>3, <1>5, <1>6 DEF DownKinds, AdminKinds
  <2>3. CASE g = f
    BY <2>1, <2>3, <1>3, <1>6, KindNames
  <2>4. CASE g \notin {f, u}
    <3>1. Untouched(g)
      BY <2>4, <1>4
    <3> QED
      BY <3>1, <2>1, KindNames DEF Untouched
  <2> QED
    BY <2>2, <2>3, <2>4
<1>11. DrainInv'
  <2>1. \A g \in Fds : conn'[g].drain_counted => conn[g].drain_counted
    BY <1>3, <1>4, <1>6 DEF Untouched
  <2>2. draining => \A g \in Fds : slot'[g] = Client =>
                       conn'[g].phase # "Head" /\ ~conn'[g].client_keep_alive
    BY <1>1, <1>4, <1>5, <1>6 DEF DrainInv, Untouched
  <2> QED
    BY <2>1, <2>2, <1>1, <1>2 DEF DrainInv
<1>12. CurInv'
  BY <1>2, <1>3 DEF CurInv
<1>13. ASSUME ~severed PROVE Owned'
  <2>1. Owned /\ UseInv /\ JobsInv /\ PoolInv /\ UpInv /\ BorrowInv
    BY <1>13, TableParts
  <2>2. /\ conn[f].upstream \in {u, NoFd}
        /\ slot[u] = Upstream(f) \/ slot[u].is \in {"Idle", "Empty"}
        /\ u \in open' /\ (slot'[u] = Upstream(f) <=> conn'[f].upstream = u)
        /\ conn'[f].upstream = u => /\ conn'[f].up_reading <=> u \in Ring'["UP_READ"]
                                    /\ conn'[f].up_writing <=> u \in Ring'["UP_WRITE"]
        /\ slot'[u].is = "Idle" => u \in Ring'["UP_READ"] /\ u \notin Ring'["UP_WRITE"]
        /\ \A g \in Fds \ {u} : g \in jobs' <=> g \in jobs
        /\ u \in jobs' <=> slot'[u] = Upstream(f) /\ conn'[f].up_borrowed
        /\ PoolInv'
        /\ conn'[f].up_borrowed =>
              /\ conn'[f].phase \in {"Connecting", "Closing"}
              /\ ~conn'[f].up_reading /\ ~conn'[f].up_writing /\ ~conn'[f].up_ready
              /\ cur'.at \notin Unlent
    BY <1>13 DEF SwapUp
  <2>3. ASSUME NEW g \in Fds \ {u}, slot'[g].is = "Upstream"
        PROVE  /\ slot[g] = slot'[g] /\ slot[g].of \in Fds \ {f, u}
               /\ slot[slot[g].of] = Client /\ conn[slot[g].of].upstream = g
               /\ slot'[slot[g].of] = Client /\ conn'[slot[g].of] = conn[slot[g].of]
    <3>1. slot[g] = slot'[g] /\ g # f
      BY <2>3, <1>3, <1>4 DEF Untouched
    <3>2. /\ slot[g].of \in Fds /\ slot[slot[g].of] = Client
          /\ conn[slot[g].of].upstream = g
      BY <3>1, <2>1, <2>3, <1>1, SlotFacts DEF UseInv
    <3>3. slot[g].of # f /\ slot[g].of # u
      BY <3>1, <3>2, <2>2, <1>3, Names
    <3> QED
      BY <3>1, <3>2, <3>3, <1>4 DEF Untouched
  <2>4. ASSUME NEW g \in Fds \ {f}, slot'[g] = Client, conn'[g].upstream # NoFd
        PROVE  /\ g # u /\ conn'[g] = conn[g] /\ slot[g] = Client
               /\ conn[g].upstream \in Fds \ {f, u}
               /\ slot[conn[g].upstream] = Upstream(g)
               /\ slot'[conn[g].upstream] = Upstream(g)
    <3>1. g # u /\ slot[g] = Client
      BY <2>4, <1>7
    <3>2. Untouched(g)
      BY <3>1, <1>4
    <3>3. conn'[g] = conn[g] /\ conn[g].upstream \in Fds
          /\ slot[conn[g].upstream] = Upstream(g)
      BY <3>1, <3>2, <2>1, <2>4, <1>1, SlotFacts DEF UseInv, Untouched
    <3>4. conn[g].upstream # u
      BY <3>3, <2>2, <2>4
    <3>5. conn[g].upstream # f
      BY <3>3, <1>3
    <3> QED
      BY <3>1, <3>3, <3>4, <3>5, <1>4 DEF Untouched
  <2>5. UseInv'
    <3> SUFFICES ASSUME NEW g \in Fds
                 PROVE  /\ slot'[g] # Empty => g \in open' \ away'
                        /\ g \in open' => slot'[g] # Empty \/ g \in away'
                        /\ slot'[g].is = "Upstream" =>
                              slot'[slot'[g].of] = Client /\ conn'[slot'[g].of].upstream = g
                        /\ slot'[g] = Client /\ conn'[g].upstream # NoFd =>
                              slot'[conn'[g].upstream] = Upstream(g)
      BY DEF UseInv
    <3>1. /\ slot[g] # Empty => g \in open \ away
          /\ g \in open => slot[g] # Empty \/ g \in away
      BY <2>1 DEF UseInv
    <3>2. CASE g = u
      BY <3>2, <2>2, <1>2, <1>3, <1>5
    <3>3. CASE g = f
      BY <3>1, <3>3, <2>2, <1>2, <1>3, <1>6
    <3>4. CASE g \notin {f, u}
      BY <3>1, <3>4, <2>3, <2>4, <1>2, <1>4 DEF Untouched
    <3> QED
      BY <3>2, <3>3, <3>4
  <2>6. JobsInv'
    <3> SUFFICES ASSUME NEW g \in Fds
                 PROVE  g \in jobs' <=> \/ slot'[g] = Abandoned
                                        \/ /\ slot'[g].is = "Upstream"
                                           /\ conn'[slot'[g].of].up_borrowed
      BY DEF JobsInv
    <3>1. g \in jobs <=> \/ slot[g] = Abandoned
                         \/ slot[g].is = "Upstream" /\ conn[slot[g].of].up_borrowed
      BY <2>1, <1>2 DEF JobsInv
    <3>2. CASE g = u
      BY <3>2, <2>2, <1>5
    <3>3. CASE g = f
      BY <3>1, <3>3, <2>2, <1>3
    <3>4. CASE g \notin {f, u}
      <4>1. slot'[g] = slot[g] /\ (g \in jobs' <=> g \in jobs)
        BY <3>4, <2>2, <1>4 DEF Untouched
      <4>2. slot[g].is = "Upstream" => conn'[slot[g].of] = conn[slot[g].of]
        BY <4>1, <3>4, <2>3
      <4> QED
        BY <3>1, <4>1, <4>2
    <3> QED
      BY <3>2, <3>3, <3>4
  <2>7. UpInv'
    <3> SUFFICES ASSUME NEW g \in Fds
                 PROVE  /\ slot'[g] = Client /\ conn'[g].upstream # NoFd =>
                              /\ conn'[g].up_reading <=> conn'[g].upstream \in Ring'["UP_READ"]
                              /\ conn'[g].up_writing <=> conn'[g].upstream \in Ring'["UP_WRITE"]
                        /\ slot'[g].is = "Idle" => /\ g \in Ring'["UP_READ"]
                                                   /\ g \notin Ring'["UP_WRITE"]
                        /\ g \in Ring'["UP_READ"] \cup Ring'["UP_WRITE"] =>
                              slot'[g].is \in {"Upstream", "Idle"}
      BY DEF UpInv
    <3>1. \A h \in Fds :
            /\ slot[h] = Client /\ conn[h].upstream # NoFd =>
                /\ conn[h].up_reading <=> conn[h].upstream \in Ring["UP_READ"]
                /\ conn[h].up_writing <=> conn[h].upstream \in Ring["UP_WRITE"]
            /\ slot[h].is = "Idle" => /\ h \in Ring["UP_READ"]
                                      /\ h \notin Ring["UP_WRITE"]
            /\ h \in Ring["UP_READ"] \cup Ring["UP_WRITE"] =>
                  slot[h].is \in {"Upstream", "Idle"}
      BY <2>1 DEF UpInv
    <3>2. \A h \in Fds \ {f, u} :
            /\ h \in Ring'["UP_READ"] <=> h \in Ring["UP_READ"]
            /\ h \in Ring'["UP_WRITE"] <=> h \in Ring["UP_WRITE"]
            /\ slot'[h] = slot[h]
      BY <1>4, KindNames DEF Untouched
    <3>3. CASE g = u
      BY <3>3, <2>2, <1>5
    <3>4. CASE g = f
      <4>1. f \notin Ring'["UP_READ"] \cup Ring'["UP_WRITE"]
        BY <3>1, <1>3, <1>6, KindNames
      <4> QED
        BY <4>1, <3>4, <2>2, <1>3, <1>6
    <3>5. CASE g \notin {f, u}
      <4>1. slot'[g] = Client /\ conn'[g].upstream # NoFd =>
              /\ conn'[g].up_reading <=> conn'[g].upstream \in Ring'["UP_READ"]
              /\ conn'[g].up_writing <=> conn'[g].upstream \in Ring'["UP_WRITE"]
        BY <3>1, <3>2, <3>5, <2>4
      <4> QED
        BY <4>1, <3>1, <3>2, <3>5
    <3> QED
      BY <3>3, <3>4, <3>5
  <2>8. BorrowInv'
    <3> SUFFICES ASSUME NEW g \in Fds
                 PROVE  /\ conn'[g].up_borrowed =>
                              /\ conn'[g].phase \in {"Connecting", "Closing"}
                              /\ conn'[g].upstream # NoFd =>
                                    /\ ~conn'[g].up_reading /\ ~conn'[g].up_writing
                                    /\ ~conn'[g].up_ready
                        /\ cur'.fd = g /\ cur'.at \in Unlent => ~conn'[g].up_borrowed
      BY DEF BorrowInv, Unlent
    <3>1. CASE g = u
      BY <3>1, <1>3
    <3>2. CASE g = f
      BY <3>2, <2>2
    <3>3. CASE g \notin {f, u}
      BY <3>3, <2>1, <1>2, <1>4 DEF BorrowInv, Untouched
    <3> QED
      BY <3>1, <3>2, <3>3
  <2> QED
    BY <2>2, <2>5, <2>6, <2>7, <2>8 DEF Owned
<1> QED
  BY <1>2, <1>8, <1>9, <1>10, <1>11, <1>12, <1>13 DEF Accounts, Table

\* A submission is one more operation of its kind.
LEMMA TaggedMore ==
    ASSUME Core, NEW os, NEW k \in Kinds, NEW u \in Fds, NEW j \in Kinds, NEW g \in Fds
    PROVE  g \in Tagged(os \cup {Submit(k, u)})[j] <=>
              g \in Tagged(os)[j] \/ (j = k /\ g = u)
<1>1. /\ Submit(k, u).k = k /\ Submit(k, u).fd = u /\ Submit(k, u).age = 0
  BY SubmitFacts, TableFacts
<1> HIDE DEF Submit
<1> QED
  BY <1>1 DEF Tagged

\* A completion that is delivered is the one operation of its kind its
\* descriptor has.
LEMMA TaggedLess ==
    ASSUME Core, NoWrap, NEW o \in ops, IsLive(o)
    PROVE  /\ o.fd \in Ring[o.k]
           /\ \A j \in Kinds, g \in Fds :
                 g \in Tagged(ops \ {o})[j] <=> g \in Ring[j] /\ ~(j = o.k /\ g = o.fd)
<1>1. o \in Op /\ ops \in SUBSET Op /\ \A x \in ops : Counted(x, generations)
      /\ generations \in Gens
  BY TableFacts
<1>2. o.age = 0 /\ o.fd \in Fds /\ o.k \in Kinds
  BY <1>1, LiveIsCurrent, OpFacts
<1>3. ASSUME NEW x \in ops, x.k = o.k, x.fd = o.fd, x.age = 0
      PROVE  x = o
  <2>1. Counted(x, generations) /\ Counted(o, generations) /\ x \in Op
    BY <1>1
  <2>2. generations[o.fd] \in 0 .. GenModulus - 1 /\ GenModulus \in Nat \ {0}
    BY <1>1, <1>2, SizesAssumption DEF Gens
  <2>3. x.gen \in 0 .. GenModulus - 1 /\ o.gen \in 0 .. GenModulus - 1
    BY <2>1, <1>1, OpFacts
  <2>4. x.gen = o.gen
    BY <2>1, <2>2, <2>3, <1>2, <1>3 DEF Counted
  <2> QED
    BY <2>1, <2>4, <1>1, <1>2, <1>3 DEF Op
<1>4. o.fd \in Ring[o.k]
  BY <1>2 DEF Ring, Tagged
<1>5. ASSUME NEW j \in Kinds, NEW g \in Fds
      PROVE  g \in Tagged(ops \ {o})[j] <=> g \in Ring[j] /\ ~(j = o.k /\ g = o.fd)
  <2>1. g \in Ring[j] <=> \E x \in ops : x.k = j /\ x.fd = g /\ x.age = 0
    BY DEF Ring, Tagged
  <2>2. g \in Tagged(ops \ {o})[j] <=>
           \E x \in ops \ {o} : x.k = j /\ x.fd = g /\ x.age = 0
    BY DEF Tagged
  <2> QED
    BY <2>1, <2>2, <1>3
<1> QED
  BY <1>4, <1>5

\* The pool of an endpoint after a return.
LEMMA PoolAppended ==
    ASSUME NEW q \in Seq(Fds), NEW u \in Fds
    PROVE  /\ Append(q, u) \in Seq(Fds) /\ Len(q) \in Nat
           /\ Len(Append(q, u)) = Len(q) + 1
           /\ \A i \in 1 .. Len(q) : Append(q, u)[i] = q[i]
           /\ Append(q, u)[Len(q) + 1] = u
  BY AppendProperties, LenProperties

\* Pool::put.
LEMMA PoolPut ==
    ASSUME Core, PoolInv, NEW u \in Fds, NEW e \in Endpoints, PoolTakes(e),
           slot[u].is # "Idle", pool' = [pool EXCEPT ![e] = Append(@, u)],
           slot'[u] = Idle(e), \A g \in Fds \ {u} : slot'[g] = slot[g]
    PROVE  PoolInv'
<1> USE SlotKinds
<1>1. pool \in [Endpoints -> Seq(Fds)] /\ MaxIdle \in Nat
  BY TableFacts, SizesAssumption
<1> DEFINE q == pool[e]
<1>2. /\ Len(q) \in Nat /\ Len(q) < MaxIdle
      /\ pool'[e] = Append(q, u) /\ Len(Append(q, u)) = Len(q) + 1
      /\ \A i \in 1 .. Len(q) : Append(q, u)[i] = q[i]
      /\ Append(q, u)[Len(q) + 1] = u
      /\ \A d \in Endpoints \ {e} : pool'[d] = pool[d]
  BY <1>1, PoolAppended DEF PoolTakes
<1>3. \A d \in Endpoints : \A i \in 1 .. Len(pool[d]) : pool[d][i] # u
  <2> SUFFICES ASSUME NEW d \in Endpoints, NEW i \in 1 .. Len(pool[d]), pool[d][i] = u
               PROVE  FALSE
    OBVIOUS
  <2>1. slot[u] = Idle(d)
    BY DEF PoolInv
  <2> QED
    BY <2>1
<1> SUFFICES ASSUME NEW d \in Endpoints
             PROVE  /\ Len(pool'[d]) <= MaxIdle
                    /\ \A i, j \in 1 .. Len(pool'[d]) : pool'[d][i] = pool'[d][j] => i = j
                    /\ \A g \in Fds : slot'[g] = Idle(d) <=>
                          \E i \in 1 .. Len(pool'[d]) : pool'[d][i] = g
  BY DEF PoolInv
<1>4. /\ Len(pool[d]) <= MaxIdle
      /\ \A i, j \in 1 .. Len(pool[d]) : pool[d][i] = pool[d][j] => i = j
      /\ \A g \in Fds : slot[g] = Idle(d) <=>
            \E i \in 1 .. Len(pool[d]) : pool[d][i] = g
  BY DEF PoolInv
<1>5. CASE d # e
  <2>1. pool'[d] = pool[d] /\ Idle(e) # Idle(d)
    BY <1>2, <1>5
  <2> QED
    BY <2>1, <1>3, <1>4
<1>6. CASE d = e
  <2> DEFINE p == Append(q, u)
             n == Len(q)
  <2>1. /\ n \in Nat /\ Len(p) = n + 1 /\ \A i \in 1 .. n : p[i] = q[i]
        /\ p[n + 1] = u /\ n < MaxIdle /\ pool'[d] = p
        /\ \A i \in 1 .. n : q[i] # u
        /\ \A i, j \in 1 .. n : q[i] = q[j] => i = j
    BY <1>2, <1>3, <1>4, <1>6
  <2>2. \A g \in Fds : slot[g] = Idle(e) <=> \E i \in 1 .. n : q[i] = g
    BY <1>4, <1>6
  <2> HIDE DEF p, n, q
  <2>3. \A i \in 1 .. n + 1 : i \in 1 .. n \/ i = n + 1
    BY <2>1
  <2>4. n + 1 <= MaxIdle
    BY <2>1, <1>1
  <2>5. \A i, j \in 1 .. n + 1 : p[i] = p[j] => i = j
    BY <2>1, <2>3
  <2>6. ASSUME NEW g \in Fds
        PROVE  slot'[g] = Idle(e) <=> \E i \in 1 .. n + 1 : p[i] = g
    <3>1. (\E i \in 1 .. n + 1 : p[i] = g) <=> (g = u \/ \E i \in 1 .. n : q[i] = g)
      <4>1. n + 1 \in 1 .. n + 1 /\ \A i \in 1 .. n : i \in 1 .. n + 1
        BY <2>1
      <4> QED
        BY <4>1, <2>1, <2>3
    <3> QED
      BY <3>1, <2>2
  <2> QED
    BY <2>1, <2>4, <2>5, <2>6, <1>6, SMTT(30)
<1> QED
  BY <1>5, <1>6

\* A finished exchange pools its upstream, with its read parked, or closes it.
LEMMA FinishResponseStep ==
    ASSUME IInv, NEW f \in Fds, FinishResponse(f)
    PROVE  Accounts'
<1> DEFINE c == conn[f]
           u == c.upstream
           e == Target(c)
           n == NextRequest(c)
           os == IF c.up_reading THEN ops ELSE ops \cup {Submit("UP_READ", u)}
           s == [slot EXCEPT ![u] = Idle(e)]
           cs == [conn EXCEPT ![f] = n]
<1>1. /\ Goto("advance", f) /\ drain' = drain /\ away' = away /\ listen' = listen
      /\ jobs' = jobs
      /\ \/ /\ u # NoFd /\ Reusable(c) /\ PoolTakes(e)
            /\ pool' = [pool EXCEPT ![e] = Append(@, u)]
            /\ Close({}, s, cs, os, open)
         \/ /\ pool' = pool
            /\ Close(IF u = NoFd THEN {} ELSE {u}, slot, cs, ops, open)
  BY FinishCases
<1>2. At("finish", f) /\ "finish" \in Unlent
  BY DEF FinishResponse, Unlent
<1>3. /\ c \in Conn /\ slot[f] = Client /\ ~stopped /\ cur.fd = f /\ cur.at = "finish"
  BY <1>2, RunFacts
<1>4. u \in Fds \cup {NoFd} /\ e \in Endpoints /\ n \in Conn
  BY <1>3, LetGo, TargetRange, NextRequestFacts
<1>5. /\ n.upstream = NoFd /\ n.reading = c.reading /\ n.writing = c.writing
      /\ n.drain_counted = c.drain_counted /\ n.up_borrowed = c.up_borrowed
      /\ n.client_keep_alive = c.client_keep_alive
      /\ n.phase \in {"Head", "Closing"}
      /\ n.phase = "Head" => c.client_keep_alive
  BY <1>3, NextRequestFlags
<1>6. draining => n.phase # "Head" /\ ~n.client_keep_alive
  BY <1>3, <1>5, TableParts DEF DrainInv
<1>7. ~severed => ~c.up_borrowed
  BY <1>2, <1>3, NotLent
<1>8. CASE /\ u # NoFd /\ Reusable(c) /\ PoolTakes(e)
           /\ pool' = [pool EXCEPT ![e] = Append(@, u)]
           /\ Close({}, s, cs, os, open)
  <2>1. u \in Fds /\ u \notin Reserved /\ u # f /\ c.up_writing = FALSE
    <3>1. u \in Fds /\ u \notin Reserved /\ u # f
      BY <1>3, <1>4, <1>8, UpstreamFree
    <3> QED
      BY <3>1, <1>3, <1>8 DEF Reusable, Conn
  <2>2. /\ Core /\ Operations(ops) /\ slot \in [Fds -> Slot] /\ conn \in [Fds -> Conn]
        /\ DrainCountExact /\ Tagged(ops) = Ring /\ pool \in [Endpoints -> Seq(Fds)]
        /\ "UP_READ" \in Kinds
    BY TableParts, TableFacts, KindNames DEF Ring
  <2>3. /\ s[u] = Idle(e) /\ \A g \in Fds \ {u} : s[g] = slot[g]
        /\ cs[f] = n /\ \A g \in Fds \ {f} : cs[g] = conn[g]
        /\ \A g \in Fds : cs[g].drain_counted <=> conn[g].drain_counted
    BY <2>1, <2>2, <1>5
  <2>4. Operations(os)
    <3>1. Submit("UP_READ", u) \in Op
      BY <2>1, <2>2, SubmitFacts, TableFacts
    <3> QED
      BY <3>1, <2>2 DEF Operations
  <2>5. ASSUME NEW j \in Kinds, NEW g \in Fds
        PROVE  g \in Tagged(os)[j] <=> \/ g \in Ring[j]
                                       \/ j = "UP_READ" /\ g = u /\ ~c.up_reading
    BY <2>1, <2>2, TaggedMore
  <2> HIDE DEF s, cs, os, n, e
  <2>6. DrainCountExact'
    BY <2>2, <2>3, <1>8, CountClosed
  <2>7. ASSUME NEW g \in Fds
        PROVE  /\ slot'[g] = s[g] /\ conn'[g] = cs[g] /\ (g \in open' <=> g \in open)
               /\ \A k \in Kinds : g \in Ring'[k] <=> g \in Tagged(os)[k]
    BY <2>2, <2>4, <1>8, MoveFacts
  <2>8. \A g \in Fds \ {f, u} : Untouched(g)
    BY <2>3, <2>5, <2>7 DEF Untouched
  <2>9. Pooled' \subseteq Pooled \cup {u}
    <3>1. /\ pool'[e] = Append(pool[e], u) /\ \A d \in Endpoints \ {e} : pool'[d] = pool[d]
          /\ pool[e] \in Seq(Fds)
      BY <2>2, <1>4, <1>8
    <3>2. \A i \in 1 .. Len(pool'[e]) : pool'[e][i] = u \/ \E j \in 1 .. Len(pool[e]) :
                                                              pool'[e][i] = pool[e][j]
      BY <3>1, <2>1, PoolAppended
    <3> SUFFICES ASSUME NEW g \in Pooled', g # u
                 PROVE  g \in Pooled
      OBVIOUS
    <3>3. PICK d \in Endpoints : g \in Fds /\ \E i \in 1 .. Len(pool'[d]) : pool'[d][i] = g
      BY DEF Pooled
    <3>4. \E i \in 1 .. Len(pool[d]) : pool[d][i] = g
      BY <3>1, <3>2, <3>3
    <3> QED
      BY <3>3, <3>4 DEF Pooled
  <2>10. cur'.fd = f /\ cur'.at = "advance"
    BY <1>1 DEF Goto
  <2>11. Swap(f, u)
    <3>1. \A k \in Kinds : f \in Ring'[k] <=> f \in Ring[k]
      BY <2>1, <2>5, <2>7
    <3>2. \A k \in DownKinds \cup AdminKinds : u \in Ring'[k] <=> u \in Ring[k]
      BY <2>1, <2>5, <2>7, KindNames DEF DownKinds, AdminKinds
    <3>3. slot'[u] = Idle(e) /\ slot'[f] = Client /\ conn'[f] = n /\ conn'[u] = conn[u]
          /\ (f \in open' <=> f \in open)
      BY <2>1, <2>3, <2>7, <1>3
    <3> QED
      BY <3>1, <3>2, <3>3, <2>1, <2>6, <2>8, <2>9, <2>10, <1>1, <1>3, <1>4, <1>5, <1>6
      DEF Swap
  <2>12. ASSUME ~severed PROVE SwapUp(f, u)
    <3>1. Owned /\ UseInv /\ UpInv /\ JobsInv /\ PoolInv
      BY <2>12, TableParts
    <3>2. slot[u] = Upstream(f) /\ u \in open
      BY <3>1, <2>1, <1>3, SlotKinds, Names DEF UseInv
    <3>3. u \notin jobs
      BY <3>1, <3>2, <2>1, <2>12, <1>3, <1>7, SlotKinds DEF JobsInv
    <3>4. u \notin Ring["UP_WRITE"] /\ (c.up_reading => u \in Ring["UP_READ"])
      BY <3>1, <2>1, <1>3, <1>8 DEF UpInv
    <3>5. u \in Ring'["UP_READ"] /\ u \notin Ring'["UP_WRITE"]
      BY <3>4, <2>1, <2>5, <2>7, KindNames
    <3>6. slot'[u] = Idle(e) /\ u \in open' /\ conn'[f] = n
      BY <3>2, <2>1, <2>3, <2>7
    <3>7. PoolInv'
      <4>1. slot[u].is # "Idle" /\ \A g \in Fds \ {u} : slot'[g] = slot[g]
        BY <3>2, <2>3, <2>7, SlotKinds
      <4>2. PoolTakes(e) /\ pool' = [pool EXCEPT ![e] = Append(@, u)]
        BY <1>8
      <4> HIDE DEF u, c
      <4> QED
        BY <4>1, <4>2, <3>1, <3>6, <2>1, <2>2, <1>4, PoolPut
    <3> QED
      BY <3>2, <3>3, <3>5, <3>6, <3>7, <2>1, <2>12, <1>1, <1>5, <1>7, SlotKinds, Names
      DEF SwapUp
  <2> QED
    BY <2>1, <2>11, <2>12, SwapStep
<1>9. CASE /\ pool' = pool
           /\ Close(IF u = NoFd THEN {} ELSE {u}, slot, cs, ops, open)
  <2> HIDE DEF n
  <2> QED
    BY <1>1, <1>2, <1>4, <1>5, <1>6, <1>9, LoseStep, Names
<1> QED
  BY <1>1, <1>8, <1>9

\* Pool::take.
LEMMA PoolTook ==
    ASSUME Core, PoolInv, NEW f \in Fds, NEW u \in Fds, NEW e \in Endpoints,
           pool[e] # <<>>, u = pool[e][Len(pool[e])],
           pool' = [pool EXCEPT ![e] = SubSeq(@, 1, Len(@) - 1)],
           slot'[u] = Upstream(f), \A g \in Fds \ {u} : slot'[g] = slot[g]
    PROVE  PoolInv' /\ slot[u] = Idle(e)
<1> USE SlotKinds
<1>1. pool \in [Endpoints -> Seq(Fds)] /\ MaxIdle \in Nat
  BY TableFacts, SizesAssumption
<1> DEFINE q == pool[e]
           p == SubSeq(q, 1, Len(q) - 1)
           n == Len(q)
<1>2. q \in Seq(Fds) /\ q # <<>>
  BY <1>1
<1>3. /\ n \in Nat \ {0} /\ Len(p) = n - 1 /\ \A i \in 1 .. n - 1 : p[i] = q[i]
  BY <1>2, PoolTaken
<1>4. pool'[e] = p /\ \A d \in Endpoints \ {e} : pool'[d] = pool[d]
  BY <1>1
<1>5. /\ q[n] = u /\ n \in 1 .. n /\ n <= MaxIdle
      /\ \A i, j \in 1 .. n : q[i] = q[j] => i = j
      /\ \A g \in Fds : slot[g] = Idle(e) <=> \E i \in 1 .. n : q[i] = g
  BY <1>3 DEF PoolInv
<1>6. slot[u] = Idle(e)
  BY <1>5
<1> HIDE DEF p, n, q
<1>7. ASSUME NEW d \in Endpoints
      PROVE  /\ Len(pool'[d]) <= MaxIdle
             /\ \A i, j \in 1 .. Len(pool'[d]) : pool'[d][i] = pool'[d][j] => i = j
             /\ \A g \in Fds : slot'[g] = Idle(d) <=>
                   \E i \in 1 .. Len(pool'[d]) : pool'[d][i] = g
  <2>1. CASE d # e
    <3>1. pool'[d] = pool[d] /\ slot[u] # Idle(d) /\ slot'[u] # Idle(d)
      BY <2>1, <1>4, <1>6
    <3>2. /\ Len(pool[d]) <= MaxIdle
          /\ \A i, j \in 1 .. Len(pool[d]) : pool[d][i] = pool[d][j] => i = j
          /\ \A g \in Fds : slot[g] = Idle(d) <=>
                \E i \in 1 .. Len(pool[d]) : pool[d][i] = g
      BY DEF PoolInv
    <3> QED
      BY <3>1, <3>2
  <2>2. CASE d = e
    <3>1. \A i \in 1 .. n - 1 : i \in 1 .. n /\ i # n
      BY <1>3
    <3>2. \A i \in 1 .. n : i \in 1 .. n - 1 \/ i = n
      BY <1>3
    <3>3. n - 1 <= MaxIdle
      BY <1>1, <1>3, <1>5
    <3>4. \A i, j \in 1 .. n - 1 : p[i] = p[j] => i = j
      BY <3>1, <1>3, <1>5
    <3>5. ASSUME NEW g \in Fds
          PROVE  slot'[g] = Idle(e) <=> \E i \in 1 .. n - 1 : p[i] = g
      <4>1. CASE g = u
        <5>1. \A i \in 1 .. n - 1 : p[i] # u
          BY <3>1, <1>3, <1>5
        <5> QED
          BY <5>1, <4>1
      <4>2. CASE g # u
        <5>1. (\E i \in 1 .. n - 1 : p[i] = g) <=> (\E i \in 1 .. n : q[i] = g)
          BY <4>2, <3>1, <3>2, <1>3, <1>5
        <5> QED
          BY <5>1, <4>2, <1>5
      <4> QED
        BY <4>1, <4>2
    <3>6. pool'[d] = p /\ Len(pool'[d]) = n - 1 /\ Idle(d) = Idle(e)
      BY <2>2, <1>3, <1>4
    <3>7. \A g \in Fds : slot'[g] = Idle(d) <=> \E i \in 1 .. Len(pool'[d]) : pool'[d][i] = g
      BY <3>5, <3>6
    <3> QED
      BY <3>3, <3>4, <3>6, <3>7
  <2> QED
    BY <2>1, <2>2
<1> QED
  BY <1>6, <1>7 DEF PoolInv

\* open_upstream gives the connection an upstream.
LEMMA LinkStep ==
    ASSUME IInv, NEW f \in Fds, At("open", f), NEW u \in Fds, u \notin Reserved,
           NEW c \in Conn, NEW ks,
           Close({}, [slot EXCEPT ![u] = Upstream(f)], [conn EXCEPT ![f] = c], ops, ks),
           \A g \in Fds \ {u} : g \in ks <=> g \in open,
           c.upstream = u, c.phase # "Head", c.reading <=> conn[f].reading,
           c.writing <=> conn[f].writing, c.drain_counted <=> conn[f].drain_counted,
           c.client_keep_alive <=> conn[f].client_keep_alive,
           jobs' \subseteq jobs \cup {u}, Pooled' \subseteq Pooled,
           away' = away, listen' = listen, drain' = drain, cur'.fd = f,
           ~severed =>
              /\ slot[u].is \in {"Idle", "Empty"} /\ u \in ks /\ u \notin jobs /\ PoolInv'
              /\ c.up_reading <=> u \in Ring["UP_READ"]
              /\ u \notin Ring["UP_WRITE"] /\ ~c.up_writing
              /\ jobs' = IF c.up_borrowed THEN jobs \cup {u} ELSE jobs
              /\ c.up_borrowed => /\ c.phase = "Connecting" /\ ~c.up_reading
                                  /\ ~c.up_ready /\ cur'.at \notin Unlent
    PROVE  Accounts'
<1> DEFINE s == [slot EXCEPT ![u] = Upstream(f)]
           cs == [conn EXCEPT ![f] = c]
<1>1. /\ Core /\ Operations(ops) /\ slot \in [Fds -> Slot] /\ conn \in [Fds -> Conn]
      /\ DrainCountExact /\ Tagged(ops) = Ring /\ DrainInv
  BY TableParts DEF Ring
<1>2. slot[f] = Client /\ ~stopped /\ u # f /\ conn[f].upstream = NoFd
  <2>1. slot[f] = Client /\ ~stopped
    BY RunFacts
  <2>2. Ready(conn[f], "open")
    BY <1>1, CoreFacts, Names
  <2> QED
    BY <2>1, <2>2 DEF Reserved, Ready
<1>3. /\ s[u] = Upstream(f) /\ \A g \in Fds \ {u} : s[g] = slot[g]
      /\ cs[f] = c /\ \A g \in Fds \ {f} : cs[g] = conn[g]
      /\ \A g \in Fds : cs[g].drain_counted <=> conn[g].drain_counted
  BY <1>1, <1>2
<1>4. Close({}, s, cs, ops, ks)
  OBVIOUS
<1> HIDE DEF s, cs
<1>5. DrainCountExact'
  BY <1>1, <1>3, <1>4, CountClosed
<1>6. ASSUME NEW g \in Fds
      PROVE  /\ slot'[g] = s[g] /\ conn'[g] = cs[g] /\ (g \in open' <=> g \in ks)
             /\ \A k \in Kinds : g \in Ring'[k] <=> g \in Ring[k]
  BY <1>1, <1>4, MoveFacts
<1>7. \A g \in Fds \ {f, u} : Untouched(g)
  BY <1>3, <1>6 DEF Untouched
<1>8. /\ slot'[u] = Upstream(f) /\ slot'[f] = Client /\ conn'[f] = c /\ conn'[u] = conn[u]
      /\ (f \in open' <=> f \in open) /\ (u \in open' <=> u \in ks)
      /\ \A k \in Kinds : /\ f \in Ring'[k] <=> f \in Ring[k]
                          /\ u \in Ring'[k] <=> u \in Ring[k]
  BY <1>2, <1>3, <1>6
<1>9. draining => c.phase # "Head" /\ ~c.client_keep_alive
  BY <1>1, <1>2 DEF DrainInv
<1>10. DownKinds \cup AdminKinds \subseteq Kinds /\ {"UP_READ", "UP_WRITE"} \subseteq Kinds
  BY KindNames DEF DownKinds, AdminKinds
<1>11. Swap(f, u)
  BY <1>2, <1>5, <1>7, <1>8, <1>9, <1>10 DEF Swap
<1>12. ASSUME ~severed PROVE SwapUp(f, u)
  BY <1>2, <1>8, <1>10, <1>12, SlotKinds DEF SwapUp
<1> QED
  BY <1>11, <1>12, SwapStep

\* An upstream from the pool leaves it with its read in the ring; a new one is
\* a number that was nobody's, lent to the helper if it still connects.
LEMMA OpenUpstreamStep ==
    ASSUME IInv, NEW f \in Fds, OpenUpstream(f)
    PROVE  Accounts'
<1> DEFINE b == conn[f]
           e == Target(b)
           c == [b EXCEPT !.deadline = TRUE, !.inflight_held = TRUE]
           taken(u) == [c EXCEPT !.upstream = u, !.up_reading = TRUE,
                                 !.up_ready = TRUE, !.from_pool = TRUE,
                                 !.phase = "Exchanging"]
           phase(x) == IF x THEN "Exchanging" ELSE "Connecting"
           lent(x) == c.up_borrowed \/ ~x
           dialled(u, x) == [c EXCEPT !.upstream = u, !.up_reading = FALSE,
                                      !.up_ready = x, !.from_pool = FALSE,
                                      !.up_borrowed = lent(x), !.phase = phase(x)]
<1>1. At("open", f) /\ b \in Conn /\ Ready(b, "open") /\ Core
  BY CoreFacts, Names DEF OpenUpstream, IInv
<1>2. /\ drain' = drain /\ away' = away /\ listen' = listen /\ midbody' = midbody
      /\ UNCHANGED <<requests, refusals>>
  BY DEF OpenUpstream
<1>3. \/ /\ pool[e] # <<>>
         /\ pool' = [pool EXCEPT ![e] = SubSeq(@, 1, Len(@) - 1)]
         /\ Close({}, [slot EXCEPT ![pool[e][Len(pool[e])]] = Upstream(f)],
                  [conn EXCEPT ![f] = taken(pool[e][Len(pool[e])])], ops, open)
         /\ Goto("advance", f) /\ UNCHANGED <<jobs, opens>>
      \/ /\ pool' = pool /\ Update(f, c) /\ Goto("retry", f)
         /\ UNCHANGED <<jobs, opens>>
      \/ \E u \in Fds \ open, x \in BOOLEAN :
            /\ pool' = pool
            /\ Close({}, [slot EXCEPT ![u] = Upstream(f)],
                     [conn EXCEPT ![f] = dialled(u, x)], ops, open \cup {u})
            /\ jobs' = IF x THEN jobs ELSE jobs \cup {u}
            /\ Goto(IF x THEN "advance" ELSE "drive", f)
  BY DEF OpenUpstream
<1>4. e \in Endpoints
  BY <1>1, TargetRange
<1>5. ~severed => ~b.up_borrowed
  BY <1>1, AtFacts, NotLent DEF Unlent
<1>6. \A x : phase(x) \in Phase /\ phase(x) # "Head"
  BY Names
<1> HIDE DEF b, phase
<1>7. c \in Conn
  BY <1>1, SetField
<1>8. /\ SameFlags(b, c) /\ c.client_keep_alive = b.client_keep_alive
      /\ c.up_writing = FALSE /\ c.up_borrowed = b.up_borrowed
      /\ c.up_borrowed \in BOOLEAN /\ c.phase = b.phase
  BY <1>1 DEF SameFlags, Conn, Ready
<1> HIDE DEF c
<1>9. \A x : lent(x) \in BOOLEAN
  BY <1>8
<1>10. ~severed => \A x \in BOOLEAN : lent(x) <=> ~x
  BY <1>5, <1>8
<1> HIDE DEF lent
<1>11. ASSUME NEW u \in Fds, NEW x \in BOOLEAN, NEW d, d = dialled(u, x)
       PROVE  /\ d \in Conn /\ d.upstream = u /\ d.phase = phase(x)
              /\ d.reading <=> b.reading
              /\ d.writing <=> b.writing
              /\ d.drain_counted <=> b.drain_counted
              /\ d.client_keep_alive <=> b.client_keep_alive
              /\ ~d.up_reading /\ ~d.up_writing
              /\ d.up_ready <=> x
              /\ d.up_borrowed <=> lent(x)
  <2>1. d \in Conn
    BY <1>6, <1>7, <1>9, <1>11, SetField
  <2> QED
    BY <2>1, <1>7, <1>8, <1>11 DEF SameFlags, Conn
<1>12. ASSUME NEW u \in Fds, NEW d, d = taken(u)
       PROVE  /\ d \in Conn /\ d.upstream = u /\ d.phase = "Exchanging"
              /\ d.reading <=> b.reading
              /\ d.writing <=> b.writing
              /\ d.drain_counted <=> b.drain_counted
              /\ d.client_keep_alive <=> b.client_keep_alive
              /\ d.up_reading /\ ~d.up_writing
              /\ d.up_borrowed <=> b.up_borrowed
  <2>1. d \in Conn
    BY <1>7, <1>12, SetField, Names
  <2> QED
    BY <2>1, <1>7, <1>8, <1>12 DEF SameFlags, Conn
<1> HIDE DEF dialled, taken, e
<1>13. CASE /\ pool[e] # <<>>
            /\ pool' = [pool EXCEPT ![e] = SubSeq(@, 1, Len(@) - 1)]
            /\ Close({}, [slot EXCEPT ![pool[e][Len(pool[e])]] = Upstream(f)],
                     [conn EXCEPT ![f] = taken(pool[e][Len(pool[e])])], ops, open)
            /\ Goto("advance", f) /\ UNCHANGED <<jobs, opens>>
  <2> DEFINE u == pool[e][Len(pool[e])]
             q == pool[e]
             d == taken(u)
  <2>1. pool \in [Endpoints -> Seq(Fds)] /\ q \in Seq(Fds) /\ q # <<>>
    BY <1>1, <1>4, <1>13, TableFacts
  <2>2. /\ u \in Fds /\ Len(q) \in Nat \ {0}
        /\ Len(SubSeq(q, 1, Len(q) - 1)) = Len(q) - 1
        /\ \A i \in 1 .. Len(q) - 1 : SubSeq(q, 1, Len(q) - 1)[i] = q[i]
    BY <2>1, PoolTaken
  <2>3. u \in Pooled
    BY <2>2, <1>4 DEF Pooled
  <2>4. u \notin Reserved
    BY <2>3, TableParts DEF ReservedInv
  <2>5. Pooled' \subseteq Pooled
    <3>1. /\ pool'[e] = SubSeq(q, 1, Len(q) - 1)
          /\ \A x \in Endpoints \ {e} : pool'[x] = pool[x]
      BY <2>1, <1>4, <1>13
    <3>2. \A i \in 1 .. Len(pool'[e]) : i \in 1 .. Len(q) /\ pool'[e][i] = q[i]
      BY <3>1, <2>2
    <3> SUFFICES ASSUME NEW g \in Pooled'
                 PROVE  g \in Pooled
      OBVIOUS
    <3>3. PICK x \in Endpoints : g \in Fds /\ \E i \in 1 .. Len(pool'[x]) : pool'[x][i] = g
      BY DEF Pooled
    <3>4. \E i \in 1 .. Len(pool[x]) : pool[x][i] = g
      BY <3>1, <3>2, <3>3
    <3> QED
      BY <3>3, <3>4 DEF Pooled
  <2>6. /\ Close({}, [slot EXCEPT ![u] = Upstream(f)], [conn EXCEPT ![f] = d], ops, open)
        /\ pool' = [pool EXCEPT ![e] = SubSeq(@, 1, Len(@) - 1)]
        /\ u = pool[e][Len(pool[e])] /\ jobs' = jobs /\ cur'.fd = f
    BY <1>13 DEF Goto
  <2> HIDE DEF u, d
  <2>7. /\ d \in Conn /\ d.upstream = u /\ d.phase = "Exchanging"
        /\ d.reading <=> b.reading
        /\ d.writing <=> b.writing
        /\ d.drain_counted <=> b.drain_counted
        /\ d.client_keep_alive <=> b.client_keep_alive
        /\ d.up_reading /\ ~d.up_writing
        /\ d.up_borrowed <=> b.up_borrowed
    BY <2>2, <1>12 DEF d
  <2>8. ASSUME ~severed
        PROVE  /\ slot[u].is \in {"Idle", "Empty"} /\ u \in open /\ u \notin jobs /\ PoolInv'
               /\ u \in Ring["UP_READ"] /\ u \notin Ring["UP_WRITE"]
    <3>1. UseInv /\ JobsInv /\ PoolInv /\ UpInv /\ ~stopped /\ slot \in [Fds -> Slot]
          /\ Operations(ops)
      BY <2>8, <1>1, TableParts, RunFacts
    <3>2. \A g \in Fds : slot'[g] = [slot EXCEPT ![u] = Upstream(f)][g]
      BY <3>1, <2>6, <1>1, MoveFacts
    <3>3. slot'[u] = Upstream(f) /\ \A g \in Fds \ {u} : slot'[g] = slot[g]
      BY <3>1, <3>2, <2>2
    <3>4. PoolInv' /\ slot[u] = Idle(e)
      <4>1. u \in Fds /\ pool[e] # <<>> /\ PoolInv /\ Core
        BY <3>1, <2>2, <1>1, <1>13
      <4>2. u = pool[e][Len(pool[e])]
            /\ pool' = [pool EXCEPT ![e] = SubSeq(@, 1, Len(@) - 1)]
        BY <2>6
      <4> QED
        BY <4>1, <4>2, <3>3, <1>4, PoolTook
    <3> QED
      BY <3>1, <3>4, <2>2, SlotKinds DEF UseInv, JobsInv, UpInv
  <2>9. ~severed => ~d.up_borrowed
    BY <2>7, <1>5
  <2> QED
    BY <2>2, <2>4, <2>5, <2>6, <2>7, <2>8, <2>9, <1>1, <1>2, LinkStep DEF b
<1>14. CASE /\ pool' = pool /\ Update(f, c) /\ Goto("retry", f)
            /\ UNCHANGED <<jobs, opens>>
  <2>1. UNCHANGED <<drain, world, pool, jobs>>
    BY <1>2, <1>14 DEF drain, world, counts
  <2>2. ~severed => StaysLent(b, c, "retry")
    BY <1>5, <1>8 DEF StaysLent
  <2> QED
    BY <2>1, <2>2, <1>1, <1>7, <1>8, <1>14, RunFacts, QuietStep, Names DEF b
<1>15. ASSUME NEW u \in Fds \ open, NEW x \in BOOLEAN,
              pool' = pool,
              Close({}, [slot EXCEPT ![u] = Upstream(f)],
                    [conn EXCEPT ![f] = dialled(u, x)], ops, open \cup {u}),
              jobs' = IF x THEN jobs ELSE jobs \cup {u},
              Goto(IF x THEN "advance" ELSE "drive", f)
       PROVE  Accounts'
  <2> DEFINE d == dialled(u, x)
  <2>1. u \notin Reserved /\ u \in Fds
    BY TableParts DEF ReservedInv
  <2>2. /\ d \in Conn /\ d.upstream = u /\ d.phase = phase(x)
        /\ d.reading <=> b.reading
        /\ d.writing <=> b.writing
        /\ d.drain_counted <=> b.drain_counted
        /\ d.client_keep_alive <=> b.client_keep_alive
        /\ ~d.up_reading /\ ~d.up_writing
        /\ d.up_ready <=> x
        /\ d.up_borrowed <=> lent(x)
    BY <1>11
  <2> HIDE DEF d
  <2>3. /\ Pooled' \subseteq Pooled /\ jobs' \subseteq jobs \cup {u} /\ cur'.fd = f
        /\ cur'.at = IF x THEN "advance" ELSE "drive"
    BY <1>15 DEF Pooled, Goto
  <2>4. \A g \in Fds \ {u} : g \in open \cup {u} <=> g \in open
    OBVIOUS
  <2>5. ASSUME ~severed
        PROVE  /\ slot[u].is \in {"Idle", "Empty"} /\ u \notin jobs /\ PoolInv'
               /\ u \notin Ring["UP_READ"] /\ u \notin Ring["UP_WRITE"]
    <3>1. UseInv /\ JobsInv /\ PoolInv /\ UpInv /\ ~stopped /\ slot \in [Fds -> Slot]
          /\ Operations(ops)
      BY <2>5, <1>1, TableParts, RunFacts
    <3>2. slot[u] = Empty
      BY <3>1 DEF UseInv
    <3>3. \A g \in Fds : slot'[g] = [slot EXCEPT ![u] = Upstream(f)][g]
      BY <3>1, <1>1, <1>15, MoveFacts
    <3>4. slot'[u] = Upstream(f) /\ \A g \in Fds \ {u} : slot'[g] = slot[g]
      BY <3>1, <3>3
    <3>5. PoolInv'
      <4>1. \A g \in Fds, z \in Endpoints : slot'[g] = Idle(z) <=> slot[g] = Idle(z)
        BY <3>2, <3>4, SlotKinds
      <4> QED
        BY <4>1, <3>1, <1>15 DEF PoolInv
    <3> QED
      BY <3>1, <3>2, <3>5, SlotKinds DEF JobsInv, UpInv
  <2>6. ~severed => /\ jobs' = IF d.up_borrowed THEN jobs \cup {u} ELSE jobs
                    /\ d.up_borrowed => /\ d.phase = "Connecting" /\ ~d.up_ready
                                        /\ cur'.at \notin Unlent
    BY <2>2, <2>3, <1>10, <1>15 DEF phase, Unlent
  <2>7. Close({}, [slot EXCEPT ![u] = Upstream(f)], [conn EXCEPT ![f] = d], ops,
              open \cup {u})
    BY <1>15 DEF d
  <2>8. u \in open \cup {u} /\ d.phase # "Head"
    BY <2>2, <1>6
  <2> QED
    BY <2>1, <2>2, <2>3, <2>4, <2>5, <2>6, <2>7, <2>8, <1>1, <1>2, LinkStep DEF b
<1> QED
  BY <1>3, <1>13, <1>14, <1>15

-----------------------------------------------------------------------------
(* The remaining handlers.                                                 *)

\* A connection handed off leaves nothing behind but its number.
LEMMA HandOffStep ==
    ASSUME IInv, NEW f \in Fds, HandOff(f)
    PROVE  Accounts'
<1> USE SlotKinds
<1>1. /\ At("advance", f) /\ conn[f].phase = "Head"
      /\ slot' = [slot EXCEPT ![f] = Empty] /\ conn' = [conn EXCEPT ![f] = NewConn]
      /\ ops' = Aged(ops, {f}) /\ away' = away \cup {f} /\ cur' = Wait
      /\ open' = open /\ drain_inflight' = drain_inflight /\ drain' = drain
      /\ listen' = listen /\ pool' = pool /\ jobs' = jobs
  BY DEF HandOff
<1>2. /\ slot[f] = Client /\ ~stopped /\ ~draining /\ ~severed
      /\ conn[f].upstream = NoFd /\ ~conn[f].up_borrowed
  <2>1. Settled(conn[f]) /\ Core
    BY CoreFacts DEF IInv
  <2> QED
    BY <2>1, <1>1, RunFacts, NotLent DEF Settled
<1>3. /\ SlotInv /\ ReservedInv /\ DownInv /\ DrainInv /\ DrainCountExact
      /\ UseInv /\ JobsInv /\ PoolInv /\ UpInv /\ BorrowInv /\ Core
      /\ slot \in [Fds -> Slot] /\ conn \in [Fds -> Conn]
  BY <1>2, TableParts
<1>4. ASSUME NEW g \in Fds, NEW k \in Kinds
      PROVE  g \in Ring'[k] <=> g \in Ring[k] /\ g # f
  <2> DEFINE one == {f}
             aged == Aged(ops, one)
  <2>1. ops \in SUBSET Op /\ generations \in Gens /\ one \in SUBSET Fds
    BY <1>3, TableFacts
  <2>2. Ring' = Tagged(aged)
    BY <1>1 DEF Ring
  <2> HIDE DEF one
  <2>3. Tagged(aged)[k] = Tagged(ops)[k] \ one
    BY <2>1, AgedFacts
  <2> HIDE DEF aged
  <2> QED
    BY <2>2, <2>3 DEF Ring, one
<1>5. ~NewConn.drain_counted /\ NewConn.upstream = NoFd /\ ~NewConn.up_borrowed
  BY DEF NewConn
<1>6. /\ slot'[f] = Empty /\ conn'[f] = NewConn
      /\ \A g \in Fds \ {f} : slot'[g] = slot[g] /\ conn'[g] = conn[g]
      /\ draining' = FALSE /\ stopped' = stopped /\ severed' = FALSE
  BY <1>1, <1>2, <1>3, DrainType DEF drain
<1>7. f \in open /\ f \notin jobs /\ f \notin Pooled /\ \A g \in Fds : conn[g].upstream # f
  BY <1>2, <1>3 DEF ReservedInv, Reserved
<1>8. ASSUME NEW g \in Fds, slot[g].is = "Upstream"
      PROVE  slot[g].of \in Fds /\ slot[g].of # f
  BY <1>2, <1>3, <1>8, SlotFacts, Names DEF UseInv
<1>9. SlotInv'
  BY <1>1, <1>3, <1>5, <1>6, SlotFacts DEF SlotInv
<1>10. ReservedInv'
  <2>1. Reserved' = Reserved
    BY <1>1, <1>2, <1>6 DEF Reserved
  <2>2. Pooled' = Pooled
    BY <1>1 DEF Pooled
  <2>3. \A g \in Fds : conn'[g].upstream \in {conn[g].upstream, NoFd}
    BY <1>5, <1>6
  <2>4. Reserved \subseteq Fds
    BY <1>3, TableFacts DEF Reserved
  <2> QED
    BY <2>1, <2>2, <2>3, <2>4, <1>1, <1>3, Names DEF ReservedInv
<1>11. DownInv'
  BY <1>3, <1>4, <1>6, KindNames DEF DownInv
<1>12. DrainInv'
  <2>1. \A g \in Fds : ~conn[g].drain_counted /\ ~conn'[g].drain_counted
    BY <1>2, <1>3, <1>5, <1>6 DEF DrainInv
  <2>2. {g \in Fds : conn'[g].drain_counted} = {g \in Fds : conn[g].drain_counted}
    BY <2>1
  <2>3. DrainCountExact'
    BY <2>2, <1>1, <1>3 DEF DrainCountExact
  <2> QED
    BY <2>1, <2>3, <1>1, <1>6 DEF DrainInv
<1>13. CurInv'
  BY <1>1 DEF CurInv
<1>14. UseInv'
  BY <1>1, <1>3, <1>5, <1>6, <1>7, <1>8, SlotFacts DEF UseInv
<1>15. JobsInv'
  BY <1>1, <1>3, <1>6, <1>7, <1>8 DEF JobsInv
<1>16. PoolInv'
  <2>1. \A g \in Fds, e \in Endpoints : slot'[g] = Idle(e) <=> slot[g] = Idle(e)
    BY <1>2, <1>6
  <2> QED
    BY <2>1, <1>1, <1>3 DEF PoolInv
<1>17. UpInv'
  <2>1. \A g \in Fds : slot[g] = Client /\ conn[g].upstream # NoFd =>
                          conn[g].upstream \in Fds \ {f}
    BY <1>3, <1>7, SlotFacts
  <2> QED
    BY <2>1, <1>3, <1>4, <1>5, <1>6, KindNames DEF UpInv
<1>18. BorrowInv'
  BY <1>1, <1>3, <1>5, <1>6, Names DEF BorrowInv, Wait
<1> QED
  BY <1>9, <1>10, <1>11, <1>12, <1>13, <1>14, <1>15, <1>16, <1>17, <1>18
  DEF Accounts, Table, Owned

\* Each submission sets the flag it was guarded by; a finished connection takes
\* its upstream with it or abandons it to the helper.
LEMMA DriveStep ==
    ASSUME IInv, NEW f \in Fds, Drive(f)
    PROVE  Accounts'
<1> DEFINE b == conn[f]
           U == {conn[f].upstream} \ {NoFd}
<1>1. /\ cur' = Wait /\ drain' = drain /\ away' = away /\ listen' = listen
      /\ pool' = pool /\ jobs' = jobs
      /\ \E n \in Conn, os \in SUBSET Op, w \in BOOLEAN, uw \in BOOLEAN,
            ur \in BOOLEAN, r \in BOOLEAN, finished \in BOOLEAN :
            Driven(f, conn[f], n, os, w, uw, ur, r, finished)
  BY DriveFacts, TableParts
<1>2. PICK n \in Conn, os \in SUBSET Op, w \in BOOLEAN, uw \in BOOLEAN,
           ur \in BOOLEAN, r \in BOOLEAN, finished \in BOOLEAN :
           Driven(f, conn[f], n, os, w, uw, ur, r, finished)
  BY <1>1
<1> DEFINE closed == IF finished THEN Dropped(b) \cup {f} ELSE {}
           s == [g \in Fds |-> IF finished /\ g \in Kept(b) THEN Abandoned ELSE slot[g]]
           cs == [conn EXCEPT ![f] = n]
<1>3. At("drive", f)
  BY DEF Drive
<1>4. slot[f] = Client /\ ~stopped /\ b \in Conn
  BY <1>3, RunFacts
<1>5. /\ Core /\ DownInv /\ DrainInv /\ DrainCountExact /\ Operations(os)
      /\ slot \in [Fds -> Slot] /\ conn \in [Fds -> Conn]
  BY TableParts DEF Operations
<1>6. U \in SUBSET Fds /\ U \cap Reserved = {} /\ f \notin U
  BY <1>4, UpstreamFree
<1>7. /\ Dropped(b) = (IF b.up_borrowed THEN {} ELSE U)
      /\ Kept(b) = (IF b.up_borrowed THEN U ELSE {})
  BY DEF Dropped, Kept
<1>8. Close(closed, s, cs, os, open)
  BY <1>2 DEF Driven
<1>9. ASSUME NEW k \in Kinds, NEW g \in Fds
      PROVE  g \in Tagged(os)[k] <=>
                \/ g \in Ring[k]
                \/ g = f /\ ((k = "DOWN_WRITE" /\ w) \/ (k = "DOWN_READ" /\ r))
                \/ g = b.upstream /\ ((k = "UP_WRITE" /\ uw) \/ (k = "UP_READ" /\ ur))
  <2>1. Tagged(os)[k] = Ring[k] \cup
              (IF (k = "DOWN_WRITE" /\ w) \/ (k = "DOWN_READ" /\ r) THEN {f}
               ELSE IF (k = "UP_WRITE" /\ uw) \/ (k = "UP_READ" /\ ur)
               THEN {b.upstream} ELSE {})
    BY <1>2 DEF Driven
  <2> QED
    BY <2>1
<1>10. /\ n.writing <=> b.writing \/ w
       /\ n.reading <=> b.reading \/ r
       /\ n.up_writing <=> b.up_writing \/ uw
       /\ n.up_reading <=> b.up_reading \/ ur
       /\ uw \/ ur => b.upstream # NoFd /\ b.up_ready
       /\ n.upstream = b.upstream /\ n.phase \in {b.phase, "Closing"}
       /\ n.up_ready <=> b.up_ready
       /\ n.up_borrowed <=> b.up_borrowed
       /\ n.drain_counted <=> b.drain_counted
       /\ n.client_keep_alive <=> b.client_keep_alive
  BY <1>2 DEF Driven
<1>11. closed \in SUBSET Fds
  BY <1>6, <1>7
<1>12. /\ cs[f] = n /\ \A g \in Fds \ {f} : cs[g] = conn[g]
       /\ \A g \in Fds : s[g] = IF finished /\ g \in Kept(b) THEN Abandoned ELSE slot[g]
       /\ \A g \in Fds : cs[g].drain_counted <=> conn[g].drain_counted
  BY <1>5, <1>10
<1> HIDE DEF closed, s, cs, U
<1>13. DrainCountExact'
  BY <1>5, <1>8, <1>11, <1>12, CountClosed
<1>14. ASSUME NEW g \in Fds
       PROVE  /\ slot'[g] = IF g \in closed THEN Empty ELSE s[g]
              /\ conn'[g] = IF g \in closed THEN NewConn ELSE cs[g]
              /\ g \in open' <=> g \in open /\ g \notin closed
              /\ \A k \in Kinds : g \in Ring'[k] <=> g \in Tagged(os)[k] /\ g \notin closed
  BY <1>5, <1>8, <1>11, CloseFacts
<1>15. DownKinds \cup AdminKinds \subseteq Kinds /\ UpKinds \subseteq Kinds
  BY KindNames DEF DownKinds, AdminKinds, UpKinds
<1>16. CASE ~finished
  <2>1. closed = {} /\ \A g \in Fds : s[g] = slot[g]
    BY <1>12, <1>16 DEF closed
  <2>2. ASSUME NEW g \in Fds
        PROVE  /\ slot'[g] = slot[g] /\ conn'[g] = cs[g] /\ (g \in open' <=> g \in open)
               /\ \A k \in Kinds : g \in Ring'[k] <=> g \in Tagged(os)[k]
    BY <2>1, <1>14
  <2>3. slot' = slot /\ open' = open /\ conn' = [conn EXCEPT ![f] = n]
    <3>1. /\ slot' = [g \in Fds |-> IF g \in closed THEN Empty ELSE s[g]]
          /\ conn' = [g \in Fds |-> IF g \in closed THEN NewConn ELSE cs[g]]
          /\ open' = open \ closed
      BY <1>8 DEF Close
    <3>2. [g \in Fds |-> cs[g]] = cs
      BY <1>5 DEF cs
    <3> QED
      BY <3>1, <3>2, <2>1, <1>5 DEF cs
  <2>4. Turn(f, n)
    <3>1. /\ b.reading <=> f \in Ring["DOWN_READ"]
          /\ b.writing <=> f \in Ring["DOWN_WRITE"]
          /\ \A k \in AdminKinds : f \notin Ring[k]
      BY <1>4, <1>5, SlotKinds DEF DownInv, AdminKinds
    <3>2. /\ \A k \in DownKinds \cup AdminKinds, g \in Fds \ {f} :
                g \in Ring'[k] <=> g \in Ring[k]
          /\ \A k \in AdminKinds : f \notin Ring'[k]
          /\ n.reading <=> f \in Ring'["DOWN_READ"]
          /\ n.writing <=> f \in Ring'["DOWN_WRITE"]
      BY <3>1, <2>2, <1>9, <1>10, KindNames DEF DownKinds, AdminKinds
    <3>3. n.phase = "Head" => b.phase = "Head"
      BY <1>10
    <3> QED
      BY <3>2, <3>3, <2>3, <1>1, <1>4, <1>10, <1>13 DEF Turn
  <2>5. ASSUME ~severed PROVE TurnUp(f, n)
    <3>1. UpInv /\ BorrowInv
      BY <2>5, TableParts
    <3>2. /\ b.upstream # NoFd =>
               /\ b.up_reading <=> b.upstream \in Ring["UP_READ"]
               /\ b.up_writing <=> b.upstream \in Ring["UP_WRITE"]
          /\ b.up_borrowed =>
                /\ b.phase \in {"Connecting", "Closing"}
                /\ b.upstream # NoFd => ~b.up_reading /\ ~b.up_writing /\ ~b.up_ready
          /\ b.upstream \in Fds \cup {NoFd}
      BY <3>1, <1>4, <1>5, SlotFacts DEF UpInv, BorrowInv
    <3>3. \A k \in UpKinds, g \in Fds \ {n.upstream} : g \in Ring'[k] <=> g \in Ring[k]
      BY <2>2, <1>9, <1>10, KindNames DEF UpKinds
    <3>4. n.upstream # NoFd => /\ n.up_reading <=> n.upstream \in Ring'["UP_READ"]
                               /\ n.up_writing <=> n.upstream \in Ring'["UP_WRITE"]
      BY <3>2, <2>2, <1>9, <1>10, KindNames
    <3>5. n.up_borrowed =>
             /\ b.up_borrowed /\ n.phase \in {"Connecting", "Closing"}
             /\ n.upstream # NoFd => ~n.up_reading /\ ~n.up_writing /\ ~n.up_ready
      BY <3>2, <1>10
    <3>6. cur'.at \notin Unlent
      BY <1>1 DEF Wait, Unlent
    <3> QED
      BY <3>3, <3>4, <3>5, <3>6, <1>1, <1>10 DEF TurnUp
  <2> QED
    BY <2>4, <2>5, <1>4, TurnStep
<1>17. CASE finished
  <2>1. closed = Dropped(b) \cup {f} /\ Dropped(b) \cup Kept(b) = U
        /\ \A g \in Fds : s[g] = IF g \in Kept(b) THEN Abandoned ELSE slot[g]
    BY <1>7, <1>12, <1>17 DEF closed
  <2>2. Gone(f)
    BY <2>1, <1>14 DEF Gone
  <2>3. ASSUME NEW g \in Fds \ (U \cup {f}) PROVE Untouched(g)
    <3>1. g \notin closed /\ g \notin Kept(b) /\ g # b.upstream
      BY <2>1, Names DEF U
    <3> QED
      BY <3>1, <2>1, <1>9, <1>12, <1>14 DEF Untouched
  <2>4. ASSUME NEW g \in U
        PROVE  \/ Gone(g)
               \/ /\ slot'[g] = Abandoned /\ conn'[g] = conn[g]
                  /\ g \in open' <=> g \in open
                  /\ \A k \in DownKinds \cup AdminKinds : g \in Ring'[k] <=> g \in Ring[k]
    <3>1. g \in Fds /\ g # f
      BY <1>6
    <3>2. CASE b.up_borrowed
      <4>1. g \notin closed /\ g \in Kept(b)
        BY <3>1, <3>2, <2>1, <1>7
      <4>2. \A k \in DownKinds \cup AdminKinds : g \in Tagged(os)[k] <=> g \in Ring[k]
        BY <3>1, <1>9, <1>15 DEF DownKinds, AdminKinds
      <4> QED
        BY <4>1, <4>2, <3>1, <2>1, <1>12, <1>14, <1>15
    <3>3. CASE ~b.up_borrowed
      BY <3>1, <3>3, <2>1, <1>7, <1>14 DEF Gone
    <3> QED
      BY <3>2, <3>3
  <2>5. Release(f, U)
    BY <2>2, <2>3, <2>4, <1>1, <1>4, <1>6, <1>13 DEF Release
  <2>6. ASSUME ~severed PROVE ReleaseUp(f, U)
    <3>1. UseInv /\ JobsInv /\ BorrowInv
      BY <2>6, TableParts
    <3>2. ASSUME NEW g \in U
          PROVE  /\ g \in jobs <=> b.up_borrowed
                 /\ slot'[g] = Abandoned <=> b.up_borrowed
                 /\ b.up_borrowed => \A k \in UpKinds : g \in Ring'[k] <=> g \in Ring[k]
      <4>1. g \in Fds /\ g = conn[f].upstream /\ g # NoFd /\ g # f
        BY <1>6 DEF U
      <4>2. slot[g] = Upstream(f)
        BY <4>1, <3>1, <1>4 DEF UseInv
      <4>3. g \in jobs <=> b.up_borrowed
        BY <4>1, <4>2, <3>1, <1>4, SlotKinds DEF JobsInv
      <4>4. CASE b.up_borrowed
        <5>1. g \notin closed /\ g \in Kept(b) /\ ~ur /\ ~uw
          <6>1. ~b.up_ready
            BY <4>1, <4>4, <3>1 DEF BorrowInv
          <6> QED
            BY <6>1, <4>1, <4>4, <2>1, <1>7, <1>10
        <5> QED
          BY <5>1, <4>1, <4>3, <4>4, <2>1, <1>9, <1>14, <1>15
      <4>5. CASE ~b.up_borrowed
        <5>1. g \in closed
          BY <4>5, <2>1, <1>7
        <5> QED
          BY <5>1, <4>1, <4>3, <4>5, <1>14, SlotKinds
      <4> QED
        BY <4>4, <4>5
    <3>3. ~conn'[f].up_borrowed
      BY <2>2 DEF Gone, NewConn
    <3> QED
      BY <3>2, <3>3, <1>1 DEF ReleaseUp, U
  <2> QED
    BY <2>5, <2>6, <1>6, ReleaseStep
<1> QED
  BY <1>16, <1>17

-----------------------------------------------------------------------------
(* Completions and notes keep the table.                                   *)

\* A completion changes the connection f it was issued for.
Delivered(o, d, c) ==
    /\ c.upstream = d.upstream
    /\ c.drain_counted <=> d.drain_counted
    /\ c.phase = "Head" => d.phase = "Head"
    /\ c.client_keep_alive => d.client_keep_alive
    /\ c.reading <=> d.reading /\ o.k # "DOWN_READ"
    /\ c.writing <=> d.writing /\ o.k # "DOWN_WRITE"

\* The same of the upstream's side.
DeliveredUp(o, d, c, step) ==
    /\ o.k \in UpKinds => o.fd = d.upstream
    /\ c.upstream # NoFd => /\ c.up_reading <=> d.up_reading /\ o.k # "UP_READ"
                            /\ c.up_writing <=> d.up_writing /\ o.k # "UP_WRITE"
    /\ c.up_borrowed <=> d.up_borrowed
    /\ c.up_borrowed => /\ c.phase \in {d.phase, "Closing"}
                        /\ c.up_ready => d.up_ready
                        /\ step \notin Unlent

\* A completion that clears its own flag keeps the table.
LEMMA CompletionStep ==
    ASSUME IInv, NoWrap, NEW o \in ops, IsLive(o), ~stopped, NEW f \in Fds,
           slot[f] = Client, NEW c \in Conn, NEW step \in Steps,
           Close({}, slot, [conn EXCEPT ![f] = c], ops \ {o}, open), Goto(step, f),
           UNCHANGED <<drain, away, listen, pool, jobs>>,
           o.k \in DownKinds \cup UpKinds, o.k \in DownKinds => o.fd = f,
           Delivered(o, conn[f], c),
           ~severed => DeliveredUp(o, conn[f], c, step)
    PROVE  Accounts'
<1> DEFINE os == ops \ {o}
           cs == [conn EXCEPT ![f] = c]
<1>1. Operations(os) /\ Core /\ DownInv /\ DrainCountExact
      /\ slot \in [Fds -> Slot] /\ conn \in [Fds -> Conn] /\ open \in SUBSET Fds
  BY TableParts DEF Operations
<1>2. \A j \in Kinds, g \in Fds : g \in Tagged(os)[j] <=> g \in Ring[j] /\ ~(j = o.k /\ g = o.fd)
  BY <1>1, TaggedLess
<1>3. \A g \in Fds : cs[g].drain_counted <=> conn[g].drain_counted
  BY <1>1 DEF Delivered
<1>4. cs[f] = c /\ \A g \in Fds \ {f} : cs[g] = conn[g]
  BY <1>1
<1>5. Close({}, slot, cs, os, open)
  OBVIOUS
<1> HIDE DEF os, cs
<1>6. DrainCountExact'
  BY <1>1, <1>3, <1>5, CountClosed
<1>7. \A g \in Fds :
          /\ slot'[g] = slot[g] /\ conn'[g] = cs[g] /\ (g \in open' <=> g \in open)
          /\ \A k \in Kinds : g \in Ring'[k] <=> g \in Tagged(os)[k]
  BY <1>1, <1>5, MoveFacts
<1>8. slot' = slot /\ conn' = cs /\ open' = open
  <2>1. slot' = [g \in Fds |-> slot[g]] /\ open' = open
    BY <1>5 DEF Close
  <2>2. conn' = [g \in Fds |-> cs[g]]
    BY <1>5 DEF Close
  <2> QED
    BY <2>1, <2>2, <1>1 DEF cs
<1>9. cur' = [at |-> step, fd |-> f] /\ cur'.fd = f /\ cur'.at = step
  BY DEF Goto
<1>10. /\ \A k \in AdminKinds : f \notin Ring[k]
       /\ conn[f].reading <=> f \in Ring["DOWN_READ"]
       /\ conn[f].writing <=> f \in Ring["DOWN_WRITE"]
  BY <1>1, SlotKinds DEF DownInv, AdminKinds
<1>11. DownKinds \cup AdminKinds \cup UpKinds \subseteq Kinds
  BY DEF DownKinds, AdminKinds, UpKinds, Kinds, ReadKinds, WriteKinds
<1>12. Turn(f, c)
  <2>1. \A k \in DownKinds \cup AdminKinds, g \in Fds \ {f} :
            g \in Ring'[k] <=> g \in Ring[k]
    BY <1>2, <1>7, <1>11 DEF DownKinds, AdminKinds, UpKinds
  <2>2. \A k \in AdminKinds : f \notin Ring'[k]
    BY <1>2, <1>7, <1>10, <1>11
  <2>3. /\ f \in Ring'["DOWN_READ"] <=> f \in Ring["DOWN_READ"] /\ o.k # "DOWN_READ"
        /\ f \in Ring'["DOWN_WRITE"] <=> f \in Ring["DOWN_WRITE"] /\ o.k # "DOWN_WRITE"
    BY <1>2, <1>7, <1>11 DEF DownKinds
  <2>4. conn' = [conn EXCEPT ![f] = c]
    BY <1>8 DEF cs
  <2>5. /\ c.upstream = conn[f].upstream
        /\ c.drain_counted <=> conn[f].drain_counted
        /\ c.phase = "Head" => conn[f].phase = "Head"
        /\ c.client_keep_alive => conn[f].client_keep_alive
        /\ c.reading <=> conn[f].reading /\ o.k # "DOWN_READ"
        /\ c.writing <=> conn[f].writing /\ o.k # "DOWN_WRITE"
    BY DEF Delivered
  <2>6. jobs' \subseteq jobs /\ away' = away /\ listen' = listen /\ pool' = pool
        /\ drain' = drain
    OBVIOUS
  <2> QED
    BY <2>1, <2>2, <2>3, <2>4, <2>5, <2>6, <1>6, <1>8, <1>9, <1>10 DEF Turn
<1>13. ASSUME ~severed PROVE TurnUp(f, c)
  <2>1. UpInv /\ BorrowInv
    BY <1>13, TableParts
  <2>2. /\ conn[f].upstream # NoFd =>
             /\ conn[f].up_reading <=> conn[f].upstream \in Ring["UP_READ"]
             /\ conn[f].up_writing <=> conn[f].upstream \in Ring["UP_WRITE"]
        /\ conn[f].up_borrowed =>
              /\ conn[f].phase \in {"Connecting", "Closing"}
              /\ conn[f].upstream # NoFd =>
                    ~conn[f].up_reading /\ ~conn[f].up_writing /\ ~conn[f].up_ready
    BY <2>1 DEF UpInv, BorrowInv
  <2>3. DeliveredUp(o, conn[f], c, step) /\ c.upstream = conn[f].upstream
    BY <1>13 DEF Delivered
  <2>4. conn[f].upstream \in Fds \cup {NoFd}
    BY <1>1, SlotFacts
  <2>5. \A k \in UpKinds, g \in Fds \ {c.upstream} : g \in Ring'[k] <=> g \in Ring[k]
    BY <2>3, <1>2, <1>7, <1>11 DEF DeliveredUp
  <2>6. c.upstream # NoFd =>
          /\ c.up_reading <=> c.upstream \in Ring'["UP_READ"]
          /\ c.up_writing <=> c.upstream \in Ring'["UP_WRITE"]
    BY <2>2, <2>3, <2>4, <1>2, <1>7, <1>11 DEF DeliveredUp, UpKinds
  <2>7. c.up_borrowed =>
          /\ conn[f].up_borrowed /\ c.phase \in {"Connecting", "Closing"}
          /\ c.upstream # NoFd => ~c.up_reading /\ ~c.up_writing /\ ~c.up_ready
          /\ cur'.at \notin Unlent
    BY <2>2, <2>3, <1>9 DEF DeliveredUp
  <2>8. jobs' = IF conn[f].up_borrowed /\ ~c.up_borrowed THEN jobs \ {c.upstream} ELSE jobs
    BY <2>3 DEF DeliveredUp
  <2> QED
    BY <2>5, <2>6, <2>7, <2>8 DEF TurnUp
<1> QED
  BY <1>12, <1>13, TurnStep

\* A read's completion clears its flag.
LEMMA OnClientReadStep ==
    ASSUME IInv, NoWrap, NEW o \in ops, OnClientRead(o)
    PROVE  Accounts'
<1> DEFINE f == o.fd
           b == conn[f]
           c == [b EXCEPT !.reading = FALSE]
           got(t) == [c EXCEPT !.inbox = t, !.deadline = TRUE]
           ended == [c EXCEPT !.client_eof = TRUE]
           reset == [c EXCEPT !.client_eof = TRUE, !.outbox = FALSE,
                              !.phase = "Closing"]
           alert == [c EXCEPT !.outbox = TRUE, !.deadline = TRUE,
                              !.phase = "Closing"]
<1>1. /\ Completes(o, "DOWN_READ") /\ Goto("advance", f)
      /\ UNCHANGED <<drain, away, listen, opens, refusals, pool, jobs, inflight>>
      /\ \/ \E t \in Tokens(f) :
               Close({}, slot, [conn EXCEPT ![f] = got(t)], ops \ {o}, open)
         \/ Close({}, slot, [conn EXCEPT ![f] = ended], ops \ {o}, open)
         \/ Close({}, slot, [conn EXCEPT ![f] = reset], ops \ {o}, open)
         \/ Close({}, slot, [conn EXCEPT ![f] = alert], ops \ {o}, open)
  BY Zenon DEF OnClientRead
<1>2. /\ IsLive(o) /\ o.k = "DOWN_READ" /\ ~stopped /\ Goto("advance", f)
      /\ UNCHANGED <<drain, away, listen, pool, jobs>>
  <2>1. /\ Completes(o, "DOWN_READ") /\ Goto("advance", f)
        /\ UNCHANGED <<drain, away, listen, opens, refusals, pool, jobs, inflight>>
    BY Zenon, <1>1
  <2> QED
    BY <2>1 DEF Completes, Waiting
<1>3. f \in Fds /\ o \in Op
  BY TableParts, OpFacts
<1>4. b \in Conn /\ Core /\ DownInv /\ "Closing" \in Phase /\ "advance" \in Steps
  BY <1>3, CoreFacts, TableParts, Names
<1>5. slot[f] = Client /\ o.k \in DownKinds
  BY <1>2, <1>3, <1>4, TaggedLess DEF DownInv, DownKinds
<1>6. \A t \in Tokens(f) : t \in {"none", "data", "body", "badbody"} \cup Requests
  BY DEF Tokens
<1> HIDE DEF f, b
<1>7. c \in Conn
  BY <1>4, SetField
<1>8. Delivered(o, b, c) /\ DeliveredUp(o, b, c, "advance")
  BY <1>2, <1>4 DEF Delivered, DeliveredUp, Conn, UpKinds, Unlent
<1> HIDE DEF c
<1>9. /\ ended \in Conn /\ reset \in Conn /\ alert \in Conn
      /\ \A t \in {"none", "data", "body", "badbody"} \cup Requests : got(t) \in Conn
  <2>1. "Closing" \in Phase
    BY <1>4
  <2>2. ended \in Conn /\ reset \in Conn /\ alert \in Conn
    BY <2>1, <1>7, SetField
  <2>3. ASSUME NEW t \in {"none", "data", "body", "badbody"} \cup Requests
        PROVE  got(t) \in Conn
    BY <1>7, SetField
  <2> HIDE DEF got, ended, reset, alert
  <2> QED
    BY <2>2, <2>3
<1>10. /\ Delivered(o, b, ended) /\ Delivered(o, b, reset) /\ Delivered(o, b, alert)
      /\ \A t : Delivered(o, b, got(t))
  BY <1>7, <1>8 DEF Delivered, Conn
<1>11. /\ DeliveredUp(o, b, ended, "advance") /\ DeliveredUp(o, b, reset, "advance")
       /\ DeliveredUp(o, b, alert, "advance")
       /\ \A t : DeliveredUp(o, b, got(t), "advance")
  BY <1>7, <1>8 DEF DeliveredUp, Conn
<1> HIDE DEF got, ended, reset, alert
<1>12. ASSUME NEW x \in Conn, Delivered(o, b, x), DeliveredUp(o, b, x, "advance"),
              Close({}, slot, [conn EXCEPT ![f] = x], ops \ {o}, open)
       PROVE  Accounts'
  BY <1>2, <1>3, <1>4, <1>5, <1>12, CompletionStep DEF b, f
<1> QED
  BY <1>1, <1>6, <1>9, <1>10, <1>11, <1>12

\* So does a write's.
LEMMA OnClientWriteStep ==
    ASSUME IInv, NoWrap, NEW o \in ops, OnClientWrite(o)
    PROVE  Accounts'
<1> DEFINE f == o.fd
           b == conn[f]
           c == [b EXCEPT !.writing = FALSE]
           reset == [c EXCEPT !.outbox = FALSE, !.phase = "Closing"]
<1>1. /\ IsLive(o) /\ o.k = "DOWN_WRITE" /\ ~stopped /\ Goto("advance", f)
      /\ UNCHANGED <<drain, away, listen, pool, jobs>>
      /\ \E x \in {c, reset} : Close({}, slot, [conn EXCEPT ![f] = x], ops \ {o}, open)
  BY DEF OnClientWrite, Completes, Waiting, world
<1>2. f \in Fds /\ o \in Op
  BY TableParts, OpFacts
<1>3. b \in Conn /\ Core /\ DownInv /\ "Closing" \in Phase /\ "advance" \in Steps
  BY <1>2, CoreFacts, TableParts, Names
<1>4. slot[f] = Client /\ o.k \in DownKinds
  BY <1>1, <1>2, <1>3, TaggedLess DEF DownInv, DownKinds
<1> HIDE DEF f, b
<1>5. c \in Conn
  BY <1>3, SetField
<1>6. Delivered(o, b, c) /\ DeliveredUp(o, b, c, "advance")
  BY <1>1, <1>3 DEF Delivered, DeliveredUp, Conn, UpKinds, Unlent
<1> HIDE DEF c
<1>7. reset \in Conn
  BY <1>3, <1>5, SetField
<1>8. Delivered(o, b, reset) /\ DeliveredUp(o, b, reset, "advance")
  BY <1>5, <1>6 DEF Delivered, DeliveredUp, Conn
<1> HIDE DEF reset
<1> QED
  BY <1>1, <1>2, <1>3, <1>4, <1>5, <1>6, <1>7, <1>8, CompletionStep DEF b, f

\* A completion of an upstream reaches the connection that uses it.
LEMMA UpCompletion ==
    ASSUME IInv, NoWrap, NEW o \in ops, IsLive(o), slot[o.fd].is = "Upstream",
           o.k \in UpKinds
    PROVE  /\ o.fd \in Fds /\ slot[o.fd].of \in Fds /\ conn[slot[o.fd].of] \in Conn
           /\ o.fd \in Ring[o.k]
           /\ ~severed => /\ o.fd = conn[slot[o.fd].of].upstream
                          /\ ~conn[slot[o.fd].of].up_borrowed
<1>1. o.fd \in Fds /\ slot[o.fd].of \in Fds /\ Core
  BY TableParts, OpFacts, SlotFacts
<1>2. conn[slot[o.fd].of] \in Conn /\ o.fd \in Ring[o.k]
  BY <1>1, CoreFacts, TaggedLess
<1>3. ASSUME ~severed
      PROVE  o.fd = conn[slot[o.fd].of].upstream /\ ~conn[slot[o.fd].of].up_borrowed
  <2>1. UseInv /\ UpInv /\ BorrowInv
    BY <1>3, TableParts
  <2>2. slot[slot[o.fd].of] = Client /\ o.fd = conn[slot[o.fd].of].upstream
    BY <2>1, <1>1 DEF UseInv
  <2>3. conn[slot[o.fd].of].up_reading \/ conn[slot[o.fd].of].up_writing
    BY <2>1, <2>2, <1>1, <1>2, Names DEF UpInv, UpKinds
  <2> QED
    BY <2>1, <2>2, <2>3, <1>1, Names DEF BorrowInv
<1> QED
  BY <1>1, <1>2, <1>3

\* The same of an upstream's read.
LEMMA OnUpstreamReadStep ==
    ASSUME IInv, NoWrap, NEW o \in ops, OnUpstreamRead(o)
    PROVE  Accounts'
<1> DEFINE d == slot[o.fd].of
           b == conn[d]
           c == [b EXCEPT !.up_reading = FALSE]
           got(t) == [c EXCEPT !.up_inbox = t]
<1>1. /\ Completes(o, "UP_READ") /\ slot[o.fd].is = "Upstream" /\ slot[d] = Client
      /\ UNCHANGED <<drain, world, pool, jobs, inflight>>
      /\ \/ \E t \in UpTokens(c) :
               /\ Close({}, slot, [conn EXCEPT ![d] = got(t)], ops \ {o}, open)
               /\ Goto("advance", d)
         \/ /\ Close({}, slot, [conn EXCEPT ![d] = c], ops \ {o}, open)
            /\ \E step \in {"eof", "failed"} : Goto(step, d)
  BY Zenon DEF OnUpstreamRead
<1>2. /\ IsLive(o) /\ o.k = "UP_READ" /\ ~stopped
      /\ slot[o.fd].is = "Upstream" /\ slot[d] = Client
      /\ UNCHANGED <<drain, away, listen, pool, jobs>>
  <2>1. /\ Completes(o, "UP_READ") /\ slot[o.fd].is = "Upstream" /\ slot[d] = Client
        /\ UNCHANGED <<drain, world, pool, jobs, inflight>>
    BY Zenon, <1>1
  <2> QED
    BY <2>1 DEF Completes, Waiting, world
<1>3. o.k \in UpKinds /\ o.k \notin DownKinds
  BY <1>2 DEF UpKinds, DownKinds
<1>4. /\ d \in Fds /\ b \in Conn /\ {"advance", "eof", "failed"} \subseteq Steps
      /\ ~severed => o.fd = b.upstream /\ ~b.up_borrowed
  BY <1>2, <1>3, UpCompletion, Names
<1> HIDE DEF d, b
<1>5. c \in Conn
  BY <1>4, SetField
<1>6. Delivered(o, b, c)
  BY <1>2, <1>4 DEF Delivered, Conn
<1>7. ~severed => \A step : DeliveredUp(o, b, c, step)
  BY <1>2, <1>4 DEF DeliveredUp, Conn
<1> HIDE DEF c
<1>8. \A t \in UpTokens(c) : got(t) \in Conn
  BY <1>5, UpTokenNames, SetField
<1>9. \A t : Delivered(o, b, got(t))
  BY <1>5, <1>6 DEF Delivered, Conn
<1>10. ~severed => \A t, step : DeliveredUp(o, b, got(t), step)
  BY <1>5, <1>7 DEF DeliveredUp, Conn
<1> HIDE DEF got
<1>11. ASSUME NEW x \in Conn, Delivered(o, b, x),
              ~severed => \A step : DeliveredUp(o, b, x, step),
              NEW step \in {"advance", "eof", "failed"},
              Close({}, slot, [conn EXCEPT ![d] = x], ops \ {o}, open), Goto(step, d)
       PROVE  Accounts'
  BY <1>2, <1>3, <1>4, <1>11, CompletionStep DEF b
<1> QED
  BY <1>1, <1>5, <1>6, <1>7, <1>8, <1>9, <1>10, <1>11

\* And of an upstream's write.
LEMMA OnUpstreamWriteStep ==
    ASSUME IInv, NoWrap, NEW o \in ops, OnUpstreamWrite(o)
    PROVE  Accounts'
<1> DEFINE d == slot[o.fd].of
           b == conn[d]
           c == [b EXCEPT !.up_writing = FALSE]
           sent == [c EXCEPT !.up_ready = TRUE]
<1>1. /\ IsLive(o) /\ o.k = "UP_WRITE" /\ ~stopped
      /\ slot[o.fd].is = "Upstream" /\ slot[d] = Client
      /\ UNCHANGED <<drain, away, listen, pool, jobs>>
      /\ \/ /\ Close({}, slot, [conn EXCEPT ![d] = sent], ops \ {o}, open)
            /\ Goto("advance", d)
         \/ /\ Close({}, slot, [conn EXCEPT ![d] = c], ops \ {o}, open)
            /\ Goto("failed", d)
  BY DEF OnUpstreamWrite, Completes, Waiting, world
<1>2. o.k \in UpKinds /\ o.k \notin DownKinds
  BY <1>1 DEF UpKinds, DownKinds
<1>3. /\ d \in Fds /\ b \in Conn /\ {"advance", "eof", "failed"} \subseteq Steps
      /\ ~severed => o.fd = b.upstream /\ ~b.up_borrowed
  BY <1>1, <1>2, UpCompletion, Names
<1> HIDE DEF d, b
<1>4. c \in Conn /\ sent \in Conn
  BY <1>3, SetField
<1>5. Delivered(o, b, c) /\ Delivered(o, b, sent)
  BY <1>1, <1>3 DEF Delivered, Conn
<1>6. ~severed => /\ DeliveredUp(o, b, c, "failed")
                  /\ DeliveredUp(o, b, sent, "advance")
  BY <1>1, <1>3 DEF DeliveredUp, Conn
<1> HIDE DEF c, sent
<1> QED
  BY <1>1, <1>2, <1>3, <1>4, <1>5, <1>6, CompletionStep DEF b

-----------------------------------------------------------------------------
(* What is not a client's is dropped.                                      *)

\* Slots that are no connection's are emptied, and upstreams lost.
Lapse ==
    /\ \A g \in Fds :
          /\ slot'[g] = slot[g] \/ (slot[g] \notin {Client, Admin} /\ slot'[g] = Empty)
          /\ slot[g] \notin {Client, Admin} => conn'[g] = conn[g]
          /\ conn'[g].upstream \in {conn[g].upstream, NoFd}
          /\ conn'[g].drain_counted <=> conn[g].drain_counted
          /\ slot[g] = Client =>
                /\ conn'[g].phase = conn[g].phase
                /\ conn'[g].client_keep_alive <=> conn[g].client_keep_alive
                /\ conn'[g].reading <=> conn[g].reading
                /\ conn'[g].writing <=> conn[g].writing
          /\ slot[g] \in {Client, Admin} \/ g \in away' => g \in open'
          /\ \A k \in DownKinds : g \in Ring'[k] <=> g \in Ring[k]
          /\ \A k \in AdminKinds : g \in Ring'[k] => slot[g] = Admin
    /\ jobs' \subseteq jobs /\ Pooled' \subseteq Pooled /\ away' \subseteq away
    /\ drain_inflight' = drain_inflight
    /\ \A r \in Roles : listen'[r] = "armed" => listen[r] = "armed"
    /\ draining' = draining /\ severed' = severed /\ stopped' = stopped
    /\ cur' = cur \/ (~stopped /\ cur'.fd \in Fds /\ slot[cur'.fd] = Client)

\* Numbers that are no connection's may lapse: the client's side is as before.
LEMMA LapseStep ==
    ASSUME IInv, Lapse
    PROVE  Table'
<1> USE SlotKinds
<1>1. /\ \A g \in Fds :
            /\ slot'[g] = slot[g] \/ (slot[g] \notin {Client, Admin} /\ slot'[g] = Empty)
            /\ slot[g] \notin {Client, Admin} => conn'[g] = conn[g]
            /\ conn'[g].upstream \in {conn[g].upstream, NoFd}
            /\ conn'[g].drain_counted <=> conn[g].drain_counted
            /\ slot[g] \in {Client, Admin} \/ g \in away' => g \in open'
      /\ jobs' \subseteq jobs /\ Pooled' \subseteq Pooled /\ away' \subseteq away
      /\ drain_inflight' = drain_inflight /\ draining' = draining
      /\ severed' = severed /\ stopped' = stopped
      /\ \A r \in Roles : listen'[r] = "armed" => listen[r] = "armed"
      /\ cur' = cur \/ (~stopped /\ cur'.fd \in Fds /\ slot[cur'.fd] = Client)
  BY DEF Lapse
<1>2. /\ Core /\ SlotInv /\ ReservedInv /\ DownInv /\ DrainInv /\ CurInv
      /\ slot \in [Fds -> Slot] /\ conn \in [Fds -> Conn]
  BY TableParts
<1>3. \A g \in Fds : slot[g].is = "Upstream" => slot[g].of \in Fds
  BY <1>2, SlotFacts
<1>4. SlotInv'
  BY <1>1, <1>2, <1>3, Names DEF SlotInv
<1>5. \A g \in Reserved' : g \in Reserved /\ g \in open' /\ g \in Fds
  <2>1. away \subseteq Fds
    BY <1>2, TableFacts
  <2> QED
    BY <2>1, <1>1 DEF Reserved
<1>6. ReservedInv'
  <2>1. \A g \in Reserved : /\ g \notin jobs /\ g \notin Pooled
                            /\ \A h \in Fds : conn[h].upstream # g
    BY <1>2 DEF ReservedInv
  <2> QED
    BY <2>1, <1>1, <1>5, Names DEF ReservedInv
<1>7. DownInv'
  <2>1. \A g \in Fds :
          /\ slot[g] = Client => /\ conn'[g].reading <=> conn[g].reading
                                 /\ conn'[g].writing <=> conn[g].writing
          /\ \A k \in DownKinds : g \in Ring'[k] <=> g \in Ring[k]
          /\ \A k \in AdminKinds : g \in Ring'[k] => slot[g] = Admin
    BY DEF Lapse
  <2> QED
    BY <2>1, <1>1, <1>2 DEF DownInv, DownKinds, AdminKinds
<1>8. DrainInv'
  <2>1. \A g \in Fds : slot[g] = Client =>
            /\ conn'[g].phase = conn[g].phase
            /\ conn'[g].client_keep_alive <=> conn[g].client_keep_alive
    BY DEF Lapse
  <2>2. {g \in Fds : conn'[g].drain_counted} = {g \in Fds : conn[g].drain_counted}
    BY <1>1
  <2>3. DrainCountExact'
    BY <2>2, <1>1, <1>2 DEF DrainInv, DrainCountExact
  <2> QED
    BY <2>1, <2>3, <1>1, <1>2 DEF DrainInv
<1>9. CurInv'
  BY <1>1, <1>2 DEF CurInv
<1> QED
  BY <1>4, <1>6, <1>7, <1>8, <1>9 DEF Table

\* Nothing changes of what upstreams are used for.
StillUsed ==
    /\ \A g \in Fds :
          /\ slot'[g] = slot[g]
          /\ conn'[g].upstream = conn[g].upstream
          /\ conn'[g].up_reading <=> conn[g].up_reading
          /\ conn'[g].up_writing <=> conn[g].up_writing
          /\ conn'[g].up_ready <=> conn[g].up_ready
          /\ conn'[g].up_borrowed <=> conn[g].up_borrowed
          /\ conn'[g].phase = conn[g].phase
          /\ g \in open' \ away' <=> g \in open \ away
          /\ g \in open' => g \in open
          /\ g \in open' /\ g \in away => g \in away'
          /\ \A k \in UpKinds : g \in Ring'[k] <=> g \in Ring[k]
    /\ pool' = pool /\ jobs' = jobs /\ cur' = cur /\ stopped' = stopped

\* Nobody's upstream changes: the ownership is as before.
LEMMA StillOwned ==
    ASSUME IInv, ~severed, StillUsed
    PROVE  Owned'
<1> USE SlotKinds
<1>1. /\ UseInv /\ JobsInv /\ PoolInv /\ UpInv /\ BorrowInv
      /\ slot \in [Fds -> Slot] /\ conn \in [Fds -> Conn]
  BY TableParts
<1>2. \A g \in Fds : /\ slot[g].is = "Upstream" => slot[g].of \in Fds
                     /\ conn[g].upstream \in Fds \cup {NoFd}
  BY <1>1, SlotFacts
<1>3. \A g \in Fds : /\ slot'[g] = slot[g]
                     /\ conn'[g].upstream = conn[g].upstream
                     /\ conn'[g].up_borrowed <=> conn[g].up_borrowed
                     /\ g \in open' \ away' <=> g \in open \ away
                     /\ g \in open' => g \in open
                     /\ g \in open' /\ g \in away => g \in away'
  BY DEF StillUsed
<1>4. UseInv'
  <2> SUFFICES ASSUME NEW g \in Fds
               PROVE  /\ slot'[g] # Empty => g \in open' \ away'
                      /\ g \in open' => slot'[g] # Empty \/ g \in away'
                      /\ slot'[g].is = "Upstream" =>
                            /\ slot'[slot'[g].of] = Client
                            /\ conn'[slot'[g].of].upstream = g
                      /\ slot'[g] = Client /\ conn'[g].upstream # NoFd =>
                            slot'[conn'[g].upstream] = Upstream(g)
    BY DEF UseInv
  <2>1. /\ slot[g] # Empty => g \in open \ away
        /\ g \in open => slot[g] # Empty \/ g \in away
        /\ slot[g].is = "Upstream" =>
              slot[slot[g].of] = Client /\ conn[slot[g].of].upstream = g
        /\ slot[g] = Client /\ conn[g].upstream # NoFd =>
              slot[conn[g].upstream] = Upstream(g)
    BY <1>1 DEF UseInv
  <2> QED
    BY <2>1, <1>2, <1>3
<1>5. JobsInv'
  <2>1. jobs' = jobs /\ stopped' = stopped
    BY DEF StillUsed
  <2> QED
    BY <2>1, <1>1, <1>2, <1>3 DEF JobsInv
<1>6. PoolInv'
  BY <1>1 DEF StillUsed, PoolInv
<1>7. UpInv'
  BY <1>1, <1>2 DEF StillUsed, UpInv, UpKinds
<1>8. BorrowInv'
  BY <1>1 DEF StillUsed, BorrowInv
<1> QED
  BY <1>4, <1>5, <1>6, <1>7, <1>8 DEF Owned

\* Nothing the table knows of changes but the listeners and the drain's clock.
LEMMA StillStep ==
    ASSUME IInv, UNCHANGED <<table, drain_inflight>>,
           UNCHANGED <<draining, severed, stopped, away, pool, jobs, cur>>,
           \A r \in Roles : listen'[r] = "armed" => listen[r] = "armed"
    PROVE  Accounts'
<1>1. /\ slot' = slot /\ conn' = conn /\ open' = open /\ ops' = ops
      /\ Ring' = Ring /\ Pooled' = Pooled
  BY DEF table, Ring, Pooled
<1>2. SlotInv /\ ReservedInv /\ DownInv
  BY TableParts
<1>3. Lapse
  <2> SUFFICES ASSUME NEW g \in Fds
               PROVE  /\ slot[g] \in {Client, Admin} \/ g \in away => g \in open
                      /\ \A k \in AdminKinds : g \in Ring[k] => slot[g] = Admin
    BY <1>1 DEF Lapse
  <2> QED
    BY <1>2 DEF ReservedInv, Reserved, DownInv, AdminKinds
<1>4. StillUsed
  BY <1>1 DEF StillUsed
<1> QED
  BY <1>3, <1>4, LapseStep, StillOwned DEF Accounts

\* The listeners own no descriptor of the table.
LEMMA ListenersStep ==
    ASSUME IInv, NEW r \in Roles
    PROVE  /\ AcceptExhausted(r) => Accounts'
           /\ \A f \in Fds : DropStaleAccept(r, f) => Accounts'
<1>1. listen \in [Roles -> {"armed", "lost", "shut", "gone"}]
  BY TableFacts DEF IInv, RestShape
<1>2. ASSUME AcceptExhausted(r) PROVE Accounts'
  BY <1>1, <1>2, StillStep DEF AcceptExhausted, drain
<1>3. ASSUME NEW f \in Fds, DropStaleAccept(r, f) PROVE Accounts'
  BY <1>1, <1>3, StillStep DEF DropStaleAccept, AfterStaleAccept, drain, table
<1> QED
  BY <1>2, <1>3

\* The drain's deadline owns nothing.
LEMMA TickGraceStep ==
    ASSUME IInv, TickGrace
    PROVE  Accounts'
  BY StillStep DEF TickGrace, world

\* A number the other engine closes is nobody's here.
LEMMA OtherClosesStep ==
    ASSUME IInv, NEW f \in Fds, OtherCloses(f)
    PROVE  Accounts'
<1>1. /\ slot' = slot /\ conn' = conn /\ ops' = ops /\ away' = away \ {f}
      /\ open' = open \ {f} /\ f \in away /\ Ring' = Ring /\ Pooled' = Pooled
      /\ UNCHANGED <<drain_inflight, draining, severed, stopped, listen, pool, jobs, cur>>
  BY DEF OtherCloses, Ring, Pooled, drain
<1>2. SlotInv /\ ReservedInv /\ DownInv
  BY TableParts
<1>3. Lapse
  <2> SUFFICES ASSUME NEW g \in Fds
               PROVE  /\ slot[g] \in {Client, Admin} \/ g \in away' => g \in open'
                      /\ \A k \in AdminKinds : g \in Ring[k] => slot[g] = Admin
    BY <1>1 DEF Lapse
  <2> QED
    BY <1>1, <1>2, SlotKinds DEF SlotInv, ReservedInv, Reserved, DownInv, AdminKinds
<1>4. StillUsed
  BY <1>1 DEF StillUsed
<1>5. severed' = severed
  BY <1>1
<1> QED
  BY <1>3, <1>4, <1>5, LapseStep, StillOwned DEF Accounts

\* A completion nobody waits for.
LEMMA DropStaleStep ==
    ASSUME IInv, NoWrap, NEW o \in ops, DropStale(o)
    PROVE  Accounts'
<1> DEFINE os == ops \ {o}
<1>1. /\ slot' = slot /\ conn' = conn /\ open' = open /\ ops' = os /\ Unwanted(o)
      /\ UNCHANGED <<drain_inflight, draining, severed, stopped, away, listen, pool,
                     jobs, cur>>
  BY DEF DropStale, drain, world
<1>2. Core /\ SlotInv /\ ReservedInv /\ DownInv /\ o \in Op /\ o.fd \in Fds
      /\ slot \in [Fds -> Slot]
  BY TableParts, OpFacts
<1>3. CASE ~IsLive(o)
  <2>1. o.age # 0
    BY <1>2, <1>3, LiveIsCurrent
  <2>2. Tagged(os) = Tagged(ops)
    BY <2>1 DEF Tagged
  <2>3. Ring' = Ring
    BY <2>2, <1>1 DEF Ring
  <2>4. Pooled' = Pooled
    BY <1>1 DEF Pooled
  <2>5. Lapse
    <3> SUFFICES ASSUME NEW g \in Fds
                 PROVE  /\ slot[g] \in {Client, Admin} \/ g \in away => g \in open
                        /\ \A k \in AdminKinds : g \in Ring[k] => slot[g] = Admin
      BY <1>1, <2>3, <2>4 DEF Lapse
    <3> QED
      BY <1>2 DEF ReservedInv, Reserved, DownInv, AdminKinds
  <2>6. StillUsed
    BY <1>1, <2>3 DEF StillUsed
  <2> QED
    BY <2>5, <2>6, <1>1, LapseStep, StillOwned DEF Accounts
<1>4. CASE IsLive(o)
  <2>1. /\ o.fd \in Ring[o.k]
        /\ \A j \in Kinds, g \in Fds :
              g \in Tagged(os)[j] <=> g \in Ring[j] /\ ~(j = o.k /\ g = o.fd)
    BY <1>2, <1>4, TaggedLess
  <2>2. \/ o.k = "UP_READ" /\ slot[o.fd].is \notin {"Upstream", "Idle"}
        \/ o.k = "UP_WRITE" /\ slot[o.fd].is # "Upstream"
    BY <1>1, <1>4 DEF Unwanted
  <2>3. severed
    <3> SUFFICES ASSUME ~severed PROVE FALSE
      OBVIOUS
    <3>1. UpInv
      BY TableParts
    <3> QED
      BY <3>1, <2>1, <2>2, <1>2 DEF UpInv
  <2>4. Ring' = Tagged(os)
    BY <1>1 DEF Ring
  <2>5. DownKinds \cup AdminKinds \subseteq Kinds /\ o.k \notin DownKinds \cup AdminKinds
    BY <2>2 DEF DownKinds, AdminKinds, Kinds, ReadKinds, WriteKinds
  <2> HIDE DEF os
  <2>6. Pooled' = Pooled
    BY <1>1 DEF Pooled
  <2>7. Lapse
    <3> SUFFICES ASSUME NEW g \in Fds
                 PROVE  /\ slot[g] \in {Client, Admin} \/ g \in away => g \in open
                        /\ \A k \in DownKinds : g \in Ring'[k] <=> g \in Ring[k]
                        /\ \A k \in AdminKinds : g \in Ring'[k] => slot[g] = Admin
      BY <1>1, <2>6 DEF Lapse
    <3>1. \A k \in DownKinds \cup AdminKinds : g \in Ring'[k] <=> g \in Ring[k]
      BY <2>1, <2>4, <2>5
    <3>2. \A k \in AdminKinds : g \in Ring[k] => slot[g] = Admin
      BY <1>2 DEF DownInv, AdminKinds
    <3> QED
      BY <3>1, <3>2, <1>2 DEF ReservedInv, Reserved
  <2> QED
    BY <2>3, <2>7, <1>1, LapseStep DEF Accounts
<1> QED
  BY <1>3, <1>4

\* A close of nothing that is counted.
LEMMA NoneCounted ==
    ASSUME Core, NEW closed \in SUBSET Fds, NEW s, NEW cs, NEW os, NEW ks,
           Close(closed, s, cs, os, ks), \A g \in closed : ~cs[g].drain_counted
    PROVE  drain_inflight' = drain_inflight
<1>1. {g \in closed : cs[g].drain_counted} = {}
  OBVIOUS
<1>2. Cardinality({g \in closed : cs[g].drain_counted}) = 0
  BY <1>1, FS_EmptySet
<1>3. drain_inflight \in Nat
  BY DEF Core, Sound, Shape, TableShape
<1> QED
  BY <1>2, <1>3 DEF Close

\* An upstream without its client is there only once a tunnel is severed.
LEMMA OnOrphanStep ==
    ASSUME IInv, NoWrap, NEW o \in ops, OnOrphan(o)
    PROVE  Accounts'
<1> DEFINE d == slot[o.fd].of
           s == [slot EXCEPT ![d] = Empty]
           os == ops \ {o}
<1>1. /\ IsLive(o) /\ slot[o.fd].is = "Upstream" /\ slot[d] # Client
      /\ Close({}, s, conn, os, open)
      /\ UNCHANGED <<draining, severed, stopped, away, listen, pool, jobs, cur>>
  BY DEF OnOrphan, Completes, drain, world
<1>2. Core /\ SlotInv /\ ReservedInv /\ DownInv /\ Operations(os) /\ o.fd \in Fds
      /\ slot \in [Fds -> Slot] /\ conn \in [Fds -> Conn] /\ o.k \in Kinds
  BY TableParts, OpFacts DEF Operations
<1>3. severed
  <2> SUFFICES ASSUME ~severed PROVE FALSE
    OBVIOUS
  <2> QED
    BY <1>1, <1>2, TableParts DEF UseInv
<1>4. d \in Fds /\ slot[d] \notin {Client, Admin}
  BY <1>1, <1>2, SlotFacts DEF SlotInv
<1>5. s[d] = Empty /\ \A g \in Fds \ {d} : s[g] = slot[g]
  BY <1>2, <1>4
<1>6. /\ o.fd \in Ring[o.k]
      /\ \A j \in Kinds, g \in Fds :
            g \in Tagged(os)[j] <=> g \in Ring[j] /\ ~(j = o.k /\ g = o.fd)
  BY <1>1, <1>2, TaggedLess
<1>7. DownKinds \cup AdminKinds \subseteq Kinds /\ o.k \notin DownKinds \cup AdminKinds
  BY <1>1, <1>2, <1>6, SlotKinds
     DEF DownInv, DownKinds, AdminKinds, Kinds, ReadKinds, WriteKinds
<1> HIDE DEF s, os, d
<1>8. drain_inflight' = drain_inflight
  BY <1>1, <1>2, NoneCounted
<1>9. \A g \in Fds : /\ slot'[g] = s[g] /\ conn'[g] = conn[g] /\ (g \in open' <=> g \in open)
                     /\ \A k \in Kinds : g \in Ring'[k] <=> g \in Tagged(os)[k]
  BY <1>1, <1>2, MoveFacts
<1>10. Pooled' = Pooled
  BY <1>1 DEF Pooled
<1>11. Lapse
  <2>1. \A g \in Fds : slot'[g] = slot[g] \/ (slot[g] \notin {Client, Admin} /\ slot'[g] = Empty)
    BY <1>4, <1>5, <1>9
  <2>2. \A g \in Fds, k \in DownKinds \cup AdminKinds : g \in Ring'[k] <=> g \in Ring[k]
    BY <1>6, <1>7, <1>9
  <2>3. \A g \in Fds, k \in AdminKinds : g \in Ring[k] => slot[g] = Admin
    BY <1>2 DEF DownInv, AdminKinds
  <2>4. \A g \in Fds : slot[g] \in {Client, Admin} \/ g \in away' => g \in open'
    BY <1>1, <1>2, <1>9 DEF ReservedInv, Reserved
  <2> QED
    BY <2>1, <2>2, <2>3, <2>4, <1>1, <1>8, <1>9, <1>10 DEF Lapse
<1> QED
  BY <1>1, <1>3, <1>11, LapseStep DEF Accounts

\* An answered admin connection is closed.
LEMMA OnAdminWriteStep ==
    ASSUME IInv, NoWrap, NEW o \in ops, OnAdminWrite(o)
    PROVE  Accounts'
<1> DEFINE f == o.fd
           os == ops \ {o}
<1>1. /\ IsLive(o) /\ o.k = "ADMIN_WRITE" /\ ~stopped /\ cur' = Wait
      /\ Close({f}, slot, conn, os, open)
      /\ drain' = drain /\ away' = away /\ listen' = listen /\ pool' = pool /\ jobs' = jobs
  BY DEF OnAdminWrite, Completes, Waiting, world
<1>2. Core /\ SlotInv /\ DownInv /\ Operations(os) /\ f \in Fds
  BY TableParts, OpFacts DEF Operations
<1>3. /\ f \in Ring["ADMIN_WRITE"]
      /\ \A k \in Kinds, g \in Fds \ {f} : g \in Tagged(os)[k] <=> g \in Ring[k]
  BY <1>1, <1>2, TaggedLess
<1>4. slot[f] = Admin /\ conn[f].upstream = NoFd
  BY <1>2, <1>3 DEF DownInv, SlotInv
<1> HIDE DEF os
<1> QED
  BY <1>1, <1>2, <1>3, <1>4, CloseOneStep

\* An admin connection that has ended is closed, one that asked is answered.
LEMMA OnAdminReadStep ==
    ASSUME IInv, NoWrap, NEW o \in ops, OnAdminRead(o)
    PROVE  Accounts'
<1> DEFINE f == o.fd
           b == conn[f]
           c(ok) == [b EXCEPT !.reading = FALSE, !.writing = ok]
           rest == ops \ {o}
           os(ok) == rest \cup (IF ok THEN {Submit("ADMIN_WRITE", f)} ELSE {})
<1>1. /\ IsLive(o) /\ o.k = "ADMIN_READ" /\ ~stopped /\ cur = Wait
      /\ UNCHANGED <<drain, away, listen, pool, jobs, cur>>
  BY OnAdminReadCases DEF Completes, Waiting
<1>2. Core /\ SlotInv /\ ReservedInv /\ DownInv /\ Operations(rest) /\ f \in Fds
      /\ slot \in [Fds -> Slot] /\ conn \in [Fds -> Conn]
  BY TableParts, OpFacts DEF Operations
<1>3. /\ f \in Ring["ADMIN_READ"]
      /\ \A k \in Kinds, g \in Fds : g \in Tagged(rest)[k] <=>
            g \in Ring[k] /\ ~(k = "ADMIN_READ" /\ g = f)
  BY <1>1, <1>2, TaggedLess
<1>4. slot[f] = Admin /\ conn[f].upstream = NoFd
  BY <1>2, <1>3 DEF DownInv, SlotInv
<1>5. \/ Close({f}, slot, conn, rest, open) /\ UNCHANGED refusals
      \/ \E ok \in BOOLEAN : /\ Refuses(ok)
                             /\ Close({}, slot, [conn EXCEPT ![f] = c(ok)], os(ok), open)
  <2>1. \A ok : [conn EXCEPT ![f].reading = FALSE, ![f].writing = ok] =
                    [conn EXCEPT ![f] = c(ok)]
    <3> HIDE DEF f
    <3> QED
      BY <1>2
  <2> QED
    BY Zenon, <2>1, OnAdminReadCases
<1>6. CASE Close({f}, slot, conn, rest, open)
  <2> HIDE DEF rest
  <2> QED
    BY <1>1, <1>2, <1>3, <1>4, <1>6, CloseOneStep
<1>7. ASSUME NEW ok \in BOOLEAN, Close({}, slot, [conn EXCEPT ![f] = c(ok)], os(ok), open)
      PROVE  Accounts'
  <2> DEFINE cs == [conn EXCEPT ![f] = c(ok)]
             now == os(ok)
  <2>1. now = rest \cup {Submit("ADMIN_WRITE", f)} \/ now = rest
    BY <1>7
  <2>2. Operations(now)
    <3>1. Submit("ADMIN_WRITE", f) \in Op
      BY <1>2, SubmitFacts, KindNames, TableFacts
    <3> HIDE DEF now, rest, f
    <3> QED
      BY <3>1, <2>1, <1>2 DEF Operations
  <2>3. \A k \in Kinds, g \in Fds : g \in Tagged(now)[k] =>
            g \in Tagged(rest)[k] \/ (k = "ADMIN_WRITE" /\ g = f)
    <3>1. "ADMIN_WRITE" \in Kinds
      BY KindNames
    <3> HIDE DEF f, rest, now
    <3>2. \A k \in Kinds, g \in Fds :
              g \in Tagged(rest \cup {Submit("ADMIN_WRITE", f)})[k] <=>
                  g \in Tagged(rest)[k] \/ (k = "ADMIN_WRITE" /\ g = f)
      BY <3>1, <1>2, TaggedMore
    <3> QED
      BY <3>2, <2>1
  <2>4. \A k \in Kinds, g \in Fds : g \in Tagged(rest)[k] => g \in Tagged(now)[k]
    BY DEF Tagged
  <2>5. b \in Conn
    BY <1>2
  <2> HIDE DEF f, b, rest
  <2>6. /\ c(ok).upstream = b.upstream /\ c(ok).drain_counted = b.drain_counted
        /\ c(ok).up_reading = b.up_reading /\ c(ok).up_writing = b.up_writing
        /\ c(ok).up_ready = b.up_ready /\ c(ok).up_borrowed = b.up_borrowed
        /\ c(ok).phase = b.phase
    BY <2>5 DEF Conn
  <2> HIDE DEF c
  <2>7. cs[f] = c(ok) /\ \A g \in Fds \ {f} : cs[g] = conn[g]
    BY <1>2
  <2>8. Close({}, slot, cs, now, open)
    BY <1>7
  <2> HIDE DEF cs, now, os
  <2>9. \A g \in Fds : /\ slot'[g] = slot[g] /\ conn'[g] = cs[g]
                       /\ g \in open' <=> g \in open
                       /\ \A k \in Kinds : g \in Ring'[k] <=> g \in Tagged(now)[k]
    BY <1>2, <2>2, <2>8, MoveFacts
  <2>10. drain_inflight' = drain_inflight
    BY <1>2, <2>8, NoneCounted
  <2>11. \A g \in Fds :
           /\ conn'[g].upstream = conn[g].upstream
           /\ conn'[g].drain_counted <=> conn[g].drain_counted
           /\ conn'[g].up_reading <=> conn[g].up_reading
           /\ conn'[g].up_writing <=> conn[g].up_writing
           /\ conn'[g].up_ready <=> conn[g].up_ready
           /\ conn'[g].up_borrowed <=> conn[g].up_borrowed
           /\ conn'[g].phase = conn[g].phase
           /\ g # f => conn'[g] = conn[g]
    BY <2>6, <2>7, <2>9 DEF b
  <2>12. /\ DownKinds \cup UpKinds \cup AdminKinds \subseteq Kinds
         /\ "ADMIN_WRITE" \notin DownKinds \cup UpKinds
         /\ "ADMIN_READ" \notin DownKinds \cup UpKinds
    BY DEF DownKinds, UpKinds, AdminKinds, Kinds, ReadKinds, WriteKinds
  <2>13. \A g \in Fds, k \in DownKinds \cup UpKinds : g \in Ring'[k] <=> g \in Ring[k]
    BY <2>3, <2>4, <2>9, <2>12, <1>3
  <2>14. \A g \in Fds, k \in AdminKinds : g \in Ring'[k] => slot[g] = Admin
    <3>1. \A g \in Fds, k \in AdminKinds : g \in Ring[k] => slot[g] = Admin
      BY <1>2 DEF DownInv, AdminKinds
    <3>2. slot[f] = Admin
      BY <1>4
    <3> QED
      BY <3>1, <3>2, <2>3, <2>9, <2>12, <1>3
  <2>15. Pooled' = Pooled
    BY <1>1 DEF Pooled
  <2>16. slot[f] = Admin /\ slot[f] # Client
    BY <1>4, SlotKinds
  <2>17. UNCHANGED <<draining, severed, stopped>>
    BY <1>1 DEF drain
  <2>18. \A g \in Fds : slot[g] \in {Client, Admin} \/ g \in away' => g \in open'
    BY <2>9, <1>1, <1>2 DEF ReservedInv, Reserved
  <2>19. Lapse
    BY <2>9, <2>10, <2>11, <2>13, <2>14, <2>15, <2>16, <2>17, <2>18, <1>1 DEF Lapse
  <2>20. StillUsed
    BY <2>9, <2>11, <2>13, <2>17, <1>1 DEF StillUsed
  <2> QED
    BY <2>17, <2>19, <2>20, LapseStep, StillOwned DEF Accounts
<1> HIDE DEF c, os, f, rest
<1> QED
  BY <1>5, <1>6, <1>7

-----------------------------------------------------------------------------
(* An idle upstream is thrown away.                                        *)

\* Pool::remove takes nothing in.
LEMMA PoolShrinks ==
    ASSUME Core, NEW u, NEW e \in Endpoints, pool' = PoolRemove(e, u)
    PROVE  Pooled' \subseteq Pooled
<1>1. /\ \A d \in Endpoints \ {e} : pool'[d] = pool[d]
      /\ Shrinks(pool[e], pool'[e], u)
  BY PoolRemoved, TableFacts
<1> SUFFICES ASSUME NEW g \in Fds, NEW d \in Endpoints,
                    NEW i \in 1 .. Len(pool'[d]), pool'[d][i] = g
             PROVE  \E j \in 1 .. Len(pool[d]) : pool[d][j] = g
  BY DEF Pooled
<1>2. CASE pool'[d] = pool[d]
  BY <1>2
<1>3. CASE pool'[d] # pool[d]
  <2>1. d = e
    BY <1>1, <1>3
  <2>2. PICK k \in 1 .. Len(pool[e]) :
            /\ Len(pool'[e]) = Len(pool[e]) - 1
            /\ \A j \in 1 .. Len(pool[e]) - 1 :
                  pool'[e][j] = IF j < k THEN pool[e][j] ELSE pool[e][j + 1]
    BY <1>1, <1>3, <2>1 DEF Shrinks
  <2>3. pool[e] \in Seq(Fds)
    BY TableFacts
  <2> DEFINE n == Len(pool[e])
  <2>4. n \in Nat
    BY <2>3
  <2>5. i \in 1 .. n - 1
    BY <2>1, <2>2
  <2> HIDE DEF n
  <2>6. i \in 1 .. n /\ i + 1 \in 1 .. n
    BY <2>4, <2>5
  <2> QED
    BY <2>1, <2>2, <2>5, <2>6 DEF n
<1> QED
  BY <1>2, <1>3

\* It takes the idle upstream out, and nothing else.
LEMMA PoolDropped ==
    ASSUME Core, PoolInv, NEW u \in Fds, NEW e \in Endpoints, slot[u] = Idle(e),
           pool' = PoolRemove(e, u), slot'[u] = Empty,
           \A g \in Fds \ {u} : slot'[g] = slot[g]
    PROVE  PoolInv'
<1> USE SlotKinds
<1> DEFINE q == pool[e]
           p == pool'[e]
           n == Len(q)
<1>1. /\ n <= MaxIdle
      /\ \A i, j \in 1 .. n : q[i] = q[j] => i = j
      /\ \A g \in Fds : slot[g] = Idle(e) <=> \E i \in 1 .. n : q[i] = g
  BY DEF PoolInv
<1>2. \E i \in 1 .. n : q[i] = u
  BY <1>1
<1>3. (\A d \in Endpoints \ {e} : pool'[d] = pool[d]) /\ Shrinks(q, p, u)
  BY PoolRemoved, TableFacts
<1>4. q \in Seq(Fds) /\ n \in Nat /\ MaxIdle \in Nat
  <2>1. q \in Seq(Fds)
    BY TableFacts
  <2> QED
    BY <2>1, SizesAssumption
<1> HIDE DEF p, q, n
<1>5. PICK k \in 1 .. n : /\ q[k] = u /\ Len(p) = n - 1
                          /\ \A i \in 1 .. n - 1 : p[i] = IF i < k THEN q[i] ELSE q[i + 1]
  BY <1>2, <1>3 DEF Shrinks, n
<1>6. ASSUME NEW d \in Endpoints
      PROVE  /\ Len(pool'[d]) <= MaxIdle
             /\ \A i, j \in 1 .. Len(pool'[d]) : pool'[d][i] = pool'[d][j] => i = j
             /\ \A g \in Fds : slot'[g] = Idle(d) <=>
                   \E i \in 1 .. Len(pool'[d]) : pool'[d][i] = g
  <2>1. CASE d # e
    <3>1. pool'[d] = pool[d] /\ slot[u] # Idle(d) /\ slot'[u] # Idle(d)
      BY <2>1, <1>3
    <3>2. /\ Len(pool[d]) <= MaxIdle
          /\ \A i, j \in 1 .. Len(pool[d]) : pool[d][i] = pool[d][j] => i = j
          /\ \A g \in Fds : slot[g] = Idle(d) <=>
                \E i \in 1 .. Len(pool[d]) : pool[d][i] = g
      BY DEF PoolInv
    <3> QED
      BY <3>1, <3>2
  <2>2. CASE d = e
    <3>1. n - 1 <= MaxIdle
      BY <1>1, <1>4
    <3>2. ASSUME NEW i \in 1 .. n - 1
          PROVE  \E j \in 1 .. n : /\ j = (IF i < k THEN i ELSE i + 1) /\ j # k
                                   /\ p[i] = q[j]
      <4>1. i \in 1 .. n /\ i + 1 \in 1 .. n
        BY <1>4
      <4>2. CASE i < k
        BY <4>1, <4>2, <1>5
      <4>3. CASE ~(i < k)
        BY <4>1, <4>3, <1>5
      <4> QED
        BY <4>2, <4>3
    <3>3. \A i, j \in 1 .. n - 1 : p[i] = p[j] => i = j
      <4> SUFFICES ASSUME NEW i \in 1 .. n - 1, NEW j \in 1 .. n - 1, p[i] = p[j]
                   PROVE  i = j
        OBVIOUS
      <4>1. (IF i < k THEN i ELSE i + 1) = (IF j < k THEN j ELSE j + 1)
        BY <3>2, <1>1
      <4> QED
        BY <4>1, <1>4
    <3>4. \A i \in 1 .. n - 1 : p[i] # u
      BY <3>2, <1>1, <1>5
    <3>5. ASSUME NEW j \in 1 .. n, j # k
          PROVE  \E i \in 1 .. n - 1 : p[i] = q[j]
      <4>1. CASE j < k
        <5>1. j \in 1 .. n - 1
          BY <4>1, <1>4
        <5> QED
          BY <5>1, <4>1, <1>5
      <4>2. CASE ~(j < k)
        <5>1. j - 1 \in 1 .. n - 1 /\ ~(j - 1 < k) /\ j - 1 + 1 = j
          BY <4>2, <3>5, <1>4
        <5> QED
          BY <5>1, <1>5
      <4> QED
        BY <4>1, <4>2
    <3>6. ASSUME NEW g \in Fds
          PROVE  slot'[g] = Idle(e) <=> \E i \in 1 .. n - 1 : p[i] = g
      <4>1. CASE g = u
        BY <4>1, <3>4
      <4>2. CASE g # u
        <5>1. (\E i \in 1 .. n - 1 : p[i] = g) => (\E i \in 1 .. n : q[i] = g)
          BY <3>2
        <5>2. (\E i \in 1 .. n : q[i] = g) => (\E i \in 1 .. n - 1 : p[i] = g)
          <6> SUFFICES ASSUME NEW j \in 1 .. n, q[j] = g
                       PROVE  \E i \in 1 .. n - 1 : p[i] = g
            OBVIOUS
          <6>1. j # k
            BY <4>2, <1>5
          <6> QED
            BY <6>1, <3>5
        <5> QED
          BY <5>1, <5>2, <4>2, <1>1
      <4> QED
        BY <4>1, <4>2
    <3>7. pool'[d] = p /\ Len(pool'[d]) = n - 1 /\ Idle(d) = Idle(e)
      BY <2>2, <1>5 DEF p
    <3>8. \A g \in Fds : slot'[g] = Idle(d) <=> \E i \in 1 .. Len(pool'[d]) : pool'[d][i] = g
      BY <3>6, <3>7
    <3> QED
      BY <3>1, <3>3, <3>7, <3>8
  <2> QED
    BY <2>1, <2>2
<1> QED
  BY <1>6 DEF PoolInv

\* An idle upstream leaves the pool and the table together.
LEMMA ExpireStep ==
    ASSUME IInv, NEW u \in Fds, slot[u].is = "Idle", NEW os, Operations(os),
           Close({u}, slot, conn, os, open), pool' = PoolRemove(slot[u].of, u),
           \A k \in Kinds, g \in Fds \ {u} : g \in Tagged(os)[k] <=> g \in Ring[k],
           UNCHANGED <<drain, away, listen, jobs, cur>>
    PROVE  Accounts'
<1> USE SlotKinds
<1>1. Core /\ SlotInv /\ ReservedInv /\ DownInv
      /\ slot \in [Fds -> Slot] /\ conn \in [Fds -> Conn] /\ {u} \in SUBSET Fds
  BY TableParts
<1>2. slot[u].of \in Endpoints /\ slot[u] = Idle(slot[u].of)
      /\ \A g \in Fds : /\ slot[g].is = "Upstream" => slot[g].of \in Fds
                        /\ conn[g].upstream \in Fds \cup {NoFd}
  BY <1>1, SlotFacts
<1>3. conn[u] = NewConn /\ u \notin Reserved
  BY <1>1, <1>2 DEF SlotInv, Reserved
<1>4. \A g \in Fds : /\ slot'[g] = IF g = u THEN Empty ELSE slot[g]
                     /\ conn'[g] = conn[g]
                     /\ g \in open' <=> g \in open /\ g # u
                     /\ \A k \in Kinds : g \in Ring'[k] <=> g \in Ring[k] /\ g # u
  <2> DEFINE closed == {u}
  <2>1. closed \in SUBSET Fds /\ Close(closed, slot, conn, os, open)
    OBVIOUS
  <2>2. \A g : g \in closed <=> g = u
    OBVIOUS
  <2> HIDE DEF closed
  <2>3. \A g \in Fds : /\ slot'[g] = IF g \in closed THEN Empty ELSE slot[g]
                       /\ conn'[g] = IF g \in closed THEN NewConn ELSE conn[g]
                       /\ g \in open' <=> g \in open /\ g \notin closed
                       /\ \A k \in Kinds : g \in Ring'[k] <=>
                             g \in Tagged(os)[k] /\ g \notin closed
    BY <2>1, <1>1, CloseFacts
  <2> QED
    BY <2>2, <2>3, <1>3
<1>5. drain_inflight' = drain_inflight
  <2>1. \A g \in {u} : ~conn[g].drain_counted
    BY <1>3 DEF NewConn
  <2> QED
    BY <2>1, <1>1, NoneCounted
<1>6. UNCHANGED <<draining, severed, stopped>>
  BY DEF drain
<1>7. DownKinds \cup UpKinds \cup AdminKinds \subseteq Kinds
  BY DEF DownKinds, UpKinds, AdminKinds, Kinds, ReadKinds, WriteKinds
<1>8. \A k \in DownKinds \cup AdminKinds : u \notin Ring[k]
  BY <1>1 DEF DownInv, DownKinds, AdminKinds
<1>9. Pooled' \subseteq Pooled
  BY <1>1, <1>2, PoolShrinks
<1>10. Lapse
  <2>1. \A g \in Fds : slot[g] \in {Client, Admin} \/ g \in away' => g \in open'
    BY <1>1, <1>3, <1>4 DEF ReservedInv, Reserved
  <2>2. \A g \in Fds, k \in DownKinds \cup AdminKinds : g \in Ring'[k] <=> g \in Ring[k]
    BY <1>4, <1>7, <1>8
  <2>3. \A g \in Fds, k \in AdminKinds : g \in Ring[k] => slot[g] = Admin
    BY <1>1 DEF DownInv, AdminKinds
  <2>4. slot[u] \notin {Client, Admin}
    OBVIOUS
  <2> QED
    BY <2>1, <2>2, <2>3, <2>4, <1>4, <1>5, <1>6, <1>9 DEF Lapse
<1>11. ASSUME ~severed PROVE Owned'
  <2>1. UseInv /\ JobsInv /\ PoolInv /\ UpInv /\ BorrowInv
    BY <1>11, TableParts
  <2>2. \A g \in Fds : slot[g] = Client => conn[g].upstream # u
    BY <2>1, Names DEF UseInv
  <2>3. UseInv'
    BY <2>1, <2>2, <1>2, <1>4 DEF UseInv
  <2>4. JobsInv'
    BY <2>1, <1>2, <1>4, <1>6 DEF JobsInv
  <2>5. PoolInv'
    BY <2>1, <1>1, <1>2, <1>4, PoolDropped
  <2>6. UpInv'
    <3>1. \A g \in Fds, k \in UpKinds : g \in Ring'[k] <=> g \in Ring[k] /\ g # u
      BY <1>4, <1>7
    <3> QED
      BY <3>1, <2>1, <2>2, <1>2, <1>4 DEF UpInv, UpKinds
  <2>7. BorrowInv'
    BY <2>1, <1>4 DEF BorrowInv
  <2> QED
    BY <2>3, <2>4, <2>5, <2>6, <2>7 DEF Owned
<1> QED
  BY <1>6, <1>10, <1>11, LapseStep DEF Accounts

\* An idle upstream that sends or ends is thrown away.
LEMMA OnIdleReadStep ==
    ASSUME IInv, NoWrap, NEW o \in ops, OnIdleRead(o)
    PROVE  Accounts'
<1> DEFINE u == o.fd
           os == ops \ {o}
<1>1. /\ IsLive(o) /\ slot[u].is = "Idle" /\ pool' = PoolRemove(slot[u].of, u)
      /\ Close({u}, slot, conn, os, open) /\ UNCHANGED <<drain, away, listen, jobs, cur>>
  BY DEF OnIdleRead, Completes, world
<1>2. Core /\ Operations(os) /\ u \in Fds
  BY TableParts, OpFacts DEF Operations
<1>3. \A k \in Kinds, g \in Fds \ {u} : g \in Tagged(os)[k] <=> g \in Ring[k]
  BY <1>1, <1>2, TaggedLess
<1> HIDE DEF os, u
<1> QED
  BY <1>1, <1>2, <1>3, ExpireStep

\* So is one that was idle too long.
LEMMA TickExpireStep ==
    ASSUME IInv, NEW u \in Fds, TickExpire(u)
    PROVE  Accounts'
<1>1. /\ slot[u].is = "Idle" /\ pool' = PoolRemove(slot[u].of, u)
      /\ Close({u}, slot, conn, ops, open) /\ UNCHANGED <<drain, away, listen, jobs, cur>>
  BY DEF TickExpire, world
<1>2. Operations(ops)
  BY TableParts
<1>3. \A k \in Kinds, g \in Fds \ {u} : g \in Tagged(ops)[k] <=> g \in Ring[k]
  BY DEF Ring
<1> QED
  BY <1>1, <1>2, <1>3, ExpireStep

-----------------------------------------------------------------------------
(* The helper answers.                                                     *)

\* d becomes c with the fields of the client's side as they were.
SameClient(d, c) ==
    /\ c.drain_counted <=> d.drain_counted
    /\ c.client_keep_alive <=> d.client_keep_alive
    /\ c.reading <=> d.reading
    /\ c.writing <=> d.writing

\* The connect succeeded.
LEMMA ConnectedStep ==
    ASSUME IInv, NEW u \in Fds, NEW f \in Fds, slot[u] = Upstream(f), slot[f] = Client,
           ~stopped, u \in jobs, jobs' = jobs \ {u}, NEW c \in Conn,
           SameClient(conn[f], c), c.upstream = conn[f].upstream,
           c.up_reading <=> conn[f].up_reading, c.up_writing <=> conn[f].up_writing,
           ~c.up_borrowed, c.phase = "Exchanging", Update(f, c), Goto("advance", f), UNCHANGED <<drain, away, listen, pool>>
    PROVE  Accounts'
<1>1. Core /\ DownInv /\ DrainCountExact
      /\ slot \in [Fds -> Slot] /\ conn \in [Fds -> Conn] /\ open \in SUBSET Fds
  BY TableParts
<1>2. /\ slot' = slot /\ conn' = [conn EXCEPT ![f] = c] /\ ops' = ops /\ open' = open
  BY <1>1, UpdateFacts, TableFacts
<1>3. Ring' = Ring
  BY <1>2 DEF Ring
<1>4. /\ c.drain_counted <=> conn[f].drain_counted
      /\ c.client_keep_alive <=> conn[f].client_keep_alive
      /\ c.reading <=> conn[f].reading
      /\ c.writing <=> conn[f].writing
  BY DEF SameClient
<1>5. \A g \in Fds : [conn EXCEPT ![f] = c][g].drain_counted <=> conn[g].drain_counted
  BY <1>1, <1>4
<1>6. DrainCountExact'
  BY <1>1, <1>5, CountClosed DEF Update
<1>7. cur'.fd = f
  BY DEF Goto
<1>8. Turn(f, c)
  <2>1. /\ \A k \in AdminKinds : f \notin Ring[k]
        /\ conn[f].reading <=> f \in Ring["DOWN_READ"]
        /\ conn[f].writing <=> f \in Ring["DOWN_WRITE"]
    BY <1>1, SlotKinds DEF DownInv, AdminKinds
  <2> QED
    BY <2>1, <1>2, <1>3, <1>4, <1>6, <1>7 DEF Turn
<1>9. ASSUME ~severed PROVE TurnUp(f, c)
  <2>1. UseInv /\ JobsInv /\ UpInv
    BY <1>9, TableParts
  <2>2. conn[f].upstream = u /\ conn[f].up_borrowed
    BY <2>1, SlotKinds DEF UseInv, JobsInv
  <2>3. conn[f].upstream # NoFd =>
            /\ conn[f].up_reading <=> conn[f].upstream \in Ring["UP_READ"]
            /\ conn[f].up_writing <=> conn[f].upstream \in Ring["UP_WRITE"]
    BY <2>1 DEF UpInv
  <2> QED
    BY <2>2, <2>3, <1>3, <1>4 DEF TurnUp
<1> QED
  BY <1>8, <1>9, TurnStep

\* It failed, and the request goes on to its next attempt.
LEMMA RefusedStep ==
    ASSUME IInv, NEW u \in Fds, NEW f \in Fds, slot[u] = Upstream(f), slot[f] = Client,
           ~stopped, u \in jobs, jobs' = jobs \ {u}, NEW c \in Conn,
           SameClient(conn[f], c), c.upstream = NoFd, ~c.up_borrowed,
           c.phase = conn[f].phase,
           Close({}, [slot EXCEPT ![u] = Empty], [conn EXCEPT ![f] = c], ops, open \ {u}),
           Goto("retry", f), UNCHANGED <<drain, away, listen, pool>>
    PROVE  Accounts'
<1> USE SlotKinds
<1> DEFINE s == [slot EXCEPT ![u] = Empty]
           cs == [conn EXCEPT ![f] = c]
           ks == open \ {u}
<1>1. Core /\ SlotInv /\ ReservedInv /\ DownInv /\ DrainInv /\ DrainCountExact /\ Operations(ops)
      /\ slot \in [Fds -> Slot] /\ conn \in [Fds -> Conn] /\ open \in SUBSET Fds
  BY TableParts
<1>2. /\ c.upstream = NoFd /\ c.phase = conn[f].phase /\ ~c.up_borrowed
      /\ c.drain_counted <=> conn[f].drain_counted
      /\ c.client_keep_alive <=> conn[f].client_keep_alive
      /\ c.reading <=> conn[f].reading
      /\ c.writing <=> conn[f].writing
  BY DEF SameClient
<1>3. u \notin Reserved /\ f # u /\ conn[u] = NewConn
  BY <1>1 DEF ReservedInv, SlotInv
<1>4. /\ s[u] = Empty /\ \A g \in Fds \ {u} : s[g] = slot[g]
      /\ cs[f] = c /\ \A g \in Fds \ {f} : cs[g] = conn[g]
  BY <1>1
<1>5. \A g \in Fds : cs[g].drain_counted <=> conn[g].drain_counted
  BY <1>2, <1>4
<1>6. Close({}, s, cs, ops, ks) /\ \A g : g \in ks <=> g \in open /\ g # u
  OBVIOUS
<1> HIDE DEF s, cs, ks
<1>7. DrainCountExact' /\ drain_inflight' = drain_inflight
  BY <1>1, <1>5, <1>6, CountClosed, NoneCounted
<1>8. \A g \in Fds : /\ slot'[g] = s[g] /\ conn'[g] = cs[g]
                     /\ g \in open' <=> g \in open /\ g # u
                     /\ \A k \in Kinds : g \in Ring'[k] <=> g \in Ring[k]
  BY <1>1, <1>6, MoveFacts DEF Ring
<1>9. cur' = [at |-> "retry", fd |-> f] /\ cur'.fd = f /\ cur'.at = "retry"
  BY DEF Goto
<1>10. UNCHANGED <<draining, severed, stopped>>
  BY DEF drain
<1>11. DownKinds \cup UpKinds \cup AdminKinds \subseteq Kinds
  BY DEF DownKinds, UpKinds, AdminKinds, Kinds, ReadKinds, WriteKinds
<1>12. Lapse
  <2>1. \A g \in Fds : slot[g] \in {Client, Admin} \/ g \in away' => g \in open'
    BY <1>1, <1>3, <1>8 DEF ReservedInv, Reserved
  <2>2. \A g \in Fds, k \in AdminKinds : g \in Ring[k] => slot[g] = Admin
    BY <1>1 DEF DownInv, AdminKinds
  <2>3. Pooled' = Pooled
    BY DEF Pooled
  <2>4. \A g \in Fds :
          /\ slot'[g] = slot[g] \/ (slot[g] \notin {Client, Admin} /\ slot'[g] = Empty)
          /\ g # f => conn'[g] = conn[g]
          /\ conn'[f] = c
    BY <1>4, <1>8
  <2>5. \A g \in Fds :
          /\ conn'[g].upstream \in {conn[g].upstream, NoFd}
          /\ conn'[g].drain_counted <=> conn[g].drain_counted
          /\ conn'[g].phase = conn[g].phase
          /\ conn'[g].client_keep_alive <=> conn[g].client_keep_alive
          /\ conn'[g].reading <=> conn[g].reading
          /\ conn'[g].writing <=> conn[g].writing
    BY <2>4, <1>2
  <2>6. \A g \in Fds : slot[g] \notin {Client, Admin} => conn'[g] = conn[g]
    BY <2>4
  <2>7. \A g \in Fds, k \in DownKinds \cup AdminKinds : g \in Ring'[k] <=> g \in Ring[k]
    BY <1>8, <1>11
  <2>8. jobs' \subseteq jobs
    OBVIOUS
  <2> QED
    BY <2>1, <2>2, <2>3, <2>4, <2>5, <2>6, <2>7, <2>8, <1>7, <1>9, <1>10 DEF Lapse
<1>13. ASSUME ~severed PROVE Accounts'
  <2> DEFINE U == {u}
  <2>1. UseInv /\ JobsInv /\ UpInv /\ BorrowInv
    BY <1>13, TableParts
  <2>2. conn[f].upstream = u /\ conn[f].up_borrowed
    BY <2>1 DEF UseInv, JobsInv
  <2>3. \A k \in Kinds : u \notin Ring[k]
    <3>1. u \notin Ring["UP_READ"] /\ u \notin Ring["UP_WRITE"]
      BY <2>1, <2>2, Names DEF UpInv, BorrowInv
    <3>2. \A k \in DownKinds \cup AdminKinds : u \notin Ring[k]
      BY <1>1 DEF DownInv, DownKinds, AdminKinds
    <3> QED
      BY <3>1, <3>2, KindNames DEF DownKinds, AdminKinds
  <2>4. Gone(u)
    BY <2>3, <1>3, <1>4, <1>8 DEF Gone
  <2>5. Alone(f)
    <3>1. f \in open
      BY <1>1 DEF ReservedInv, Reserved
    <3>2. slot'[f] = Client /\ conn'[f] = c /\ f \in open'
      BY <3>1, <1>3, <1>4, <1>8
    <3>3. draining => c.phase # "Head" /\ ~c.client_keep_alive
      BY <1>1, <1>2 DEF DrainInv
    <3> QED
      BY <3>2, <3>3, <1>2, <1>8 DEF Alone
  <2>6. \A g \in Fds \ (U \cup {f}) : Untouched(g)
    BY <1>4, <1>8 DEF Untouched
  <2>7. U \cap Reserved = {} /\ U \in SUBSET Fds
    BY <1>3
  <2>8. Release(f, U)
    <3>1. \A g \in U : Gone(g)
      BY <2>4
    <3>2. slot'[f] = Client
      BY <2>5 DEF Alone
    <3>3. jobs' \subseteq jobs
      OBVIOUS
    <3> HIDE DEF U
    <3> QED
      BY <3>1, <3>2, <3>3, <2>5, <2>6, <2>7, <1>7, <1>9 DEF Release
  <2>9. ReleaseUp(f, U)
    <3>1. U = {conn[f].upstream} \ {NoFd}
      BY <2>2, Names
    <3>2. ~conn'[f].up_borrowed
      BY <1>2, <1>4, <1>8
    <3>3. \A g \in Fds \ U : g \in jobs' <=> g \in jobs
      OBVIOUS
    <3>4. u \notin jobs' /\ slot'[u] = Empty
      BY <1>4, <1>8
    <3> QED
      BY <3>1, <3>2, <3>3, <3>4 DEF ReleaseUp
  <2> HIDE DEF U
  <2> QED
    BY <2>7, <2>8, <2>9, ReleaseStep
<1> QED
  BY <1>10, <1>12, <1>13, LapseStep DEF Accounts

\* Nobody waits for the answer.
LEMMA UnwantedStep ==
    ASSUME IInv, NEW u \in Fds, ~stopped, u \in jobs, jobs' = jobs \ {u},
           slot[u].is = "Upstream" => slot[slot[u].of] # Client,
           Close({}, [g \in Fds |-> IF g = u \/ slot[u] = Upstream(g) THEN Empty
                                    ELSE slot[g]], conn, ops, open \ {u}),
           UNCHANGED <<drain, away, listen, pool, cur>>
    PROVE  Accounts'
<1> USE SlotKinds
<1> DEFINE s == [g \in Fds |-> IF g = u \/ slot[u] = Upstream(g) THEN Empty ELSE slot[g]]
           ks == open \ {u}
<1>1. Core /\ SlotInv /\ ReservedInv /\ DownInv /\ Operations(ops)
      /\ slot \in [Fds -> Slot] /\ conn \in [Fds -> Conn] /\ open \in SUBSET Fds
  BY TableParts
<1>2. \A g \in Fds : s[g] = IF g = u \/ slot[u] = Upstream(g) THEN Empty ELSE slot[g]
  OBVIOUS
<1>3. Close({}, s, conn, ops, ks) /\ \A g : g \in ks <=> g \in open /\ g # u
  OBVIOUS
<1> HIDE DEF s, ks
<1>4. drain_inflight' = drain_inflight
  BY <1>1, <1>3, NoneCounted
<1>5. \A g \in Fds : /\ slot'[g] = s[g] /\ conn'[g] = conn[g]
                     /\ g \in open' <=> g \in open /\ g # u
                     /\ \A k \in Kinds : g \in Ring'[k] <=> g \in Ring[k]
  BY <1>1, <1>3, MoveFacts DEF Ring
<1>6. u \notin Reserved /\ slot[u] \notin {Client, Admin}
  BY <1>1 DEF ReservedInv, Reserved
<1>7. UNCHANGED <<draining, severed, stopped>>
  BY DEF drain
<1>8. DownKinds \cup UpKinds \cup AdminKinds \subseteq Kinds
  BY DEF DownKinds, UpKinds, AdminKinds, Kinds, ReadKinds, WriteKinds
<1>9. Lapse
  <2>1. \A g \in Fds : slot[g] \in {Client, Admin} \/ g \in away' => g \in open'
    BY <1>1, <1>5, <1>6 DEF ReservedInv, Reserved
  <2>2. \A g \in Fds, k \in AdminKinds : g \in Ring[k] => slot[g] = Admin
    BY <1>1 DEF DownInv, AdminKinds
  <2>3. Pooled' = Pooled
    BY DEF Pooled
  <2>4. \A g \in Fds :
          slot'[g] = slot[g] \/ (slot[g] \notin {Client, Admin} /\ slot'[g] = Empty)
    BY <1>1, <1>2, <1>5, <1>6 DEF SlotInv
  <2> QED
    BY <2>1, <2>2, <2>3, <2>4, <1>4, <1>5, <1>7, <1>8 DEF Lapse
<1>10. ASSUME ~severed PROVE Owned'
  <2>1. UseInv /\ JobsInv /\ PoolInv /\ UpInv /\ BorrowInv
    BY <1>10, TableParts
  <2>2. slot[u] = Abandoned
    BY <2>1 DEF UseInv, JobsInv
  <2>3. \A g \in Fds : slot'[g] = IF g = u THEN Empty ELSE slot[g]
    BY <2>2, <1>2, <1>5
  <2>4. \A g \in Fds : /\ slot[g].is = "Upstream" => slot[g].of \in Fds
                       /\ conn[g].upstream \in Fds \cup {NoFd}
    BY <1>1, SlotFacts
  <2>5. \A g \in Fds : slot[g] = Client => conn[g].upstream # u
    BY <2>1, <2>2, Names DEF UseInv
  <2>6. UseInv'
    BY <2>1, <2>2, <2>3, <2>4, <2>5, <1>5 DEF UseInv
  <2>7. JobsInv'
    BY <2>1, <2>2, <2>3, <2>4, <1>5, <1>7 DEF JobsInv
  <2>8. PoolInv'
    BY <2>1, <2>2, <2>3 DEF PoolInv
  <2>9. UpInv'
    <3>1. \A g \in Fds, k \in UpKinds : g \in Ring'[k] <=> g \in Ring[k]
      BY <1>5, <1>8
    <3>2. u \notin Ring["UP_READ"] \cup Ring["UP_WRITE"]
      BY <2>1, <2>2 DEF UpInv
    <3> QED
      BY <3>1, <3>2, <2>1, <2>3, <2>4, <1>5 DEF UpInv, UpKinds
  <2>10. BorrowInv'
    BY <2>1, <1>5 DEF BorrowInv
  <2> QED
    BY <2>6, <2>7, <2>8, <2>9, <2>10 DEF Owned
<1> QED
  BY <1>7, <1>9, <1>10, LapseStep DEF Accounts

\* The helper gives a descriptor back: to its exchange, or to be closed.
LEMMA OnConnectedStep ==
    ASSUME IInv, NEW u \in Fds, OnConnected(u)
    PROVE  Accounts'
<1> DEFINE d == slot[u].of
           b == conn[d]
           up == [b EXCEPT !.up_borrowed = FALSE, !.up_ready = TRUE,
                           !.phase = "Exchanging"]
           down == [b EXCEPT !.up_borrowed = FALSE, !.upstream = NoFd]
           s2 == [slot EXCEPT ![u] = Empty]
           s3 == [g \in Fds |-> IF g = u \/ slot[u] = Upstream(g) THEN Empty
                                ELSE slot[g]]
<1>1. /\ cur = Wait /\ ~stopped /\ u \in jobs /\ jobs' = jobs \ {u}
      /\ UNCHANGED <<drain, away, listen, pool>>
  <2>1. /\ Waiting /\ u \in jobs /\ jobs' = jobs \ {u}
        /\ UNCHANGED <<drain, world, pool, inflight>>
    BY ConnectedCases
  <2> QED
    BY <2>1 DEF Waiting, world
<1>2. slot \in [Fds -> Slot] /\ conn \in [Fds -> Conn] /\ Core
  BY TableParts
<1>3. slot[u].is = "Upstream" => d \in Fds /\ slot[u] = Upstream(d) /\ b \in Conn
  BY <1>2, SlotFacts
<1>4. ASSUME b \in Conn PROVE up \in Conn /\ down \in Conn
  <2>1. "Exchanging" \in Phase
    BY Names
  <2> HIDE DEF b
  <2>2. up \in Conn
    BY <2>1, <1>4, SetField
  <2>3. down \in Conn
    BY <1>4, SetField
  <2> QED
    BY <2>2, <2>3
<1>5. \/ /\ slot[u].is = "Upstream" /\ slot[d] = Client
         /\ Close({}, slot, [conn EXCEPT ![d] = up], ops, open) /\ Goto("advance", d)
      \/ /\ slot[u].is = "Upstream" /\ slot[d] = Client
         /\ Close({}, s2, [conn EXCEPT ![d] = down], ops, open \ {u})
         /\ Goto("retry", d)
      \/ /\ slot[u].is = "Upstream" => slot[d] # Client
         /\ Close({}, s3, conn, ops, open \ {u}) /\ UNCHANGED cur
  <2>1. slot[u].is = "Upstream" =>
            [conn EXCEPT ![d].up_borrowed = FALSE, ![d].upstream = NoFd] =
                [conn EXCEPT ![d] = down]
    BY <1>2, <1>3
  <2> QED
    BY <2>1, ConnectedCases
<1>6. ASSUME b \in Conn
      PROVE  /\ SameClient(b, up) /\ up.upstream = b.upstream /\ ~up.up_borrowed
             /\ up.up_reading <=> b.up_reading
             /\ up.up_writing <=> b.up_writing
             /\ up.phase = "Exchanging"
             /\ SameClient(b, down) /\ down.upstream = NoFd /\ ~down.up_borrowed
             /\ down.phase = b.phase
  <2> HIDE DEF b
  <2> QED
    BY <1>6 DEF SameClient, Conn
<1> HIDE DEF d, b, up, down
<1>7. CASE /\ slot[u].is = "Upstream" /\ slot[d] = Client
           /\ Close({}, slot, [conn EXCEPT ![d] = up], ops, open) /\ Goto("advance", d)
  <2>1. Update(d, up)
    BY <1>7 DEF Update
  <2> QED
    BY <2>1, <1>1, <1>3, <1>4, <1>6, <1>7, ConnectedStep DEF b
<1>8. CASE /\ slot[u].is = "Upstream" /\ slot[d] = Client
           /\ Close({}, s2, [conn EXCEPT ![d] = down], ops, open \ {u})
           /\ Goto("retry", d)
  BY <1>1, <1>3, <1>4, <1>6, <1>8, RefusedStep DEF b
<1>9. CASE /\ slot[u].is = "Upstream" => slot[d] # Client
           /\ Close({}, s3, conn, ops, open \ {u}) /\ UNCHANGED cur
  BY <1>1, <1>9, UnwantedStep DEF d
<1> QED
  BY <1>5, <1>7, <1>8, <1>9

-----------------------------------------------------------------------------
(* A connection is accepted.                                               *)

\* Before the drain, a number that is not open is nobody's.
LEMMA FreeNumber ==
    ASSUME IInv, ~severed, ~stopped, NEW f \in Fds, f \notin open
    PROVE  /\ slot[f] = Empty /\ conn[f] = NewConn
           /\ f \notin away /\ f \notin jobs /\ f \notin Pooled
           /\ \A g \in Fds : conn[g].upstream # f
           /\ \A k \in Kinds : f \notin Ring[k]
<1> USE SlotKinds
<1>1. /\ SlotInv /\ ReservedInv /\ DownInv /\ UseInv /\ JobsInv /\ PoolInv /\ UpInv
      /\ slot \in [Fds -> Slot] /\ conn \in [Fds -> Conn]
  BY TableParts
<1>2. slot[f] = Empty
  BY <1>1 DEF UseInv
<1>3. conn[f] = NewConn /\ f \notin away /\ f \notin jobs
  BY <1>1, <1>2 DEF SlotInv, ReservedInv, Reserved, JobsInv
<1>4. f \notin Pooled
  BY <1>1, <1>2 DEF PoolInv, Pooled
<1>5. ASSUME NEW g \in Fds, conn[g].upstream = f PROVE FALSE
  <2>1. slot[g] = Client
    BY <1>1, <1>5, Names DEF SlotInv, NewConn
  <2> QED
    BY <2>1, <1>1, <1>2, <1>5, Names DEF UseInv
<1>6. \A k \in Kinds : f \notin Ring[k]
  BY <1>1, <1>2, KindNames DEF DownInv, UpInv
<1> QED
  BY <1>2, <1>3, <1>4, <1>5, <1>6

\* What a connection is like when it is accepted.
Fresh(kind, c) ==
    /\ c.upstream = NoFd /\ ~c.drain_counted /\ ~c.up_borrowed
    /\ kind = Client => ~c.reading /\ ~c.writing

\* A number the kernel hands out is nobody's, and becomes its new owner's.
LEMMA StartStep ==
    ASSUME IInv, NEW f \in Fds, f \notin open, ~draining, ~stopped, cur = Wait,
           NEW kind \in {Client, Admin}, NEW c \in Conn, Fresh(kind, c),
           NEW submitted, Operations(submitted),
           \A o \in submitted : o.fd = f /\ o.k = "ADMIN_READ" /\ kind = Admin,
           StartConn(f, kind, c, submitted),
           UNCHANGED <<drain_inflight, drain, away, listen, pool, jobs>>,
           cur' = Wait \/ (cur'.fd = f /\ kind = Client)
    PROVE  Accounts'
<1> USE SlotKinds
<1>1. /\ slot' = [slot EXCEPT ![f] = kind] /\ conn' = [conn EXCEPT ![f] = c]
      /\ ops' = Aged(ops, {f}) \cup submitted /\ open' = open \cup {f}
  BY DEF StartConn
<1>2. ~severed
  BY TableParts DEF DrainInv
<1>3. /\ SlotInv /\ ReservedInv /\ DownInv /\ DrainInv /\ DrainCountExact
      /\ UseInv /\ JobsInv /\ PoolInv /\ UpInv /\ BorrowInv /\ Core
      /\ slot \in [Fds -> Slot] /\ conn \in [Fds -> Conn]
  BY <1>2, TableParts
<1>4. /\ slot[f] = Empty /\ conn[f] = NewConn
      /\ f \notin away /\ f \notin jobs /\ f \notin Pooled
      /\ \A g \in Fds : conn[g].upstream # f
      /\ \A k \in Kinds : f \notin Ring[k]
  BY <1>2, FreeNumber
<1>5. /\ c.upstream = NoFd /\ ~c.drain_counted /\ ~c.up_borrowed
      /\ kind = Client => ~c.reading /\ ~c.writing
  BY DEF Fresh
<1>6. ASSUME NEW g \in Fds, NEW k \in Kinds
      PROVE  /\ g # f => (g \in Ring'[k] <=> g \in Ring[k])
             /\ f \in Ring'[k] => k = "ADMIN_READ" /\ kind = Admin
  <2> DEFINE one == {f}
             aged == Aged(ops, one)
  <2>1. ops \in SUBSET Op /\ generations \in Gens /\ one \in SUBSET Fds
    BY <1>3, TableFacts
  <2>2. Ring' = Tagged(aged \cup submitted)
    BY <1>1 DEF Ring
  <2> HIDE DEF one
  <2>3. Tagged(aged)[k] = Tagged(ops)[k] \ one
    BY <2>1, AgedFacts
  <2> HIDE DEF aged
  <2>4. Ring'[k] = Tagged(aged)[k] \cup Tagged(submitted)[k]
    BY <2>2 DEF Tagged
  <2>5. \A h \in Tagged(submitted)[k] : h = f /\ k = "ADMIN_READ" /\ kind = Admin
    BY DEF Tagged
  <2> QED
    BY <2>3, <2>4, <2>5 DEF Ring, one
<1>7. /\ slot'[f] = kind /\ conn'[f] = c
      /\ \A g \in Fds \ {f} : slot'[g] = slot[g] /\ conn'[g] = conn[g]
      /\ draining' = FALSE /\ stopped' = stopped /\ severed' = FALSE
  BY <1>1, <1>2, <1>3, DrainType DEF drain
<1>8. ASSUME NEW g \in Fds, slot[g].is = "Upstream"
      PROVE  slot[g].of \in Fds /\ slot[g].of # f
  BY <1>3, <1>4, <1>8, SlotFacts DEF UseInv
<1>9. SlotInv'
  BY <1>3, <1>4, <1>5, <1>7, <1>8 DEF SlotInv
<1>10. ReservedInv'
  <2>1. Reserved' = Reserved \cup {f}
    BY <1>4, <1>7 DEF Reserved
  <2>2. Pooled' = Pooled
    BY DEF Pooled
  <2>3. \A g \in Fds : conn'[g].upstream \in {conn[g].upstream, NoFd}
    BY <1>5, <1>7
  <2>4. Reserved \subseteq Fds
    BY <1>3, TableFacts DEF Reserved
  <2> QED
    BY <2>1, <2>2, <2>3, <2>4, <1>1, <1>3, <1>4, Names DEF ReservedInv
<1>11. DownInv'
  <2> SUFFICES ASSUME NEW g \in Fds
               PROVE  /\ slot'[g] = Client =>
                            /\ conn'[g].reading <=> g \in Ring'["DOWN_READ"]
                            /\ conn'[g].writing <=> g \in Ring'["DOWN_WRITE"]
                      /\ g \in Ring'["DOWN_READ"] \cup Ring'["DOWN_WRITE"] =>
                            slot'[g] = Client
                      /\ g \in Ring'["ADMIN_READ"] \cup Ring'["ADMIN_WRITE"] =>
                            slot'[g] = Admin
    BY DEF DownInv
  <2>1. CASE g = f
    BY <2>1, <1>5, <1>6, <1>7, KindNames
  <2>2. CASE g # f
    BY <2>2, <1>3, <1>6, <1>7, KindNames DEF DownInv
  <2> QED
    BY <2>1, <2>2
<1>12. DrainInv'
  <2>1. \A g \in Fds : ~conn[g].drain_counted /\ ~conn'[g].drain_counted
    BY <1>3, <1>5, <1>7 DEF DrainInv
  <2>2. {g \in Fds : conn'[g].drain_counted} = {g \in Fds : conn[g].drain_counted}
    BY <2>1
  <2>3. DrainCountExact'
    BY <2>2, <1>3 DEF DrainCountExact
  <2> QED
    BY <2>1, <2>3, <1>7 DEF DrainInv
<1>13. CurInv'
  BY <1>7 DEF CurInv
<1>14. UseInv'
  <2>1. \A g \in Fds : conn[g].upstream \in Fds \cup {NoFd}
    BY <1>3, SlotFacts
  <2> QED
    BY <2>1, <1>1, <1>3, <1>4, <1>5, <1>7, <1>8 DEF UseInv
<1>15. JobsInv'
  BY <1>3, <1>4, <1>7, <1>8 DEF JobsInv
<1>16. PoolInv'
  <2>1. \A g \in Fds, e \in Endpoints : slot'[g] = Idle(e) <=> slot[g] = Idle(e)
    BY <1>4, <1>7
  <2> QED
    BY <2>1, <1>3 DEF PoolInv
<1>17. UpInv'
  <2>1. \A g \in Fds : conn[g].upstream # NoFd => conn[g].upstream \in Fds \ {f}
    BY <1>3, <1>4, SlotFacts
  <2>2. f \notin Ring'["UP_READ"] /\ f \notin Ring'["UP_WRITE"]
    BY <1>6, KindNames
  <2>3. \A g \in Fds \ {f} : /\ g \in Ring'["UP_READ"] <=> g \in Ring["UP_READ"]
                             /\ g \in Ring'["UP_WRITE"] <=> g \in Ring["UP_WRITE"]
    BY <1>6, KindNames
  <2> QED
    BY <2>1, <2>2, <2>3, <1>3, <1>4, <1>5, <1>7 DEF UpInv
<1>18. BorrowInv'
  BY <1>3, <1>5, <1>7, Names DEF BorrowInv, Wait
<1> QED
  BY <1>9, <1>10, <1>11, <1>12, <1>13, <1>14, <1>15, <1>16, <1>17, <1>18
  DEF Accounts, Table, Owned

\* A client is accepted on a number that was nobody's.
LEMMA AcceptClientStep ==
    ASSUME IInv, NEW f \in Fds, AcceptClient(f)
    PROVE  Accounts'
<1> DEFINE c(x) == [NewConn EXCEPT !.tls = x, !.deadline = TRUE]
<1>1. PICK x \in Lanes : StartConn(f, Client, c(x), {})
  BY Zenon DEF AcceptClient
<1>2. /\ f \notin open /\ "Client" \in Roles /\ listen["Client"] = "armed"
      /\ cur = Wait /\ ~stopped /\ Goto("drive", f)
      /\ UNCHANGED <<drain_inflight, drain, away, listen, pool, jobs>>
  BY DEF AcceptClient, Waiting
<1>3. ~draining
  BY <1>2, TableParts DEF DrainInv
<1>4. c(x) \in Conn
  BY KindsAssumption, NewConnType, SetField
<1>5. Fresh(Client, c(x))
  BY DEF Fresh, NewConn
<1>6. Operations({}) /\ cur'.fd = f
  BY <1>2 DEF Operations, Goto
<1> HIDE DEF c
<1> QED
  BY <1>1, <1>2, <1>3, <1>4, <1>5, <1>6, StartStep

\* So is an admin connection, its read in the ring.
LEMMA AcceptAdminStep ==
    ASSUME IInv, NEW f \in Fds, AcceptAdmin(f)
    PROVE  Accounts'
<1> DEFINE o == [Submit("ADMIN_READ", f) EXCEPT
                     !.gen = BumpGeneration(generations[f])]
           os(ok) == {o : x \in {ok} \ {FALSE}}
           c(ok) == [NewConn EXCEPT !.reading = ok]
<1>1. PICK ok \in BOOLEAN : Refuses(ok) /\ StartConn(f, Admin, c(ok), os(ok))
  BY DEF AcceptAdmin
<1>2. /\ f \notin open /\ "Admin" \in Roles /\ listen["Admin"] = "armed"
      /\ cur' = Wait /\ cur = Wait /\ ~stopped
      /\ UNCHANGED <<drain_inflight, drain, away, listen, pool, jobs>>
  BY DEF AcceptAdmin, Waiting
<1>3. ~draining /\ Core
  BY <1>2, TableParts DEF DrainInv
<1>4. c(ok) \in Conn
  BY NewConnType, SetField
<1>5. Fresh(Admin, c(ok))
  BY SlotKinds DEF Fresh, NewConn
<1>6. /\ os(ok) \in SUBSET Op
      /\ \A p \in os(ok) : p.fd = f /\ p.k = "ADMIN_READ"
  BY <1>3, AdminReadFacts
<1>7. Operations(os(ok))
  BY <1>6 DEF Operations
<1> HIDE DEF c, os
<1> QED
  BY <1>1, <1>2, <1>3, <1>4, <1>5, <1>6, <1>7, StartStep

\* What begin_drain makes of each descriptor.
DrainClosed ==
    Pooled \cup {f \in Fds : slot[f] \in {Client, Admin} /\ ~Waited(f)}

\* begin_drain closes the idle upstreams and the connections it does not wait
\* for, and severs a tunnel if one of those has an upstream.
LEMMA BeginDrainFacts ==
    ASSUME IInv, BeginDrain
    PROVE  /\ ~severed /\ ~draining
           /\ \A g \in Fds :
                 /\ g \in DrainClosed <=>
                       \/ slot[g].is = "Idle"
                       \/ slot[g] \in {Client, Admin} /\ ~Waited(g)
                 /\ g \in DrainClosed => slot'[g] = Empty /\ conn'[g] = NewConn
                 /\ g \notin DrainClosed => slot'[g] = slot[g] /\ conn'[g] = DrainConn(g)
                 /\ g \in open' <=> g \in open /\ g \notin DrainClosed
                 /\ \A k \in Kinds : g \in Ring'[k] <=> g \in Ring[k] /\ g \notin DrainClosed
           /\ drain_inflight' = Cardinality({f \in Fds : slot[f] \in {Client, Admin}
                                                         /\ Waited(f)})
           /\ severed' <=> \E f \in DrainClosed : conn[f].upstream # NoFd
<1> DEFINE held == {f \in Fds : slot[f] \in {Client, Admin}}
           waited == {f \in held : Waited(f)}
           closed == Pooled \cup (held \ waited)
<1>1. /\ slot' = [f \in Fds |-> IF f \in closed THEN Empty ELSE slot[f]]
      /\ conn' = [f \in Fds |-> IF f \in closed THEN NewConn ELSE DrainConn(f)]
      /\ ops' = Aged(ops, closed) /\ open' = open \ closed
      /\ drain_inflight' = Cardinality(waited) /\ ~draining
      /\ severed' = \E f \in held \ waited : conn[f].upstream # NoFd
  BY DEF BeginDrain
<1>2. closed = DrainClosed /\ DrainClosed \in SUBSET Fds
  BY DEF DrainClosed, Pooled
<1>3. waited = {f \in Fds : slot[f] \in {Client, Admin} /\ Waited(f)}
  OBVIOUS
<1>4. ~severed /\ Core
  BY <1>1, TableParts DEF DrainInv
<1>5. SlotInv /\ PoolInv /\ slot \in [Fds -> Slot]
  BY <1>4, TableParts
<1>6. \A g \in Fds : g \in Pooled <=> slot[g].is = "Idle"
  BY <1>5, SlotCases, SlotKinds DEF PoolInv, Pooled
<1>7. \A f \in Pooled : conn[f].upstream = NoFd
  BY <1>5, <1>6, SlotKinds, NewConnReady DEF SlotInv, Pooled
<1>8. severed' <=> \E f \in DrainClosed : conn[f].upstream # NoFd
  BY <1>1, <1>2, <1>7
<1>9. \A k \in Kinds : Ring'[k] = Ring[k] \ DrainClosed
  <2>1. ops' = Aged(ops, DrainClosed) /\ ops \in SUBSET Op /\ generations \in Gens
    BY <1>1, <1>2, <1>4, TableFacts
  <2> QED
    BY <2>1, <1>2, AgedFacts DEF Ring
<1>10. \A g \in Fds : g \in DrainClosed <=>
           slot[g].is = "Idle" \/ (slot[g] \in {Client, Admin} /\ ~Waited(g))
  BY <1>6 DEF DrainClosed
<1> HIDE DEF closed, waited, held
<1> QED
  BY <1>1, <1>2, <1>3, <1>4, <1>8, <1>9, <1>10

\* What is left is counted, and is what the drain waits for.
LEMMA BeginDrainTable ==
    ASSUME IInv, BeginDrain
    PROVE  Table'
<1> USE SlotKinds
<1>1. /\ ~severed /\ ~draining /\ draining' = TRUE /\ cur' = Wait
      /\ listen' = [r \in Roles |-> IF listen[r] = "armed" THEN "shut" ELSE "gone"]
      /\ pool' = [e \in Endpoints |-> <<>>] /\ away' = away /\ jobs' = jobs
  BY BeginDrainFacts DEF BeginDrain, Waiting
<1>2. \A g \in Fds :
        /\ g \in DrainClosed <=> \/ slot[g].is = "Idle"
                                 \/ slot[g] \in {Client, Admin} /\ ~Waited(g)
        /\ g \in DrainClosed => slot'[g] = Empty /\ conn'[g] = NewConn
        /\ g \notin DrainClosed => slot'[g] = slot[g] /\ conn'[g] = DrainConn(g)
        /\ g \in open' <=> g \in open /\ g \notin DrainClosed
        /\ \A k \in Kinds : g \in Ring'[k] <=> g \in Ring[k] /\ g \notin DrainClosed
  BY BeginDrainFacts
<1>3. /\ Core /\ SlotInv /\ ReservedInv /\ DownInv /\ DrainInv
      /\ slot \in [Fds -> Slot] /\ conn \in [Fds -> Conn]
  BY TableParts
<1>4. \A g \in Fds : slot[g].is = "Upstream" => slot[g].of \in Fds
  BY <1>3, SlotFacts
<1>5. \A g \in Fds : Waited(g) => slot[g] \in {Client, Admin}
  BY DEF Waited
<1>6. ASSUME NEW g \in Fds
      PROVE  /\ DrainConn(g).reading <=> conn[g].reading
             /\ DrainConn(g).writing <=> conn[g].writing
             /\ DrainConn(g).upstream = conn[g].upstream
             /\ DrainConn(g).drain_counted <=> Waited(g)
             /\ ~Waited(g) => DrainConn(g) = conn[g]
             /\ Waited(g) /\ slot[g] = Client => /\ DrainConn(g).phase # "Head"
                                                 /\ ~DrainConn(g).client_keep_alive
  <2>1. ~conn[g].drain_counted
    BY <1>1, <1>3 DEF DrainInv
  <2> QED
    BY <2>1, <1>3, DrainConnFacts
<1>7. NewConn.upstream = NoFd /\ ~NewConn.drain_counted
  BY DEF NewConn
<1>8. SlotInv'
  <2> SUFFICES ASSUME NEW g \in Fds
               PROVE  /\ slot'[g] \notin {Client, Admin} => conn'[g] = NewConn
                      /\ slot'[g] = Admin => conn'[g].upstream = NoFd
                      /\ slot'[g].is = "Upstream" => slot'[slot'[g].of] # Admin
                      /\ g \in away' => slot'[g] = Empty
    BY DEF SlotInv
  <2> QED
    BY <1>1, <1>2, <1>3, <1>4, <1>5, <1>6, <1>7 DEF SlotInv
<1>9. ReservedInv'
  <2>1. Pooled' = {}
    BY <1>1 DEF Pooled
  <2>2. \A g \in Fds : conn'[g].upstream \in {conn[g].upstream, NoFd}
    BY <1>2, <1>6, <1>7
  <2>3. \A f \in Reserved' : f \in Reserved /\ f \in Fds /\ f \notin DrainClosed
    BY <1>1, <1>2, <1>3, TableFacts DEF Reserved, SlotInv
  <2> QED
    BY <2>1, <2>2, <2>3, <1>1, <1>2, <1>3, Names DEF ReservedInv
<1>10. DownInv'
  BY <1>2, <1>3, <1>6, KindNames DEF DownInv
<1>11. DrainInv'
  <2>1. {g \in Fds : conn'[g].drain_counted}
            = {f \in Fds : slot[f] \in {Client, Admin} /\ Waited(f)}
    BY <1>2, <1>5, <1>6, <1>7
  <2>2. DrainCountExact'
    BY <2>1, BeginDrainFacts DEF DrainCountExact
  <2>3. \A g \in Fds : slot'[g] = Client =>
            conn'[g].phase # "Head" /\ ~conn'[g].client_keep_alive
    BY <1>2, <1>6
  <2> QED
    BY <2>2, <2>3, <1>1 DEF DrainInv
<1>12. CurInv'
  BY <1>1 DEF CurInv
<1> QED
  BY <1>8, <1>9, <1>10, <1>11, <1>12 DEF Table

\* Without a severed tunnel what is closed took its upstream with it.
LEMMA BeginDrainStep ==
    ASSUME IInv, BeginDrain
    PROVE  Accounts'
<1> USE SlotKinds
<1> SUFFICES ASSUME ~severed' PROVE Owned'
  BY BeginDrainTable DEF Accounts
<1>1. /\ ~severed /\ stopped' = stopped /\ cur' = cur /\ cur = Wait
      /\ pool' = [e \in Endpoints |-> <<>>] /\ away' = away /\ jobs' = jobs
  BY BeginDrainFacts DEF BeginDrain, Waiting
<1>2. \A g \in Fds :
        /\ g \in DrainClosed <=> \/ slot[g].is = "Idle"
                                 \/ slot[g] \in {Client, Admin} /\ ~Waited(g)
        /\ g \in DrainClosed => slot'[g] = Empty /\ conn'[g] = NewConn
        /\ g \notin DrainClosed => slot'[g] = slot[g] /\ conn'[g] = DrainConn(g)
        /\ g \in open' <=> g \in open /\ g \notin DrainClosed
        /\ \A k \in Kinds : g \in Ring'[k] <=> g \in Ring[k] /\ g \notin DrainClosed
  BY BeginDrainFacts
<1>3. \A g \in DrainClosed : conn[g].upstream = NoFd
  BY BeginDrainFacts
<1>4. /\ Core /\ UseInv /\ JobsInv /\ PoolInv /\ UpInv /\ BorrowInv
      /\ slot \in [Fds -> Slot] /\ conn \in [Fds -> Conn]
  BY <1>1, TableParts
<1>5. \A g \in Fds :
        /\ slot[g].is = "Upstream" => /\ slot[g].of \in Fds
                                      /\ conn[slot[g].of].upstream = g
                                      /\ slot[g].of \notin DrainClosed
                                      /\ g \notin DrainClosed
        /\ slot[g] = Client /\ conn[g].upstream # NoFd =>
              conn[g].upstream \in Fds /\ conn[g].upstream \notin DrainClosed
  BY <1>2, <1>3, <1>4, SlotFacts, Names DEF UseInv
<1>6. ASSUME NEW g \in Fds
      PROVE  /\ DrainConn(g).upstream = conn[g].upstream
             /\ DrainConn(g).up_reading <=> conn[g].up_reading
             /\ DrainConn(g).up_writing <=> conn[g].up_writing
             /\ DrainConn(g).up_ready <=> conn[g].up_ready
             /\ DrainConn(g).up_borrowed <=> conn[g].up_borrowed
             /\ DrainConn(g).phase \in {conn[g].phase, "Closing"}
  BY <1>4, DrainConnFacts
<1>7. NewConn.upstream = NoFd /\ ~NewConn.up_borrowed
  BY DEF NewConn
<1>8. UseInv'
  <2> SUFFICES ASSUME NEW g \in Fds
               PROVE  /\ slot'[g] # Empty => g \in open' \ away'
                      /\ g \in open' => slot'[g] # Empty \/ g \in away'
                      /\ slot'[g].is = "Upstream" =>
                            /\ slot'[slot'[g].of] = Client
                            /\ conn'[slot'[g].of].upstream = g
                      /\ slot'[g] = Client /\ conn'[g].upstream # NoFd =>
                            slot'[conn'[g].upstream] = Upstream(g)
    BY DEF UseInv
  <2> QED
    BY <1>1, <1>2, <1>4, <1>5, <1>6, <1>7 DEF UseInv
<1>9. JobsInv'
  BY <1>1, <1>2, <1>4, <1>5, <1>6 DEF JobsInv
<1>10. PoolInv'
  <2>1. \A e \in Endpoints : pool'[e] = <<>> /\ Len(pool'[e]) = 0
    BY <1>1
  <2>2. \A g \in Fds, e \in Endpoints : slot'[g] # Idle(e)
    BY <1>2
  <2> QED
    BY <2>1, <2>2, SizesAssumption DEF PoolInv
<1>11. UpInv'
  <2> SUFFICES ASSUME NEW g \in Fds
               PROVE  /\ slot'[g] = Client /\ conn'[g].upstream # NoFd =>
                          /\ conn'[g].up_reading <=> conn'[g].upstream \in Ring'["UP_READ"]
                          /\ conn'[g].up_writing <=> conn'[g].upstream \in Ring'["UP_WRITE"]
                      /\ slot'[g].is = "Idle" =>
                            g \in Ring'["UP_READ"] /\ g \notin Ring'["UP_WRITE"]
                      /\ g \in Ring'["UP_READ"] \cup Ring'["UP_WRITE"] =>
                            slot'[g].is \in {"Upstream", "Idle"}
    BY DEF UpInv
  <2> QED
    BY <1>2, <1>4, <1>5, <1>6, <1>7, KindNames DEF UpInv
<1>12. BorrowInv'
  <2>1. cur'.at = "wait"
    BY <1>1 DEF Wait
  <2> QED
    BY <2>1, <1>2, <1>4, <1>6, <1>7 DEF BorrowInv
<1> QED
  BY <1>8, <1>9, <1>10, <1>11, <1>12 DEF Owned

\* Teardown leaves only what the helper still has, and what is away.
LEMMA TeardownStep ==
    ASSUME IInv, Teardown
    PROVE  Accounts'
<1> USE SlotKinds
<1> DEFINE closed == {f \in Fds : slot[f].is \in {"Client", "Admin", "Upstream", "Idle"}}
<1>1. /\ Close(closed, slot, conn, ops, open) /\ cur' = Wait /\ stopped' = TRUE
      /\ pool' = [e \in Endpoints |-> <<>>] /\ draining /\ draining' = draining
      /\ severed' = severed /\ away' = away /\ jobs' = jobs /\ listen' = listen
  BY DEF Teardown, Waiting, world
<1>2. /\ Core /\ SlotInv /\ ReservedInv /\ DownInv /\ DrainInv /\ DrainCountExact
      /\ slot \in [Fds -> Slot] /\ conn \in [Fds -> Conn] /\ Operations(ops)
      /\ closed \in SUBSET Fds
  BY TableParts
<1>3. \A g \in Fds :
        /\ g \in closed <=> slot[g].is \in {"Client", "Admin", "Upstream", "Idle"}
        /\ g \notin closed => slot[g] \in {Empty, Abandoned} /\ conn[g] = NewConn
  BY <1>2, SlotCases DEF SlotInv
<1> HIDE DEF closed
<1>4. \A g \in Fds :
        /\ slot'[g] = IF g \in closed THEN Empty ELSE slot[g]
        /\ conn'[g] = IF g \in closed THEN NewConn ELSE conn[g]
        /\ g \in open' <=> g \in open /\ g \notin closed
        /\ \A k \in Kinds : g \in Ring'[k] <=> g \in Ring[k] /\ g \notin closed
  BY <1>1, <1>2, CloseFacts DEF Ring
<1>5. \A g \in Fds : conn'[g] = NewConn /\ slot'[g] \in {Empty, Abandoned}
  BY <1>3, <1>4
<1>6. DrainCountExact'
  BY <1>1, <1>2, CountClosed
<1>7. /\ NewConn.upstream = NoFd /\ ~NewConn.drain_counted /\ ~NewConn.up_borrowed
      /\ NewConn.client_keep_alive
  BY DEF NewConn
<1>8. SlotInv'
  BY <1>1, <1>2, <1>3, <1>4, <1>5 DEF SlotInv
<1>9. ReservedInv'
  <2>1. Pooled' = {}
    BY <1>1 DEF Pooled
  <2>2. \A f \in Reserved' : f \in Reserved /\ f \in Fds /\ f \notin closed
    BY <1>1, <1>2, <1>3, <1>5, TableFacts DEF Reserved, SlotInv
  <2> QED
    BY <2>1, <2>2, <1>1, <1>2, <1>4, <1>5, <1>7, Names DEF ReservedInv
<1>10. DownInv'
  BY <1>2, <1>3, <1>4, <1>5, KindNames DEF DownInv
<1>11. DrainInv'
  BY <1>1, <1>2, <1>5, <1>6 DEF DrainInv
<1>12. CurInv'
  BY <1>1 DEF CurInv
<1>13. ASSUME ~severed PROVE Owned'
  <2>1. UseInv /\ UpInv
    BY <1>13, TableParts
  <2>2. UseInv'
    BY <2>1, <1>1, <1>3, <1>4, <1>5 DEF UseInv
  <2>3. JobsInv'
    BY <1>1 DEF JobsInv
  <2>4. PoolInv'
    <3>1. \A e \in Endpoints : pool'[e] = <<>> /\ Len(pool'[e]) = 0
      BY <1>1
    <3> QED
      BY <3>1, <1>5, SizesAssumption DEF PoolInv
  <2>5. UpInv'
    BY <2>1, <1>3, <1>4, <1>5, KindNames DEF UpInv
  <2>6. BorrowInv'
    BY <1>1, <1>5, <1>7 DEF BorrowInv, Wait
  <2> QED
    BY <2>2, <2>3, <2>4, <2>5, <2>6 DEF Owned
<1> QED
  BY <1>1, <1>8, <1>9, <1>10, <1>11, <1>12, <1>13 DEF Accounts, Table

\* A core that starts owns nothing.
LEMMA InitAccounts == Init => Accounts
<1> SUFFICES ASSUME Init PROVE Accounts
  OBVIOUS
<1> USE SlotKinds
<1>1. /\ slot = [f \in Fds |-> Empty] /\ conn = [f \in Fds |-> NewConn]
      /\ ops = {} /\ open = {} /\ away = {} /\ jobs = {} /\ cur = Wait
      /\ pool = [e \in Endpoints |-> <<>>]
      /\ draining = FALSE /\ severed = FALSE /\ drain_inflight = 0
  BY DEF Init
<1>2. \A g \in Fds : slot[g] = Empty /\ conn[g] = NewConn
  BY <1>1
<1>3. /\ NewConn.upstream = NoFd /\ ~NewConn.drain_counted /\ ~NewConn.up_borrowed
  BY DEF NewConn
<1>4. \A g \in Fds, k \in Kinds : g \notin Ring[k]
  BY <1>1 DEF Ring, Tagged
<1>5. Pooled = {} /\ Reserved = {}
  BY <1>1, <1>2 DEF Pooled, Reserved
<1>6. SlotInv /\ ReservedInv /\ CurInv
  BY <1>1, <1>2, <1>5 DEF SlotInv, ReservedInv, CurInv
<1>7. DownInv
  BY <1>2, <1>4, KindNames DEF DownInv
<1>8. DrainInv
  <2>1. {f \in Fds : conn[f].drain_counted} = {}
    BY <1>2, <1>3
  <2>2. DrainCountExact
    BY <2>1, <1>1, FS_EmptySet DEF DrainCountExact
  <2> QED
    BY <2>2, <1>1, <1>2, <1>3 DEF DrainInv
<1>9. UseInv /\ JobsInv /\ BorrowInv
  BY <1>1, <1>2, <1>3 DEF UseInv, JobsInv, BorrowInv, Wait
<1>10. PoolInv
  <2>1. \A e \in Endpoints : pool[e] = <<>> /\ Len(pool[e]) = 0
    BY <1>1
  <2> QED
    BY <2>1, <1>2, SizesAssumption DEF PoolInv
<1>11. UpInv
  BY <1>2, <1>4, KindNames DEF UpInv
<1> QED
  BY <1>6, <1>7, <1>8, <1>9, <1>10, <1>11 DEF Accounts, Table, Owned

\* Every step of a handler keeps the table.
LEMMA StepAccounts ==
    ASSUME IInv, NEW f \in Fds, Step(f)
    PROVE  Accounts'
  BY ParseNothingStep, ParseErrorStep, HandOffStep, RouteRequestStep,
     OpenUpstreamStep, RetryOrFailStep, UpstreamFailedStep, UpstreamEofStep,
     FinishResponseStep, PumpRequestBodyStep, PumpNothingStep, RelayHeadStep,
     RelayBodyStep, UpstreamGarbageStep, BeginTunnelStep, PumpTunnelStep,
     DriveStep DEF Step

\* So does every completion, its tag being its owner's.
LEMMA DispatchedAccounts ==
    ASSUME IInv, NoWrap, NEW o \in ops, Dispatched(o)
    PROVE  Accounts'
  BY DropStaleStep, OnClientReadStep, OnClientWriteStep, OnUpstreamReadStep,
     OnIdleReadStep, OnUpstreamWriteStep, OnOrphanStep, OnAdminReadStep,
     OnAdminWriteStep DEF Dispatched

\* So does every step of the core.
LEMMA NextAccounts ==
    ASSUME IInv, NoWrap, [Next]_vars
    PROVE  IInv'
<1> SUFFICES Accounts'
  BY NextCore DEF IInv
<1>1. ASSUME NEW f \in Fds, \/ Step(f) \/ AcceptClient(f) \/ AcceptAdmin(f)
                            \/ OnConnected(f) \/ OtherCloses(f) \/ TickOverdue(f)
                            \/ TickExpire(f)
      PROVE  Accounts'
  BY <1>1, StepAccounts, AcceptClientStep, AcceptAdminStep, OnConnectedStep,
     OtherClosesStep, TickOverdueStep, TickExpireStep
<1>2. ASSUME NEW r \in Roles,
             AcceptExhausted(r) \/ \E f \in Fds : DropStaleAccept(r, f)
      PROVE  Accounts'
  BY <1>2, ListenersStep
<1>3. ASSUME NEW o \in ops, Dispatched(o) PROVE Accounts'
  BY <1>3, DispatchedAccounts
<1>4. CASE TickGrace \/ BeginDrain \/ Teardown
  BY <1>4, TickGraceStep, BeginDrainStep, TeardownStep
<1>5. CASE UNCHANGED vars
  <2>1. /\ UNCHANGED <<table, drain_inflight>>
        /\ UNCHANGED <<draining, severed, stopped, away, pool, jobs, cur>>
        /\ listen' = listen
    BY <1>5 DEF vars, drain, world
  <2> QED
    BY <2>1, StillStep
<1> QED
  BY <1>1, <1>2, <1>3, <1>4, <1>5 DEF Next

\* The whole invariant, in every state of every core no tag of which has come
\* round: the table, the ring, the pool, the helper's jobs and the drain agree.
THEOREM SpecAccounts == Spec /\ []NoWrap => []IInv
<1>1. Init => IInv
  BY InitCore, InitAccounts DEF IInv
<1>2. IInv /\ NoWrap /\ [Next]_vars => IInv'
  BY NextAccounts
<1> QED
  BY <1>1, <1>2, PTL DEF Spec

\* An operation is live if it was issued for the present use, so that the flags
\* speak of the live ones.
LEMMA InvDelivery ==
    ASSUME IInv, NoWrap
    PROVE  DeliveryExact
<1>1. \A o \in ops : IsLive(o) <=> o.age = 0
  BY LiveIsCurrent DEF IInv
<1>2. \A o \in ops : o.age \in Nat
  BY TableParts DEF Op
<1>3. NoStaleDelivery
  BY <1>1, <1>2 DEF NoStaleDelivery
<1>4. \A k \in Kinds, f \in Fds : InRing(k, f) <=> f \in Ring[k]
  BY <1>1 DEF InRing, Ring, Tagged
<1>5. /\ DownInv /\ slot \in [Fds -> Slot] /\ conn \in [Fds -> Conn]
      /\ ~severed => UpInv
  BY TableParts
<1>6. ASSUME NEW f \in Fds
      PROVE  /\ conn[f].upstream \in Fds \cup {NoFd}
             /\ conn[f].reading \in BOOLEAN /\ conn[f].writing \in BOOLEAN
             /\ conn[f].up_reading \in BOOLEAN /\ conn[f].up_writing \in BOOLEAN
  <2>1. conn[f] \in Conn
    BY <1>5
  <2> QED
    BY <2>1 DEF Conn
<1>7. ASSUME NEW f \in Fds, NEW k \in Kinds
      PROVE  InRing(k, f) \in BOOLEAN
  BY DEF InRing
<1>8. FlagsMatchRing
  <2> SUFFICES ASSUME NEW f \in Fds
               PROVE  /\ slot[f] = Client =>
                            /\ conn[f].reading = InRing("DOWN_READ", f)
                            /\ conn[f].writing = InRing("DOWN_WRITE", f)
                      /\ slot[f] = Client /\ conn[f].upstream # NoFd /\ ~severed =>
                            /\ conn[f].up_reading = InRing("UP_READ", conn[f].upstream)
                            /\ conn[f].up_writing = InRing("UP_WRITE", conn[f].upstream)
                      /\ slot[f].is = "Idle" /\ ~severed =>
                            InRing("UP_READ", f) /\ ~InRing("UP_WRITE", f)
    BY DEF FlagsMatchRing
  <2>1. slot[f] = Client =>
           /\ conn[f].reading = InRing("DOWN_READ", f)
           /\ conn[f].writing = InRing("DOWN_WRITE", f)
    BY <1>4, <1>5, <1>6, <1>7, KindNames DEF DownInv
  <2>2. slot[f] = Client /\ conn[f].upstream # NoFd /\ ~severed =>
           /\ conn[f].up_reading = InRing("UP_READ", conn[f].upstream)
           /\ conn[f].up_writing = InRing("UP_WRITE", conn[f].upstream)
    BY <1>4, <1>5, <1>6, <1>7, KindNames DEF UpInv
  <2>3. slot[f].is = "Idle" /\ ~severed => InRing("UP_READ", f) /\ ~InRing("UP_WRITE", f)
    BY <1>4, <1>5, KindNames DEF UpInv
  <2> QED
    BY <2>1, <2>2, <2>3
<1> QED
  BY <1>3, <1>8 DEF DeliveryExact

\* A completion reaches only the connection it was issued for, and every
\* connection waits for exactly the operations the ring holds for it (dispatch,
\* close, drive), for any number of descriptors and any order of completions, as
\* long as no tag comes round.
THEOREM DeliveryTheorem == Spec /\ []NoWrap => []DeliveryExact
<1>1. IInv /\ NoWrap => DeliveryExact
  BY InvDelivery
<1> QED
  BY <1>1, SpecAccounts, PTL

\* The invariant is enough for every part of DescriptorsAccounted.
LEMMA InvDescriptors == IInv => DescriptorsAccounted
<1> SUFFICES ASSUME IInv PROVE DescriptorsAccounted
  OBVIOUS
<1>1. /\ Core /\ ReservedInv /\ DrainCountExact
      /\ ~severed => UseInv /\ JobsInv /\ PoolInv
      /\ slot \in [Fds -> Slot] /\ conn \in [Fds -> Conn]
  BY TableParts
<1>2. TypeOK
  <2>1. TableShape /\ RestShape
    BY <1>1, TableFacts
  <2>2. away \subseteq open
    BY <1>1, <2>1 DEF ReservedInv, Reserved, RestShape
  <2>3. cur.at \in Steps /\ cur.fd \in Fds \cup {NoFd}
    BY <2>1 DEF RestShape
  <2> QED
    BY <2>1, <2>2, <2>3 DEF TypeOK, TableShape, RestShape, Steps
<1>3. ASSUME ~severed
      PROVE  NoDescriptorLeaks /\ OwnersAgree /\ PoolAgrees
  <2>1. open \subseteq Fds
    BY <1>1, TableFacts
  <2> QED
    BY <2>1, <1>1, <1>3 DEF UseInv, PoolInv, NoDescriptorLeaks, OwnersAgree, PoolAgrees
<1>4. severed => NoDescriptorLeaks /\ OwnersAgree /\ PoolAgrees
  BY DEF NoDescriptorLeaks, OwnersAgree, PoolAgrees
<1>5. BorrowedStaysOpen
  BY <1>1, SlotKinds, TableFacts DEF BorrowedStaysOpen, JobsInv, UseInv
<1> QED
  BY <1>1, <1>2, <1>3, <1>4, <1>5 DEF DescriptorsAccounted

\* Every open descriptor has one owner who will close it, the pool and the
\* helper's jobs agree with the table, and the drain counts what it waits for
\* (close, open_upstream, finish_response, on_connected, hand_off, begin_drain),
\* for any number of descriptors, endpoints and clients, as long as no tag comes
\* round.
THEOREM DescriptorsTheorem == Spec /\ []NoWrap => []DescriptorsAccounted
<1>1. IInv => DescriptorsAccounted
  BY InvDescriptors
<1> QED
  BY <1>1, SpecAccounts, PTL
=============================================================================
