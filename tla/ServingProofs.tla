--------------------------- MODULE ServingProofs ----------------------------
(***************************************************************************)
(* What Serving guarantees for every set of connections, every number of   *)
(* lanes and every depth of the handoff queue.                             *)
(***************************************************************************)
EXTENDS Serving, SequenceTheorems, FiniteSetTheorems, TLAPS

Handed == Of({"handoff"})
Holding == {c \in Conns : Guarded(c)}

\* What a connection of each kind goes through.  Only an open one has requests.
PlaceInv ==
    \A c \in Conns :
        /\ c \in H3 => At(c, {"out", "quic", "h3layer", "open", "closed", "cut"})
        /\ c \in Admin => At(c, {"out", "open", "closed"})
        /\ c \in Tcp => At(c, Kinds \ {"quic", "h3layer"})
        /\ conn[c].at # "open" => conn[c].reqs = 0

\* The handoff channel holds each connection that waits, once.
HandoffInv ==
    /\ handoffs \in Seq(Handed)
    /\ \A i \in 1..Len(handoffs) : At(handoffs[i], {"waiting"})
    /\ \A i, j \in 1..Len(handoffs) : handoffs[i] = handoffs[j] => i = j

\* The queue of a lane holds each connection sent to it, once.
JobsInv ==
    /\ jobs \in [Lanes -> Seq(Tcp)]
    /\ \A l \in Lanes :
        /\ \A i \in 1..Len(jobs[l]) :
              At(jobs[l][i], {"queued"}) /\ conn[jobs[l][i]].lane = l
        /\ \A i, j \in 1..Len(jobs[l]) : jobs[l][i] = jobs[l][j] => i = j

\* The gauge, and that it counts something finite.
GaugeInv == IsFiniteSet(Holding) /\ gauge = Cardinality(Holding)

\* How far the shutdown of each part has come, and that a part that is over has
\* nothing left.
DrainInv ==
    /\ phase = "serving" => admin = "open" /\ \A l \in Lanes : lane[l] = "open"
    /\ phase # "serving" => signal
    /\ endpoint # "open" => signal
    /\ \A l \in Lanes : lane[l] # "open" => jobs[l] = <<>>
    /\ \A l \in Lanes : Over(lane[l]) => OnLane(l) = {}
    /\ Over(endpoint) => H3Open = {}
    /\ admin = "drained" => AdminOpen = {}
    /\ phase = "returned" => Over(endpoint) /\ \A l \in Lanes : Over(lane[l])

\* A request is cut short only by a drain that says so.
CutInv ==
    /\ \A c \in Conns : At(c, {"cut"}) =>
          \/ c \in Tcp /\ lane[conn[c].lane] = "expired"
          \/ c \in H3 /\ endpoint = "expired"
    /\ result # "none" => phase = "returned"
    /\ result = "ok" => AllDrained(lane, admin, endpoint)

IInv ==
    /\ TypeOK
    /\ PlaceInv
    /\ HandoffInv
    /\ JobsInv
    /\ GaugeInv
    /\ DrainInv
    /\ CutInv

-----------------------------------------------------------------------------
ConnRecord == [at : Kinds, lane : Lanes, reqs : 0..MaxStreams, goaway : BOOLEAN]

\* Every connection is of one of the three families.
LEMMA Families ==
    /\ \A c \in Conns : c \in Tcp \/ c \in H3 \/ c \in Admin
    /\ \A c \in Conns : c \in Tcp => c \notin H3 /\ c \notin Admin
    /\ \A c \in Conns : c \in H3 => c \notin Admin
    /\ Handed \subseteq Tcp /\ Tcp \subseteq Conns /\ H3 \subseteq Conns
BY ServingAssumption DEF Tcp, H3, Admin, Of, Handed

\* The gauge is a number.
LEMMA GaugeType == IInv => gauge \in Nat
BY DEF IInv, TypeOK

One(b) == IF b THEN 1 ELSE 0

\* One connection changes, and the gauge by whether it gains or gives up its
\* guard.
LEMMA GaugeFollows ==
    ASSUME GaugeInv, NEW c \in Conns,
           \A d \in Conns \ {c} : conn'[d] = conn[d],
           gauge' = gauge + One(Guarded(c)') - One(Guarded(c))
    PROVE  GaugeInv' /\ gauge' \in Nat
<1> DEFINE H == Holding
           Hn == Holding'
<1>1. \A d \in Conns \ {c} : Guarded(d) <=> Guarded(d)'
  BY DEF Guarded, At
<1>2. IsFiniteSet(H) /\ gauge = Cardinality(H) /\ gauge \in Nat
  BY FS_CardinalityType DEF GaugeInv
<1>3. Guarded(c) \in BOOLEAN /\ Guarded(c)' \in BOOLEAN
  BY DEF Guarded, At
<1>4. CASE Guarded(c) = Guarded(c)'
  <2>1. Hn = H
    BY <1>1, <1>4 DEF Holding
  <2>2. gauge' = gauge
    BY <1>2, <1>4 DEF One
  <2>3. QED BY <1>2, <2>1, <2>2 DEF GaugeInv
<1>5. CASE Guarded(c) /\ ~Guarded(c)'
  <2>1. Hn = H \ {c} /\ c \in H
    BY <1>1, <1>5 DEF Holding
  <2>2. IsFiniteSet(Hn) /\ Cardinality(Hn) = Cardinality(H) - 1
    BY <1>2, <2>1, FS_RemoveElement
  <2>3. Cardinality(Hn) \in Nat
    BY <2>2, FS_CardinalityType
  <2>4. gauge' = gauge - 1
    BY <1>2, <1>5 DEF One
  <2>5. QED BY <1>2, <2>2, <2>3, <2>4 DEF GaugeInv
<1>6. CASE ~Guarded(c) /\ Guarded(c)'
  <2>1. Hn = H \cup {c} /\ c \notin H
    BY <1>1, <1>6 DEF Holding
  <2>2. IsFiniteSet(Hn) /\ Cardinality(Hn) = Cardinality(H) + 1
    BY <1>2, <2>1, FS_AddElement
  <2>3. gauge' = gauge + 1
    BY <1>2, <1>6 DEF One
  <2>4. QED BY <1>2, <2>2, <2>3 DEF GaugeInv
<1>7. QED BY <1>3, <1>4, <1>5, <1>6

\* A connection that is in no queue moves on, to a place its kind may be in and
\* that is not over.
LEMMA Moves ==
    ASSUME IInv, NEW c \in Conns, NEW new \in ConnRecord,
           conn' = [conn EXCEPT ![c] = new],
           new.lane = conn[c].lane,
           ~At(c, {"waiting", "queued"}), new.at \notin {"waiting", "queued", "cut", "dropped"},
           c \in H3 => new.at \in {"quic", "h3layer", "open", "closed"},
           c \in Admin => new.at \in {"open", "closed"},
           c \in Tcp => new.at \notin {"quic", "h3layer"},
           new.at # "open" => new.reqs = 0,
           c \in Tcp /\ new.at \in Alive => ~Over(lane[conn[c].lane]),
           c \in H3 /\ new.at \in Alive => ~Over(endpoint),
           c \in Admin /\ new.at = "open" => admin # "drained",
           gauge' = gauge + One(Guarded(c)') - One(Guarded(c)),
           UNCHANGED <<signal, phase, result, handoffs, jobs, next, lane, admin, endpoint>>
    PROVE  IInv'
<1>1. /\ conn \in [Conns -> ConnRecord] /\ conn' \in [Conns -> ConnRecord]
      /\ conn'[c] = new /\ \A d \in Conns \ {c} : conn'[d] = conn[d]
      /\ \A d \in Conns : conn'[d].lane = conn[d].lane
  BY DEF IInv, TypeOK, ConnRecord
<1>2. GaugeInv' /\ gauge' \in Nat
  BY <1>1, GaugeFollows DEF IInv
<1>3. \A d \in Conns : /\ At(d, {"waiting"})' <=> At(d, {"waiting"})
                       /\ At(d, {"queued"})' <=> At(d, {"queued"})
  BY <1>1 DEF At
<1>4. TypeOK'
  BY <1>1, <1>2, <1>3, Families DEF IInv, TypeOK, ConnRecord
<1>5. PlaceInv'
  BY <1>1, Families DEF IInv, PlaceInv, At, ConnRecord
<1>6. HandoffInv'
  <2>1. \A i \in 1..Len(handoffs) : handoffs[i] \in Conns
    BY Families, ElementOfSeq DEF IInv, HandoffInv
  <2>2. QED BY <1>3, <2>1 DEF IInv, HandoffInv
<1>7. JobsInv'
  <2>1. \A l \in Lanes : \A i \in 1..Len(jobs[l]) : jobs[l][i] \in Conns
    BY Families, ElementOfSeq DEF IInv, JobsInv
  <2>2. QED BY <1>1, <1>3, <2>1 DEF IInv, JobsInv
<1>8. DrainInv'
  <2>1. \A l \in Lanes : Over(lane[l]) => OnLane(l)' = {}
    BY <1>1, Families DEF IInv, DrainInv, OnLane, At
  <2>2. Over(endpoint) => H3Open' = {}
    BY <1>1, Families DEF IInv, DrainInv, H3Open, At
  <2>3. admin = "drained" => AdminOpen' = {}
    BY <1>1, Families DEF IInv, DrainInv, AdminOpen, At, Admin, Of
  <2>4. QED BY <2>1, <2>2, <2>3 DEF IInv, DrainInv
<1>9. CutInv'
  BY <1>1 DEF IInv, CutInv, At
<1>10. QED BY <1>2, <1>4, <1>5, <1>6, <1>7, <1>8, <1>9 DEF IInv

-----------------------------------------------------------------------------
\* The initial state.
LEMMA InitIInv == Init => IInv
<1> SUFFICES ASSUME Init PROVE IInv
  OBVIOUS
<1> USE DEF Init
<1>1. 0 \in Lanes /\ 0 \in 0..MaxStreams
  BY ServingAssumption DEF Lanes
<1>2. conn \in [Conns -> [at : Kinds, lane : Lanes, reqs : 0..MaxStreams, goaway : BOOLEAN]]
  BY <1>1 DEF Kinds
<1>3. \A c \in Conns : conn[c].at = "out" /\ conn[c].lane = 0 /\ conn[c].reqs = 0
  OBVIOUS
<1>4. \A l \in Lanes : jobs[l] = <<>>
  OBVIOUS
<1>5. TypeOK
  <2>1. /\ lane \in [Lanes -> Drain] /\ admin \in Drain /\ endpoint \in Drain
    BY DEF Drain
  <2>2. /\ \A c \in Conns : ~At(c, {"waiting"}) /\ ~At(c, {"queued"})
    BY <1>3 DEF At
  <2>3. Range(<<>>) = {}
    BY DEF Range
  <2>4. \A c \in Tcp : c \in Conns /\ Range(jobs[conn[c].lane]) = {}
    BY <1>1, <1>3, <1>4, <2>3, Families
  <2>5. Len(handoffs) <= HandoffDepth
    BY ServingAssumption
  <2>6. QED BY <1>2, <2>1, <2>2, <2>3, <2>4, <2>5 DEF TypeOK
<1>6. PlaceInv
  BY <1>3 DEF PlaceInv, At, Kinds
<1>7. HandoffInv
  BY EmptySeq DEF HandoffInv
<1>8. JobsInv
  BY EmptySeq DEF JobsInv
<1>9. GaugeInv
  <2>1. Holding = {}
    BY <1>3 DEF Holding, Guarded, At
  <2>2. QED BY <2>1, FS_EmptySet DEF GaugeInv
<1>10. DrainInv
  BY DEF DrainInv, Over
<1>11. CutInv
  BY <1>3 DEF CutInv, At
<1>12. QED BY <1>5, <1>6, <1>7, <1>8, <1>9, <1>10, <1>11 DEF IInv

\* A connection that is in no queue ends.
LEMMA Leaves ==
    ASSUME IInv, NEW c \in Conns, ~At(c, {"waiting", "queued"}), Leave(c),
           gauge' = IF Guarded(c) THEN gauge - 1 ELSE gauge,
           UNCHANGED <<signal, phase, result, handoffs, jobs, next, lane, admin, endpoint>>
    PROVE  IInv'
<1> DEFINE new == [conn[c] EXCEPT !.at = "closed", !.reqs = 0]
<1>1. conn[c] \in ConnRecord /\ conn \in [Conns -> ConnRecord]
  BY DEF IInv, TypeOK, ConnRecord
<1>2. new \in ConnRecord /\ new.lane = conn[c].lane /\ new.at = "closed" /\ new.reqs = 0
  <2>1. 0 \in 0..MaxStreams /\ "closed" \in Kinds
    BY ServingAssumption DEF Kinds
  <2>2. QED BY <1>1, <2>1 DEF ConnRecord
<1>3. conn' = [conn EXCEPT ![c] = new]
  BY <1>1 DEF Leave
<1>4. Guarded(c)' = FALSE /\ Guarded(c) \in BOOLEAN
  BY <1>1, <1>2, <1>3 DEF Guarded, At
<1>5. gauge' = gauge + One(Guarded(c)') - One(Guarded(c))
  BY <1>4, GaugeType DEF One
<1> HIDE DEF new
<1>6. QED
  BY <1>2, <1>3, <1>5, Moves DEF Alive

\* A connection that is in no queue goes on to another place of its life.
LEMMA Goes ==
    ASSUME IInv, NEW c \in Conns, NEW x \in Alive, Place(c, x),
           ~At(c, {"waiting", "queued", "open"}),
           c \in H3 => x \in {"quic", "h3layer", "open"},
           c \in Admin => x = "open",
           c \in Tcp => x \notin {"quic", "h3layer"},
           c \in Tcp => ~Over(lane[conn[c].lane]),
           c \in H3 => ~Over(endpoint),
           c \in Admin => admin # "drained",
           gauge' = gauge + One(c \notin Admin /\ x # "quic") - One(Guarded(c)),
           UNCHANGED <<signal, phase, result, handoffs, jobs, next, lane, admin, endpoint>>
    PROVE  IInv'
<1> DEFINE new == [conn[c] EXCEPT !.at = x]
<1>1. conn[c] \in ConnRecord /\ conn \in [Conns -> ConnRecord] /\ x \in Kinds
  BY DEF IInv, TypeOK, ConnRecord, Alive, Kinds
<1>2. /\ new \in ConnRecord /\ new.lane = conn[c].lane /\ new.at = x
      /\ new.reqs = conn[c].reqs
  BY <1>1 DEF ConnRecord
<1>3. conn' = [conn EXCEPT ![c] = new] /\ conn'[c].at = x
  BY <1>1, <1>2 DEF Place
<1>4. new.reqs = 0
  BY <1>2 DEF IInv, PlaceInv, At
<1>5. Guarded(c)' = (c \notin Admin /\ x # "quic")
  BY <1>3 DEF Guarded, At, Alive
<1>6. gauge' = gauge + One(Guarded(c)') - One(Guarded(c))
  BY <1>5
<1>7. /\ ~At(c, {"waiting", "queued"})
      /\ new.at \notin {"waiting", "queued", "cut", "dropped"}
      /\ c \in H3 => new.at \in {"quic", "h3layer", "open", "closed"}
      /\ c \in Admin => new.at \in {"open", "closed"}
      /\ c \in Tcp => new.at \notin {"quic", "h3layer"}
  BY <1>2 DEF Alive, At
<1> HIDE DEF new
<1>8. QED
  BY <1>2, <1>3, <1>4, <1>6, <1>7, Moves

\* The requests of a connection, or that it was told to go, change nothing else.
LEMMA Carries ==
    ASSUME IInv, NEW c \in Conns, At(c, {"open"}),
           NEW n \in 0..MaxStreams, NEW b \in BOOLEAN,
           conn' = [conn EXCEPT ![c] = [conn[c] EXCEPT !.reqs = n, !.goaway = b]],
           UNCHANGED <<signal, phase, result, handoffs, jobs, next, lane, admin, endpoint, gauge>>
    PROVE  IInv'
<1> DEFINE new == [conn[c] EXCEPT !.reqs = n, !.goaway = b]
<1>1. conn[c] \in ConnRecord /\ conn \in [Conns -> ConnRecord]
  BY DEF IInv, TypeOK, ConnRecord
<1>2. new \in ConnRecord /\ new.lane = conn[c].lane /\ new.at = "open"
  BY <1>1 DEF ConnRecord, At
<1>3. conn'[c].at = conn[c].at
  BY <1>1, <1>2 DEF At
<1>4. Guarded(c)' = Guarded(c)
  BY <1>3 DEF Guarded, At
<1>5. /\ c \in Tcp => ~Over(lane[conn[c].lane])
      /\ c \in H3 => ~Over(endpoint)
      /\ c \in Admin => admin # "drained"
  BY <1>1 DEF IInv, DrainInv, OnLane, H3Open, AdminOpen, At, Alive, ConnRecord
<1>6. gauge' = gauge + One(Guarded(c)') - One(Guarded(c))
  BY <1>4, GaugeType DEF One
<1>7. conn' = [conn EXCEPT ![c] = new] /\ ~At(c, {"waiting", "queued"})
  BY DEF At
<1>8. c \in Tcp \/ c \in H3 \/ c \in Admin
  BY Families
<1> HIDE DEF new
<1>9. QED
  BY <1>2, <1>5, <1>6, <1>7, <1>8, Moves

\* A connection that is being served is on a part that is not over.
LEMMA AliveOnOpen ==
    ASSUME IInv, NEW c \in Conns, At(c, Alive)
    PROVE  /\ c \in Tcp => ~Over(lane[conn[c].lane])
           /\ c \in H3 => ~Over(endpoint)
BY DEF IInv, TypeOK, DrainInv, OnLane, H3Open

-----------------------------------------------------------------------------
(* The actions that move one connection.                                   *)

\* An admin connection is accepted.
LEMMA AcceptAdminKeeps ==
    ASSUME IInv, NEW c \in Conns, AcceptAdmin(c)
    PROVE  IInv'
<1>1. c \notin H3 /\ c \notin Tcp /\ ~Guarded(c)
  BY Families DEF AcceptAdmin, Guarded
<1>2. admin # "drained"
  BY DEF AcceptAdmin, Accepting, IInv, DrainInv
<1>3. "open" \in Alive /\ ~At(c, {"waiting", "queued", "open"}) /\ c \in Admin
  BY DEF AcceptAdmin, At, Alive
<1>4. gauge' = gauge + One(c \notin Admin /\ "open" # "quic") - One(Guarded(c))
  BY <1>1, <1>3, GaugeType DEF AcceptAdmin, One
<1>5. QED
  BY <1>1, <1>2, <1>3, <1>4, Goes DEF AcceptAdmin

\* A PROXY header is read, or is bad, or late.
LEMMA PrefaceDoneKeeps ==
    ASSUME IInv, NEW c \in Conns, PrefaceDone(c)
    PROVE  IInv'
<1>1. c \in Tcp /\ c \notin Admin /\ c \notin H3 /\ Guarded(c)
  BY Families DEF PrefaceDone, Guarded, IInv, PlaceInv, At
<1>2. ~Over(lane[conn[c].lane])
  BY <1>1, AliveOnOpen DEF PrefaceDone, At, Alive
<1>3. ~At(c, {"waiting", "queued", "open"}) /\ ~At(c, {"waiting", "queued"})
  BY DEF PrefaceDone, At
<1> USE GaugeType DEF One
<1>4. CASE Leave(c) /\ gauge' = gauge - 1
  BY <1>1, <1>3, <1>4, Leaves DEF PrefaceDone
<1>5. CASE /\ Place(c, IF KindOf[c] = "https" THEN "tls" ELSE "open")
           /\ UNCHANGED gauge
  BY <1>1, <1>2, <1>3, <1>5, Goes DEF PrefaceDone, Alive
<1>6. QED BY <1>4, <1>5 DEF PrefaceDone

\* A TLS handshake ends.
LEMMA TlsDoneKeeps ==
    ASSUME IInv, NEW c \in Conns, TlsDone(c)
    PROVE  IInv'
<1>1. c \in Tcp /\ c \notin Admin /\ c \notin H3 /\ Guarded(c)
  BY Families DEF TlsDone, Guarded, IInv, PlaceInv, At
<1>2. ~Over(lane[conn[c].lane])
  BY <1>1, AliveOnOpen DEF TlsDone, At, Alive
<1>3. ~At(c, {"waiting", "queued", "open"}) /\ ~At(c, {"waiting", "queued"})
  BY DEF TlsDone, At
<1> USE GaugeType DEF One
<1>4. CASE Leave(c) /\ gauge' = gauge - 1
  BY <1>1, <1>3, <1>4, Leaves DEF TlsDone
<1>5. CASE Place(c, "open") /\ UNCHANGED gauge
  BY <1>1, <1>2, <1>3, <1>5, Goes DEF TlsDone, Alive
<1>6. QED BY <1>4, <1>5 DEF TlsDone

\* A request begins.
LEMMA RequestKeeps ==
    ASSUME IInv, NEW c \in Conns, Request(c)
    PROVE  IInv'
<1>1. conn[c] \in ConnRecord
  BY DEF IInv, TypeOK, ConnRecord
<1>2. conn[c].reqs + 1 \in 0..MaxStreams
  BY <1>1, ServingAssumption DEF Request, Streams, ConnRecord
<1>3. conn' = [conn EXCEPT ![c] = [conn[c] EXCEPT !.reqs = conn[c].reqs + 1,
                                                  !.goaway = conn[c].goaway]]
  BY <1>1 DEF Request, ConnRecord
<1>4. QED
  BY <1>1, <1>2, <1>3, Carries DEF Request, ConnRecord

\* A request ends.
LEMMA RespondKeeps ==
    ASSUME IInv, NEW c \in Conns, Respond(c)
    PROVE  IInv'
<1>1. conn[c] \in ConnRecord
  BY DEF IInv, TypeOK, ConnRecord
<1>2. conn[c].reqs - 1 \in 0..MaxStreams
  BY <1>1, ServingAssumption DEF Respond, ConnRecord
<1>3. conn' = [conn EXCEPT ![c] = [conn[c] EXCEPT !.reqs = conn[c].reqs - 1,
                                                  !.goaway = conn[c].goaway]]
  BY <1>1 DEF Respond, ConnRecord
<1>4. QED
  BY <1>1, <1>2, <1>3, Carries DEF Respond, ConnRecord

\* A connection is told to take no more requests.
LEMMA GoawayKeeps ==
    ASSUME IInv, NEW c \in Conns, Goaway(c)
    PROVE  IInv'
<1>1. conn[c] \in ConnRecord
  BY DEF IInv, TypeOK, ConnRecord
<1>2. conn' = [conn EXCEPT ![c] = [conn[c] EXCEPT !.reqs = conn[c].reqs,
                                                  !.goaway = TRUE]]
  BY <1>1 DEF Goaway, ConnRecord
<1>3. QED
  BY <1>1, <1>2, Carries DEF Goaway, ConnRecord

\* A connection becomes a tunnel and gives up its guard.
LEMMA UpgradeKeeps ==
    ASSUME IInv, NEW c \in Conns, Upgrade(c)
    PROVE  IInv'
<1> DEFINE new == [conn[c] EXCEPT !.at = "tunnel", !.reqs = 0]
<1>1. conn[c] \in ConnRecord /\ conn \in [Conns -> ConnRecord]
  BY DEF IInv, TypeOK, ConnRecord
<1>2. new \in ConnRecord /\ new.lane = conn[c].lane /\ new.at = "tunnel" /\ new.reqs = 0
  <2>1. 0 \in 0..MaxStreams /\ "tunnel" \in Kinds
    BY ServingAssumption DEF Kinds
  <2>2. QED BY <1>1, <2>1 DEF ConnRecord
<1>3. conn' = [conn EXCEPT ![c] = new]
  BY <1>1 DEF Upgrade
<1>4. c \in Tcp /\ c \notin H3 /\ c \notin Admin
  BY DEF Upgrade, Tcp, H3, Admin, Of
<1>5. Guarded(c) /\ ~Guarded(c)'
  BY <1>1, <1>2, <1>3, <1>4 DEF Upgrade, Guarded, At
<1>6. gauge' = gauge + One(Guarded(c)') - One(Guarded(c))
  BY <1>5, GaugeType DEF One, Upgrade
<1>7. ~At(c, {"waiting", "queued"})
  BY DEF Upgrade, At
<1> HIDE DEF new
<1>8. QED
  BY <1>2, <1>3, <1>4, <1>6, <1>7, Moves DEF Upgrade, Alive

\* A connection that was told to, and has nothing left to do, closes.
LEMMA CloseIdleKeeps ==
    ASSUME IInv, NEW c \in Conns, CloseIdle(c)
    PROVE  IInv'
<1>1. Guarded(c) <=> c \notin Admin
  BY DEF CloseIdle, Guarded, At
<1>2. ~At(c, {"waiting", "queued"})
  BY DEF CloseIdle, At
<1>3. QED
  BY <1>1, <1>2, Leaves DEF CloseIdle

\* A client is gone.
LEMMA ClientGoneKeeps ==
    ASSUME IInv, NEW c \in Conns, ClientGone(c)
    PROVE  IInv'
<1>1. ~At(c, {"waiting", "queued"})
  BY DEF ClientGone, At, Alive
<1>2. QED
  BY <1>1, Leaves DEF ClientGone

\* A QUIC connection arrives.
LEMMA ConnectKeeps ==
    ASSUME IInv, NEW c \in Conns, Connect(c)
    PROVE  IInv'
<1>1. c \notin Tcp /\ c \notin Admin /\ ~Guarded(c)
  BY Families DEF Connect, Guarded, At
<1>2. ~At(c, {"waiting", "queued", "open"}) /\ "quic" \in Alive /\ ~Over(endpoint)
  BY DEF Connect, At, Alive, Over
<1>3. gauge' = gauge + One(c \notin Admin /\ "quic" # "quic") - One(Guarded(c))
  BY <1>1, GaugeType DEF Connect, One
<1>4. QED
  BY <1>1, <1>2, <1>3, Goes DEF Connect

\* A QUIC handshake ends, and the connection is counted.
LEMMA QuicDoneKeeps ==
    ASSUME IInv, NEW c \in Conns, QuicDone(c)
    PROVE  IInv'
<1>1. c \in H3 /\ c \notin Tcp /\ c \notin Admin /\ ~Guarded(c)
  BY Families DEF QuicDone, Guarded, IInv, PlaceInv, At
<1>2. /\ ~At(c, {"waiting", "queued", "open"}) /\ ~At(c, {"waiting", "queued"})
      /\ "h3layer" \in Alive
  BY DEF QuicDone, At, Alive
<1>3. ~Over(endpoint)
  BY <1>1, AliveOnOpen DEF QuicDone, At, Alive
<1>4. CASE Leave(c) /\ UNCHANGED gauge
  BY <1>1, <1>2, <1>4, Leaves DEF QuicDone
<1>5. CASE Place(c, "h3layer") /\ gauge' = gauge + 1
  <2>1. gauge' = gauge + One(c \notin Admin /\ "h3layer" # "quic") - One(Guarded(c))
    BY <1>1, <1>5, GaugeType DEF One
  <2>2. QED
    BY <1>1, <1>2, <1>3, <1>5, <2>1, Goes DEF QuicDone
<1>6. QED BY <1>4, <1>5 DEF QuicDone

\* The h3 layer comes up, or does not.
LEMMA H3BuiltKeeps ==
    ASSUME IInv, NEW c \in Conns, H3Built(c)
    PROVE  IInv'
<1>1. c \in H3 /\ c \notin Tcp /\ c \notin Admin /\ Guarded(c)
  BY Families DEF H3Built, Guarded, IInv, PlaceInv, At
<1>2. /\ ~At(c, {"waiting", "queued", "open"}) /\ ~At(c, {"waiting", "queued"})
      /\ "open" \in Alive
  BY DEF H3Built, At, Alive
<1>3. ~Over(endpoint)
  BY <1>1, AliveOnOpen DEF H3Built, At, Alive
<1>4. CASE Leave(c) /\ gauge' = gauge - 1
  BY <1>1, <1>2, <1>4, Leaves DEF H3Built
<1>5. CASE Place(c, "open") /\ UNCHANGED gauge
  <2>1. gauge' = gauge + One(c \notin Admin /\ "open" # "quic") - One(Guarded(c))
    BY <1>1, <1>5, GaugeType DEF One
  <2>2. QED
    BY <1>1, <1>2, <1>3, <1>5, <2>1, Goes DEF H3Built
<1>6. QED BY <1>4, <1>5 DEF H3Built

-----------------------------------------------------------------------------
(* The queues.                                                             *)

\* What appending a new element to a queue does.
LEMMA Joins ==
    ASSUME NEW S, NEW s \in Seq(S), NEW c \in S,
           \A i \in 1..Len(s) : s[i] # c,
           \A i, j \in 1..Len(s) : s[i] = s[j] => i = j
    PROVE  LET t == Append(s, c) IN
           /\ t \in Seq(S) /\ Len(t) = Len(s) + 1
           /\ \A i \in 1..Len(t) : t[i] = IF i <= Len(s) THEN s[i] ELSE c
           /\ \A i, j \in 1..Len(t) : t[i] = t[j] => i = j
           /\ Range(t) = Range(s) \cup {c}
<1> DEFINE t == Append(s, c)
<1>1. /\ t \in Seq(S) /\ Len(t) = Len(s) + 1 /\ Len(s) \in Nat
      /\ \A i \in 1..Len(s) : t[i] = s[i]
      /\ t[Len(s) + 1] = c
  BY AppendProperties, LenProperties
<1>2. \A i \in 1..Len(t) : t[i] = IF i <= Len(s) THEN s[i] ELSE c
  BY <1>1
<1>3. \A i, j \in 1..Len(t) : t[i] = t[j] => i = j
  BY <1>1, <1>2
<1>4. DOMAIN t = 1..Len(t) /\ DOMAIN s = 1..Len(s)
  BY <1>1, LenProperties
<1>5. Range(t) = Range(s) \cup {c}
  BY <1>1, <1>2, <1>4 DEF Range
<1>6. QED BY <1>1, <1>2, <1>3, <1>5

\* And what taking its head does.
LEMMA Parts ==
    ASSUME NEW S, NEW s \in Seq(S), s # <<>>,
           \A i, j \in 1..Len(s) : s[i] = s[j] => i = j
    PROVE  LET t == Tail(s) IN
           /\ Head(s) \in S /\ Head(s) = s[1] /\ 1 \in 1..Len(s)
           /\ t \in Seq(S) /\ Len(t) = Len(s) - 1
           /\ \A i \in 1..Len(t) : i + 1 \in 1..Len(s) /\ t[i] = s[i + 1] /\ t[i] # Head(s)
           /\ \A i, j \in 1..Len(t) : t[i] = t[j] => i = j
           /\ Range(t) = Range(s) \ {Head(s)}
<1> DEFINE t == Tail(s)
<1>1. /\ Head(s) \in S /\ t \in Seq(S) /\ Len(t) = Len(s) - 1 /\ Len(s) \in Nat \ {0}
      /\ \A i \in 1..Len(t) : t[i] = s[i + 1]
      /\ Head(s) = s[1]
  BY HeadTailProperties, EmptySeq
<1>2. \A i \in 1..Len(t) : i + 1 \in 1..Len(s) /\ t[i] = s[i + 1] /\ t[i] # Head(s)
  BY <1>1
<1>3. \A i, j \in 1..Len(t) : t[i] = t[j] => i = j
  BY <1>1, <1>2
<1>4. DOMAIN t = 1..Len(t) /\ DOMAIN s = 1..Len(s)
  BY <1>1, LenProperties
<1>5. Range(t) = Range(s) \ {Head(s)}
  <2>1. \A x \in Range(s) \ {Head(s)} : x \in Range(t)
    <3> SUFFICES ASSUME NEW x \in Range(s), x # Head(s) PROVE x \in Range(t)
      OBVIOUS
    <3>1. PICK i \in 1..Len(s) : x = s[i]
      BY <1>4 DEF Range
    <3>2. i - 1 \in 1..Len(t) /\ t[i - 1] = s[i]
      BY <1>1, <3>1
    <3>3. QED BY <1>4, <3>1, <3>2 DEF Range
  <2>2. \A x \in Range(t) : x \in Range(s) /\ x # Head(s)
    BY <1>2, <1>4 DEF Range
  <2>3. QED BY <2>1, <2>2
<1>6. QED BY <1>1, <1>2, <1>3, <1>5

\* Where Workers::send puts a connection is a lane.
LEMMA LaneChosen ==
    ASSUME IInv
    PROVE  next % NLanes \in Lanes
BY ServingAssumption DEF IInv, TypeOK, Lanes

\* A connection that is not queued is sent to a lane while the server accepts.
LEMMA Sends ==
    ASSUME IInv, NEW c \in Tcp, Accepting, Send(c), gauge' = gauge + 1,
           At(c, {"out", "waiting"}),
           HandoffInv', Len(handoffs') <= HandoffDepth,
           \A d \in Conns : At(d, {"waiting"})' <=> d \in Range(handoffs'),
           UNCHANGED <<signal, phase, result, lane, admin, endpoint>>
    PROVE  IInv'
<1> DEFINE l == next % NLanes
           t == Append(jobs[l], c)
           new == [conn[c] EXCEPT !.at = "queued", !.lane = l]
<1>1. l \in Lanes /\ next' \in Nat
  BY LaneChosen DEF IInv, TypeOK, Send
<1>2. /\ conn \in [Conns -> ConnRecord] /\ c \in Conns
      /\ c \notin H3 /\ c \notin Admin
  BY Families DEF IInv, TypeOK, ConnRecord
<1>3. new \in ConnRecord /\ new.at = "queued" /\ new.lane = l /\ new.reqs = conn[c].reqs
  <2>1. "queued" \in Kinds
    BY DEF Kinds
  <2>2. QED BY <1>1, <1>2, <2>1 DEF ConnRecord
<1>4. conn' = [conn EXCEPT ![c] = new]
  BY <1>2 DEF Send
<1>5. jobs' = [jobs EXCEPT ![l] = t]
  BY DEF Send
<1> HIDE DEF new, l
<1>6. /\ conn' \in [Conns -> ConnRecord] /\ conn'[c] = new
      /\ \A d \in Conns \ {c} : conn'[d] = conn[d]
  BY <1>2, <1>3, <1>4
<1>7. jobs \in [Lanes -> Seq(Tcp)]
  BY DEF IInv, JobsInv
<1>8. \A k \in Lanes : \A i \in 1..Len(jobs[k]) : jobs[k][i] # c /\ jobs[k][i] \in Conns
  BY <1>7, Families, ElementOfSeq DEF IInv, JobsInv, At
<1>9. /\ t \in Seq(Tcp) /\ Len(t) = Len(jobs[l]) + 1
      /\ \A i \in 1..Len(t) : t[i] = IF i <= Len(jobs[l]) THEN jobs[l][i] ELSE c
      /\ \A i, j \in 1..Len(t) : t[i] = t[j] => i = j
      /\ Range(t) = Range(jobs[l]) \cup {c}
  <2>1. \A i, j \in 1..Len(jobs[l]) : jobs[l][i] = jobs[l][j] => i = j
    BY <1>1 DEF IInv, JobsInv
  <2>2. QED BY <1>1, <1>7, <1>8, <2>1, Joins
<1> HIDE DEF t
<1>10. jobs' \in [Lanes -> Seq(Tcp)] /\ jobs'[l] = t /\ \A k \in Lanes \ {l} : jobs'[k] = jobs[k]
  BY <1>1, <1>5, <1>7, <1>9
<1>11. JobsInv'
  <2>1. \A k \in Lanes : \A i \in 1..Len(jobs'[k]) :
           conn'[jobs'[k][i]].at = "queued" /\ conn'[jobs'[k][i]].lane = k
    <3> SUFFICES ASSUME NEW k \in Lanes, NEW i \in 1..Len(jobs'[k])
                 PROVE  conn'[jobs'[k][i]].at = "queued" /\ conn'[jobs'[k][i]].lane = k
      OBVIOUS
    <3>1. CASE k # l
      BY <1>6, <1>8, <1>10, <3>1 DEF IInv, JobsInv, At
    <3>2. CASE k = l
      <4>1. Len(jobs[l]) \in Nat
        BY <1>1, <1>7, LenProperties
      <4>2. CASE i <= Len(jobs[l])
        <5>1. i \in 1..Len(jobs[l]) /\ jobs'[k][i] = jobs[l][i]
          BY <1>9, <1>10, <3>2, <4>1, <4>2
        <5>2. QED BY <1>1, <1>6, <1>8, <3>2, <5>1 DEF IInv, JobsInv, At
      <4>3. CASE ~(i <= Len(jobs[l]))
        BY <1>3, <1>6, <1>9, <1>10, <3>2, <4>3
      <4>4. QED BY <4>2, <4>3
    <3>3. QED BY <3>1, <3>2
  <2>2. \A k \in Lanes : \A i, j \in 1..Len(jobs'[k]) : jobs'[k][i] = jobs'[k][j] => i = j
    <3> SUFFICES ASSUME NEW k \in Lanes
                 PROVE  \A i, j \in 1..Len(jobs'[k]) : jobs'[k][i] = jobs'[k][j] => i = j
      OBVIOUS
    <3>1. CASE k = l
      BY <1>9, <1>10, <3>1
    <3>2. CASE k # l
      BY <1>10, <3>2 DEF IInv, JobsInv
    <3>3. QED BY <3>1, <3>2
  <2>3. QED BY <1>10, <2>1, <2>2 DEF JobsInv, At
<1>12. \A d \in Tcp : At(d, {"queued"})' <=> d \in Range(jobs'[conn'[d].lane])
  <2> SUFFICES ASSUME NEW d \in Tcp
               PROVE  At(d, {"queued"})' <=> d \in Range(jobs'[conn'[d].lane])
    OBVIOUS
  <2>1. CASE d = c
    BY <1>3, <1>6, <1>9, <1>10, <2>1 DEF At
  <2>2. CASE d # c
    <3>1. d \in Conns /\ conn'[d] = conn[d] /\ conn[d].lane \in Lanes
      BY <1>2, <1>6, <2>2, Families DEF ConnRecord
    <3>2. d \in Range(jobs'[conn[d].lane]) <=> d \in Range(jobs[conn[d].lane])
      BY <1>9, <1>10, <2>2, <3>1
    <3>3. QED BY <3>1, <3>2 DEF IInv, TypeOK, At
  <2>3. QED BY <2>1, <2>2
<1>13. GaugeInv' /\ gauge' \in Nat
  <2>1. ~Guarded(c) /\ Guarded(c)'
    BY <1>2, <1>3, <1>6 DEF Guarded, At
  <2>2. gauge' = gauge + One(Guarded(c)') - One(Guarded(c))
    BY <2>1, GaugeType DEF One
  <2>3. QED BY <1>2, <1>6, <2>2, GaugeFollows DEF IInv
<1>14. TypeOK'
  BY <1>1, <1>6, <1>12, <1>13 DEF IInv, TypeOK, ConnRecord
<1>15. PlaceInv'
  BY <1>2, <1>3, <1>6 DEF IInv, PlaceInv, At, Kinds
<1>16. DrainInv'
  <2>1. phase = "serving" /\ \A k \in Lanes : lane[k] = "open" /\ ~Over(lane[k])
    BY DEF Accepting, IInv, DrainInv, Over
  <2>2. Over(endpoint) => H3Open' = {}
    BY <1>2, <1>6, Families DEF IInv, DrainInv, H3Open, At
  <2>3. admin = "drained" => AdminOpen' = {}
    BY <2>1 DEF IInv, DrainInv
  <2>4. QED BY <2>1, <2>2, <2>3 DEF IInv, DrainInv, Accepting
<1>17. CutInv'
  BY <1>3, <1>6 DEF IInv, CutInv, At
<1>18. QED BY <1>11, <1>13, <1>14, <1>15, <1>16, <1>17 DEF IInv

\* A connection is accepted, or cannot leave the runtime and is dropped.
LEMMA AcceptKeeps ==
    ASSUME IInv, NEW c \in Conns, Accept(c)
    PROVE  IInv'
<1>1. /\ At(c, {"out"}) /\ c \in Tcp /\ ~Guarded(c)
      /\ ~At(c, {"waiting", "queued"}) /\ At(c, {"out", "waiting"})
  BY DEF Accept, Tcp, Of, At, Guarded
<1>2. CASE Leave(c) /\ UNCHANGED <<jobs, next, gauge>>
  BY <1>1, <1>2, Leaves DEF Accept
<1>3. CASE Send(c) /\ gauge' = gauge + 1
  <2>1. \A d \in Conns : At(d, {"waiting"})' <=> At(d, {"waiting"})
    <3>1. \A d \in Conns \ {c} : conn'[d] = conn[d]
      BY <1>3 DEF Send, IInv, TypeOK
    <3>2. conn'[c].at = "queued"
      BY <1>3 DEF Send, IInv, TypeOK
    <3>3. QED BY <1>1, <3>1, <3>2 DEF At
  <2>2. HandoffInv'
    <3>1. \A i \in 1..Len(handoffs) : handoffs[i] \in Conns
      BY Families, ElementOfSeq DEF IInv, HandoffInv
    <3>2. QED BY <2>1, <3>1 DEF Accept, IInv, HandoffInv
  <2>3. QED
    BY <1>1, <1>3, <2>1, <2>2, Sends DEF Accept, IInv, TypeOK
<1>4. QED BY <1>2, <1>3 DEF Accept

\* The accept loop takes a connection from the channel of the other engine.
LEMMA TakeHandoffKeeps ==
    ASSUME IInv, TakeHandoff
    PROVE  IInv'
<1> DEFINE c == Head(handoffs)
<1>1. /\ c \in Handed /\ c = handoffs[1] /\ 1 \in 1..Len(handoffs)
      /\ handoffs' \in Seq(Handed) /\ Len(handoffs') = Len(handoffs) - 1
      /\ \A i \in 1..Len(handoffs') : /\ i + 1 \in 1..Len(handoffs)
                                      /\ handoffs'[i] = handoffs[i + 1] /\ handoffs'[i] # c
      /\ \A i, j \in 1..Len(handoffs') : handoffs'[i] = handoffs'[j] => i = j
      /\ Range(handoffs') = Range(handoffs) \ {c}
  BY Parts DEF TakeHandoff, IInv, HandoffInv
<1> HIDE DEF c
<1>2. c \in Tcp /\ c \in Conns /\ At(c, {"waiting"}) /\ At(c, {"out", "waiting"}) /\ Send(c)
  BY <1>1, Families DEF TakeHandoff, IInv, HandoffInv, c, At
<1>3. /\ \A d \in Conns \ {c} : conn'[d] = conn[d]
      /\ conn'[c].at = "queued"
  BY <1>2 DEF Send, IInv, TypeOK
<1>4. \A d \in Conns : At(d, {"waiting"})' <=> d \in Range(handoffs')
  BY <1>1, <1>3 DEF IInv, TypeOK, At
<1>5. HandoffInv'
  <2>1. \A i \in 1..Len(handoffs') : handoffs'[i] \in Conns \ {c}
    BY <1>1, Families, ElementOfSeq
  <2>2. \A i \in 1..Len(handoffs') : conn'[handoffs'[i]].at = "waiting"
    BY <1>1, <1>3, <2>1 DEF IInv, HandoffInv, At
  <2>3. QED BY <1>1, <2>2 DEF HandoffInv, At
<1>6. Len(handoffs') <= HandoffDepth
  BY <1>1, LenProperties, ServingAssumption DEF IInv, TypeOK, HandoffInv
<1>7. QED
  BY <1>2, <1>4, <1>5, <1>6, Sends DEF TakeHandoff

\* The other engine hands a connection over, or is refused.
LEMMA HandOverKeeps ==
    ASSUME IInv, NEW c \in Conns, HandOver(c)
    PROVE  IInv'
<1>1. /\ c \in Handed /\ c \in Tcp /\ c \notin H3 /\ c \notin Admin /\ ~Guarded(c)
      /\ ~At(c, {"waiting"}) /\ ~At(c, {"queued"}) /\ ~At(c, {"waiting", "queued"})
  BY Families DEF HandOver, Handed, At, Guarded
<1>2. CASE Leave(c) /\ UNCHANGED handoffs
  BY <1>1, <1>2, Leaves DEF HandOver
<1>3. CASE /\ Len(handoffs) < HandoffDepth
           /\ handoffs' = Append(handoffs, c)
           /\ Place(c, "waiting")
  <2> DEFINE new == [conn[c] EXCEPT !.at = "waiting"]
  <2>1. conn \in [Conns -> ConnRecord]
    BY DEF IInv, TypeOK, ConnRecord
  <2>2. new \in ConnRecord /\ new.at = "waiting" /\ new.lane = conn[c].lane /\ new.reqs = conn[c].reqs
    <3>1. "waiting" \in Kinds
      BY DEF Kinds
    <3>2. QED BY <2>1, <3>1 DEF ConnRecord
  <2>3. conn' = [conn EXCEPT ![c] = new]
    BY <1>3, <2>1 DEF Place
  <2> HIDE DEF new
  <2>4. /\ conn' \in [Conns -> ConnRecord] /\ conn'[c] = new
        /\ \A d \in Conns \ {c} : conn'[d] = conn[d]
        /\ \A d \in Conns : conn'[d].lane = conn[d].lane
    BY <2>1, <2>2, <2>3
  <2>5. \A i \in 1..Len(handoffs) : handoffs[i] \in Conns \ {c}
    BY <1>1, Families, ElementOfSeq DEF IInv, HandoffInv, At
  <2>6. /\ handoffs' \in Seq(Handed) /\ Len(handoffs') = Len(handoffs) + 1
        /\ \A i \in 1..Len(handoffs') : handoffs'[i] = IF i <= Len(handoffs) THEN handoffs[i] ELSE c
        /\ \A i, j \in 1..Len(handoffs') : handoffs'[i] = handoffs'[j] => i = j
        /\ Range(handoffs') = Range(handoffs) \cup {c}
        /\ Len(handoffs) \in Nat
    BY <1>1, <1>3, <2>5, Joins, LenProperties DEF IInv, HandoffInv
  <2>7. HandoffInv'
    <3>1. \A i \in 1..Len(handoffs') : conn'[handoffs'[i]].at = "waiting"
      <4> SUFFICES ASSUME NEW i \in 1..Len(handoffs') PROVE conn'[handoffs'[i]].at = "waiting"
        OBVIOUS
      <4>1. CASE i <= Len(handoffs)
        <5>1. i \in 1..Len(handoffs) /\ handoffs'[i] = handoffs[i]
          BY <2>6, <4>1
        <5>2. QED BY <2>4, <2>5, <5>1 DEF IInv, HandoffInv, At
      <4>2. CASE ~(i <= Len(handoffs))
        BY <2>2, <2>4, <2>6, <4>2
      <4>3. QED BY <4>1, <4>2
    <3>2. QED BY <2>6, <3>1 DEF HandoffInv, At
  <2>8. \A d \in Conns : At(d, {"waiting"})' <=> d \in Range(handoffs')
    BY <2>2, <2>4, <2>6 DEF IInv, TypeOK, At
  <2>9. \A d \in Conns : At(d, {"queued"})' <=> At(d, {"queued"})
    BY <1>1, <2>2, <2>4 DEF At
  <2>10. JobsInv'
    <3>1. \A l \in Lanes : \A i \in 1..Len(jobs[l]) : jobs[l][i] \in Conns
      BY Families, ElementOfSeq DEF IInv, JobsInv
    <3>2. QED BY <2>4, <2>9, <3>1 DEF HandOver, IInv, JobsInv
  <2>11. GaugeInv' /\ gauge' \in Nat
    <3>1. ~Guarded(c)'
      BY <2>2, <2>4 DEF Guarded, At
    <3>2. gauge' = gauge + One(Guarded(c)') - One(Guarded(c))
      BY <1>1, <3>1, GaugeType DEF HandOver, One
    <3>3. QED BY <2>4, <3>2, GaugeFollows DEF IInv
  <2>12. TypeOK'
    <3>1. Len(handoffs') <= HandoffDepth
      BY <1>3, <2>6, ServingAssumption
    <3>2. \A d \in Tcp : At(d, {"queued"})' <=> d \in Range(jobs'[conn'[d].lane])
      BY <2>4, <2>9, Families DEF HandOver, IInv, TypeOK
    <3>3. QED BY <2>4, <2>8, <2>11, <3>1, <3>2 DEF HandOver, IInv, TypeOK, ConnRecord
  <2>13. PlaceInv'
    BY <1>1, <2>2, <2>4 DEF HandOver, IInv, PlaceInv, At, Kinds
  <2>14. DrainInv'
    <3>1. \A l \in Lanes : Over(lane[l]) => OnLane(l)' = {}
      BY <2>2, <2>4, Families DEF IInv, DrainInv, OnLane, At, Alive
    <3>2. Over(endpoint) => H3Open' = {}
      BY <1>1, <2>4, Families DEF IInv, DrainInv, H3Open, At
    <3>3. admin = "drained" => AdminOpen' = {}
      BY <1>1, <2>4, Families DEF IInv, DrainInv, AdminOpen, At, Admin, Of
    <3>4. QED BY <3>1, <3>2, <3>3 DEF HandOver, IInv, DrainInv
  <2>15. CutInv'
    BY <2>2, <2>4 DEF HandOver, IInv, CutInv, At
  <2>16. QED BY <2>7, <2>10, <2>11, <2>12, <2>13, <2>14, <2>15 DEF IInv
<1>4. QED BY <1>2, <1>3 DEF HandOver

\* A lane picks up the head of its queue.
LEMMA LanePickKeeps ==
    ASSUME IInv, NEW l \in Lanes, LanePick(l)
    PROVE  IInv'
<1>0. PICK c, t : c = Head(jobs[l]) /\ t = Tail(jobs[l])
  OBVIOUS
<1>1. /\ c \in Tcp /\ c = jobs[l][1] /\ 1 \in 1..Len(jobs[l])
      /\ t \in Seq(Tcp) /\ Len(t) = Len(jobs[l]) - 1
      /\ \A i \in 1..Len(t) : i + 1 \in 1..Len(jobs[l]) /\ t[i] = jobs[l][i + 1] /\ t[i] # c
      /\ \A i, j \in 1..Len(t) : t[i] = t[j] => i = j
      /\ Range(t) = Range(jobs[l]) \ {c}
  <2>1. jobs[l] \in Seq(Tcp) /\ jobs[l] # <<>>
        /\ \A i, j \in 1..Len(jobs[l]) : jobs[l][i] = jobs[l][j] => i = j
    BY DEF LanePick, IInv, JobsInv
  <2>2. QED BY <1>0, <2>1, Parts
<1>2. c \in Conns /\ c \notin H3 /\ c \notin Admin /\ conn[c].at = "queued" /\ conn[c].lane = l
  BY <1>1, Families DEF IInv, JobsInv, At
<1>3. jobs \in [Lanes -> Seq(Tcp)] /\ jobs' = [jobs EXCEPT ![l] = t]
  BY <1>0 DEF LanePick, IInv, JobsInv
<1>4. jobs' \in [Lanes -> Seq(Tcp)] /\ jobs'[l] = t /\ \A k \in Lanes \ {l} : jobs'[k] = jobs[k]
  BY <1>1, <1>3
<1>5. /\ conn \in [Conns -> ConnRecord]
      /\ conn[c] \in ConnRecord /\ conn[c].reqs = 0
  BY <1>2 DEF IInv, TypeOK, ConnRecord, PlaceInv
<1>6. Guarded(c) /\ c \in Tcp
  BY <1>1, <1>2 DEF Guarded, At
<1>7. PICK x \in {"tls", "preface", "open", "closed"} :
         /\ conn' = [conn EXCEPT ![c] = [conn[c] EXCEPT !.at = x, !.reqs = 0]]
         /\ gauge' = IF x = "closed" THEN gauge - 1 ELSE gauge
  <2>1. CASE Leave(c) /\ gauge' = gauge - 1
    BY <1>5, <2>1 DEF Leave
  <2>2. CASE Place(c, FirstPlace(c)) /\ UNCHANGED gauge
    <3>1. FirstPlace(c) \in {"tls", "preface", "open"}
      BY DEF FirstPlace
    <3>2. [conn[c] EXCEPT !.at = FirstPlace(c)] = [conn[c] EXCEPT !.at = FirstPlace(c), !.reqs = 0]
      BY <1>5 DEF ConnRecord
    <3>3. conn' = [conn EXCEPT ![c] = [conn[c] EXCEPT !.at = FirstPlace(c), !.reqs = 0]]
      BY <1>5, <2>2, <3>2 DEF Place
    <3>4. QED BY <2>2, <3>1, <3>3
  <2>3. QED BY <1>0, <2>1, <2>2 DEF LanePick
<1> DEFINE new == [conn[c] EXCEPT !.at = x, !.reqs = 0]
<1>8. new \in ConnRecord /\ new.at = x /\ new.lane = l /\ new.reqs = 0
  <2>1. x \in Kinds /\ 0 \in 0..MaxStreams
    BY <1>7, ServingAssumption DEF Kinds
  <2>2. QED BY <1>2, <1>5, <2>1 DEF ConnRecord
<1> HIDE DEF new
<1>9. /\ conn' \in [Conns -> ConnRecord] /\ conn'[c] = new
      /\ \A d \in Conns \ {c} : conn'[d] = conn[d]
      /\ \A d \in Conns : conn'[d].lane = conn[d].lane
  BY <1>2, <1>5, <1>7, <1>8 DEF new
<1>10. \A d \in Conns : At(d, {"waiting"})' <=> At(d, {"waiting"})
  BY <1>2, <1>7, <1>8, <1>9 DEF At
<1>11. HandoffInv'
  <2>1. \A i \in 1..Len(handoffs) : handoffs[i] \in Conns
    BY Families, ElementOfSeq DEF IInv, HandoffInv
  <2>2. QED BY <1>10, <2>1 DEF LanePick, IInv, HandoffInv
<1>12. JobsInv'
  <2>1. \A k \in Lanes : \A i \in 1..Len(jobs'[k]) :
           jobs'[k][i] \in Conns \ {c} /\ conn[jobs'[k][i]].at = "queued" /\ conn[jobs'[k][i]].lane = k
    <3> SUFFICES ASSUME NEW k \in Lanes, NEW i \in 1..Len(jobs'[k])
                 PROVE  /\ jobs'[k][i] \in Conns \ {c}
                        /\ conn[jobs'[k][i]].at = "queued" /\ conn[jobs'[k][i]].lane = k
      OBVIOUS
    <3>1. CASE k # l
      <4>1. i \in 1..Len(jobs[k]) /\ jobs'[k][i] = jobs[k][i] /\ jobs[k][i] \in Conns
        BY <1>3, <1>4, <3>1, Families, ElementOfSeq
      <4>2. QED BY <1>2, <3>1, <4>1 DEF IInv, JobsInv, At
    <3>2. CASE k = l
      <4>1. i + 1 \in 1..Len(jobs[l]) /\ jobs'[k][i] = jobs[l][i + 1] /\ jobs'[k][i] # c
        BY <1>1, <1>4, <3>2
      <4>2. jobs[l][i + 1] \in Conns
        BY <1>3, <4>1, Families, ElementOfSeq
      <4>3. QED BY <3>2, <4>1, <4>2 DEF IInv, JobsInv, At
    <3>3. QED BY <3>1, <3>2
  <2>2. \A k \in Lanes : \A i, j \in 1..Len(jobs'[k]) : jobs'[k][i] = jobs'[k][j] => i = j
    <3> SUFFICES ASSUME NEW k \in Lanes
                 PROVE  \A i, j \in 1..Len(jobs'[k]) : jobs'[k][i] = jobs'[k][j] => i = j
      OBVIOUS
    <3>1. CASE k = l
      BY <1>1, <1>4, <3>1
    <3>2. CASE k # l
      BY <1>4, <3>2 DEF IInv, JobsInv
    <3>3. QED BY <3>1, <3>2
  <2>3. \A k \in Lanes : \A i \in 1..Len(jobs'[k]) :
           conn'[jobs'[k][i]].at \in {"queued"} /\ conn'[jobs'[k][i]].lane = k
    BY <1>9, <2>1
  <2>4. QED BY <1>4, <2>2, <2>3 DEF JobsInv, At
<1>13. \A d \in Tcp : At(d, {"queued"})' <=> d \in Range(jobs'[conn'[d].lane])
  <2> SUFFICES ASSUME NEW d \in Tcp
               PROVE  At(d, {"queued"})' <=> d \in Range(jobs'[conn'[d].lane])
    OBVIOUS
  <2>1. CASE d = c
    <3>1. conn'[d].at # "queued" /\ conn'[d].lane = l
      BY <1>7, <1>8, <1>9, <2>1
    <3>2. d \notin Range(jobs'[l])
      BY <1>1, <1>4, <2>1
    <3>3. QED BY <3>1, <3>2 DEF At
  <2>2. CASE d # c
    <3>1. d \in Conns /\ conn'[d] = conn[d] /\ conn[d].lane \in Lanes
      BY <1>5, <1>9, <2>2, Families DEF ConnRecord
    <3>2. d \in Range(jobs'[conn[d].lane]) <=> d \in Range(jobs[conn[d].lane])
      BY <1>1, <1>4, <2>2, <3>1
    <3>3. QED BY <3>1, <3>2 DEF IInv, TypeOK, At
  <2>3. QED BY <2>1, <2>2
<1>14. GaugeInv' /\ gauge' \in Nat
  <2>1. Guarded(c)' <=> x # "closed"
    BY <1>2, <1>7, <1>8, <1>9 DEF Guarded, At
  <2>2. gauge' = gauge + One(Guarded(c)') - One(Guarded(c))
    BY <1>6, <1>7, <2>1, GaugeType DEF One
  <2>3. QED BY <1>2, <1>9, <2>2, GaugeFollows DEF IInv
<1>15. TypeOK'
  BY <1>9, <1>10, <1>13, <1>14 DEF LanePick, IInv, TypeOK, ConnRecord
<1>16. PlaceInv'
  BY <1>2, <1>7, <1>8, <1>9 DEF IInv, PlaceInv, At, Kinds
<1>17. DrainInv'
  <2>1. ~Over(lane[l]) /\ lane[l] = "open"
    BY <1>1 DEF LanePick, Gone, Over, IInv, DrainInv
  <2>2. \A k \in Lanes : Over(lane[k]) => OnLane(k)' = {}
    BY <1>2, <1>8, <1>9, <2>1, Families DEF IInv, DrainInv, OnLane, At
  <2>3. Over(endpoint) => H3Open' = {}
    BY <1>2, <1>9, Families DEF IInv, DrainInv, H3Open, At
  <2>4. admin = "drained" => AdminOpen' = {}
    BY <1>2, <1>9, Families DEF IInv, DrainInv, AdminOpen, At, Admin, Of
  <2>5. \A k \in Lanes : lane[k] # "open" => jobs'[k] = <<>>
    BY <1>4, <2>1 DEF IInv, DrainInv
  <2>6. QED BY <2>2, <2>3, <2>4, <2>5 DEF LanePick, IInv, DrainInv
<1>18. CutInv'
  BY <1>7, <1>8, <1>9 DEF LanePick, IInv, CutInv, At
<1>19. QED BY <1>11, <1>12, <1>14, <1>15, <1>16, <1>17, <1>18 DEF IInv

-----------------------------------------------------------------------------
(* The steps of the shutdown.                                              *)

\* A step that moves no connection keeps whatever speaks of connections.
LEMMA StaysPut ==
    ASSUME IInv, UNCHANGED <<conn, handoffs, jobs, next, gauge>>,
           signal' \in BOOLEAN, phase' \in {"serving", "draining", "returned"},
           result' \in {"none", "ok", "timedout"},
           lane' \in [Lanes -> Drain], admin' \in Drain, endpoint' \in Drain,
           DrainInv', CutInv'
    PROVE  IInv'
<1>1. TypeOK'
  BY DEF IInv, TypeOK, At
<1>2. PlaceInv'
  BY DEF IInv, PlaceInv, At
<1>3. HandoffInv' /\ JobsInv'
  BY DEF IInv, HandoffInv, JobsInv, At
<1>4. Holding' = Holding
  BY DEF Holding, Guarded, At
<1>5. GaugeInv'
  BY <1>4 DEF IInv, GaugeInv
<1>6. QED BY <1>1, <1>2, <1>3, <1>5 DEF IInv

\* Asking for the shutdown, or nothing.
LEMMA SignalKeeps ==
    ASSUME IInv, Signal \/ UNCHANGED vars
    PROVE  IInv'
<1>1. /\ UNCHANGED <<phase, result, conn, handoffs, jobs, next, lane, admin, endpoint, gauge>>
      /\ signal' = signal \/ signal' = TRUE
  BY DEF Signal, vars
<1>2. DrainInv'
  <2>1. signal => signal'
    BY <1>1
  <2>2. QED
    BY <1>1, <2>1 DEF IInv, DrainInv, OnLane, H3Open, AdminOpen, At
<1>3. CutInv'
  BY <1>1 DEF IInv, CutInv, At
<1>4. QED BY <1>1, <1>2, <1>3, StaysPut DEF IInv, TypeOK

\* The accept loop ends.
LEMMA BreakKeeps ==
    ASSUME IInv, Break
    PROVE  IInv'
<1>1. \A l \in Lanes : OnLane(l)' = OnLane(l)
  BY DEF Break, OnLane, At
<1>2. H3Open' = H3Open
  BY DEF Break, H3Open, At
<1>3. DrainInv'
  BY <1>1, <1>2 DEF Break, IInv, DrainInv, Over
<1>4. result = "none" /\ result \in {"none", "ok", "timedout"}
  BY DEF Break, IInv, CutInv, TypeOK
<1>5. CutInv'
  BY <1>4 DEF Break, IInv, CutInv, At
<1>6. QED BY <1>3, <1>5, StaysPut DEF Break, IInv, TypeOK, Drain

\* A closed lane has served its queue.
LEMMA LaneGracefulKeeps ==
    ASSUME IInv, NEW l \in Lanes, LaneGraceful(l)
    PROVE  IInv'
<1>1. \A k \in Lanes : OnLane(k)' = OnLane(k)
  BY DEF LaneGraceful, OnLane, At
<1>2. H3Open' = H3Open /\ AdminOpen' = AdminOpen
  BY DEF LaneGraceful, H3Open, AdminOpen, At
<1>3. /\ lane' \in [Lanes -> Drain] /\ lane'[l] = "graceful"
      /\ \A k \in Lanes \ {l} : lane'[k] = lane[k]
  BY DEF LaneGraceful, IInv, TypeOK, Drain
<1>4. phase # "returned"
  BY DEF LaneGraceful, IInv, DrainInv, Over
<1>5. DrainInv'
  BY <1>1, <1>2, <1>3, <1>4 DEF LaneGraceful, IInv, DrainInv, Over
<1>6. CutInv'
  <2>1. result = "none"
    BY <1>4 DEF IInv, CutInv
  <2>2. \A c \in Conns : conn[c].lane \in Lanes
    BY DEF IInv, TypeOK
  <2>3. \A c \in Conns : lane[conn[c].lane] = "expired" => lane'[conn[c].lane] = "expired"
    BY <1>3, <2>2 DEF LaneGraceful
  <2>4. QED BY <2>1, <2>3 DEF LaneGraceful, IInv, CutInv, At
<1>7. QED BY <1>3, <1>5, <1>6, StaysPut DEF LaneGraceful, IInv, TypeOK

\* The HTTP/3 endpoint sees the signal.
LEMMA EndpointBreakKeeps ==
    ASSUME IInv, EndpointBreak
    PROVE  IInv'
<1>1. \A k \in Lanes : OnLane(k)' = OnLane(k)
  BY DEF EndpointBreak, OnLane, At
<1>2. AdminOpen' = AdminOpen
  BY DEF EndpointBreak, AdminOpen, At
<1>3. phase # "returned"
  BY DEF EndpointBreak, IInv, DrainInv, Over
<1>4. DrainInv'
  BY <1>1, <1>2, <1>3 DEF EndpointBreak, IInv, DrainInv, Over
<1>5. CutInv'
  BY <1>3 DEF EndpointBreak, IInv, CutInv, At
<1>6. QED BY <1>4, <1>5, StaysPut DEF EndpointBreak, IInv, TypeOK, Drain

\* The admin drain ends.
LEMMA AdminEndsKeeps ==
    ASSUME IInv, AdminEnds
    PROVE  IInv'
<1>1. \A k \in Lanes : OnLane(k)' = OnLane(k)
  BY DEF AdminEnds, OnLane, At
<1>2. AdminOpen' = AdminOpen /\ H3Open' = H3Open
  BY DEF AdminEnds, AdminOpen, H3Open, At
<1>3. admin' \in {"drained", "expired"}
  BY DEF AdminEnds
<1>4. DrainInv'
  BY <1>1, <1>2, <1>3 DEF AdminEnds, IInv, DrainInv
<1>5. CutInv'
  BY DEF AdminEnds, IInv, CutInv, AllDrained, At
<1>6. QED BY <1>3, <1>4, <1>5, StaysPut DEF AdminEnds, IInv, TypeOK, Drain

\* Dropping a runtime, or closing the endpoint, takes the guards of what it
\* aborts and leaves the rest alone.
LEMMA Aborts ==
    ASSUME IInv, NEW cs \in SUBSET Conns, conn' = Aborted(cs),
           \A c \in cs : c \notin Admin /\ At(c, Alive \cup {"tunnel"}),
           gauge' = gauge - Cardinality(Holding \cap cs),
           UNCHANGED <<signal, phase, result, handoffs, jobs, next>>,
           lane' \in [Lanes -> Drain], admin' \in Drain, endpoint' \in Drain,
           DrainInv', CutInv'
    PROVE  IInv'
<1>1. conn \in [Conns -> ConnRecord]
  BY DEF IInv, TypeOK, ConnRecord
<1>2. \A c \in cs : /\ conn'[c] \in ConnRecord /\ conn'[c].at \in {"cut", "closed"}
                    /\ conn'[c].lane = conn[c].lane /\ conn'[c].reqs = 0
  <2> SUFFICES ASSUME NEW c \in cs
               PROVE  /\ conn'[c] \in ConnRecord /\ conn'[c].at \in {"cut", "closed"}
                      /\ conn'[c].lane = conn[c].lane /\ conn'[c].reqs = 0
    OBVIOUS
  <2> DEFINE a == IF conn[c].reqs > 0 THEN "cut" ELSE "closed"
  <2>1. a \in Kinds /\ a \in {"cut", "closed"} /\ 0 \in 0..MaxStreams
    BY ServingAssumption DEF Kinds
  <2>2. conn'[c] = [conn[c] EXCEPT !.at = a, !.reqs = 0]
    BY DEF Aborted
  <2> HIDE DEF a
  <2>3. QED BY <1>1, <2>1, <2>2 DEF ConnRecord
<1>3. \A c \in Conns \ cs : conn'[c] = conn[c]
  BY DEF Aborted
<1>4. conn' \in [Conns -> ConnRecord]
  <2>1. \A c \in Conns : conn'[c] \in ConnRecord
    BY <1>1, <1>2, <1>3
  <2>2. conn' = [c \in Conns |-> conn'[c]]
    BY DEF Aborted
  <2>3. QED BY <2>1, <2>2
<1>5. /\ \A c \in Conns : conn'[c].lane = conn[c].lane
      /\ \A c \in Conns : /\ At(c, {"waiting"})' <=> At(c, {"waiting"})
                          /\ At(c, {"queued"})' <=> At(c, {"queued"})
  <2> SUFFICES ASSUME NEW c \in Conns
               PROVE  /\ conn'[c].lane = conn[c].lane
                      /\ At(c, {"waiting"})' <=> At(c, {"waiting"})
                      /\ At(c, {"queued"})' <=> At(c, {"queued"})
    OBVIOUS
  <2>1. CASE c \in cs
    <3>1. conn[c].at \notin {"waiting", "queued"} /\ conn'[c].at \notin {"waiting", "queued"}
      BY <1>2, <2>1 DEF At, Alive
    <3>2. QED BY <1>2, <2>1, <3>1 DEF At
  <2>2. CASE c \notin cs
    BY <1>3, <2>2 DEF At
  <2>3. QED BY <2>1, <2>2
<1>6. GaugeInv' /\ gauge' \in Nat
  <2>1. Holding' = Holding \ cs
    BY <1>2, <1>3 DEF Holding, Guarded, At
  <2>2. /\ IsFiniteSet(Holding \ cs)
        /\ Cardinality(Holding \ cs) = gauge - Cardinality(Holding \cap cs)
    BY FS_Difference DEF IInv, GaugeInv
  <2>3. QED BY <2>1, <2>2, FS_CardinalityType DEF GaugeInv
<1>7. TypeOK'
  BY <1>4, <1>5, <1>6, Families DEF IInv, TypeOK, ConnRecord
<1>8. PlaceInv'
  BY <1>2, <1>3, Families DEF IInv, PlaceInv, At, Kinds
<1>9. HandoffInv'
  <2>1. \A i \in 1..Len(handoffs) : handoffs[i] \in Conns
    BY Families, ElementOfSeq DEF IInv, HandoffInv
  <2>2. QED BY <1>5, <2>1 DEF IInv, HandoffInv
<1>10. JobsInv'
  <2>1. \A l \in Lanes : \A i \in 1..Len(jobs[l]) : jobs[l][i] \in Conns
    BY Families, ElementOfSeq DEF IInv, JobsInv
  <2>2. QED BY <1>5, <2>1 DEF IInv, JobsInv
<1>11. QED BY <1>6, <1>7, <1>8, <1>9, <1>10 DEF IInv

\* A lane's drain ends, of itself or by its timer.
LEMMA LaneEndsKeeps ==
    ASSUME IInv, NEW l \in Lanes, LaneEnds(l)
    PROVE  IInv'
<1> DEFINE cs == OnLane(l) \cup {c \in Tcp : conn[c].lane = l /\ At(c, {"tunnel"})}
<1>1. /\ cs \in SUBSET Conns
      /\ \A c \in cs : /\ c \in Tcp /\ c \notin Admin /\ conn[c].lane = l
                        /\ At(c, Alive \cup {"tunnel"})
  BY Families DEF OnLane, At
<1>2. Holding \cap cs = OnLane(l)
  <2>1. \A c \in OnLane(l) : c \in Conns /\ Guarded(c)
    BY Families DEF OnLane, Guarded, At, Alive, IInv, PlaceInv
  <2>2. \A c \in cs : Guarded(c) => c \in OnLane(l)
    BY DEF OnLane, Guarded, At
  <2>3. QED BY <2>1, <2>2 DEF Holding
<1>3. conn' = Aborted(cs)
  BY DEF LaneEnds
<1>4. \A c \in Conns \ cs : conn'[c] = conn[c]
  BY <1>3 DEF Aborted
<1>5. \A c \in cs : /\ conn'[c].at \in {"cut", "closed"} /\ conn'[c].lane = l
                    /\ conn'[c].at = "cut" => c \in OnLane(l)
  <2> SUFFICES ASSUME NEW c \in cs
               PROVE  /\ conn'[c].at \in {"cut", "closed"} /\ conn'[c].lane = l
                      /\ conn'[c].at = "cut" => c \in OnLane(l)
    OBVIOUS
  <2>1. c \in Conns /\ conn[c] \in ConnRecord
    BY <1>1 DEF IInv, TypeOK, ConnRecord
  <2>2. conn'[c] = [conn[c] EXCEPT !.at = IF conn[c].reqs > 0 THEN "cut" ELSE "closed", !.reqs = 0]
    BY <1>3, <2>1 DEF Aborted
  <2>3. conn[c].reqs > 0 => conn[c].at = "open"
    BY <2>1 DEF IInv, PlaceInv, ConnRecord
  <2>4. QED BY <1>1, <2>1, <2>2, <2>3 DEF ConnRecord, OnLane, At, Alive
<1>6. /\ lane' \in [Lanes -> Drain]
      /\ lane'[l] = (IF OnLane(l) = {} THEN "drained" ELSE "expired")
      /\ \A k \in Lanes \ {l} : lane'[k] = lane[k]
  BY DEF LaneEnds, IInv, TypeOK, Drain
<1> HIDE DEF cs
<1>7. phase # "returned" /\ phase # "serving" /\ jobs[l] = <<>> /\ result = "none"
  BY DEF LaneEnds, IInv, DrainInv, CutInv, Over
<1>8. \A c \in Conns : conn[c].lane \in Lanes
  BY DEF IInv, TypeOK
<1>9. DrainInv'
  <2>1. OnLane(l)' = {}
    <3> SUFFICES ASSUME NEW c \in OnLane(l)' PROVE FALSE
      OBVIOUS
    <3>1. c \in Tcp /\ c \in Conns /\ conn'[c].lane = l /\ conn'[c].at \in Alive
      BY Families DEF OnLane, At
    <3>2. c \notin cs
      BY <1>5, <3>1 DEF Alive
    <3>3. c \in OnLane(l)
      BY <1>4, <3>1, <3>2 DEF OnLane, At
    <3>4. QED BY <3>2, <3>3 DEF cs
  <2>2. \A k \in Lanes \ {l} : OnLane(k)' \subseteq OnLane(k)
    BY <1>4, <1>5, Families DEF OnLane, At
  <2>3. H3Open' = H3Open /\ AdminOpen' = AdminOpen
    BY <1>1, <1>4, Families DEF H3Open, AdminOpen, At, Admin, Of
  <2>4. QED
    BY <1>6, <1>7, <2>1, <2>2, <2>3 DEF LaneEnds, IInv, DrainInv
<1>10. CutInv'
  <2>1. \A c \in cs : conn'[c].at = "cut" => c \in Tcp /\ lane'[conn'[c].lane] = "expired"
    BY <1>1, <1>5, <1>6
  <2>2. \A c \in Conns \ cs : lane[conn[c].lane] = "expired" => lane'[conn'[c].lane] = "expired"
    BY <1>4, <1>6, <1>8 DEF LaneEnds
  <2>3. QED BY <1>1, <1>4, <1>7, <2>1, <2>2 DEF LaneEnds, IInv, CutInv, At
<1>11. QED BY <1>1, <1>2, <1>3, <1>6, <1>9, <1>10, Aborts DEF LaneEnds, IInv, TypeOK

\* The endpoint's drain ends, and the endpoint is closed.
LEMMA EndpointEndsKeeps ==
    ASSUME IInv, EndpointEnds
    PROVE  IInv'
<1> DEFINE cs == H3Open
<1>1. /\ cs \in SUBSET Conns
      /\ \A c \in cs : c \in H3 /\ c \notin Admin /\ c \notin Tcp /\ At(c, Alive \cup {"tunnel"})
  BY Families DEF H3Open, At
<1>2. Holding \cap cs = {c \in H3Open : Guarded(c)}
  BY <1>1 DEF Holding
<1>3. conn' = Aborted(cs)
  BY DEF EndpointEnds
<1>4. \A c \in Conns \ cs : conn'[c] = conn[c]
  BY <1>3 DEF Aborted
<1>5. \A c \in cs : conn'[c].at \in {"cut", "closed"}
  <2> SUFFICES ASSUME NEW c \in cs PROVE conn'[c].at \in {"cut", "closed"}
    OBVIOUS
  <2>1. c \in Conns /\ conn[c] \in ConnRecord
    BY <1>1 DEF IInv, TypeOK, ConnRecord
  <2>2. conn'[c] = [conn[c] EXCEPT !.at = IF conn[c].reqs > 0 THEN "cut" ELSE "closed", !.reqs = 0]
    BY <1>3, <2>1 DEF Aborted
  <2>3. QED BY <2>1, <2>2 DEF ConnRecord
<1>6. endpoint' = (IF cs = {} THEN "drained" ELSE "expired")
  BY DEF EndpointEnds
<1> HIDE DEF cs
<1>7. phase # "returned" /\ result = "none" /\ signal
  BY DEF EndpointEnds, IInv, DrainInv, CutInv, Over
<1>8. DrainInv'
  <2>1. H3Open' = {}
    BY <1>4, <1>5, Families DEF H3Open, At, cs, Alive
  <2>2. \A k \in Lanes : OnLane(k)' = OnLane(k)
    BY <1>1, <1>4, Families DEF OnLane, At
  <2>3. AdminOpen' = AdminOpen
    BY <1>1, <1>4, Families DEF AdminOpen, At, Admin, Of
  <2>4. QED
    BY <1>7, <2>1, <2>2, <2>3 DEF EndpointEnds, IInv, DrainInv
<1>9. CutInv'
  <2>1. \A c \in cs : c \in H3 /\ endpoint' = "expired"
    BY <1>1, <1>6
  <2>2. QED BY <1>1, <1>4, <1>7, <2>1 DEF EndpointEnds, IInv, CutInv, At
<1>10. QED
  BY <1>1, <1>2, <1>3, <1>6, <1>8, <1>9, Aborts DEF EndpointEnds, IInv, TypeOK, Drain

\* Server::run returns.  What the channel still held is dropped.
LEMMA ReturnKeeps ==
    ASSUME IInv, Return
    PROVE  IInv'
<1>1. conn \in [Conns -> ConnRecord]
  BY DEF IInv, TypeOK, ConnRecord
<1>2. \A c \in Conns : conn[c].at = "waiting" =>
         /\ conn'[c] = [conn[c] EXCEPT !.at = "dropped"] /\ c \in Tcp
         /\ conn'[c] \in ConnRecord /\ conn'[c].at = "dropped"
         /\ conn'[c].lane = conn[c].lane /\ conn'[c].reqs = 0
  <2> SUFFICES ASSUME NEW c \in Conns, conn[c].at = "waiting"
               PROVE  /\ conn'[c] = [conn[c] EXCEPT !.at = "dropped"] /\ c \in Tcp
                      /\ conn'[c] \in ConnRecord /\ conn'[c].at = "dropped"
                      /\ conn'[c].lane = conn[c].lane /\ conn'[c].reqs = 0
    OBVIOUS
  <2>1. conn'[c] = [conn[c] EXCEPT !.at = "dropped"]
    BY DEF Return, At
  <2>2. conn[c].reqs = 0 /\ c \in Tcp
    BY Families DEF IInv, PlaceInv, At
  <2>3. "dropped" \in Kinds
    BY DEF Kinds
  <2>4. QED BY <1>1, <2>1, <2>2, <2>3 DEF ConnRecord
<1>3. \A c \in Conns : conn[c].at # "waiting" => conn'[c] = conn[c]
  BY DEF Return, At
<1>4. conn' \in [Conns -> ConnRecord]
  <2>1. \A c \in Conns : conn'[c] \in ConnRecord
    BY <1>1, <1>2, <1>3
  <2>2. conn' = [c \in Conns |-> conn'[c]]
    BY DEF Return
  <2>3. QED BY <2>1, <2>2
<1>5. \A c \in Conns : conn'[c].lane = conn[c].lane /\ conn'[c].at # "waiting"
  BY <1>2, <1>3
<1>6. \A c \in Conns : At(c, {"queued"})' <=> At(c, {"queued"})
  BY <1>2, <1>3 DEF At
<1>7. Holding' = Holding
  BY <1>2, <1>3 DEF Holding, Guarded, At
<1>8. GaugeInv'
  BY <1>7 DEF Return, IInv, GaugeInv
<1>9. handoffs' = <<>> /\ Range(handoffs') = {} /\ Len(handoffs') = 0
  BY DEF Return, Range
<1>10. TypeOK'
  <2>1. \A c \in Conns : At(c, {"waiting"})' <=> c \in Range(handoffs')
    BY <1>5, <1>9 DEF At
  <2>2. Len(handoffs') <= HandoffDepth
    BY <1>9, ServingAssumption
  <2>3. \A c \in Tcp : At(c, {"queued"})' <=> c \in Range(jobs'[conn'[c].lane])
    BY <1>5, <1>6, Families DEF Return, IInv, TypeOK
  <2>4. QED BY <1>4, <2>1, <2>2, <2>3 DEF Return, IInv, TypeOK, ConnRecord
<1>11. PlaceInv'
  BY <1>2, <1>3, Families DEF IInv, PlaceInv, At, Kinds
<1>12. HandoffInv'
  BY <1>9, EmptySeq DEF HandoffInv
<1>13. JobsInv'
  <2>1. \A l \in Lanes : \A i \in 1..Len(jobs[l]) : jobs[l][i] \in Conns
    BY Families, ElementOfSeq DEF IInv, JobsInv
  <2>2. QED BY <1>5, <1>6, <2>1 DEF Return, IInv, JobsInv
<1>14. DrainInv'
  <2>1. \A l \in Lanes : OnLane(l)' = OnLane(l)
    BY <1>2, <1>3, Families DEF OnLane, At, Alive
  <2>2. H3Open' = H3Open
    BY <1>2, <1>3, Families DEF H3Open, At, Alive
  <2>3. AdminOpen' = AdminOpen
    BY <1>2, <1>3 DEF AdminOpen, At, Admin, Of
  <2>4. QED BY <2>1, <2>2, <2>3 DEF Return, IInv, DrainInv
<1>15. CutInv'
  BY <1>2, <1>3 DEF Return, IInv, CutInv, At
<1>16. QED BY <1>8, <1>10, <1>11, <1>12, <1>13, <1>14, <1>15 DEF IInv

-----------------------------------------------------------------------------
\* Every step keeps the invariant.
LEMMA NextKeeps ==
    ASSUME IInv, [Next]_vars
    PROVE  IInv'
<1>1. CASE Signal \/ UNCHANGED vars
  BY <1>1, SignalKeeps
<1>2. CASE Break
  BY <1>2, BreakKeeps
<1>3. CASE EndpointBreak
  BY <1>3, EndpointBreakKeeps
<1>4. CASE TakeHandoff
  BY <1>4, TakeHandoffKeeps
<1>5. CASE AdminDrained \/ AdminExpires
  BY <1>5, AdminEndsKeeps DEF AdminDrained, AdminExpires
<1>6. CASE EndpointDrained \/ EndpointExpires
  BY <1>6, EndpointEndsKeeps DEF EndpointDrained, EndpointExpires
<1>7. CASE Return
  BY <1>7, ReturnKeeps
<1>8. ASSUME NEW l \in Lanes,
             LanePick(l) \/ LaneGraceful(l) \/ LaneDrained(l) \/ LaneExpires(l)
      PROVE  IInv'
  BY <1>8, LanePickKeeps, LaneGracefulKeeps, LaneEndsKeeps DEF LaneDrained, LaneExpires
<1>9. ASSUME NEW c \in Conns,
             \/ Accept(c) \/ AcceptAdmin(c) \/ HandOver(c) \/ Connect(c)
             \/ PrefaceDone(c) \/ TlsDone(c) \/ QuicDone(c) \/ H3Built(c)
             \/ Request(c) \/ Respond(c) \/ Upgrade(c) \/ CloseIdle(c) \/ Goaway(c)
             \/ ClientGone(c)
      PROVE  IInv'
  BY <1>9, AcceptKeeps, AcceptAdminKeeps, HandOverKeeps, ConnectKeeps, PrefaceDoneKeeps,
     TlsDoneKeeps, QuicDoneKeeps, H3BuiltKeeps, RequestKeeps, RespondKeeps, UpgradeKeeps,
     CloseIdleKeeps, GoawayKeeps, ClientGoneKeeps
<1>10. QED
  BY <1>1, <1>2, <1>3, <1>4, <1>5, <1>6, <1>7, <1>8, <1>9 DEF Next

\* The inductive invariant holds of every behaviour.
THEOREM Inductive == Spec => []IInv
<1>1. Init => IInv
  BY InitIInv
<1>2. IInv /\ [Next]_vars => IInv'
  BY NextKeeps
<1>3. QED BY <1>1, <1>2, PTL DEF Spec

\* Once Server::run has returned no connection holds a guard: the lanes and the
\* endpoint are over and their queues are empty.
LEMMA NothingHeld ==
    ASSUME IInv, phase = "returned"
    PROVE  Holding = {}
<1> SUFFICES ASSUME NEW c \in Conns, Guarded(c) PROVE FALSE
  BY DEF Holding
<1>1. c \in Tcp \/ c \in H3
  BY Families DEF Guarded
<1>2. conn[c].lane \in Lanes
  BY DEF IInv, TypeOK
<1>3. Over(endpoint) /\ Over(lane[conn[c].lane]) /\ jobs[conn[c].lane] = <<>>
  BY <1>2 DEF IInv, DrainInv, Over
<1>4. c \in H3 => FALSE
  BY <1>3 DEF IInv, DrainInv, PlaceInv, H3Open, Guarded, At, Alive
<1>5. c \in Tcp => conn[c].at = "queued"
  BY <1>2, <1>3 DEF IInv, DrainInv, OnLane, Guarded, At, Alive
<1>6. Range(jobs[conn[c].lane]) = {}
  BY <1>3 DEF Range
<1>7. QED BY <1>1, <1>4, <1>5, <1>6 DEF IInv, TypeOK, At

\* Every connection is in one place, and in the queue that place says; the
\* gauge of active connections counts exactly the guards held, and reads zero
\* once Server::run has returned (server.rs, listener.rs, http3.rs, metrics.rs).
THEOREM Accounted == Spec => []ConnsAccounted
<1>1. IInv => ConnsAccounted
  <2> SUFFICES ASSUME IInv PROVE ConnsAccounted
    OBVIOUS
  <2>1. phase = "returned" => gauge = 0
    BY NothingHeld, FS_EmptySet DEF IInv, GaugeInv
  <2>2. QED BY <2>1 DEF IInv, GaugeInv, ConnsAccounted, GaugeExact, Holding
<1>2. QED BY <1>1, Inductive, PTL

\* A Server::run that returned Ok cut no request short, on any listener, and
\* left none running (server.rs run and serve_lane, http3.rs drained).
THEOREM Honest == Spec => []HonestOutcome
<1>1. IInv => HonestOutcome
  <2> SUFFICES ASSUME IInv, result = "ok", NEW c \in Conns
               PROVE  ~At(c, {"cut"}) /\ conn[c].reqs = 0
    BY DEF HonestOutcome
  <2>1. AllDrained(lane, admin, endpoint) /\ conn[c].lane \in Lanes
    BY DEF IInv, CutInv, TypeOK
  <2>2. ~At(c, {"cut"})
    BY <2>1 DEF IInv, CutInv, AllDrained
  <2>3. conn[c].at # "open"
    BY <2>1, Families
    DEF IInv, DrainInv, AllDrained, Over, OnLane, H3Open, AdminOpen, At, Alive
  <2>4. QED BY <2>2, <2>3 DEF IInv, PlaceInv
<1>2. QED BY <1>1, Inductive, PTL
=============================================================================
