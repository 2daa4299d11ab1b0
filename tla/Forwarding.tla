----------------------------- MODULE Forwarding -----------------------------
(***************************************************************************)
(* One serving runtime of the hyper engine forwarding requests while route *)
(* tables are compiled and rolled back under it.                           *)
(*                                                                         *)
(* A request holds the table it matched against to its end.  It picks a    *)
(* backend (the canary's, if the canary takes it), may be copied to a      *)
(* shadow backend through a bounded queue, and is dispatched to endpoints  *)
(* one at a time.  The counters outlive the tables: see Balancing.         *)
(*                                                                         *)
(* Time is not modelled: an exchange may time out at any point.  A frame   *)
(* of a body is one unit of its length.  The errors of the upstream client *)
(* (a library) are the three kinds UpstreamError tells apart.              *)
(***************************************************************************)
EXTENDS Balancing

CONSTANTS
    Requests,     \* each is made at most once
    Arrivals,     \* what a client can send: [grpc, upgrade, header, body]
    Configs,      \* what the controller can compile
    MaxGen,       \* bound on the tables compiled
    MaxAttempts,  \* UpstreamConfig::max_connect_attempts
    QueueDepth,   \* MIRROR_QUEUE_DEPTH
    BodyCap       \* DEFAULT_MIRROR_MAX_BODY, in frames

ASSUME ForwardingAssumption ==
    /\ MaxGen \in Nat \ {0}
    /\ MaxAttempts \in Nat \ {0}
    /\ QueueDepth \in Nat \ {0}
    /\ BodyCap \in Nat
    /\ None \notin Nat

\* The rule of a table: a rule of the config with its block of counters.
RuleWith(rule, block) ==
    [backend |-> rule.backend, canary |-> rule.canary, mirror |-> rule.mirror, block |-> block]

\* What the builder and the controller make sure of: the backends that rules
\* name exist (resolve_backend), and an address is listed once (EndpointIndex::resolve).
ASSUME ConfigsAssumption ==
    \A config \in Configs :
        /\ config.default \in DOMAIN config.backends \cup {None}
        /\ config.rule # None =>
              /\ config.rule.backend \in DOMAIN config.backends
              /\ \A block \in 1..MaxGen : RuleWith(config.rule, block) # None
        /\ \A name \in DOMAIN config.backends :
              /\ config.backends[name].addrs \in Seq(Range(config.backends[name].addrs))
              /\ IsInjective(config.backends[name].addrs)

VARIABLES
    tables,    \* every table compiled; its position is its generation
    serving,   \* the generation the data plane serves
    pinned,    \* whether a rollback holds it there
    count,     \* cell -> requests in flight
    cursors,   \* cursor -> rotation position
    totals,    \* block -> responses recorded: [all, errors, canary]
    req,       \* request -> its future
    queue,     \* copies waiting for the mirror worker
    copying,   \* whether the mirror worker is in an exchange
    copies     \* the mirror metrics

vars == <<tables, serving, pinned, count, cursors, totals, req, queue, copying, copies>>

-----------------------------------------------------------------------------
(* Bodies: [via, length, ended, frames].  A frame is "trailer", "error" or *)
(* a piece of data.  After an error nothing more arrives.                  *)

IsData(frame) == frame \notin {"trailer", "error"}

EmptyBody == [via |-> "known", length |-> 0, ended |-> TRUE, frames |-> <<>>]
Once(frames) == IF frames = <<>> THEN EmptyBody
                ELSE [via |-> "known", length |-> Len(frames), ended |-> FALSE, frames |-> frames]

\* request_body: an HTTP/3 body that is declared empty, or that has none and
\* is found to have ended, becomes an empty one.
RequestBody(body) ==
    IF body.via = "h3" /\ (body.length = 0 \/ (body.length = None /\ body.ended))
    THEN EmptyBody ELSE body

\* ProxyBody::is_known_empty
KnownEmpty(body) ==
    \/ body.length = 0
    \/ body.via = "h3" /\ body.ended /\ body.frames = <<>>

\* ProxyBody::prefixed: what was read, then what is left.
MutPrefixLost(prefix, rest) == rest

Prefixed(prefix, rest) ==
    IF prefix = <<>> THEN rest ELSE [rest EXCEPT !.frames = prefix \o rest.frames]

\* RequestBody::poll_frame, deliver: the next frame is off the stream; its end,
\* or a failure, ends the body.
Polled(body) ==
    IF body.frames = <<>> THEN [body EXCEPT !.ended = TRUE]
    ELSE [body EXCEPT !.frames = Tail(@), !.ended = @ \/ Head(body.frames) = "error"]

\* mirror::buffer: [complete, prefix, rest].  A frame that is not data stops it,
\* and has been taken off the stream by then.
Buffer(body) ==
    LET frames == body.frames
        data == {n \in DOMAIN frames : \A m \in 1..n : IsData(frames[m])}
        k == Min({Cardinality(data), BodyCap + 1})
        read == [body EXCEPT !.frames = SubSeq(frames, k + 1, Len(frames))]
    IN  [complete |-> k = Len(frames) /\ k <= BodyCap,
         prefix |-> SubSeq(frames, 1, k),
         rest |-> IF k > BodyCap THEN read ELSE Polled(read)]

-----------------------------------------------------------------------------
(* Tables.                                                                 *)

Newest == tables[Len(tables)]

\* What RouteTableBuilder::new has for a previous table.
NoTable == [gen |-> 0, default |-> None, backends |-> <<>>, rule |-> None]

\* RouteTableBuilder::from_previous and build: a config with its counters.
Compile(config, gen, old) ==
    [gen |-> gen,
     default |-> config.default,
     backends |-> [name \in DOMAIN config.backends |->
        [addrs |-> config.backends[name].addrs,
         weights |-> config.backends[name].weights,
         policy |-> config.backends[name].policy,
         proto |-> config.backends[name].proto,
         slot |-> RebuildSlot(old.backends, gen, name, config.backends[name].addrs)]],
     rule |-> IF config.rule = None THEN None
              ELSE RuleWith(config.rule, RebuildRoute(old.rule, gen, config.rule))]

Cells(table) == UNION {Range(table.backends[n].slot.cells) : n \in DOMAIN table.backends}
Cursors(table) == {table.backends[n].slot.cursor : n \in DOMAIN table.backends}
Blocks(table) == IF table.rule = None THEN {} ELSE {table.rule.block}

\* A new cursor starts where the one it replaces stands.
CursorStart(table, old, id) ==
    LET name == CHOOSE n \in DOMAIN table.backends : table.backends[n].slot.cursor = id
    IN  IF name \in DOMAIN old.backends THEN cursors[old.backends[name].slot.cursor] ELSE 0

NoTotals == [all |-> 0, errors |-> 0, canary |-> 0]

-----------------------------------------------------------------------------
(* Requests.                                                               *)

Idle == [pc |-> "idle"]

Init ==
    \E config \in Configs :
        LET table == Compile(config, 1, NoTable)
        IN  /\ tables = <<table>>
            /\ serving = 1
            /\ pinned = FALSE
            /\ count = [c \in Cells(table) |-> 0]
            /\ cursors = [c \in Cursors(table) |-> 0]
            /\ totals = [b \in Blocks(table) |-> NoTotals]
            /\ req = [r \in Requests |-> Idle]
            /\ queue = 0
            /\ copying = FALSE
            /\ copies = [mirrored |-> 0, failed |-> 0, skipped |-> 0, dropped |-> 0]

\* A rebuild of the controller, published to the data plane, which takes it up
\* unless it is pinned.  The counters carried over are the newest table's.
Publish(config) ==
    /\ Len(tables) < MaxGen
    /\ LET table == Compile(config, Len(tables) + 1, Newest)
       IN  /\ tables' = Append(tables, table)
           /\ count' = [c \in DOMAIN count \cup Cells(table) |->
                            IF c \in DOMAIN count THEN count[c] ELSE 0]
           /\ cursors' = [c \in DOMAIN cursors \cup Cursors(table) |->
                            IF c \in DOMAIN cursors THEN cursors[c]
                            ELSE CursorStart(table, Newest, c)]
           /\ totals' = [b \in DOMAIN totals \cup Blocks(table) |->
                            IF b \in DOMAIN totals THEN totals[b] ELSE NoTotals]
    /\ serving' = IF pinned THEN serving ELSE Len(tables')
    /\ UNCHANGED <<pinned, req, queue, copying, copies>>

\* The operator rolls back to a retained table, or resumes: nothing is rebuilt.
Pin(g) ==
    /\ ~pinned
    /\ pinned' = TRUE
    /\ serving' = g
    /\ UNCHANGED <<tables, count, cursors, totals, req, queue, copying, copies>>

Unpin ==
    /\ pinned
    /\ pinned' = FALSE
    /\ serving' = Len(tables)
    /\ UNCHANGED <<tables, count, cursors, totals, req, queue, copying, copies>>

Backend(q) == tables[q.gen].backends[q.name]

\* The future has ended, and what only it held is gone.
Ended(q, pc) ==
    [q EXCEPT !.pc = pc, !.name = None, !.shadow = None, !.upgrade = FALSE, !.index = 0,
              !.tried = <<>>, !.left = 0, !.body = EmptyBody,
              !.sent = IF @ = None THEN None ELSE EmptyBody]

\* The request is answered: recorded in the blocks of the rule it matched.
Recorded(q, status) ==
    IF q.block = None THEN totals
    ELSE [totals EXCEPT ![q.block] =
            [all |-> @.all + 1,
             errors |-> @.errors + (IF status \in 500..599 THEN 1 ELSE 0),
             canary |-> @.canary + (IF q.canaried THEN 1 ELSE 0)]]

Answered(r, q, status) ==
    /\ req' = [req EXCEPT ![r] = [Ended(q, "done") EXCEPT !.status = status]]
    /\ totals' = Recorded(q, status)

Loads(backend) == [n \in DOMAIN backend.addrs |-> count[backend.slot.cells[n]]]

\* select_endpoint draws from the cursor whether or not the request succeeds.
Drawn(backend, cs) ==
    IF backend.policy = "RoundRobin" THEN [cs EXCEPT ![backend.slot.cursor] = @ + 1] ELSE cs

\* How many endpoints a request may be sent to.
Attempts(backend, body) ==
    IF KnownEmpty(body) THEN Min({Len(backend.addrs), MaxAttempts}) ELSE 1

\* The loop of dispatch enters an attempt: the guard is acquired.
Attempt(q, index) ==
    [q EXCEPT !.pc = "attempt", !.index = index, !.tried = Append(@, Backend(q).addrs[index]),
              !.left = @ - 1]

\* The rest of dispatch once the body to send is known.  cs are the cursors
\* after any draw for a copy.
Dispatch(r, q, body, cs) ==
    \E index \in SelectEndpoint(Backend(q), cs[Backend(q).slot.cursor], Loads(Backend(q))) :
        /\ req' = [req EXCEPT ![r] =
                Attempt([q EXCEPT !.left = Attempts(Backend(q), body),
                                  !.sent = IF KnownEmpty(body) THEN EmptyBody ELSE body], index)]
        /\ count' = [count EXCEPT ![Backend(q).slot.cells[index]] = @ + 1]
        /\ cursors' = Drawn(Backend(q), cs)
        /\ UNCHANGED totals

\* mirror_request once the copy is whole: an endpoint of the shadow is drawn
\* and the copy queued, or dropped if the queue is full.
Enqueue ==
    \/ /\ queue < QueueDepth
       /\ queue' = queue + 1
       /\ UNCHANGED copies
    \/ /\ queue >= QueueDepth
       /\ copies' = [copies EXCEPT !.dropped = @ + 1]
       /\ UNCHANGED queue

Copied(r, q, body) ==
    /\ Enqueue
    /\ Dispatch(r, q, body, Drawn(tables[q.gen].backends[q.shadow], cursors))

-----------------------------------------------------------------------------
(* forward and dispatch, up to the first await.                            *)

\* select_backend: the backend, whether the canary took it, the mirror.
Matched(table, arrival, roll, mirrorRoll) ==
    LET rule == table.rule
        diverted == /\ rule.canary # None
                    /\ Decide(rule.canary, arrival.header, None, roll)
                    /\ rule.canary.backend \in DOMAIN table.backends
    IN  IF rule = None
        THEN [name |-> table.default, canaried |-> FALSE, block |-> None, mirror |-> None]
        ELSE [name |-> IF diverted THEN rule.canary.backend ELSE rule.backend,
              canaried |-> diverted,
              block |-> rule.block,
              mirror |-> IF Sampled(rule.mirror, mirrorRoll) THEN rule.mirror.backend ELSE None]

\* Rolls are below the total: a weight of 1 in 2 stands for any true split.
Rolls == 0..1

\* What dispatch answers without an endpoint: no route, gRPC to an HTTP/1.1
\* backend, no ready endpoint.
Refusal(table, name, arrival) ==
    CASE name = None -> 404
      [] table.backends[name].proto = "http1" /\ arrival.grpc -> 502
      [] table.backends[name].addrs = <<>> -> 503
      [] OTHER -> None

Begin(r, arrival) ==
    /\ req[r].pc = "idle"
    /\ \E roll, mirrorRoll \in Rolls :
        LET table == tables[serving]
            m == Matched(table, arrival, roll, mirrorRoll)
            body == RequestBody(arrival.body)
            shadow == IF m.mirror \in DOMAIN table.backends THEN m.mirror ELSE None
            live == shadow # None /\ table.backends[shadow].addrs # <<>>
            refusal == Refusal(table, m.name, arrival)
            q == [pc |-> "start", gen |-> serving, name |-> m.name, canaried |-> m.canaried,
                  block |-> m.block, shadow |-> shadow, upgrade |-> arrival.upgrade,
                  body |-> body, sent |-> None, index |-> 0, tried |-> <<>>, left |-> 0,
                  wrote |-> 0, copied |-> shadow # None /\ refusal = None, status |-> 0]
        IN  \/ /\ refusal # None
               /\ Answered(r, q, refusal)
               /\ UNCHANGED <<count, cursors, queue, copies>>
            \/ /\ refusal = None /\ ~live
               /\ copies' = IF q.copied THEN [copies EXCEPT !.failed = @ + 1] ELSE copies
               /\ Dispatch(r, q, body, cursors)
               /\ UNCHANGED queue
            \/ /\ refusal = None /\ live /\ KnownEmpty(body)
               /\ Copied(r, q, body)
            \/ /\ refusal = None /\ live /\ ~KnownEmpty(body)
               /\ req' = [req EXCEPT ![r] = [q EXCEPT !.pc = "buffering"]]
               /\ UNCHANGED <<count, cursors, totals, queue, copies>>
    /\ UNCHANGED <<tables, serving, pinned, copying>>

\* mirror::buffer has read what it will.
Buffered(r) ==
    /\ req[r].pc = "buffering"
    /\ LET q == req[r]
           b == Buffer(q.body)
       IN  \/ /\ b.complete
              /\ Copied(r, q, Once(b.prefix))
           \/ /\ ~b.complete
              /\ copies' = [copies EXCEPT !.skipped = @ + 1]
              /\ Dispatch(r, q, Prefixed(b.prefix, b.rest), cursors)
              /\ UNCHANGED queue
    /\ UNCHANGED <<tables, serving, pinned, copying>>

-----------------------------------------------------------------------------
(* The exchange with an endpoint.                                          *)

Cell(q) == Backend(q).slot.cells[q.index]

\* UpstreamError::is_retryable
MutRetriesTimeout(outcome) == outcome \in {"connect", "timeout"}

Retryable(outcome) == outcome = "connect"

\* relay: a 101 needs the client to have asked for an upgrade.
StatusOf(q, outcome) ==
    CASE outcome = "ok" -> 200
      [] outcome = "switching" -> IF q.upgrade THEN 101 ELSE 502
      [] outcome = "timeout" -> 504
      [] OTHER -> 502

\* Upstream::send returns.  A connect failure wrote nothing.
Answer(r, outcome) ==
    LET q == req[r]
        seen == [q EXCEPT !.wrote = @ + (IF outcome = "connect" THEN 0 ELSE 1)]
        index == (q.index % Len(Backend(q).addrs)) + 1
        released == [count EXCEPT ![Cell(q)] = @ - 1]
    IN  /\ q.pc = "attempt"
        /\ outcome = "switching" => Backend(q).proto = "http1"
        /\ \/ /\ Retryable(outcome) /\ q.left > 0
              /\ req' = [req EXCEPT ![r] = Attempt(seen, index)]
              /\ count' = [released EXCEPT ![Backend(q).slot.cells[index]] = @ + 1]
              /\ UNCHANGED totals
           \/ /\ ~(Retryable(outcome) /\ q.left > 0)
              /\ count' = released
              /\ Answered(r, seen, StatusOf(q, outcome))
        /\ UNCHANGED <<tables, serving, pinned, cursors, queue, copying, copies>>

\* The client goes away and the request's future is dropped where it waits:
\* the guard is released, nothing is recorded.
Cancel(r) ==
    /\ req[r].pc \in {"buffering", "attempt"}
    /\ req' = [req EXCEPT ![r] = Ended(@, "gone")]
    /\ count' = IF req[r].pc = "attempt" THEN [count EXCEPT ![Cell(req[r])] = @ - 1] ELSE count
    /\ UNCHANGED <<tables, serving, pinned, cursors, totals, queue, copying, copies>>

\* The mirror worker, serial.
MirrorTake ==
    /\ ~copying /\ queue > 0
    /\ queue' = queue - 1
    /\ copying' = TRUE
    /\ UNCHANGED <<tables, serving, pinned, count, cursors, totals, req, copies>>

MirrorDone ==
    /\ copying
    /\ copying' = FALSE
    /\ \E result \in {"mirrored", "failed"} : copies' = [copies EXCEPT ![result] = @ + 1]
    /\ UNCHANGED <<tables, serving, pinned, count, cursors, totals, req, queue>>

Outcomes == {"ok", "switching", "connect", "timeout", "transport"}

Next ==
    \/ \E config \in Configs : Publish(config)
    \/ \E g \in DOMAIN tables : Pin(g)
    \/ Unpin
    \/ \E r \in Requests :
        \/ \E arrival \in Arrivals : Begin(r, arrival)
        \/ Buffered(r)
        \/ \E outcome \in Outcomes : Answer(r, outcome)
        \/ Cancel(r)
    \/ MirrorTake
    \/ MirrorDone

Spec == Init /\ [][Next]_vars

-----------------------------------------------------------------------------
(* Properties.                                                             *)

Started == {r \in Requests : req[r].pc # "idle"}
InAttempt == {r \in Requests : req[r].pc = "attempt"}

\* The state has its shape: one generation served of those compiled, counters
\* that never go below zero, requests that stand at one of their awaits.
TypeOK ==
    /\ serving \in DOMAIN tables
    /\ pinned \in BOOLEAN
    /\ \A g \in DOMAIN tables : tables[g].gen = g /\ Cells(tables[g]) \subseteq DOMAIN count
    /\ count \in [DOMAIN count -> Nat]
    /\ cursors \in [DOMAIN cursors -> Nat]
    /\ totals \in [DOMAIN totals -> [all : Nat, errors : Nat, canary : Nat]]
    /\ \A r \in Requests : req[r].pc \in {"idle", "buffering", "attempt", "done", "gone"}
    /\ queue \in 0..QueueDepth
    /\ copying \in BOOLEAN
    /\ copies \in [{"mirrored", "failed", "skipped", "dropped"} -> Nat]

\* The address has been listed for the backend ever since generation g.
Listed(name, addr, g) ==
    \A k \in g..Len(tables) :
        /\ name \in DOMAIN tables[k].backends
        /\ addr \in Range(tables[k].backends[name].addrs)

\* stats.rs: "a request that started under generation 7 and finishes under
\* generation 8 decrements the same AtomicU32 it incremented".  Whatever is
\* published, rolled back or abandoned meanwhile, the counter the newest table
\* holds for an address is exactly the number of requests now waiting on it
\* that were sent while it was, and has stayed, an endpoint of that backend.
InflightExact ==
    \A name \in DOMAIN Newest.backends :
        LET b == Newest.backends[name]
        IN  \A n \in DOMAIN b.addrs :
                count[b.slot.cells[n]] =
                    Cardinality({r \in InAttempt :
                        /\ req[r].name = name
                        /\ Backend(req[r]).addrs[req[r].index] = b.addrs[n]
                        /\ Listed(name, b.addrs[n], req[r].gen)})

\* The failover of dispatch duplicates nothing: a request is written to at
\* most one endpoint, no endpoint is tried twice, no more of them than
\* max_connect_attempts, and a body that was streamed is sent once.
TriedOnce ==
    \A r \in Started :
        /\ req[r].wrote <= 1
        /\ IsInjective(req[r].tried)
        /\ Len(req[r].tried) <= MaxAttempts
        /\ req[r].sent # None => (req[r].sent.frames = <<>> \/ Len(req[r].tried) = 1)

\* Every sampled copy is accounted for: sent, failed, skipped, dropped, still
\* queued or in its exchange, or lost with a request whose client went away
\* before its body had been read.
CopiesAccounted ==
    LET waiting == {r \in Started : req[r].copied /\ req[r].sent = None}
    IN  Cardinality({r \in Started : req[r].copied}) =
            copies.mirrored + copies.failed + copies.skipped + copies.dropped
            + queue + (IF copying THEN 1 ELSE 0) + Cardinality(waiting)

\* RouteStats: "a request that increments the old table's block after a
\* rebuild increments the same object the new table serves".  The block of the
\* newest table counts every response to a request matched by the same route,
\* in whatever generation since which the route has kept its backend; and the
\* canary's share is part of it.
RecordsSurviveSwap ==
    Newest.rule # None =>
        LET same == {r \in Started :
                        /\ req[r].pc = "done" /\ req[r].block # None
                        /\ \A k \in req[r].gen..Len(tables) :
                              /\ tables[k].rule # None
                              /\ tables[k].rule.backend = Newest.rule.backend}
            t == totals[Newest.rule.block]
        IN  /\ t.all = Cardinality(same)
            /\ t.errors = Cardinality({r \in same : req[r].status >= 500})
            /\ t.canary = Cardinality({r \in same : req[r].canaried})

\* The counters that balance the load and judge a canary are exact across every
\* swap of the table: publication, rollback, retry and abandonment (backend.rs
\* and builder.rs hand them on, forward.rs holds them across its awaits).
CountersExact == TypeOK /\ InflightExact /\ RecordsSurviveSwap

\* What is sent to the endpoint is what the client sent, frame for frame, unless
\* the body was read in order to copy it: then all its data is sent, in order, and
\* at most one frame that is no data is missing, the trailer block or the failure
\* on which buffer stopped.  mirror.rs says that buffer does not drop it; into_data
\* consumes it (mirror.rs buffer, body.rs ProxyBody::prefixed).
BodySurvives ==
    \A r \in Started :
        LET sent == req[r].sent.frames
            frames == req[r].body.frames
        IN  req[r].sent # None /\ sent # frames =>
                /\ req[r].copied
                /\ \E n \in DOMAIN frames : ~IsData(frames[n]) /\ sent = RemoveAt(frames, n)

\* Mirroring takes no data from the primary, and no more than the one frame it
\* stopped at, and loses no copy silently
\* (mirror.rs buffer, offer and the shadow task).
BodiesKept == BodySurvives /\ CopiesAccounted
=============================================================================
