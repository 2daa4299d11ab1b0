------------------------------- MODULE Worker -------------------------------
(***************************************************************************)
(* One core of the io_uring engine: its table of descriptors, the          *)
(* operations it has in the ring, the exchange each client connection is   *)
(* running, the pool of idle upstreams, the connects the helper thread     *)
(* watches, and the drain.                                                 *)
(*                                                                         *)
(* A handler of the worker runs to its end before the next completion is   *)
(* looked at.  It is modelled as a chain of steps linked by cur: while cur *)
(* is not at "wait" only the worker moves.  That loses nothing, because a  *)
(* completion or a note is seen only when the worker waits.                *)
(*                                                                         *)
(* Bytes are abstracted to what the state machine asks of them.  A read    *)
(* delivers one token: a request head, the rest of a request's body, a     *)
(* response head with or without its body.  A buffer is empty or not, and  *)
(* one token fills it, which stands for MAX_PENDING.  Time is abstracted   *)
(* to whether a deadline is set: a tick may find any deadline past.        *)
(***************************************************************************)
EXTENDS Integers, Sequences, FiniteSets

CONSTANTS
    Fds,          \* descriptor numbers the kernel may hand out
    NoFd,         \* no descriptor
    NEndpoints,   \* endpoints of the backend
    MaxAttempts,  \* max_connect_attempts
    MaxIdle,      \* pool_max_idle_per_host
    GenModulus,   \* 2^24 in the code
    Dispatch,     \* another engine takes the HTTP/2 connections
    Requests,     \* kinds of request head clients send
    Responses,    \* kinds of answer upstreams give
    Lanes,        \* subset of BOOLEAN: whether clients speak TLS
    Roles,        \* subset of {"Client", "Admin"}: the listeners there are
    MaxRequests,  \* bound on request heads
    MaxOpens,     \* bound on descriptors opened
    MaxRefusals   \* bound on submissions the ring refuses

ASSUME SizesAssumption ==
    /\ NEndpoints \in Nat \ {0} /\ MaxAttempts \in Nat /\ MaxIdle \in Nat
    /\ GenModulus \in Nat \ {0} /\ MaxRequests \in Nat /\ MaxOpens \in Nat
    /\ MaxRefusals \in Nat
ASSUME KindsAssumption ==
    /\ NoFd \notin Fds /\ IsFiniteSet(Fds)
    /\ Dispatch \in BOOLEAN /\ Lanes \subseteq BOOLEAN
    /\ Roles \subseteq {"Client", "Admin"}
    /\ Requests \subseteq {"get", "post", "upgrade", "bad", "h2"}
    /\ Responses \subseteq {"full", "fullMore", "part", "close", "switch",
                            "garbage"}

VARIABLES
    slot,        \* what each descriptor is being used for
    conn,        \* the connection on a Client or Admin descriptor
    generations, \* the generation in the tags of each descriptor
    ops,         \* operations in the ring whose completion is not dispatched
    open,        \* descriptors open in the kernel
    away,        \* descriptors handed to the other engine
    pool,        \* idle upstreams per endpoint, last returned last
    jobs,        \* connecting descriptors the helper thread has borrowed
    inflight,    \* the in-flight counter of each endpoint
    cur,         \* where the running handler is
    listen,      \* the accept of each listener
    draining, drain_inflight, drain_expired, stopped,
    severed,     \* history: the drain closed a tunnel and left its upstream behind
    midbody,     \* the client has announced a body it has not sent to its end
    requests, opens, refusals

table == <<slot, conn, generations, ops, open>>
drain == <<draining, drain_expired, stopped, severed>>
counts == <<requests, opens, refusals>>
world == <<away, listen, midbody, counts>>
vars == <<table, drain_inflight, drain, world, pool, jobs, inflight, cur>>

Endpoints == 0 .. NEndpoints - 1
Phase == {"Head", "Connecting", "Exchanging", "Relaying", "Tunnel", "Closing"}
Serving == {"Connecting", "Exchanging", "Relaying"}
ReadKinds == {"DOWN_READ", "UP_READ", "ADMIN_READ"}
WriteKinds == {"DOWN_WRITE", "UP_WRITE", "ADMIN_WRITE"}

Op == [k : ReadKinds \cup WriteKinds, fd : Fds, gen : 0 .. GenModulus - 1,
       age : Nat]   \* history: the bumps of the generation since it was issued

Empty == [is |-> "Empty", of |-> NoFd]
Client == [is |-> "Client", of |-> NoFd]
Admin == [is |-> "Admin", of |-> NoFd]
Abandoned == [is |-> "Abandoned", of |-> NoFd]
Upstream(down) == [is |-> "Upstream", of |-> down]
Idle(endpoint) == [is |-> "Idle", of |-> endpoint]
Slot == {Empty, Client, Admin, Abandoned}
            \cup {Upstream(f) : f \in Fds} \cup {Idle(e) : e \in Endpoints}

Conn ==
    [phase : Phase, tls : BOOLEAN,
     inbox : {"none", "data", "body", "badbody"} \cup Requests,
     outbox : BOOLEAN, reading : BOOLEAN, writing : BOOLEAN,
     client_eof : BOOLEAN, request_body : {"done", "more"},
     client_keep_alive : BOOLEAN, upgrade : BOOLEAN,
     upstream : Fds \cup {NoFd},
     up_inbox : {"none", "rest", "restMore", "extra", "garbage"} \cup Responses,
     up_outbox : BOOLEAN, up_reading : BOOLEAN, up_writing : BOOLEAN,
     up_ready : BOOLEAN, up_borrowed : BOOLEAN,
     response_body : {"done", "more", "until-close"},
     response_head_seen : BOOLEAN, upstream_keep_alive : BOOLEAN,
     upstream_eof : BOOLEAN, endpoint_index : Endpoints,
     targets : 0 .. NEndpoints, attempt : Endpoints, replayable : BOOLEAN,
     from_pool : BOOLEAN, pool_retry_used : BOOLEAN, committed : BOOLEAN,
     inflight_held : BOOLEAN, deadline : BOOLEAN, drain_counted : BOOLEAN]

NewConn ==
    [phase |-> "Head", tls |-> FALSE, inbox |-> "none", outbox |-> FALSE,
     reading |-> FALSE, writing |-> FALSE, client_eof |-> FALSE,
     request_body |-> "done", client_keep_alive |-> TRUE, upgrade |-> FALSE,
     upstream |-> NoFd, up_inbox |-> "none", up_outbox |-> FALSE,
     up_reading |-> FALSE, up_writing |-> FALSE, up_ready |-> FALSE,
     up_borrowed |-> FALSE, response_body |-> "done",
     response_head_seen |-> FALSE, upstream_keep_alive |-> TRUE,
     upstream_eof |-> FALSE, endpoint_index |-> 0, targets |-> 0,
     attempt |-> 0, replayable |-> FALSE, from_pool |-> FALSE,
     pool_retry_used |-> FALSE, committed |-> FALSE, inflight_held |-> FALSE,
     deadline |-> FALSE, drain_counted |-> FALSE]

\* Conn::reset: ready for the next request.  The deadline goes too.
ResetConn(c) ==
    [c EXCEPT !.phase = "Head", !.request_body = "done",
              !.response_body = "done", !.response_head_seen = FALSE,
              !.upstream_keep_alive = TRUE, !.upstream_eof = FALSE,
              !.upgrade = FALSE, !.targets = 0, !.attempt = 0,
              !.replayable = FALSE, !.from_pool = FALSE,
              !.pool_retry_used = FALSE, !.committed = FALSE,
              !.deadline = FALSE, !.up_inbox = "none", !.up_outbox = FALSE]

WantsClientBytes(c) ==
    /\ ~c.client_eof
    /\ \/ c.phase = "Head"
       \/ c.phase \in {"Connecting", "Exchanging"}
             /\ c.request_body = "more" /\ ~c.up_outbox
       \/ c.phase = "Tunnel" /\ ~c.up_outbox

WantsUpstreamBytes(c) ==
    /\ c.upstream # NoFd /\ c.up_ready
    /\ c.phase \notin {"Head", "Closing"}
    /\ ~c.upstream_eof /\ ~c.outbox

\* The endpoint of the current attempt.
Target(c) == (c.endpoint_index + c.attempt) % NEndpoints

\* route::attempts: only a request without a body may be tried again.
Attempts(body) ==
    IF body = "done"
    THEN IF NEndpoints < MaxAttempts THEN NEndpoints
         ELSE IF MaxAttempts < 1 THEN 1 ELSE MaxAttempts
    ELSE 1

\* Mutant: a connecting descriptor is closed under the helper.
DroppedAlways(c) == IF c.upstream # NoFd THEN {c.upstream} ELSE {}

\* The upstream of a connection that is done with it, if it is to be closed.
Dropped(c) == IF c.upstream # NoFd /\ ~c.up_borrowed THEN {c.upstream} ELSE {}

\* The same upstream if the helper still holds it: its slot is abandoned and
\* on_connected closes it.
Kept(c) == IF c.upstream # NoFd /\ c.up_borrowed THEN {c.upstream} ELSE {}

Detach(c) ==
    [c EXCEPT !.upstream = NoFd, !.up_reading = FALSE, !.up_writing = FALSE,
              !.up_ready = FALSE]

\* hold_inflight and release_inflight: once per dispatch, against the endpoint of
\* the attempt.
Held(c) ==
    IF c.inflight_held THEN inflight
    ELSE [inflight EXCEPT ![Target(c)] = @ + 1]

Released(c) ==
    IF c.inflight_held THEN [inflight EXCEPT ![Target(c)] = @ - 1]
    ELSE inflight

\* Mutant: a close leaves the generation alone.
BumpNothing(g) == g

BumpGeneration(g) == (g + 1) % GenModulus

\* The operations os once the generations of bumped are one further.
Aged(os, bumped) ==
    {[o EXCEPT !.age = IF o.fd \in bumped THEN @ + 1 ELSE @] : o \in os}

\* Worker::close for every descriptor of closed, after the table, the
\* operations and the kernel have become s, cs, os and ks.  The kernel may hand
\* a number out again at once, while cancelled operations are still to complete.
Close(closed, s, cs, os, ks) ==
    LET counted == Cardinality({f \in closed : cs[f].drain_counted}) IN
    /\ slot' = [f \in Fds |-> IF f \in closed THEN Empty ELSE s[f]]
    /\ conn' = [f \in Fds |-> IF f \in closed THEN NewConn ELSE cs[f]]
    /\ generations' = [f \in Fds |-> IF f \in closed
                                     THEN BumpGeneration(generations[f])
                                     ELSE generations[f]]
    /\ ops' = Aged(os, closed)
    /\ open' = ks \ closed
    /\ drain_inflight' = IF counted > drain_inflight THEN 0
                         ELSE drain_inflight - counted

\* A step that only changes the connection on f.
Update(f, c) == Close({}, slot, [conn EXCEPT ![f] = c], ops, open)

Goto(step, f) == cur' = [at |-> step, fd |-> f]
Wait == [at |-> "wait", fd |-> NoFd]
Waiting == cur = Wait /\ ~stopped
At(step, f) == cur = [at |-> step, fd |-> f]

IsLive(o) == o.gen = generations[o.fd]
Submit(k, f) == [k |-> k, fd |-> f, gen |-> generations[f], age |-> 0]

\* The ring takes a submission (ok) or refuses it.
Refuses(ok) ==
    /\ ok \/ refusals < MaxRefusals
    /\ refusals' = IF ok THEN refusals ELSE refusals + 1

Init ==
    /\ slot = [f \in Fds |-> Empty] /\ conn = [f \in Fds |-> NewConn]
    /\ generations = [f \in Fds |-> 0] /\ ops = {} /\ open = {} /\ away = {}
    /\ pool = [e \in Endpoints |-> <<>>] /\ jobs = {}
    /\ inflight = [e \in Endpoints |-> 0] /\ cur = Wait
    /\ listen = [r \in Roles |-> "armed"]
    /\ draining = FALSE /\ drain_inflight = 0
    /\ drain_expired = FALSE /\ stopped = FALSE /\ severed = FALSE
    /\ midbody = [f \in Fds |-> FALSE] /\ requests = 0 /\ opens = 0
    /\ refusals = 0

-----------------------------------------------------------------------------
(* Accepting *)

StartConn(f, kind, c, submitted) ==
    /\ slot' = [slot EXCEPT ![f] = kind]
    /\ conn' = [conn EXCEPT ![f] = c]
    /\ generations' = [generations EXCEPT ![f] = BumpGeneration(@)]
    /\ ops' = Aged(ops, {f}) \cup submitted
    /\ open' = open \cup {f}
    /\ midbody' = [midbody EXCEPT ![f] = FALSE]
    /\ opens' = opens + 1

\* on_accept and start_client.
AcceptClient(f) ==
    /\ Waiting /\ "Client" \in Roles /\ listen["Client"] = "armed"
    /\ f \notin open /\ opens < MaxOpens
    /\ \E tls \in Lanes :
           StartConn(f, Client, [NewConn EXCEPT !.tls = tls, !.deadline = TRUE], {})
    /\ Goto("drive", f)
    /\ UNCHANGED <<drain_inflight, drain, away, listen, requests, refusals,
                   pool, jobs, inflight>>

\* on_accept and start_admin; drive_admin submits the read, and a connection
\* whose read is refused stays as it is.
AcceptAdmin(f) ==
    /\ Waiting /\ "Admin" \in Roles /\ listen["Admin"] = "armed"
    /\ f \notin open /\ opens < MaxOpens
    /\ \E ok \in BOOLEAN :
         /\ Refuses(ok)
         /\ StartConn(f, Admin, [NewConn EXCEPT !.reading = ok],
                      {[Submit("ADMIN_READ", f) EXCEPT
                            !.gen = BumpGeneration(generations[f])] : x \in {ok} \ {FALSE}})
    /\ UNCHANGED <<drain_inflight, drain, away, listen, requests, pool, jobs,
                   inflight, cur>>

\* on_accept out of descriptors: it returns without arming another accept.
AcceptExhausted(r) ==
    /\ Waiting /\ listen[r] = "armed" /\ open = Fds
    /\ listen' = [listen EXCEPT ![r] = "lost"]
    /\ UNCHANGED <<table, drain_inflight, drain, away, midbody, counts, pool,
                   jobs, inflight, cur>>

\* What dispatch leaves open of a connection whose accept raced the close of
\* its listener: it closes the accepted descriptor.
AfterStaleAccept(f) == open

\* dispatch of the accept that was outstanding when the listener was closed.
DropStaleAccept(r, f) ==
    /\ Waiting /\ listen[r] = "shut" /\ f \notin open
    /\ listen' = [listen EXCEPT ![r] = "gone"]
    /\ open' = AfterStaleAccept(f)
    /\ UNCHANGED <<slot, conn, generations, ops, drain_inflight, drain, away,
                   midbody, counts, pool, jobs, inflight, cur>>

\* A completion nobody waits for: its generation is not the descriptor's, or it
\* is of an upstream that is neither an exchange's nor idle.
Unwanted(o) ==
    \/ ~IsLive(o)
    \/ o.k = "UP_READ" /\ slot[o.fd].is \notin {"Upstream", "Idle"}
    \/ o.k = "UP_WRITE" /\ slot[o.fd].is # "Upstream"

\* dispatch, on_upstream_read and on_upstream_write of such a completion.
DropStale(o) ==
    /\ Waiting /\ o \in ops /\ Unwanted(o)
    /\ ops' = ops \ {o}
    /\ UNCHANGED <<slot, conn, generations, open, drain_inflight, drain, world,
                   pool, jobs, inflight, cur>>

-----------------------------------------------------------------------------
(* Completions and notes *)

\* The completion of a live operation of kind k is taken from the ring.
Completes(o, k) == Waiting /\ o \in ops /\ o.k = k /\ IsLive(o)

\* What a client may send next.  Nobody looks at the bytes of a connection that
\* is closing.
Tokens(f) ==
    CASE conn[f].phase \in {"Tunnel", "Closing"} -> {"data"}
      [] midbody[f] -> {"body", "badbody"}
      [] OTHER -> IF requests < MaxRequests THEN Requests ELSE {}

\* on_client_read and ingest: bytes; the end of the stream; a reset; bytes that
\* are refused before HTTP (no PROXY header, a failed handshake and its alert).
OnClientRead(o) ==
    LET f == o.fd
        c == [conn[f] EXCEPT !.reading = FALSE] IN
    /\ Completes(o, "DOWN_READ")
    /\ \/ \E t \in Tokens(f) :
             /\ Close({}, slot, [conn EXCEPT ![f] = [c EXCEPT !.inbox = t,
                                                             !.deadline = TRUE]],
                      ops \ {o}, open)
             /\ midbody' = [midbody EXCEPT ![f] = t = "post"]
             /\ requests' = IF t \in Requests THEN requests + 1 ELSE requests
       \/ /\ Close({}, slot, [conn EXCEPT ![f] = [c EXCEPT !.client_eof = TRUE]],
                   ops \ {o}, open)
          /\ UNCHANGED <<midbody, requests>>
       \/ /\ Close({}, slot,
                   [conn EXCEPT ![f] = [c EXCEPT !.client_eof = TRUE,
                                                 !.outbox = FALSE,
                                                 !.phase = "Closing"]],
                   ops \ {o}, open)
          /\ UNCHANGED <<midbody, requests>>
       \/ /\ c.tls /\ c.phase = "Head"
          /\ Close({}, slot, [conn EXCEPT ![f] = [c EXCEPT !.outbox = TRUE,
                                                          !.deadline = TRUE,
                                                          !.phase = "Closing"]],
                   ops \ {o}, open)
          /\ UNCHANGED <<midbody, requests>>
    /\ Goto("advance", f)
    /\ UNCHANGED <<drain, away, listen, opens, refusals, pool, jobs, inflight>>

OnClientWrite(o) ==
    LET f == o.fd
        c == [conn[f] EXCEPT !.writing = FALSE] IN
    /\ Completes(o, "DOWN_WRITE")
    /\ \E d \in {c, [c EXCEPT !.outbox = FALSE, !.phase = "Closing"]} :
           Close({}, slot, [conn EXCEPT ![f] = d], ops \ {o}, open)
    /\ Goto("advance", f)
    /\ UNCHANGED <<drain, world, pool, jobs, inflight>>

UpTokens(c) ==
    IF c.phase = "Tunnel" \/ c.response_body = "until-close" THEN {"rest"}
    ELSE IF c.response_head_seen THEN {"rest", "restMore", "garbage"}
    ELSE Responses

\* on_upstream_read for an exchange: bytes, the end of the stream, an error.
OnUpstreamRead(o) ==
    LET d == slot[o.fd].of
        c == [conn[d] EXCEPT !.up_reading = FALSE] IN
    /\ Completes(o, "UP_READ") /\ slot[o.fd].is = "Upstream"
    /\ slot[d] = Client
    /\ \/ \E t \in UpTokens(c) :
             /\ Close({}, slot, [conn EXCEPT ![d] = [c EXCEPT !.up_inbox = t]],
                      ops \ {o}, open)
             /\ Goto("advance", d)
       \/ /\ Close({}, slot, [conn EXCEPT ![d] = c], ops \ {o}, open)
          /\ \E step \in {"eof", "failed"} : Goto(step, d)
    /\ UNCHANGED <<drain, world, pool, jobs, inflight>>

\* Pool::remove.
PoolRemove(e, f) ==
    LET at == {i \in 1 .. Len(pool[e]) : pool[e][i] = f} IN
    IF at = {} THEN pool
    ELSE LET first == CHOOSE i \in at : \A j \in at : i <= j IN
         [pool EXCEPT ![e] = [i \in 1 .. Len(@) - 1 |-> IF i < first THEN @[i]
                                                       ELSE @[i + 1]]]

\* Pool::put has room.
PoolTakes(e) == Len(pool[e]) < MaxIdle

\* on_upstream_read for a pooled connection: it is thrown away.
OnIdleRead(o) ==
    LET e == slot[o.fd].of IN
    /\ Completes(o, "UP_READ") /\ slot[o.fd].is = "Idle"
    /\ pool' = PoolRemove(e, o.fd)
    /\ Close({o.fd}, slot, conn, ops \ {o}, open)
    /\ UNCHANGED <<drain, world, jobs, inflight, cur>>

\* on_upstream_write for an exchange.
OnUpstreamWrite(o) ==
    LET d == slot[o.fd].of
        c == [conn[d] EXCEPT !.up_writing = FALSE] IN
    /\ Completes(o, "UP_WRITE") /\ slot[o.fd].is = "Upstream"
    /\ slot[d] = Client
    /\ \/ /\ Close({}, slot, [conn EXCEPT ![d] = [c EXCEPT !.up_ready = TRUE]],
                   ops \ {o}, open)
          /\ Goto("advance", d)
       \/ /\ Close({}, slot, [conn EXCEPT ![d] = c], ops \ {o}, open)
          /\ Goto("failed", d)
    /\ UNCHANGED <<drain, world, pool, jobs, inflight>>

\* on_upstream_read and on_upstream_write when the connection the upstream
\* belonged to is gone: whatever is in its slot is forgotten.
OnOrphan(o) ==
    LET d == slot[o.fd].of IN
    /\ Completes(o, o.k) /\ slot[o.fd].is = "Upstream" /\ slot[d] # Client
    /\ Close({}, [slot EXCEPT ![d] = Empty], conn, ops \ {o}, open)
    /\ UNCHANGED <<drain, world, pool, jobs, inflight, cur>>

\* on_connected: the helper answers, and the descriptor is the core's again.
OnConnected(u) ==
    LET d == slot[u].of IN
    /\ Waiting /\ u \in jobs
    /\ jobs' = jobs \ {u}
    /\ \/ /\ slot[u].is = "Upstream" /\ slot[d] = Client
          /\ Update(d, [conn[d] EXCEPT !.up_borrowed = FALSE, !.up_ready = TRUE,
                                       !.phase = "Exchanging"])
          /\ Goto("advance", d)
       \/ /\ slot[u].is = "Upstream" /\ slot[d] = Client
          /\ Close({}, [slot EXCEPT ![u] = Empty],
                   [conn EXCEPT ![d].up_borrowed = FALSE, ![d].upstream = NoFd],
                   ops, open \ {u})
          /\ Goto("retry", d)
       \/ /\ slot[u].is = "Upstream" => slot[d] # Client
          /\ Close({}, [g \in Fds |-> IF g = u \/ slot[u] = Upstream(g) THEN Empty
                                      ELSE slot[g]], conn, ops, open \ {u})
          /\ UNCHANGED cur
    /\ UNCHANGED <<drain, world, pool, inflight>>

-----------------------------------------------------------------------------
(* The state machine *)

\* fail_unsupported: queue an answer of the proxy's own and let go of the
\* upstream.  A request whose body is not read to its end costs the connection.
Refused(c, close) ==
    LET d == [Detach(c) EXCEPT !.outbox = TRUE, !.inflight_held = FALSE,
                               !.inbox = "none"] IN
    IF close \/ ~c.client_keep_alive \/ c.request_body # "done"
    THEN [d EXCEPT !.phase = "Closing"]
    ELSE ResetConn(d)

Fail(f, c, close) ==
    /\ Close(Dropped(c),
             [u \in Fds |-> IF u \in Kept(c) THEN Abandoned ELSE slot[u]],
             [conn EXCEPT ![f] = Refused(c, close)], ops, open)
    /\ inflight' = Released(c)
    /\ Goto("drive", f)

\* parse_request with nothing to parse.
ParseNothing(f) ==
    LET c == conn[f] IN
    /\ At("advance", f) /\ c.phase = "Head" /\ c.inbox = "none"
    /\ Update(f, IF c.client_eof THEN [c EXCEPT !.phase = "Closing"] ELSE c)
    /\ Goto("drive", f)
    /\ UNCHANGED <<drain, world, pool, jobs, inflight>>

\* parse_request on what is no request, or on HTTP/2 with nobody to take it.
ParseError(f) ==
    LET c == conn[f] IN
    /\ At("advance", f) /\ c.phase = "Head"
    /\ c.inbox \in {"bad", "body", "badbody"} \/ (c.inbox = "h2" /\ ~Dispatch)
    /\ Fail(f, c, TRUE)
    /\ UNCHANGED <<drain, world, pool, jobs>>

\* hand_off: the descriptor leaves this core for the other engine.
HandOff(f) ==
    /\ At("advance", f) /\ conn[f].phase = "Head"
    /\ conn[f].inbox = "h2" /\ Dispatch
    /\ slot' = [slot EXCEPT ![f] = Empty]
    /\ conn' = [conn EXCEPT ![f] = NewConn]
    /\ generations' = [generations EXCEPT ![f] = BumpGeneration(@)]
    /\ ops' = Aged(ops, {f})
    /\ away' = away \cup {f}
    /\ cur' = Wait
    /\ UNCHANGED <<open, drain_inflight, drain, listen, midbody, counts, pool,
                   jobs, inflight>>

\* The other engine closes a connection it was given.
OtherCloses(f) ==
    /\ Waiting /\ f \in away
    /\ away' = away \ {f} /\ open' = open \ {f}
    /\ UNCHANGED <<slot, conn, generations, ops, drain_inflight, drain, listen,
                   midbody, counts, pool, jobs, inflight, cur>>

\* route_request up to the match: what the head says of the request.  A body
\* read as a head may look like a request.
Parsed(c, keep) ==
    [c EXCEPT !.request_body = IF c.inbox = "post" THEN "more" ELSE "done",
              !.client_keep_alive = keep /\ ~c.client_eof,
              !.upgrade = c.inbox = "upgrade"]

\* route_request: refused for want of a route, an endpoint or a capability, or
\* sent to the first endpoint.
RouteRequest(f) ==
    /\ At("advance", f) /\ conn[f].phase = "Head"
    /\ conn[f].inbox \in {"get", "post", "upgrade", "body"}
    /\ \E keep \in BOOLEAN :
         LET c == Parsed(conn[f], keep) IN
         \/ Fail(f, c, FALSE)
         \/ \E first \in Endpoints :
              /\ Update(f, [c EXCEPT !.inbox = "none", !.phase = "Exchanging",
                                     !.up_outbox = TRUE,
                                     !.endpoint_index = first, !.attempt = 0,
                                     !.targets = Attempts(c.request_body),
                                     !.replayable = c.request_body = "done"])
              /\ Goto("open", f)
              /\ UNCHANGED inflight
    /\ UNCHANGED <<drain, world, pool, jobs>>

\* open_upstream.  The pool first, then a connect: done at once, in progress and
\* lent to the helper, or failed.
OpenUpstream(f) ==
    LET e == Target(conn[f])
        c == [conn[f] EXCEPT !.deadline = TRUE, !.inflight_held = TRUE] IN
    /\ At("open", f)
    /\ inflight' = Held(conn[f])
    /\ IF pool[e] # <<>>
       THEN LET u == pool[e][Len(pool[e])] IN
            /\ pool' = [pool EXCEPT ![e] = SubSeq(@, 1, Len(@) - 1)]
            /\ Close({}, [slot EXCEPT ![u] = Upstream(f)],
                     [conn EXCEPT ![f] = [c EXCEPT !.upstream = u,
                          !.up_reading = TRUE, !.up_ready = TRUE,
                          !.from_pool = TRUE, !.phase = "Exchanging"]],
                     ops, open)
            /\ Goto("advance", f)
            /\ UNCHANGED <<jobs, opens>>
       ELSE /\ UNCHANGED pool
            /\ \/ /\ Update(f, c) /\ Goto("retry", f)
                  /\ UNCHANGED <<jobs, opens>>
               \/ \E u \in Fds \ open, connected \in BOOLEAN :
                    /\ opens < MaxOpens /\ opens' = opens + 1
                    /\ Close({}, [slot EXCEPT ![u] = Upstream(f)],
                             [conn EXCEPT ![f] = [c EXCEPT !.upstream = u,
                                  !.up_reading = FALSE, !.up_ready = connected,
                                  !.from_pool = FALSE,
                                  !.up_borrowed = @ \/ ~connected,
                                  !.phase = IF connected THEN "Exchanging"
                                            ELSE "Connecting"]],
                             ops, open \cup {u})
                    /\ jobs' = IF connected THEN jobs ELSE jobs \cup {u}
                    /\ Goto(IF connected THEN "advance" ELSE "drive", f)
    /\ UNCHANGED <<drain, away, listen, midbody, requests, refusals>>

\* Mutant: a request with a body is sent again after a pooled race.
PooledRaceAnyBody(c) == c.from_pool /\ ~c.pool_retry_used /\ ~c.committed

\* Whether retry_or_fail gives the same endpoint another try: a pooled
\* connection was lost before the response started.
PooledRace(c) ==
    c.from_pool /\ ~c.pool_retry_used /\ ~c.committed /\ c.replayable

CanRetry(c) == ~c.committed /\ c.attempt + 1 < c.targets

Resend(c) ==
    [c EXCEPT !.up_outbox = TRUE, !.up_inbox = "none", !.up_reading = FALSE,
              !.up_writing = FALSE, !.up_ready = FALSE,
              !.response_head_seen = FALSE, !.phase = "Exchanging"]

\* retry_or_fail and exhausted.
RetryOrFail(f) ==
    LET c == [conn[f] EXCEPT !.inflight_held = FALSE] IN
    /\ At("retry", f)
    /\ \/ /\ PooledRace(c)
          /\ Update(f, Resend([c EXCEPT !.from_pool = FALSE,
                                        !.pool_retry_used = TRUE]))
          /\ inflight' = Released(conn[f]) /\ Goto("open", f)
       \/ /\ ~PooledRace(c) /\ CanRetry(c)
          /\ Update(f, Resend([c EXCEPT !.attempt = @ + 1]))
          /\ inflight' = Released(conn[f]) /\ Goto("open", f)
       \/ /\ ~PooledRace(c) /\ ~CanRetry(c)
          /\ Fail(f, conn[f], FALSE)
    /\ UNCHANGED <<drain, world, pool, jobs>>

\* upstream_failed: too late for an error once the client has a status.
UpstreamFailed(f) ==
    LET c == conn[f]
        d == [c EXCEPT !.upstream = NoFd]
        closed == IF c.upstream = NoFd THEN {} ELSE {c.upstream} IN
    /\ At("failed", f)
    /\ IF c.response_head_seen
       THEN /\ Close(closed, slot, [conn EXCEPT ![f] =
                        [d EXCEPT !.phase = "Closing"]], ops, open)
            /\ Goto("drive", f)
       ELSE /\ Close(closed, slot, [conn EXCEPT ![f] = d], ops, open)
            /\ Goto("retry", f)
    /\ UNCHANGED <<drain, world, pool, jobs, inflight>>

\* on_upstream_eof: half a tunnel, the end of a response framed by it, or a
\* failure.
UpstreamEof(f) ==
    LET c == conn[f] IN
    /\ At("eof", f)
    /\ \/ /\ c.phase = "Tunnel"
          /\ Update(f, [c EXCEPT !.upstream_eof = TRUE])
          /\ Goto("advance", f)
       \/ /\ c.phase # "Tunnel"
          /\ c.response_head_seen /\ c.response_body = "until-close"
          /\ Update(f, [c EXCEPT !.outbox = @ \/ c.up_inbox # "none",
                                 !.up_inbox = "none", !.response_body = "done",
                                 !.upstream_keep_alive = FALSE])
          /\ Goto("finish", f)
       \/ /\ c.phase # "Tunnel"
          /\ ~(c.response_head_seen /\ c.response_body = "until-close")
          /\ Update(f, c)
          /\ Goto("failed", f)
    /\ UNCHANGED <<drain, world, pool, jobs, inflight>>

\* finish_response: pool the upstream if the exchange left it at a boundary and
\* a read can be parked on it; ready the client for its next request.
Reusable(c) ==
    c.upstream_keep_alive /\ c.up_inbox = "none" /\ ~c.up_writing

FinishResponse(f) ==
    LET c == conn[f]
        u == c.upstream
        e == Target(c)
        d == ResetConn([Detach(c) EXCEPT !.inflight_held = FALSE])
        pooled == u # NoFd /\ Reusable(c) /\ PoolTakes(e)
        next == IF c.client_keep_alive THEN d ELSE [d EXCEPT !.phase = "Closing"]
    IN
    /\ At("finish", f)
    /\ inflight' = Released(c)
    /\ \E parked \in BOOLEAN :
         /\ parked \/ (pooled /\ ~c.up_reading)
         /\ Refuses(parked)
         /\ IF pooled /\ parked
            THEN /\ pool' = [pool EXCEPT ![e] = Append(@, u)]
                 /\ Close({}, [slot EXCEPT ![u] = Idle(e)],
                          [conn EXCEPT ![f] = next],
                          IF c.up_reading THEN ops
                          ELSE ops \cup {Submit("UP_READ", u)}, open)
            ELSE /\ UNCHANGED pool
                 /\ Close(IF u = NoFd THEN {} ELSE {u}, slot,
                          [conn EXCEPT ![f] = next], ops, open)
    /\ Goto("advance", f)
    /\ UNCHANGED <<drain, away, listen, midbody, requests, opens, jobs>>

\* pump_bodies, client to upstream: the rest of the body, a body that breaks its
\* framing, or a client that went away in the middle of it.
PumpRequestBody(f) ==
    LET c == conn[f] IN
    /\ At("advance", f) /\ c.phase \in {"Exchanging", "Relaying"}
    /\ c.request_body = "more"
    /\ \/ /\ c.inbox = "body"
          /\ Update(f, [c EXCEPT !.inbox = "none", !.request_body = "done",
                                 !.up_outbox = TRUE])
          /\ Goto("advance", f) /\ UNCHANGED inflight
       \/ /\ c.inbox = "badbody" \/ (c.inbox = "none" /\ c.client_eof)
          /\ Fail(f, c, TRUE)
    /\ UNCHANGED <<drain, world, pool, jobs>>

BodyBlocked(c) ==
    c.request_body = "more" => c.inbox = "none" /\ ~c.client_eof

\* pump_bodies and parse_response with nothing from the upstream.
PumpNothing(f) ==
    LET c == conn[f] IN
    /\ At("advance", f)
    /\ \/ c.phase \in {"Connecting", "Closing"}
       \/ /\ c.phase \in {"Exchanging", "Relaying"}
          /\ BodyBlocked(c) /\ c.up_inbox = "none"
    /\ Goto("drive", f)
    /\ UNCHANGED <<table, drain_inflight, drain, world, pool, jobs, inflight>>

Pumping(f) ==
    /\ At("advance", f) /\ conn[f].phase \in {"Exchanging", "Relaying"}
    /\ BodyBlocked(conn[f])

\* parse_response on a response head: the status goes to the client and the
\* exchange is committed.
RelayHead(f) ==
    LET c == conn[f]
        whole == c.up_inbox \in {"full", "fullMore"}
        ends == c.up_inbox = "close" IN
    /\ Pumping(f) /\ ~c.response_head_seen
    /\ c.up_inbox \in {"full", "fullMore", "part", "close"}
    /\ \E keep \in BOOLEAN :
         Update(f, [c EXCEPT !.up_inbox = IF @ = "fullMore" THEN "extra"
                                          ELSE "none",
                             !.response_body = IF whole THEN "done"
                                               ELSE IF ends THEN "until-close"
                                               ELSE "more",
                             !.upstream_keep_alive = keep /\ ~ends,
                             !.client_keep_alive = @ /\ ~ends,
                             !.outbox = TRUE, !.phase = "Relaying",
                             !.response_head_seen = TRUE, !.committed = TRUE,
                             !.deadline = TRUE])
    /\ Goto(IF whole THEN "finish" ELSE "advance", f)
    /\ UNCHANGED <<drain, world, pool, jobs, inflight>>

\* parse_response on body bytes.
RelayBody(f) ==
    LET c == conn[f]
        ends == c.response_body = "more" IN
    /\ Pumping(f) /\ c.response_head_seen /\ c.up_inbox \in {"rest", "restMore"}
    /\ Update(f, [c EXCEPT !.up_inbox = IF @ = "restMore" THEN "extra" ELSE "none",
                           !.outbox = TRUE,
                           !.response_body = IF ends THEN "done" ELSE @])
    /\ Goto(IF ends THEN "finish" ELSE "advance", f)
    /\ UNCHANGED <<drain, world, pool, jobs, inflight>>

\* upstream_garbage.
UpstreamGarbage(f) ==
    LET c == conn[f] IN
    /\ Pumping(f) /\ c.up_inbox = "garbage"
    /\ IF c.response_head_seen
       THEN /\ Update(f, c) /\ Goto("failed", f) /\ UNCHANGED inflight
       ELSE Fail(f, [c EXCEPT !.committed = TRUE], TRUE)
    /\ UNCHANGED <<drain, world, pool, jobs>>

\* begin_tunnel: a 101 to a request that asked for it, or that did not.
BeginTunnel(f) ==
    LET c == conn[f] IN
    /\ Pumping(f) /\ ~c.response_head_seen /\ c.up_inbox = "switch"
    /\ IF c.upgrade
       THEN /\ Update(f, [c EXCEPT !.outbox = TRUE, !.up_inbox = "none",
                                   !.up_outbox = @ \/ c.inbox # "none",
                                   !.inbox = "none", !.response_head_seen = TRUE,
                                   !.committed = TRUE, !.phase = "Tunnel",
                                   !.deadline = FALSE,
                                   !.upstream_keep_alive = FALSE])
            /\ Goto("advance", f) /\ UNCHANGED inflight
       ELSE Fail(f, c, TRUE)
    /\ UNCHANGED <<drain, world, pool, jobs>>

\* pump_tunnel.  A shutdown of the write side changes nothing of this core.
PumpTunnel(f) ==
    LET c == conn[f]
        moved == c.inbox # "none" \/ c.up_inbox # "none"
        d == [c EXCEPT !.up_outbox = @ \/ c.inbox # "none", !.inbox = "none",
                       !.outbox = @ \/ c.up_inbox # "none", !.up_inbox = "none"]
        over == d.upstream_eof /\ ~d.outbox /\ ~d.writing
                    /\ (d.tls \/ d.client_eof) IN
    /\ At("advance", f) /\ c.phase = "Tunnel"
    /\ Update(f, IF over THEN [d EXCEPT !.phase = "Closing",
                                        !.outbox = d.tls] ELSE d)
    /\ Goto(IF moved THEN "advance" ELSE "drive", f)
    /\ UNCHANGED <<drain, world, pool, jobs, inflight>>

\* drive: submit every operation the connection has become ready for, each
\* guarded by the flag of its place in the ring; close a connection that has
\* nothing left to write.  The ring may refuse one of them: what a refused write
\* carried is lost and the connection closes, a refused read is not retried
\* until something else drives the connection.
Drive(f) ==
    \E refused \in {"none"} \cup ReadKinds \cup WriteKinds :
    LET c == conn[f]
        u == c.upstream
        write == ~c.writing /\ c.outbox
        upWrite == u # NoFd /\ c.up_ready /\ ~c.up_writing /\ c.up_outbox
        d == [c EXCEPT !.writing = @ \/ (write /\ refused # "DOWN_WRITE"),
                       !.outbox = @ /\ ~write,
                       !.up_writing = @ \/ (upWrite /\ refused # "UP_WRITE"),
                       !.up_outbox = @ /\ ~upWrite,
                       !.phase = IF refused \in WriteKinds THEN "Closing" ELSE @]
        upRead == ~d.up_reading /\ WantsUpstreamBytes(d)
        read == ~d.reading /\ WantsClientBytes(d)
        submitted ==
            (IF write THEN {Submit("DOWN_WRITE", f)} ELSE {}) \cup
            (IF upWrite THEN {Submit("UP_WRITE", u)} ELSE {}) \cup
            (IF upRead THEN {Submit("UP_READ", u)} ELSE {}) \cup
            (IF read THEN {Submit("DOWN_READ", f)} ELSE {})
        taken == {o \in submitted : o.k # refused}
        finished == d.phase = "Closing" /\ ~d.writing /\ ~d.outbox IN
    /\ At("drive", f)
    /\ refused = "none" \/ taken # submitted
    /\ Refuses(refused = "none")
    /\ Close(IF finished THEN Dropped(c) \cup {f} ELSE {},
             [g \in Fds |-> IF finished /\ g \in Kept(c) THEN Abandoned
                            ELSE slot[g]],
             [conn EXCEPT ![f] =
                 [d EXCEPT !.up_reading = @ \/ (upRead /\ refused # "UP_READ"),
                           !.reading = @ \/ (read /\ refused # "DOWN_READ")]],
             ops \cup taken, open)
    /\ cur' = Wait
    /\ UNCHANGED <<drain, away, listen, midbody, requests, opens, pool, jobs,
                   inflight>>

-----------------------------------------------------------------------------
(* The clock *)

\* Mutant: the sweep leaves connecting requests to the helper.
TickOverdueSkips(f) ==
    LET c == conn[f] IN
    /\ Waiting /\ slot[f] = Client /\ c.deadline
    /\ \/ /\ c.phase = "Exchanging"
          /\ Fail(f, c, TRUE)
       \/ /\ c.phase = "Head"
          /\ Close({f}, slot, conn, ops, open)
          /\ UNCHANGED <<inflight, cur>>
    /\ UNCHANGED <<drain, world, pool, jobs>>

\* on_tick for one overdue connection.  One that relays, tunnels or closes has
\* its deadline extended.
TickOverdue(f) ==
    LET c == conn[f] IN
    /\ Waiting /\ slot[f] = Client /\ c.deadline
    /\ \/ /\ c.phase \in {"Exchanging", "Connecting"}
          /\ Fail(f, c, TRUE)
       \/ /\ c.phase = "Head"
          /\ Close({f}, slot, conn, ops, open)
          /\ UNCHANGED <<inflight, cur>>
    /\ UNCHANGED <<drain, world, pool, jobs>>

\* on_tick for one pooled connection past the idle timeout.
TickExpire(u) ==
    LET e == slot[u].of IN
    /\ Waiting /\ slot[u].is = "Idle"
    /\ pool' = PoolRemove(e, u)
    /\ Close({u}, slot, conn, ops, open)
    /\ UNCHANGED <<drain, world, jobs, inflight, cur>>

\* Mutant: the deadline is looked at only when nothing is waited for.
TickGraceIdle ==
    /\ Waiting /\ draining /\ drain_inflight = 0 /\ ~drain_expired
    /\ drain_expired' = TRUE
    /\ UNCHANGED <<table, drain_inflight, draining, stopped, severed, world,
                   pool, jobs, inflight, cur>>

\* on_tick past the drain's deadline.
TickGrace ==
    /\ Waiting /\ draining /\ drain_inflight > 0 /\ ~drain_expired
    /\ drain_expired' = TRUE
    /\ UNCHANGED <<table, drain_inflight, draining, stopped, severed, world,
                   pool, jobs, inflight, cur>>

-----------------------------------------------------------------------------
(* Admin connections: one request, one answer *)

\* on_admin_read and drive_admin: the stream ended, or the answer is written,
\* unless the ring refuses it.
OnAdminRead(o) ==
    LET f == o.fd IN
    /\ Completes(o, "ADMIN_READ")
    /\ \/ /\ Close({f}, slot, conn, ops \ {o}, open)
          /\ UNCHANGED refusals
       \/ \E ok \in BOOLEAN :
             /\ Refuses(ok)
             /\ Close({}, slot, [conn EXCEPT ![f].reading = FALSE,
                                             ![f].writing = ok],
                      (ops \ {o}) \cup (IF ok THEN {Submit("ADMIN_WRITE", f)}
                                        ELSE {}), open)
    /\ UNCHANGED <<drain, away, listen, midbody, requests, opens, pool, jobs,
                   inflight, cur>>

OnAdminWrite(o) ==
    /\ Completes(o, "ADMIN_WRITE")
    /\ Close({o.fd}, slot, conn, ops \ {o}, open)
    /\ UNCHANGED <<drain, world, pool, jobs, inflight, cur>>

-----------------------------------------------------------------------------
(* Shutdown *)

\* drain_client and drain_admin: a connection the drain waits for.
Waited(f) ==
    LET c == conn[f] IN
    \/ /\ slot[f] = Client /\ c.phase # "Tunnel"
       /\ c.phase \in Serving \/ c.writing \/ c.outbox
    \/ slot[f] = Admin /\ c.writing

DrainConn(f) ==
    LET c == conn[f] IN
    IF ~Waited(f) THEN c
    ELSE IF slot[f] = Admin THEN [c EXCEPT !.drain_counted = TRUE]
    ELSE [c EXCEPT !.drain_counted = TRUE, !.client_keep_alive = FALSE,
                   !.phase = IF @ = "Head" THEN "Closing" ELSE @]

Pooled ==
    {f \in Fds : \E e \in Endpoints : \E i \in 1 .. Len(pool[e]) : pool[e][i] = f}

\* begin_drain, when run finds the stop flag set: the listeners, then the idle
\* upstreams, then every connection, once.
BeginDrain ==
    LET held == {f \in Fds : slot[f] \in {Client, Admin}}
        waited == {f \in held : Waited(f)}
        closed == Pooled \cup (held \ waited) IN
    /\ Waiting /\ ~draining
    /\ draining' = TRUE
    /\ listen' = [r \in Roles |-> IF listen[r] = "armed" THEN "shut" ELSE "gone"]
    /\ pool' = [e \in Endpoints |-> <<>>]
    /\ slot' = [f \in Fds |-> IF f \in closed THEN Empty ELSE slot[f]]
    /\ conn' = [f \in Fds |-> IF f \in closed THEN NewConn ELSE DrainConn(f)]
    /\ generations' = [f \in Fds |-> IF f \in closed
                                     THEN BumpGeneration(generations[f])
                                     ELSE generations[f]]
    /\ ops' = Aged(ops, closed)
    /\ open' = open \ closed
    /\ drain_inflight' = Cardinality(waited)
    /\ severed' = \E f \in held \ waited : conn[f].upstream # NoFd
    /\ UNCHANGED <<drain_expired, stopped, away, midbody, counts, jobs, inflight,
                   cur>>

\* The loop of run ends, and teardown closes all that is left but the
\* descriptors of abandoned connects.
Teardown ==
    /\ Waiting /\ draining /\ (drain_inflight = 0 \/ drain_expired)
    /\ Close({f \in Fds : slot[f].is \in {"Client", "Admin", "Upstream", "Idle"}},
             slot, conn, ops, open)
    /\ pool' = [e \in Endpoints |-> <<>>]
    /\ stopped' = TRUE
    /\ UNCHANGED <<draining, drain_expired, severed, world, jobs, inflight, cur>>

Step(f) ==
    \/ ParseNothing(f) \/ ParseError(f) \/ HandOff(f) \/ RouteRequest(f)
    \/ OpenUpstream(f) \/ RetryOrFail(f) \/ UpstreamFailed(f) \/ UpstreamEof(f)
    \/ FinishResponse(f) \/ PumpRequestBody(f) \/ PumpNothing(f) \/ RelayHead(f)
    \/ RelayBody(f) \/ UpstreamGarbage(f) \/ BeginTunnel(f) \/ PumpTunnel(f)
    \/ Drive(f)

Dispatched(o) ==
    \/ DropStale(o) \/ OnClientRead(o) \/ OnClientWrite(o) \/ OnUpstreamRead(o)
    \/ OnIdleRead(o) \/ OnUpstreamWrite(o) \/ OnOrphan(o) \/ OnAdminRead(o)
    \/ OnAdminWrite(o)

Next ==
    \/ \E f \in Fds : Step(f) \/ AcceptClient(f) \/ AcceptAdmin(f)
                        \/ OnConnected(f) \/ OtherCloses(f) \/ TickOverdue(f)
                        \/ TickExpire(f)
    \/ \E r \in Roles : AcceptExhausted(r) \/ \E f \in Fds : DropStaleAccept(r, f)
    \/ \E o \in ops : Dispatched(o)
    \/ TickGrace \/ BeginDrain \/ Teardown

Spec == Init /\ [][Next]_vars

\* The worker runs its handlers.  A wait returns every completion there is, so
\* the helper's ticks are not overtaken for ever, and they find every deadline
\* past sooner or later.  Nothing is assumed of clients and upstreams.
FairSpec ==
    /\ Spec
    /\ WF_vars(\E f \in Fds : Step(f))
    /\ SF_vars(TickGrace \/ \E f \in Fds : TickOverdue(f))
    /\ SF_vars(Teardown)

-----------------------------------------------------------------------------
(* Properties *)

\* Every variable keeps its shape; in particular an attempt never indexes past
\* the endpoints of the backend (route::attempts, retry_or_fail).
TypeOK ==
    /\ slot \in [Fds -> Slot] /\ conn \in [Fds -> Conn]
    /\ generations \in [Fds -> 0 .. GenModulus - 1] /\ ops \subseteq Op
    /\ open \subseteq Fds /\ away \subseteq open /\ jobs \subseteq Fds
    /\ pool \in [Endpoints -> Seq(Fds)] /\ inflight \in [Endpoints -> Int]
    /\ cur.at \in {"wait", "advance", "open", "retry", "failed", "eof", "finish",
                   "drive"}
    /\ cur.fd \in Fds \cup {NoFd}
    /\ listen \in [Roles -> {"armed", "lost", "shut", "gone"}]
    /\ {draining, drain_expired, stopped, severed} \subseteq BOOLEAN
    /\ drain_inflight \in Nat /\ midbody \in [Fds -> BOOLEAN]
    /\ requests \in 0 .. MaxRequests /\ opens \in 0 .. MaxOpens
    /\ refusals \in 0 .. MaxRefusals

InRing(k, f) == \E o \in ops : o.k = k /\ o.fd = f /\ IsLive(o)

\* What the 24 bits of a generation are enough for: no operation stays in the
\* ring while its descriptor's number is handed on that often.
NoWrap == \A o \in ops : o.age < GenModulus

\* A completion is applied only to the connection it was issued for: no
\* operation issued before a close carries the tag of the number's new owner.
NoStaleDelivery == \A o \in ops : o.age > 0 => ~IsLive(o)

\* The flags drive() guards its submissions with say exactly which operations
\* are in the ring for a connection, so that none is submitted twice and none is
\* waited for that is not there.  A pooled connection has its one parked read.
FlagsMatchRing ==
    \A f \in Fds :
        LET c == conn[f] IN
        /\ slot[f] = Client =>
              /\ c.reading = InRing("DOWN_READ", f)
              /\ c.writing = InRing("DOWN_WRITE", f)
        /\ slot[f] = Client /\ c.upstream # NoFd /\ ~severed =>
              /\ c.up_reading = InRing("UP_READ", c.upstream)
              /\ c.up_writing = InRing("UP_WRITE", c.upstream)
        /\ slot[f].is = "Idle" /\ ~severed =>
              InRing("UP_READ", f) /\ ~InRing("UP_WRITE", f)

\* An open descriptor is always known to somebody who will close it: it has a
\* slot, or the other engine has it.
NoDescriptorLeaks == ~severed => \A f \in open : slot[f] # Empty \/ f \in away

\* Slots and connections agree on who uses which upstream, and nobody uses a
\* descriptor that is closed or gone to the other engine.
OwnersAgree ==
    ~severed => \A f \in Fds :
        /\ slot[f] # Empty => f \in open \ away
        /\ slot[f].is = "Upstream" =>
              slot[slot[f].of] = Client /\ conn[slot[f].of].upstream = f
        /\ slot[f] = Client /\ conn[f].upstream # NoFd =>
              slot[conn[f].upstream] = Upstream(f)

\* The pool and the table agree on which connections are idle, through returns,
\* takes, expiry, a close by the upstream and the drain.
PoolAgrees ==
    ~severed => \A e \in Endpoints :
        /\ Len(pool[e]) <= MaxIdle
        /\ \A i, j \in 1 .. Len(pool[e]) : pool[e][i] = pool[e][j] => i = j
        /\ \A f \in Fds : slot[f] = Idle(e) <=> \E i \in 1 .. Len(pool[e]) :
                                                    pool[e][i] = f

\* A connecting descriptor the helper thread polls stays open until it answers,
\* whatever becomes of the request (up_borrowed, Slot::Abandoned).
BorrowedStaysOpen == ~stopped /\ ~severed => jobs \subseteq open

\* drain_inflight is the number of connections begin_drain counted and that are
\* still there, however each of them ends.
DrainCountExact ==
    drain_inflight = Cardinality({f \in Fds : conn[f].drain_counted})

\* A request is dialled only while its client has been told nothing, and is sent
\* to a second place only if it had no body.
NeverSentTwice ==
    \A f \in Fds : At("open", f) =>
        /\ ~conn[f].committed
        /\ conn[f].attempt > 0 \/ conn[f].pool_retry_used =>
              conn[f].replayable /\ conn[f].request_body = "done"

\* An endpoint's in-flight counter is never released more often than it was
\* held, over retries, failures and timeouts (hold_inflight, release_inflight).
NeverReleasedTwice ==
    \A e \in Endpoints :
        inflight[e] >= Cardinality({f \in Fds : /\ slot[f] = Client
                                                /\ conn[f].inflight_held
                                                /\ Target(conn[f]) = e})

\* A completion reaches only the connection it was issued for, and each
\* connection waits for exactly the operations the ring holds for it (dispatch,
\* close and the flags of drive), however numbers are handed out again.
DeliveryExact == NoStaleDelivery /\ FlagsMatchRing

\* Every open descriptor has one owner who will close it: a connection, an
\* exchange, the pool, the helper thread or the other engine, through retries,
\* refused submissions, hand-offs and a drain that counts what it waits for.
DescriptorsAccounted ==
    /\ TypeOK
    /\ NoDescriptorLeaks
    /\ OwnersAgree
    /\ PoolAgrees
    /\ BorrowedStaysOpen
    /\ DrainCountExact

\* No request is sent to a second place that may have been acted on, and no
\* attempt, however it ends, gives back a hold it did not have (retry_or_fail,
\* hold_inflight, release_inflight).
AttemptsAccounted == NeverSentTwice /\ NeverReleasedTwice

\* A core told to stop stops, whatever clients and upstreams do: on_tick sees the
\* drain's deadline.
DrainEnds == draining ~> stopped

\* A request waiting for its response is answered, closed or committed within
\* its deadline, whatever its upstream does, and none of its attempts releases an
\* endpoint it had not held.
RequestsEnd ==
    /\ []NeverReleasedTwice
    /\ \A f \in Fds :
          conn[f].phase \in {"Connecting", "Exchanging"} ~>
              conn[f].phase \notin {"Connecting", "Exchanging"}
=============================================================================
