------------------------------ MODULE Serving -------------------------------
(***************************************************************************)
(* The hyper engine's connections, from accept to close, and its shutdown. *)
(*                                                                         *)
(* One loop accepts on the plaintext, TLS and admin listeners, and takes   *)
(* connections the other engine hands over; each goes round-robin to a     *)
(* lane, a thread with a runtime of its own.  The HTTP/3 endpoint runs on  *)
(* a thread of its own too, and sees the shutdown signal for itself.       *)
(*                                                                         *)
(* hyper, h3 and quinn are libraries: a connection told to shut down takes *)
(* no further request and closes once it has none.  A grace period may     *)
(* expire at any time after it began.  What is said inside a request is    *)
(* in Forwarding.                                                          *)
(***************************************************************************)
EXTENDS Naturals, Sequences, FiniteSetsExt, SequencesExt

CONSTANTS
    Conns,          \* clients' connections, each made at most once
    KindOf,         \* [Conns -> "http", "https", "handoff", "admin", "h3"]
    NLanes,         \* worker_threads
    HandoffDepth,   \* HANDOFF_QUEUE_DEPTH
    MaxStreams,     \* bound on concurrent requests on an h2 or h3 connection
    ProxyProtocol   \* whether the listeners expect a PROXY header

ASSUME ServingAssumption ==
    /\ KindOf \in [Conns -> {"http", "https", "handoff", "admin", "h3"}]
    /\ NLanes \in Nat \ {0}
    /\ HandoffDepth \in Nat \ {0}
    /\ MaxStreams \in Nat \ {0}
    /\ ProxyProtocol \in BOOLEAN

VARIABLES
    signal,     \* shutdown has been asked for
    phase,      \* of Server::run: "serving", "draining", "returned"
    result,     \* what run returned: "none", "ok", "timedout"
    conn,       \* connection -> [at, lane, reqs, goaway]
    handoffs,   \* the channel from the other engine
    jobs,       \* lane -> its queue
    next,       \* Workers::next
    lane,       \* lane -> "open", "graceful", "drained", "expired"
    admin,      \* the admin drain, likewise
    endpoint,   \* the HTTP/3 endpoint, likewise
    gauge       \* active_connections

vars == <<signal, phase, result, conn, handoffs, jobs, next, lane, admin, endpoint, gauge>>

Lanes == 0..NLanes - 1
Of(kinds) == {c \in Conns : KindOf[c] \in kinds}
Tcp == Of({"http", "https", "handoff"})
H3 == Of({"h3"})
Admin == Of({"admin"})

At(c, places) == conn[c].at \in places
Place(c, at) == conn' = [conn EXCEPT ![c].at = at]
Leave(c) == conn' = [conn EXCEPT ![c].at = "closed", ![c].reqs = 0]

\* The tasks a GracefulShutdown, or the endpoint's JoinSet, waits for: all but
\* a connection that has been upgraded, whose task has ended.
Alive == {"quic", "h3layer", "preface", "tls", "open"}
OnLane(l) == {c \in Tcp : conn[c].lane = l /\ At(c, Alive)}

\* Whether it holds a ConnectionGuard.  Admin connections are not counted.
Guarded(c) == c \notin Admin /\ At(c, {"queued", "preface", "tls", "h3layer", "open"})

Init ==
    /\ signal = FALSE
    /\ phase = "serving"
    /\ result = "none"
    /\ conn = [c \in Conns |-> [at |-> "out", lane |-> 0, reqs |-> 0, goaway |-> FALSE]]
    /\ handoffs = <<>>
    /\ jobs = [l \in Lanes |-> <<>>]
    /\ next = 0
    /\ lane = [l \in Lanes |-> "open"]
    /\ admin = "open"
    /\ endpoint = "open"
    /\ gauge = 0

-----------------------------------------------------------------------------
(* The accept loop.  Shutdown wins a tie, so it takes nothing once asked.  *)

Accepting == phase = "serving" /\ ~signal

\* Workers::send
Send(c) ==
    LET l == next % NLanes
    IN  /\ conn' = [conn EXCEPT ![c].at = "queued", ![c].lane = l]
        /\ jobs' = [jobs EXCEPT ![l] = Append(@, c)]
        /\ next' = next + 1

\* dispatch: a socket that cannot leave this runtime is dropped, its guard too.
Accept(c) ==
    /\ Accepting
    /\ c \in Of({"http", "https"}) /\ At(c, {"out"})
    /\ \/ Send(c) /\ gauge' = gauge + 1
       \/ Leave(c) /\ UNCHANGED <<jobs, next, gauge>>
    /\ UNCHANGED <<signal, phase, result, handoffs, lane, admin, endpoint>>

AcceptAdmin(c) ==
    /\ Accepting
    /\ c \in Admin /\ At(c, {"out"})
    /\ Place(c, "open")
    /\ UNCHANGED <<signal, phase, result, handoffs, jobs, next, lane, admin, endpoint, gauge>>

\* HandoffSender::send, on a thread of the other engine: refused if the queue
\* is full or the server has gone.
HandOver(c) ==
    /\ c \in Of({"handoff"}) /\ At(c, {"out"})
    /\ \/ /\ phase # "returned" /\ Len(handoffs) < HandoffDepth
          /\ handoffs' = Append(handoffs, c)
          /\ Place(c, "waiting")
       \/ /\ phase = "returned" \/ Len(handoffs) >= HandoffDepth
          /\ Leave(c)
          /\ UNCHANGED handoffs
    /\ UNCHANGED <<signal, phase, result, jobs, next, lane, admin, endpoint, gauge>>

\* dispatch_handoff
MutUncounted ==
    /\ Accepting
    /\ handoffs # <<>>
    /\ Send(Head(handoffs))
    /\ handoffs' = Tail(handoffs)
    /\ UNCHANGED <<signal, phase, result, lane, admin, endpoint, gauge>>

TakeHandoff ==
    /\ Accepting
    /\ handoffs # <<>>
    /\ Send(Head(handoffs))
    /\ handoffs' = Tail(handoffs)
    /\ gauge' = gauge + 1
    /\ UNCHANGED <<signal, phase, result, lane, admin, endpoint>>

-----------------------------------------------------------------------------
(* A lane, and the task of a connection.                                   *)

Gone(l) == lane[l] \in {"drained", "expired"}

\* serve_lane picks a job up and spawns its task.  A handed-over connection
\* has had its PROXY header read.
FirstPlace(c) ==
    CASE KindOf[c] = "handoff" -> "tls"
      [] ProxyProtocol -> "preface"
      [] KindOf[c] = "https" -> "tls"
      [] OTHER -> "open"

LanePick(l) ==
    /\ ~Gone(l)
    /\ jobs[l] # <<>>
    /\ jobs' = [jobs EXCEPT ![l] = Tail(@)]
    /\ LET c == Head(jobs[l])
       IN  \/ Place(c, FirstPlace(c)) /\ UNCHANGED gauge
           \/ Leave(c) /\ gauge' = gauge - 1
    /\ UNCHANGED <<signal, phase, result, handoffs, next, lane, admin, endpoint>>

\* spawn_connection: the PROXY header is read, or is bad, or late.
PrefaceDone(c) ==
    /\ At(c, {"preface"})
    /\ \/ Place(c, IF KindOf[c] = "https" THEN "tls" ELSE "open") /\ UNCHANGED gauge
       \/ Leave(c) /\ gauge' = gauge - 1
    /\ UNCHANGED <<signal, phase, result, handoffs, jobs, next, lane, admin, endpoint>>

\* serve_client: the TLS handshake ends.
TlsDone(c) ==
    /\ At(c, {"tls"})
    /\ \/ Place(c, "open") /\ UNCHANGED gauge
       \/ Leave(c) /\ gauge' = gauge - 1
    /\ UNCHANGED <<signal, phase, result, handoffs, jobs, next, lane, admin, endpoint>>

\* The connection has been told to take no more requests: by its lane's
\* GracefulShutdown, by the admin's, or by a GOAWAY.
Told(c) ==
    CASE c \in Tcp -> lane[conn[c].lane] = "graceful"
      [] c \in Admin -> phase = "draining"
      [] c \in H3 -> conn[c].goaway

Streams(c) == IF KindOf[c] \in {"http", "admin"} THEN 1 ELSE MaxStreams

Request(c) ==
    /\ At(c, {"open"}) /\ ~Told(c)
    /\ conn[c].reqs < Streams(c)
    /\ conn' = [conn EXCEPT ![c].reqs = @ + 1]
    /\ UNCHANGED <<signal, phase, result, handoffs, jobs, next, lane, admin, endpoint, gauge>>

Respond(c) ==
    /\ At(c, {"open"}) /\ conn[c].reqs > 0
    /\ conn' = [conn EXCEPT ![c].reqs = @ - 1]
    /\ UNCHANGED <<signal, phase, result, handoffs, jobs, next, lane, admin, endpoint, gauge>>

\* A 101: the connection's task ends, and its guard with it; the bytes are
\* spliced by a task of their own.
Upgrade(c) ==
    /\ c \in Tcp /\ At(c, {"open"}) /\ conn[c].reqs = 1
    /\ conn' = [conn EXCEPT ![c].at = "tunnel", ![c].reqs = 0]
    /\ gauge' = gauge - 1
    /\ UNCHANGED <<signal, phase, result, handoffs, jobs, next, lane, admin, endpoint>>

\* A connection that has been told to and has nothing left to do closes.
MutWaitsForGoodbye(c) ==
    /\ At(c, {"open"}) /\ Told(c) /\ conn[c].reqs = 0 /\ c \notin H3
    /\ Leave(c)
    /\ gauge' = IF c \in Admin THEN gauge ELSE gauge - 1
    /\ UNCHANGED <<signal, phase, result, handoffs, jobs, next, lane, admin, endpoint>>

CloseIdle(c) ==
    /\ At(c, {"open"}) /\ Told(c) /\ conn[c].reqs = 0
    /\ Leave(c)
    /\ gauge' = IF c \in Admin THEN gauge ELSE gauge - 1
    /\ UNCHANGED <<signal, phase, result, handoffs, jobs, next, lane, admin, endpoint>>

\* The peer closes, or the connection is lost, at any point.
ClientGone(c) ==
    /\ At(c, Alive \cup {"tunnel"})
    /\ Leave(c)
    /\ gauge' = IF Guarded(c) THEN gauge - 1 ELSE gauge
    /\ UNCHANGED <<signal, phase, result, handoffs, jobs, next, lane, admin, endpoint>>

-----------------------------------------------------------------------------
(* The HTTP/3 endpoint.                                                    *)

Connect(c) ==
    /\ c \in H3 /\ At(c, {"out"})
    /\ endpoint = "open" /\ ~signal
    /\ Place(c, "quic")
    /\ UNCHANGED <<signal, phase, result, handoffs, jobs, next, lane, admin, endpoint, gauge>>

\* serve_connection: counted once the QUIC handshake has finished, and even if
\* the h3 layer then does not come up.
QuicDone(c) ==
    /\ At(c, {"quic"})
    /\ \/ Place(c, "h3layer") /\ gauge' = gauge + 1
       \/ Leave(c) /\ UNCHANGED gauge
    /\ UNCHANGED <<signal, phase, result, handoffs, jobs, next, lane, admin, endpoint>>

H3Built(c) ==
    /\ At(c, {"h3layer"})
    /\ \/ Place(c, "open") /\ UNCHANGED gauge
       \/ Leave(c) /\ gauge' = gauge - 1
    /\ UNCHANGED <<signal, phase, result, handoffs, jobs, next, lane, admin, endpoint>>

\* The signal is polled before anything else.
Goaway(c) ==
    /\ c \in H3 /\ At(c, {"open"})
    /\ signal /\ ~conn[c].goaway
    /\ conn' = [conn EXCEPT ![c].goaway = TRUE]
    /\ UNCHANGED <<signal, phase, result, handoffs, jobs, next, lane, admin, endpoint, gauge>>

-----------------------------------------------------------------------------
(* Shutdown.                                                               *)

Signal ==
    /\ ~signal
    /\ signal' = TRUE
    /\ UNCHANGED <<phase, result, conn, handoffs, jobs, next, lane, admin, endpoint, gauge>>

\* The loop ends: the listeners and the lanes' senders are dropped, the admin
\* connections are told.  The receiver of the handoffs lives on.
Break ==
    /\ signal /\ phase = "serving"
    /\ phase' = "draining"
    /\ admin' = "graceful"
    /\ UNCHANGED <<signal, result, conn, handoffs, jobs, next, lane, endpoint, gauge>>

\* A closed lane first serves what is queued.
LaneGraceful(l) ==
    /\ phase # "serving" /\ lane[l] = "open" /\ jobs[l] = <<>>
    /\ lane' = [lane EXCEPT ![l] = "graceful"]
    /\ UNCHANGED <<signal, phase, result, conn, handoffs, jobs, next, admin, endpoint, gauge>>

EndpointBreak ==
    /\ signal /\ endpoint = "open"
    /\ endpoint' = "graceful"
    /\ UNCHANGED <<signal, phase, result, conn, handoffs, jobs, next, lane, admin, gauge>>

\* Dropping a runtime aborts its tasks.  A request is cut short.
Aborted(cs) ==
    [c \in Conns |->
        IF c \notin cs THEN conn[c]
        ELSE [conn[c] EXCEPT !.at = IF conn[c].reqs > 0 THEN "cut" ELSE "closed", !.reqs = 0]]

LaneEnds(l) ==
    /\ lane[l] = "graceful"
    /\ lane' = [lane EXCEPT ![l] = IF OnLane(l) = {} THEN "drained" ELSE "expired"]
    /\ conn' = Aborted(OnLane(l) \cup {c \in Tcp : conn[c].lane = l /\ At(c, {"tunnel"})})
    /\ gauge' = gauge - Cardinality(OnLane(l))
    /\ UNCHANGED <<signal, phase, result, handoffs, jobs, next, admin, endpoint>>

\* timeout(grace, graceful.shutdown()): with nothing left it ends of itself.
LaneDrained(l) == OnLane(l) = {} /\ LaneEnds(l)
LaneExpires(l) == OnLane(l) # {} /\ LaneEnds(l)

AdminOpen == {c \in Admin : At(c, {"open"})}

\* The admin tasks are the caller's: an expired drain leaves them running.
AdminEnds ==
    /\ admin = "graceful"
    /\ admin' = IF AdminOpen = {} THEN "drained" ELSE "expired"
    /\ UNCHANGED <<signal, phase, result, conn, handoffs, jobs, next, lane, endpoint, gauge>>

AdminDrained == AdminOpen = {} /\ AdminEnds

AdminExpires == AdminOpen # {} /\ AdminEnds

H3Open == {c \in H3 : At(c, Alive)}

\* drained, then close: what is left is sent a CONNECTION_CLOSE.
EndpointEnds ==
    /\ endpoint = "graceful"
    /\ endpoint' = IF H3Open = {} THEN "drained" ELSE "expired"
    /\ conn' = Aborted(H3Open)
    /\ gauge' = gauge - Cardinality({c \in H3Open : Guarded(c)})
    /\ UNCHANGED <<signal, phase, result, handoffs, jobs, next, lane, admin>>

EndpointDrained == H3Open = {} /\ EndpointEnds
EndpointExpires == H3Open # {} /\ EndpointEnds

Over(d) == d \in {"drained", "expired"}

\* run returns.  What is still in the channel is dropped with its receiver.
MutForgetsHttp3(l, a, h) == (\A k \in Lanes : l[k] = "drained") /\ a = "drained"

AllDrained(l, a, h) == (\A k \in Lanes : l[k] = "drained") /\ a = "drained" /\ h = "drained"

Return ==
    /\ phase = "draining"
    /\ \A l \in Lanes : Over(lane[l])
    /\ Over(admin) /\ Over(endpoint)
    /\ phase' = "returned"
    /\ result' = IF AllDrained(lane, admin, endpoint) THEN "ok" ELSE "timedout"
    /\ handoffs' = <<>>
    /\ conn' = [c \in Conns |-> IF At(c, {"waiting"}) THEN [conn[c] EXCEPT !.at = "dropped"]
                                ELSE conn[c]]
    /\ UNCHANGED <<signal, jobs, next, lane, admin, endpoint, gauge>>

-----------------------------------------------------------------------------
Next ==
    \/ Signal \/ Break \/ EndpointBreak \/ TakeHandoff
    \/ AdminDrained \/ AdminExpires \/ EndpointDrained \/ EndpointExpires \/ Return
    \/ \E l \in Lanes : LanePick(l) \/ LaneGraceful(l) \/ LaneDrained(l) \/ LaneExpires(l)
    \/ \E c \in Conns :
        \/ Accept(c) \/ AcceptAdmin(c) \/ HandOver(c) \/ Connect(c)
        \/ PrefaceDone(c) \/ TlsDone(c) \/ QuicDone(c) \/ H3Built(c)
        \/ Request(c) \/ Respond(c) \/ Upgrade(c) \/ CloseIdle(c) \/ Goaway(c)
        \/ ClientGone(c)

Spec == Init /\ [][Next]_vars

\* What the server does of itself, on threads the scheduler runs and in loops
\* that wait for nothing else.
Server ==
    /\ WF_vars(Break) /\ WF_vars(EndpointBreak) /\ WF_vars(Return)
    /\ WF_vars(AdminDrained) /\ WF_vars(EndpointDrained)
    /\ \A l \in Lanes : WF_vars(LanePick(l)) /\ WF_vars(LaneGraceful(l)) /\ WF_vars(LaneDrained(l))
    /\ \A c \in Conns : WF_vars(CloseIdle(c)) /\ WF_vars(Goaway(c))

FairSpec == Spec /\ Server

-----------------------------------------------------------------------------
(* Properties.                                                             *)

Kinds == {"out", "waiting", "queued", "quic", "h3layer", "preface", "tls", "open",
          "tunnel", "closed", "cut", "dropped"}

Drain == {"open", "graceful", "drained", "expired"}

\* Every connection is in one place, and in the queue that place says.
TypeOK ==
    /\ signal \in BOOLEAN
    /\ phase \in {"serving", "draining", "returned"}
    /\ result \in {"none", "ok", "timedout"}
    /\ conn \in [Conns -> [at : Kinds, lane : Lanes, reqs : 0..MaxStreams, goaway : BOOLEAN]]
    /\ lane \in [Lanes -> Drain] /\ admin \in Drain /\ endpoint \in Drain
    /\ next \in Nat /\ gauge \in Nat
    /\ Len(handoffs) <= HandoffDepth
    /\ \A c \in Conns : At(c, {"waiting"}) <=> c \in Range(handoffs)
    /\ \A c \in Tcp : At(c, {"queued"}) <=> c \in Range(jobs[conn[c].lane])

\* metrics.rs: the gauge of active connections counts exactly the guards held,
\* however each connection ended (by panic, abort, a failed hand-over or a
\* dropped runtime); once run has returned it reads zero.
GaugeExact ==
    /\ gauge = Cardinality({c \in Conns : Guarded(c)})
    /\ phase = "returned" => gauge = 0

\* Every connection is in one place, and counted there while it is alive
\* (server.rs dispatch and serve, listener.rs, http3.rs).
ConnsAccounted == TypeOK /\ GaugeExact

\* server.rs on run: "Returns TimedOut if connections were still open when the
\* grace period expired ... because silently abandoning in-flight requests is
\* how a graceful shutdown quietly stops being one."  A run that returned Ok
\* cut no request short, on any listener, and left none running.
HonestOutcome ==
    result = "ok" =>
        \A c \in Conns : ~At(c, {"cut"}) /\ conn[c].reqs = 0

\* Whatever clients do, a shutdown ends: every wait in it is bounded by a
\* timer (that of a lane, of the admin drain, of the endpoint).
Timers ==
    /\ \A l \in Lanes : WF_vars(LaneExpires(l))
    /\ WF_vars(AdminExpires) /\ WF_vars(EndpointExpires)

ShutdownEnds == Timers => (signal ~> phase = "returned")

\* And if handshakes and requests finish, it ends without a timer: no idle
\* connection holds it up (http3.rs: "an idle client does not hang up, so the
\* whole grace period would elapse on every shutdown").
Polite == \A c \in Conns :
    WF_vars(PrefaceDone(c)) /\ WF_vars(TlsDone(c)) /\ WF_vars(QuicDone(c))
    /\ WF_vars(H3Built(c)) /\ WF_vars(Respond(c))

PoliteDrain == Polite => (signal ~> phase = "returned")

\* A shutdown ends: by its timers whatever clients do, and without them when
\* clients are polite.
DrainsEnd == ShutdownEnds /\ PoliteDrain
=============================================================================
