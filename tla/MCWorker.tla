------------------------------ MODULE MCWorker ------------------------------
EXTENDS Worker, TLC

\* Descriptor numbers are interchangeable: nothing of the worker depends on
\* their order but the order of its sweeps, which are modelled one descriptor at
\* a time.
FdSymmetry == Permutations(Fds)

\* What the invariants and the later steps can tell of a state.
\*  - Of a generation only whether an operation still carries it.  Opening and
\*    closing MaxOpens descriptors is far from wrapping it around.
\*  - A connection without an upstream that is closing only flushes, once the
\*    step that closed it is over; the next request overwrites what the last one
\*    left; a committed exchange is never retried.
Relevant(f) ==
    LET c == conn[f] IN
    CASE c.phase = "Closing" /\ c.upstream = NoFd
             /\ (cur.fd = f => cur.at \in {"advance", "drive"}) ->
            [NewConn EXCEPT !.phase = "Closing", !.outbox = c.outbox,
                            !.writing = c.writing, !.reading = c.reading,
                            !.inflight_held = c.inflight_held,
                            !.drain_counted = c.drain_counted,
                            !.endpoint_index = IF c.inflight_held THEN Target(c)
                                               ELSE 0]
      [] c.phase = "Head" ->
            [c EXCEPT !.endpoint_index = 0, !.client_keep_alive = TRUE]
      [] c.committed ->
            [c EXCEPT !.endpoint_index = Target(c), !.attempt = 0,
                      !.targets = 0, !.replayable = FALSE, !.from_pool = FALSE,
                      !.pool_retry_used = FALSE, !.upgrade = FALSE]
      [] OTHER -> c

Alike(o, p) == o.k = p.k /\ o.fd = p.fd /\ IsLive(o) = IsLive(p)

InTheRing ==
    {<<o.k, o.fd, o.age > 0, IsLive(o), Cardinality({p \in ops : Alike(o, p)})>> :
        o \in ops}

View ==
    <<slot, [f \in Fds |-> Relevant(f)], InTheRing, open, drain_inflight, drain,
      away, listen,
      [f \in Fds |-> midbody[f] /\ slot[f] = Client /\ conn[f].phase # "Closing"],
      counts, pool, jobs, inflight, cur>>
=============================================================================
