----------------------------- MODULE Balancing ------------------------------
(***************************************************************************)
(* What a request asks of a backend of the route table: which endpoint,    *)
(* whether the canary takes it, whether it is copied; and how the counters *)
(* these answers rest on are carried from one table to the next.           *)
(*                                                                         *)
(* Counters are atomics behind shared pointers.  A pointer is modelled by  *)
(* an identity, <<generation, backend, address>>: the table that allocated *)
(* it and what for.  Two slots share a counter iff they name the same one. *)
(***************************************************************************)
EXTENDS Naturals, Sequences, FiniteSetsExt, SequencesExt, Functions

CONSTANTS
    None,         \* an absent option
    MaxRing       \* MAX_RING: weights adding up to more are scaled down

ASSUME RingAssumption == MaxRing \in Nat \ {0}

-----------------------------------------------------------------------------
(* build_ring: the rotation over endpoints of unequal weight.  Round n     *)
(* lists, in order, every endpoint that still has a slot left.             *)

Total(weights) == FoldFunctionOnSet(LAMBDA a, b : a + b, 0, weights, DOMAIN weights)

Scaled(weights, n) ==
    IF weights[n] = 0 \/ Total(weights) <= MaxRing THEN weights[n]
    ELSE Max({1, (weights[n] * MaxRing) \div Total(weights)})

Uniform(weights) == \A m, n \in DOMAIN weights : weights[m] = weights[n]

Ring(weights) ==
    IF Uniform(weights) THEN [n \in DOMAIN weights |-> n]
    ELSE LET slots == [n \in DOMAIN weights |-> Scaled(weights, n)]
             round(k) == SelectSeq([n \in DOMAIN weights |-> n], LAMBDA n : slots[n] >= k)
         IN  FlattenSeq([k \in 1..Max(Range(slots)) |-> round(k)])

\* LeastConn: the first endpoint of least load for its weight, where an
\* endpoint of weight zero counts as one of weight one.
Lighter(weights, loads, m, n) ==
    loads[m] * Max({1, weights[n]}) < loads[n] * Max({1, weights[m]})

LeastLoaded(weights, loads) ==
    Min({n \in DOMAIN weights : \A m \in DOMAIN weights : ~Lighter(weights, loads, m, n)})

\* select_endpoint: the indices it may return, for the cursor it drew.  It gets
\* the endpoint by its index, and returns nothing for one that is not there.
SelectEndpoint(backend, cursor, loads) ==
    LET ring == Ring(backend.weights)
    IN  DOMAIN backend.addrs \cap
          (CASE backend.addrs = <<>> -> {}
             [] backend.policy = "RoundRobin" -> {ring[(cursor % Len(ring)) + 1]}
             [] backend.policy = "Random" -> Range(ring)
             [] backend.policy = "LeastConn" -> {LeastLoaded(backend.weights, loads)})

-----------------------------------------------------------------------------
(* Carrying the counters over.                                             *)

\* BackendStats::rebuild for one backend: a slot of the new table.  old are the
\* backends of the table before it, by name.
MutFreshCounters(old, gen, name, addrs) ==
    IF name \in DOMAIN old /\ old[name].slot.addrs = addrs THEN old[name].slot
    ELSE [addrs |-> addrs, cursor |-> <<gen, name>>,
          cells |-> [n \in DOMAIN addrs |-> <<gen, name, addrs[n]>>]]

RebuildSlot(old, gen, name, addrs) ==
    IF name \in DOMAIN old /\ old[name].slot.addrs = addrs THEN old[name].slot
    ELSE [addrs |-> addrs,
          cursor |-> <<gen, name>>,
          cells |-> [n \in DOMAIN addrs |->
                        IF name \in DOMAIN old /\ addrs[n] \in Range(old[name].slot.addrs)
                        THEN LET prev == old[name].slot
                             IN  prev.cells[CHOOSE k \in DOMAIN prev.addrs : prev.addrs[k] = addrs[n]]
                        ELSE <<gen, name, addrs[n]>>]]

\* RouteStats::rebuild for one route: its block, named by the generation that
\* allocated it.  A route is the same while it keeps its backend.
RebuildRoute(old, gen, rule) ==
    IF old # None /\ old.backend = rule.backend THEN old.block ELSE gen

-----------------------------------------------------------------------------
(* The two samples taken as a request is matched.                          *)

\* CanarySpec::decide.  A pattern or a value can only say yes.
Decide(c, header, cookie, roll) ==
    LET byHeader == IF c.header = None \/ header = None THEN None
                    ELSE CASE c.pattern # None -> IF header = c.pattern THEN "always" ELSE None
                           [] c.value # None -> IF header = c.value THEN "always" ELSE None
                           [] OTHER -> header
        byCookie == IF c.cookie = None THEN None ELSE cookie
    IN  CASE byHeader = "always" -> TRUE
          [] byHeader = "never" -> FALSE
          [] byCookie = "always" -> TRUE
          [] byCookie = "never" -> FALSE
          [] OTHER -> c.weight > 0 /\ roll < c.weight

\* MirrorSpec::sample
Sampled(m, roll) == m # None /\ m.percent > 0 /\ roll < m.percent
=============================================================================
