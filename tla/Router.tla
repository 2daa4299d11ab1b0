------------------------------- MODULE Router -------------------------------
(***************************************************************************)
(* The route table: what the builder accepts, how it lays a table out, and *)
(* how a request and a TLS name are matched against it.                    *)
(*                                                                         *)
(* A regular expression is modelled by the patterns without metacharacters *)
(* (anchored at the start, so they match by string prefix) and one,        *)
(* BadPattern, that does not compile.  The request path is lower case.     *)
(***************************************************************************)
EXTENDS Translation

CONSTANTS BadPattern

-----------------------------------------------------------------------------
(* Validation.                                                             *)

\* normalize_config_host: the bucket of a configured host, or an error.
HostSlot(h) ==
    LET labels == h.labels
        wild == labels # <<>> /\ labels[1] = "*"
        name == IF wild THEN Tail(labels) ELSE labels
    IN  CASE labels = <<>> -> [error |-> "HostLength"]
          [] name = <<>> \/ \E n \in DOMAIN name : name[n] = "*" -> [error |-> "WildcardShape"]
          [] wild -> [kind |-> "wildcard", name |-> name]
          [] OTHER -> [kind |-> "exact", name |-> name]

CatchAll == [kind |-> "catchall", name |-> <<>>]
SlotOf(host) == IF host.labels = <<>> THEN CatchAll ELSE HostSlot(host)
IsError(x) == "error" \in DOMAIN x

\* RouteTableBuilder::draft
Draft(key) ==
    LET slot == SlotOf(key.host)
    IN  CASE IsError(slot) -> slot
          [] key.type = "ImplementationSpecific" /\ key.path = BadPattern -> [error |-> "BadPattern"]
          [] key.type # "ImplementationSpecific" /\ (key.path = <<>> \/ key.path[1] # "/") ->
                [error |-> "PathNotAbsolute"]
          [] OTHER -> [slot |-> slot, path |-> key.path, type |-> key.type]

\* canary_draft
WeightTotal(c) == IF c.total = 0 THEN 100 ELSE c.total

CanaryAccepted(c) ==
    /\ ~(c.value # None /\ c.pattern # None)
    /\ c.weight <= WeightTotal(c)
    /\ ~(c.header # None /\ c.pattern = Garbage)

\* register_routes: what is left of a planned route.  If the canary is refused
\* the route is registered again with neither canary nor mirror.
CanaryRefused(p) == p.canary # None /\ ~CanaryAccepted(p.canary.rules)

Registered(p) ==
    CASE IsError(Draft(p.key)) -> <<>>
      [] CanaryRefused(p) -> <<[p EXCEPT !.canary = None, !.mirror = None]>>
      [] OTHER -> <<p>>

RegisteredSeq(routes) == FlatMap(Registered, SortedRoutes(routes))

-----------------------------------------------------------------------------
(* Layout.                                                                 *)
\* prefix_match_len: the bytes that must match, trailing slashes cut off.
MatchLen(path) == Max({0} \cup {n \in DOMAIN path : path[n] # "/"})

\* PathRule::sort_key under a stable sort.
RuleLen(p) == IF p.key.type = "Prefix" THEN MatchLen(p.key.path) ELSE 0

RuleBefore(s, m, n) ==
    LexNat(<<PathTypeRank(s[m].key.type), 1000 - RuleLen(s[m]), m>>,
           <<PathTypeRank(s[n].key.type), 1000 - RuleLen(s[n]), n>>)

\* What is left of a plan in the table, and what the digest reads of it.
PathRule(p) ==
    [key |-> p.key, backend |-> p.backend,
     canary |-> IF p.canary = None THEN None ELSE [backend |-> p.canary.backend, rules |-> p.canary.rules],
     mirror |-> IF p.mirror = None THEN None ELSE [backend |-> p.mirror.backend, percent |-> p.mirror.percent]]

VirtualHost(s, slot) ==
    LET mine == {n \in DOMAIN s : SlotOf(s[n].key.host) = slot}
        order == Sorted(mine, LAMBDA m, n : RuleBefore(s, m, n))
    IN  Listed([n \in DOMAIN order |-> PathRule(s[order[n]])])

\* RouteTableBuilder::build, or the error that refuses the whole table.
Referenced(s) == UNION {{c.target : c \in Range(Claims(s[n]))} : n \in DOMAIN s}

BuildError(s, backends, default) ==
    CASE \E m, n \in DOMAIN s : m # n /\ Draft(s[m].key) = Draft(s[n].key) -> "DuplicatePath"
      [] ~(Referenced(s) \subseteq DOMAIN backends) -> "UnknownBackend"
      [] default # None /\ default \notin DOMAIN backends -> "UnknownBackend"
      [] OTHER -> None

\* SniMap: the certificates of the hosts the builder accepts.
SniMap(snap) ==
    LET certs == CertByHost(snap)
        ok == {h \in DOMAIN certs : ~IsError(SlotOf(h))}
    IN  [names |-> Tabulate([slot \in {SlotOf(h) : h \in ok} |->
                        certs[CHOOSE h \in ok : SlotOf(h) = slot]]),
         default |-> DefaultCert(snap)]

\* translate(), as the router sees it.
Compile(snap) ==
    LET routes == Routes(snap)
        default == GlobalDefault(snap)
        s == RegisteredSeq(routes)
        backends == RegisterBackends(snap, CollectBackends(routes, default))
    IN  [error |-> BuildError(s, backends, default),
         hosts |-> Tabulate([slot \in {SlotOf(s[n].key.host) : n \in DOMAIN s} |-> VirtualHost(s, slot)]),
         backends |-> backends,
         default |-> default,
         sni |-> SniMap(snap),
         certs |-> Materials(snap),
         promotions |-> CollectPromotions(routes, snap)]

\* What goes into the digest, in translate's order: backends, routes, the
\* default, the hosts' certificates, the default certificate, promotions.
MutDigestIgnoresProtocol(snap) ==
    LET routes == Routes(snap)
        sorted == SortedRoutes(routes)
        backends == RegisterBackends(snap, CollectBackends(routes, GlobalDefault(snap)))
    IN  <<Tabulate([t \in DOMAIN backends |-> backends[t].addrs]),
          Listed([n \in DOMAIN sorted |-> PathRule(sorted[n])]),
          GlobalDefault(snap), CertByHost(snap), DefaultCert(snap)>>

Digest(snap) ==
    LET routes == Routes(snap)
        sorted == SortedRoutes(routes)
    IN  <<RegisterBackends(snap, CollectBackends(routes, GlobalDefault(snap))),
          Listed([n \in DOMAIN sorted |-> PathRule(sorted[n])]),
          GlobalDefault(snap), CertByHost(snap), DefaultCert(snap),
          {[t EXCEPT !.uid = None] : t \in CollectPromotions(routes, snap)}>>

-----------------------------------------------------------------------------
(* Matching.                                                               *)
\* host::scan and fold_lower: the port and one root dot go, case is folded.
Scan(h) == IF h.labels = <<>> THEN None ELSE h.labels

\* parent_domain: one left-most label, which must be there.
ParentDomain(labels) ==
    IF Len(labels) < 2 \/ labels[1] = "" THEN None ELSE Tail(labels)

\* prefix_matches: the bytes agree, and the request ends or goes on with a slash.
MutStringPrefix(rule, len, path) == Len(path) >= len /\ SubSeq(path, 1, len) = SubSeq(rule, 1, len)

PrefixMatches(rule, len, path) ==
    /\ Len(path) >= len
    /\ SubSeq(path, 1, len) = SubSeq(rule, 1, len)
    /\ Len(path) = len \/ path[len + 1] = "/"

RuleMatches(p, path) ==
    CASE p.key.type = "Exact" -> path = p.key.path
      [] p.key.type = "Prefix" -> PrefixMatches(p.key.path, MatchLen(p.key.path), path)
      [] OTHER -> IsPrefix(p.key.path, path)

\* The host's bucket: exact, then wildcard, then the rules without a host.
SlotFor(t, labels) ==
    LET exact == [kind |-> "exact", name |-> labels]
        wild == [kind |-> "wildcard", name |-> ParentDomain(labels)]
    IN  CASE labels # None /\ exact \in DOMAIN t -> exact
          [] labels # None /\ ParentDomain(labels) # None /\ wild \in DOMAIN t -> wild
          [] OTHER -> CatchAll

\* match_request: the first rule of the bucket that matches; the default if
\* none does, and never another bucket.
MatchRequest(t, host, path) ==
    LET slot == SlotFor(t.hosts, Scan(host))
        rules == IF slot \in DOMAIN t.hosts THEN t.hosts[slot] ELSE <<>>
        hits == {n \in DOMAIN rules : RuleMatches(rules[n], path)}
    IN  IF hits = {} THEN [backend |-> t.default, rule |-> None]
        ELSE [backend |-> rules[Min(hits)].backend, rule |-> rules[Min(hits)]]

\* SniMap::resolve
ResolveSni(t, name) ==
    LET slot == SlotFor(t.sni.names, Scan(name))
    IN  IF slot \in DOMAIN t.sni.names THEN t.sni.names[slot] ELSE t.sni.default
=============================================================================
