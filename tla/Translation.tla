---------------------------- MODULE Translation ----------------------------
(***************************************************************************)
(* The translator: one snapshot of the cluster to one plan of the routes,  *)
(* backends and certificates the router is asked for.                      *)
(*                                                                         *)
(* A snapshot is a record:                                                 *)
(*   ingresses  set of Ingress objects                                     *)
(*   classes    IngressClass name -> [ours, default]                       *)
(*   services   <<namespace, name>> -> [external, ports]                   *)
(*   slices     set of EndpointSlices                                      *)
(*   secrets    <<namespace, name>> -> [type, crt, key]                    *)
(* Annotation values are already trimmed; Garbage stands for one that the  *)
(* parser of that annotation refuses.  A host is its labels and the        *)
(* spelling that normalisation removes; a path is its characters.          *)
(***************************************************************************)
EXTENDS Naturals, Sequences, FiniteSets, SequencesExt, FiniteSetsExt

CONSTANTS
    None,           \* an absent field
    Garbage,        \* an annotation value that does not parse
    Collation,      \* the characters of paths and host labels, in byte order
    ClassName,      \* --ingress-class
    DefaultBackend, \* --default-backend, or None
    DefaultSecret   \* --default-tls-secret, or None

ASSUME CollationIsInjective == IsInjective(Collation)

-----------------------------------------------------------------------------
(* Orders.                                                                 *)
Rank(c) == CHOOSE n \in DOMAIN Collation : Collation[n] = c

\* Byte order of strings.
Before(s, t) ==
    LET differ == {n \in DOMAIN s \cap DOMAIN t : s[n] # t[n]}
    IN  IF differ = {} THEN Len(s) < Len(t)
        ELSE LET n == Min(differ) IN Rank(s[n]) < Rank(t[n])

\* Derived Ord of tuples: the first component that differs decides.
LexNat(s, t) ==
    LET differ == {n \in DOMAIN s : s[n] # t[n]}
    IN  differ # {} /\ LET n == Min(differ) IN s[n] < t[n]

\* Age, then namespace and name.  No age sorts before any age.
Older(a, b) == LexNat(<<a.born, a.ns, a.name>>, <<b.born, b.ns, b.name>>)

PathTypeRank(t) == CASE t = "Exact" -> 0 [] t = "Prefix" -> 1 [] OTHER -> 2

\* Upper case sorts before lower case.
HostBefore(h, k) ==
    Before(h.labels, k.labels) \/ (h.labels = k.labels /\ h.shout /\ ~k.shout)

\* RouteKey::sort_key
KeyBefore(a, b) ==
    \/ HostBefore(a.host, b.host)
    \/ a.host = b.host /\ Before(a.path, b.path)
    \/ a.host = b.host /\ a.path = b.path /\ PathTypeRank(a.type) < PathTypeRank(b.type)

\* A function, and a sequence, with its values worked out.
Tabulate(f) == f @@ [x \in {} |-> None]
Listed(s) == s \o <<>>

\* The first element for each key, as HashMap::entry().or_insert over a loop.
FirstBy(s, Key(_)) ==
    Tabulate([k \in {Key(s[n]) : n \in DOMAIN s} |-> s[Min({n \in DOMAIN s : Key(s[n]) = k})]])

\* A set sorted by a total order.
Sorted(S, Less(_, _)) ==
    Listed([n \in 1..Cardinality(S) |-> CHOOSE x \in S : Cardinality({y \in S : Less(y, x)}) = n - 1])

FlatMap(Op(_), s) == FlattenSeq(Listed([n \in DOMAIN s |-> Op(s[n])]))

Owner(g) == <<g.ns, g.name>>

-----------------------------------------------------------------------------
(* Annotations.                                                            *)
Number(raw) == IF raw \in Nat THEN raw ELSE 0

\* CanaryAnnotations::parse
CanaryAnnotations(a) ==
    [weight |-> Number(a.weight), total |-> Number(a.total),
     header |-> a.header, value |-> a.value, pattern |-> a.pattern, cookie |-> a.cookie]
CanaryInvalid(a) == Garbage \in {a.weight, a.total}

IsInert(c) == c.weight = 0 /\ c.header = None /\ c.cookie = None

\* MirrorAnnotations::parse.  The percentage falls back to all of it.
MirrorAnnotations(a) ==
    [backend |-> a.mirror,
     percent |-> IF a.percent \in 0..100 THEN a.percent ELSE 100,
     invalid |-> a.percent \notin (0..100) \cup {None}]

\* BackendProtocolAnnotation::parse
BackendProtocol(a) == IF a.protocol = "GRPC" THEN "h2c" ELSE "http1"

\* PromotionAnnotations::parse, a default for every field it cannot read.
UnitSeconds == [s |-> 1, m |-> 60, h |-> 3600]
ParseDuration(raw) ==
    IF raw \in {None, Garbage} \/ raw.count = 0 THEN 60 ELSE raw.count * UnitSeconds[raw.unit]
ParseSteps(raw) ==
    IF raw \in {None, Garbage} \/ raw = {} \/ ~(raw \subseteq 1..100)
    THEN <<5, 10, 25, 50, 100>> ELSE Sorted(raw, LAMBDA x, y : x < y)
PromotionAnnotations(a) ==
    [interval |-> ParseDuration(a.interval), steps |-> ParseSteps(a.steps),
     status |-> a.status]

-----------------------------------------------------------------------------
(* Which Ingresses are ours: ClassFilter.                                  *)
DefaultIsOurs(snap) == \E c \in DOMAIN snap.classes : snap.classes[c].ours /\ snap.classes[c].default

Classify(snap, g) ==
    CASE g.notes.legacy # None -> IF g.notes.legacy = ClassName THEN "Ours" ELSE "OtherController"
      [] g.class = None -> IF DefaultIsOurs(snap) THEN "Ours" ELSE "NoClass"
      [] g.class \notin DOMAIN snap.classes -> "UnknownClass"
      [] OTHER -> IF snap.classes[g.class].ours THEN "Ours" ELSE "OtherController"

\* select_managed: oldest first.
SelectManaged(snap) == Sorted({g \in snap.ingresses : Classify(snap, g) = "Ours"}, Older)

IsCanary(g) == g.notes.canary
Production(snap) == SelectSeq(SelectManaged(snap), LAMBDA g : ~IsCanary(g))
Canaries(snap) == SelectSeq(SelectManaged(snap), IsCanary)

-----------------------------------------------------------------------------
(* Reading one Ingress.                                                    *)
NoHost == [labels |-> <<>>, shout |-> FALSE, dot |-> FALSE]

\* normalize_host: an absent or empty host is the catch-all.
MutKeepCase(h) == h

NormalizeHost(h) == [labels |-> h.labels, shout |-> FALSE, dot |-> FALSE]

\* backend_ref: a Service and a port, or the entry is skipped.
BackendRef(g, b) ==
    IF b = None \/ b.port = None THEN None ELSE [ns |-> g.ns, name |-> b.name, port |-> b.port]

ParsePathType(raw) == IF raw \in {"Exact", "Prefix"} THEN raw ELSE "ImplementationSpecific"

RouteKey(rule, entry) ==
    [host |-> NormalizeHost(rule.host),
     path |-> IF entry.path = None THEN <<"/">> ELSE entry.path,
     type |-> ParsePathType(entry.type)]

\* mirror_plan: an unusable reference is no mirror.
MirrorPlan(g) ==
    LET m == MirrorAnnotations(g.notes)
    IN  IF m.backend \in {None, Garbage} THEN None
        ELSE [backend |-> m.backend, percent |-> m.percent, protocol |-> BackendProtocol(g.notes)]

Plan(g, key, backend) ==
    [key |-> key, backend |-> backend, owner |-> Owner(g),
     protocol |-> BackendProtocol(g.notes), canary |-> None, mirror |-> MirrorPlan(g)]

\* Every path of an Ingress whose backend can be read, in order.
Entries(g) ==
    LET ofRule(r) == Listed([n \in DOMAIN r.paths |->
                        [key |-> RouteKey(r, r.paths[n]), backend |-> BackendRef(g, r.paths[n].backend)]])
        all == FlatMap(ofRule, g.rules)
    IN  SelectSeq(all, LAMBDA e : e.backend # None)

\* plan_ingress, its rules.
PlanIngress(g) == LET es == Entries(g) IN Listed([n \in DOMAIN es |-> Plan(g, es[n].key, es[n].backend)])

\* plan_ingress, its defaultBackend: a fallback for every host it names.
Hosts(g) == {NormalizeHost(g.rules[n].host) : n \in DOMAIN g.rules}

Fallbacks(g) ==
    LET backend == BackendRef(g, g.default)
        hosts == Sorted(Hosts(g), HostBefore)
    IN  IF backend = None THEN <<>>
        ELSE [n \in DOMAIN hosts |->
                Plan(g, [host |-> hosts[n], path |-> <<"/">>, type |-> "Prefix"], backend)]

\* ... or, with no rules at all, a claim to be the default of the cluster.
GlobalDefault(snap) ==
    LET claims == SelectSeq(Production(snap),
                            LAMBDA g : BackendRef(g, g.default) # None /\ Hosts(g) = {})
    IN  IF claims = <<>> THEN DefaultBackend ELSE BackendRef(claims[1], claims[1].default)

-----------------------------------------------------------------------------
(* The routes: the oldest rule, else the oldest fallback; then the oldest  *)
(* canary.                                                                 *)

PlannedRoutes(snap) ==
    FirstBy(FlatMap(PlanIngress, Production(snap)) \o FlatMap(Fallbacks, Production(snap)),
            LAMBDA p : p.key)

\* attach_canary
CanaryPlans(g) ==
    LET es == Entries(g)
    IN  Listed([n \in DOMAIN es |-> [key |-> es[n].key,
                                     plan |-> [backend |-> es[n].backend, owner |-> Owner(g),
                                               rules |-> CanaryAnnotations(g.notes),
                                               protocol |-> BackendProtocol(g.notes)]]])

AttachCanaries(routes, snap) ==
    LET first == FirstBy(FlatMap(CanaryPlans, Canaries(snap)), LAMBDA c : c.key)
    IN  Tabulate([k \in DOMAIN routes |->
            IF k \in DOMAIN first THEN [routes[k] EXCEPT !.canary = first[k].plan] ELSE routes[k]])

Routes(snap) == AttachCanaries(PlannedRoutes(snap), snap)
SortedRoutes(routes) == Sorted({routes[k] : k \in DOMAIN routes}, LAMBDA p, q : KeyBefore(p.key, q.key))

-----------------------------------------------------------------------------
(* The backends: one per Service port the plan names.                      *)
\* What one route claims, in collect_backends' order.
Claims(p) ==
    <<[target |-> p.backend, protocol |-> p.protocol, owner |-> p.owner]>>
    \o (IF p.canary = None THEN <<>>
        ELSE <<[target |-> p.canary.backend, protocol |-> p.canary.protocol, owner |-> p.canary.owner]>>)
    \o (IF p.mirror = None THEN <<>>
        ELSE <<[target |-> p.mirror.backend, protocol |-> p.mirror.protocol, owner |-> p.owner]>>)

ClaimSeq(routes) == FlatMap(Claims, SortedRoutes(routes))

\* collect_backends: the first claim decides the protocol; the default's is HTTP/1.1.
CollectBackends(routes, default) ==
    LET first == FirstBy(ClaimSeq(routes) \o
                         (IF default = None THEN <<>> ELSE <<[target |-> default, protocol |-> "http1"]>>),
                         LAMBDA c : c.target)
    IN  Tabulate([t \in DOMAIN first |-> first[t].protocol])

\* EndpointIndex::resolve
PortMatches(p, wanted) == wanted \in {[number |-> p.number], [name |-> p.name]}

IsServing(e) == e.ready /\ ~e.terminating

ServicePort(snap, t) ==
    LET ports == snap.services[<<t.ns, t.name>>].ports
        hits == {p \in ports : PortMatches(p, t.port)}
    IN  IF hits = {} THEN None ELSE CHOOSE p \in hits : TRUE

Resolve(snap, t) ==
    LET slices(port) == {s \in snap.slices : s.ns = t.ns /\ s.service = t.name /\ s.port = port.name}
    IN  CASE <<t.ns, t.name>> \notin DOMAIN snap.services -> [issue |-> "ServiceMissing", addrs |-> {}]
          [] snap.services[<<t.ns, t.name>>].external -> [issue |-> "ExternalName", addrs |-> {}]
          [] ServicePort(snap, t) = None -> [issue |-> "PortMissing", addrs |-> {}]
          [] OTHER ->
                LET addrs == UNION {{e.addr : e \in {x \in s.endpoints : IsServing(x)}}
                                    : s \in slices(ServicePort(snap, t))}
                IN  [issue |-> IF addrs = {} THEN "NoReadyEndpoints" ELSE None, addrs |-> addrs]

\* register_backends: one that cannot be resolved is registered empty.
RegisterBackends(snap, backends) ==
    Tabulate([t \in DOMAIN backends |-> [protocol |-> backends[t], addrs |-> Resolve(snap, t).addrs]])

-----------------------------------------------------------------------------
(* The certificates.                                                       *)
\* SecretIndex::material, and the id that cert_handle_id derives from it.
Material(snap, key) ==
    IF key \notin DOMAIN snap.secrets THEN None
    ELSE LET s == snap.secrets[key]
         IN  IF s.type # "kubernetes.io/tls" \/ s.crt = None \/ s.key = None THEN None
             ELSE [ref |-> key, crt |-> s.crt, key |-> s.key]

Named(hosts) == {NormalizeHost(h) : h \in hosts} \ {NoHost}

\* The spec.tls entries that name hosts, a Secret, and one that is usable.
TlsEntries(snap, g) ==
    LET usable(t) == Named(t.hosts) # {} /\ t.secret # None /\ Material(snap, <<g.ns, t.secret>>) # None
        ts == SelectSeq(g.tls, usable)
    IN  Listed([n \in DOMAIN ts |-> [hosts |-> Named(ts[n].hosts),
                                     material |-> Material(snap, <<g.ns, ts[n].secret>>)]])

AllTls(snap) == FlatMap(LAMBDA g : TlsEntries(snap, g), SelectManaged(snap))

\* register_certificates: the oldest Ingress to name a host decides.
CertByHost(snap) ==
    LET s == AllTls(snap)
    IN  Tabulate([h \in UNION {s[n].hosts : n \in DOMAIN s} |->
            s[Min({n \in DOMAIN s : h \in s[n].hosts})].material])

DefaultCert(snap) == IF DefaultSecret = None THEN None ELSE Material(snap, DefaultSecret)

Materials(snap) ==
    {t.material : t \in Range(AllTls(snap))} \cup ({DefaultCert(snap)} \ {None})

-----------------------------------------------------------------------------
(* Promotion targets: the canaries that asked and cover some route.        *)
Covered(routes, owner) == {k \in DOMAIN routes : routes[k].canary # None /\ routes[k].canary.owner = owner}

CollectPromotions(routes, snap) ==
    LET asked == {g \in Range(Canaries(snap)) : g.notes.promote /\ Covered(routes, Owner(g)) # {}}
    IN  {[ingress |-> Owner(g), uid |-> g.uid, routes |-> Covered(routes, Owner(g)),
          weight |-> CanaryAnnotations(g.notes).weight, policy |-> PromotionAnnotations(g.notes)] : g \in asked}

-----------------------------------------------------------------------------
(* Warnings: who is told, and of what.                                     *)
Warnings(snap) ==
    LET routes == Routes(snap)
        planned == PlannedRoutes(snap)
        production == Range(Production(snap))
        canaries == Range(Canaries(snap))
        \* every entry but the first for its key
        losers(s) == {n \in DOMAIN s : \E m \in 1..(n - 1) : s[m].key = s[n].key}
        rules == FlatMap(PlanIngress, Production(snap))
        splits == FlatMap(CanaryPlans, Canaries(snap))
        claims == ClaimSeq(routes)
        backends == CollectBackends(routes, GlobalDefault(snap))
    IN  {<<Owner(g), "UnknownClass">> : g \in {x \in snap.ingresses : Classify(snap, x) = "UnknownClass"}}
        \cup {<<rules[n].owner, "RouteConflict">> : n \in losers(rules)}
        \cup {<<splits[n].plan.owner, "CanaryConflict">> :
                n \in {m \in losers(splits) : splits[m].key \in DOMAIN planned}}
        \cup {<<splits[n].plan.owner, "CanaryOrphan">> :
                n \in {m \in DOMAIN splits : splits[m].key \notin DOMAIN planned}}
        \cup {<<Owner(g), "CanaryInert">> : g \in {x \in canaries : IsInert(CanaryAnnotations(x.notes))}}
        \cup {<<Owner(g), "InvalidAnnotation">> :
                g \in {x \in canaries : \/ CanaryInvalid(x.notes)
                                        \/ MirrorAnnotations(x.notes).backend # None
                                        \/ x.notes.protocol = Garbage}
                      \cup {x \in production : \/ MirrorAnnotations(x.notes).invalid
                                               \/ x.notes.protocol = Garbage}}
        \cup {<<Owner(g), "MirrorRejected">> : g \in {x \in production : x.notes.mirror = Garbage}}
        \cup {<<claims[n].owner, "BackendProtocolConflict">> :
                n \in {m \in DOMAIN claims : backends[claims[m].target] # claims[m].protocol}}
        \cup {<<<<t.ns, t.name>>, "ServiceUnresolved">> :
                t \in {x \in DOMAIN backends : Resolve(snap, x).issue # None}}
=============================================================================
