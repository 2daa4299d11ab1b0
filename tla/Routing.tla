------------------------------- MODULE Routing ------------------------------
(***************************************************************************)
(* Translation and routing together: the cluster changes, the controller   *)
(* compiles it again and publishes the table if its digest moved, and      *)
(* requests are matched against whichever table is published.              *)
(***************************************************************************)
EXTENDS Router

CONSTANTS
    Objects,     \* the Ingresses that may be created, versions of one sharing its age
    Classes,     \* the IngressClasses
    Services,    \* the Services
    Slices,      \* the EndpointSlices, all pods serving
    Pods,        \* pods that may go unready
    SecretNames, \* the TLS Secrets
    Certs,       \* what a Secret may hold
    ReqHosts,    \* Host headers that requests bring
    ReqPaths,    \* paths that requests bring
    MaxPending   \* bound on changes made between two rebuilds

VARIABLES
    ingresses,   \* Ingresses in the cluster
    unready,     \* pods that are not ready
    secrets,     \* contents of the Secrets
    pending,     \* changes since the last rebuild
    table,       \* the published table
    digest       \* the digest it was published under

cluster == <<ingresses, unready, secrets>>
vars == <<cluster, pending, table, digest>>

Snapshot(i, u, s) ==
    [ingresses |-> i, classes |-> Classes, services |-> Services,
     slices |-> {[x EXCEPT !.endpoints = {[e EXCEPT !.ready = e.addr \notin u] : e \in @}] : x \in Slices},
     secrets |-> s]

Now == Snapshot(ingresses, unready, secrets)

\* The seed table: nothing but the flags, at generation 0.
Seed == Compile(Snapshot({}, {}, [n \in {} |-> None]))

Init ==
    /\ ingresses = {}
    /\ unready = {}
    /\ secrets \in [SecretNames -> Certs]
    /\ pending = 0
    /\ table = Seed
    /\ digest = None

-----------------------------------------------------------------------------
Change == pending < MaxPending /\ pending' = pending + 1 /\ UNCHANGED <<table, digest>>

Create(g) ==
    /\ Change
    /\ \A x \in ingresses : Owner(x) # Owner(g)
    /\ ingresses' = ingresses \cup {g}
    /\ UNCHANGED <<unready, secrets>>

Delete(g) ==
    /\ Change
    /\ g \in ingresses
    /\ ingresses' = ingresses \ {g}
    /\ UNCHANGED <<unready, secrets>>

\* A new version of an object, same name, same age.
Edit(g, h) ==
    /\ Change
    /\ g \in ingresses /\ g # h /\ Owner(g) = Owner(h)
    /\ ingresses' = (ingresses \ {g}) \cup {h}
    /\ UNCHANGED <<unready, secrets>>

Flip(p) ==
    /\ Change
    /\ unready' = (unready \ {p}) \cup ({p} \ unready)
    /\ UNCHANGED <<ingresses, secrets>>

Rotate(n) ==
    /\ Change
    /\ \E c \in Certs \ {secrets[n]} : secrets' = [secrets EXCEPT ![n] = c]
    /\ UNCHANGED <<ingresses, unready>>

\* rebuild(): translate, and publish unless the digest is the one last built.
Rebuild ==
    /\ pending > 0
    /\ pending' = 0
    /\ LET built == Compile(Now)
           hash == Digest(Now)
       IN  IF built.error # None \/ hash = digest THEN UNCHANGED <<table, digest>>
           ELSE table' = built /\ digest' = hash
    /\ UNCHANGED cluster

Next ==
    \/ \E g \in Objects : Create(g) \/ Delete(g) \/ \E h \in Objects : Edit(g, h)
    \/ \E p \in Pods : Flip(p)
    \/ \E n \in SecretNames : Rotate(n)
    \/ Rebuild

Spec == Init /\ [][Next]_vars

-----------------------------------------------------------------------------
(* Reference definitions.                                                  *)

\* The elements of a path: what is between its slashes.
Elements(path) ==
    LET starts == {n \in DOMAIN path : path[n] # "/" /\ (n = 1 \/ path[n - 1] = "/")}
        endOf(n) == Min({m \in n..Len(path) : m = Len(path) \/ path[m + 1] = "/"})
        order == Sorted(starts, LAMBDA m, n : m < n)
    IN  Listed([k \in DOMAIN order |-> SubSeq(path, order[k], endOf(order[k]))])

\* Does a rule's path select the request's, as the Ingress API defines it?
Selects(p, path) ==
    CASE p.key.type = "Exact" -> path = p.key.path
      [] p.key.type = "Prefix" -> IsPrefix(Elements(p.key.path), Elements(path))
      [] OTHER -> IsPrefix(p.key.path, path)

\* The published rules that apply to a host.
RulesFor(host) ==
    LET named(kind, labels) == UNION {Range(table.hosts[s]) : s \in {x \in DOMAIN table.hosts : x.kind = kind /\ x.name = labels}}
        exact == named("exact", host.labels)
        wild == IF Len(host.labels) > 1 /\ host.labels[1] # "" THEN named("wildcard", Tail(host.labels)) ELSE {}
    IN  CASE exact # {} -> exact [] wild # {} -> wild [] OTHER -> named("catchall", <<>>)

\* p is at least as specific as q, by the order the Ingress API prescribes.
AtLeast(p, q) ==
    \/ PathTypeRank(p.key.type) < PathTypeRank(q.key.type)
    \/ /\ p.key.type = q.key.type
       /\ p.key.type = "Prefix" => Len(Elements(p.key.path)) >= Len(Elements(q.key.path))

-----------------------------------------------------------------------------
(* The type invariant.                                                     *)
TypeOK ==
    /\ ingresses \subseteq Objects
    /\ unready \subseteq Pods
    /\ secrets \in [SecretNames -> Certs]
    /\ pending \in 0..MaxPending
    /\ \A s \in DOMAIN table.hosts : s.kind \in {"exact", "wildcard", "catchall"} /\ table.hosts[s] # <<>>
    /\ \A b \in DOMAIN table.backends : table.backends[b].protocol \in {"http1", "h2c"}

(* No cluster the API server accepts makes the router refuse the table as a *)
(* whole: hosts are folded the same way on both sides, and every backend,    *)
(* canary and mirror that a route names is registered (translate.rs, "an     *)
(* error from this function means the translator produced something          *)
(* internally inconsistent").                                                *)
NeverRejected == pending = 0 => Compile(Now).error = None

\* The table is of the cluster as it is.
Served == pending = 0 /\ digest # None

(* A published table is the translation of the cluster it was built from,    *)
(* even when the digest said there was nothing to publish (watch.rs rebuild). *)
(* Left aside: the uid of a promotion target, documented as not part of it,   *)
(* and material that no name resolves to.                                     *)
Content(t) == [t EXCEPT !.promotions = {[x EXCEPT !.uid = None] : x \in @}, !.certs = {}]
ServesTheCluster == Served => Content(table) = Content(Compile(Now))

(* A request is routed as the Ingress API says: by the most specific rule    *)
(* of the most specific host that selects its path element by element, and   *)
(* to the default backend otherwise, never to a less specific host           *)
(* (table.rs match_request, path.rs prefix_matches).                         *)
MatchIsMostSpecific ==
    \A h \in ReqHosts, path \in ReqPaths :
        LET got == MatchRequest(table, h, path)
            fits == {p \in RulesFor(h) : Selects(p, path)}
        IN  IF fits = {} THEN got.rule = None /\ got.backend = table.default
            ELSE got.rule \in fits /\ \A q \in fits : AtLeast(got.rule, q)

(* Every certificate a handshake may be given has its material beside the    *)
(* table (translate.rs register_certificates).                               *)
CertMaterialPresent ==
    \A h \in ReqHosts : ResolveSni(table, h) \in table.certs \cup {None}

(* A path of an Ingress of ours is served for that Ingress and dialled as it  *)
(* asks, or its owner is told by a warning (translate.rs, "Everything that    *)
(* was rejected or degraded", collect_backends).                              *)
LosersAreTold ==
    LET planned == PlannedRoutes(Now)
        warnings == Warnings(Now)
        told(g, kind) == <<Owner(g), kind>> \in warnings
    IN  Served =>
            \A g \in Range(Production(Now)) : \A e \in Range(Entries(g)) :
                IF planned[e.key].owner # Owner(g) THEN told(g, "RouteConflict")
                ELSE \/ table.backends[planned[e.key].backend].protocol = BackendProtocol(g.notes)
                     \/ told(g, "BackendProtocolConflict")

(* An Ingress that is younger than all others takes no rule away from them,   *)
(* whatever it names: without it they would serve the same paths from the     *)
(* same Services (translate.rs select_managed, "Age decides every conflict    *)
(* below").  How a Service two Ingresses name is dialled is decided by the    *)
(* order of routes instead (collect_backends).                                *)
Without(g) == Snapshot(ingresses \ {g}, unready, secrets)
Explicit(snap) == FirstBy(FlatMap(PlanIngress, Production(snap)), LAMBDA p : p.key)
OwnersKept ==
    LET after == Explicit(Now)
    IN  pending = 0 => \A g \in {x \in ingresses : \A y \in ingresses \ {x} : y.born < x.born} :
            LET before == Explicit(Without(g))
            IN  \A k \in DOMAIN before : after[k] = before[k]

(* A canary Ingress changes no request's stable backend, nor how one that the *)
(* canary does not itself name is dialled and where, whatever its annotations *)
(* say and whether or not the router accepts them (translate.rs               *)
(* register_routes).                                                          *)
Stable(t, h, path) == MatchRequest(t, h, path).backend
Dialled(t, b) == IF b \in DOMAIN t.backends THEN t.backends[b] ELSE None
NamedBy(g) == {e.backend : e \in Range(Entries(g))}
CanariesAreHarmless ==
    Served => \A g \in {x \in ingresses : IsCanary(x)} :
        LET without == Compile(Without(g))
        IN  \A h \in ReqHosts, path \in ReqPaths :
                LET b == Stable(without, h, path)
                IN  /\ Stable(table, h, path) = b
                    /\ b \notin NamedBy(g) => Dialled(table, b) = Dialled(without, b)

(* What is served is the whole of the cluster, with the keys its names need: *)
(* no digest hides an edit and no handle lacks its material (watch.rs        *)
(* rebuild, translate.rs translate).                                         *)
TableWhole == TypeOK /\ ServesTheCluster /\ CertMaterialPresent

(* No tenant moves another's requests to another Service: not by hosts that  *)
(* collide, not by a path in use, not by a canary; the loser of a conflict   *)
(* is told, the one over the protocol of a Service that both name included.  *)
(* A canary, even a refused one, does change how the Service that it names   *)
(* is dialled, and no other: collect_backends has it claim the protocol      *)
(* before the builder sees it (translate.rs select_managed, plan_routes,     *)
(* register_routes, collect_backends).                                       *)
TenancyKept == NeverRejected /\ OwnersKept /\ CanariesAreHarmless /\ LosersAreTold
=============================================================================
