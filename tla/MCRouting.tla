----------------------------- MODULE MCRouting ------------------------------
(***************************************************************************)
(* Routing for TLC: a cluster of eight Ingresses that compete for the same  *)
(* hosts and paths, two Services, one Secret.                              *)
(***************************************************************************)
EXTENDS Routing

H(labels) == [labels |-> labels, shout |-> FALSE, dot |-> FALSE]
Shouted(labels) == [labels |-> labels, shout |-> TRUE, dot |-> TRUE]
Exact == H(<<"a", "c">>)
Wild == H(<<"*", "c">>)
NoOne == H(<<>>)

Http == [number |-> 80]
ByName == [name |-> "http"]
One == [name |-> 1, port |-> Http]
Two == [name |-> 2, port |-> Http]
Three == [name |-> 3, port |-> Http]
Ref(n, port) == [ns |-> 1, name |-> n, port |-> port]

Bare == [canary |-> FALSE, weight |-> None, total |-> None, header |-> None, value |-> None,
         pattern |-> None, cookie |-> None, mirror |-> None, percent |-> None, protocol |-> None,
         promote |-> FALSE, interval |-> None, steps |-> None, status |-> None, legacy |-> None]

P(path, type, backend) == [path |-> path, type |-> type, backend |-> backend]
Blank(name, born) ==
    [ns |-> 1, name |-> name, uid |-> name, born |-> born, class |-> "ramjet", notes |-> Bare,
     rules |-> <<>>, default |-> None, tls |-> <<>>]
A == <<"/", "a">>
ASlash == <<"/", "a", "/">>
AB == <<"/", "a", "b">>
Root == <<"/">>

\* Two claims on one path, a mirror, a fallback.
Web == [Blank(1, 2) EXCEPT
    !.rules = <<[host |-> Exact, paths |-> <<P(A, "Prefix", One), P(Root, "Exact", One)>>]>>,
    !.notes.mirror = Ref(2, ByName), !.notes.percent = 50, !.default = Two]
\* Older, the same host in another spelling.
Old == [Blank(2, 1) EXCEPT
    !.rules = <<[host |-> Shouted(<<"a", "c">>), paths |-> <<P(A, "Prefix", Two), P(None, "Prefix", Three)>>]>>,
    !.tls = <<[hosts |-> {Exact}, secret |-> 1]>>]
\* A wildcard host, a regular expression, and another protocol for Service 1.
Star == [Blank(3, 3) EXCEPT
    !.rules = <<[host |-> Wild, paths |-> <<P(ASlash, "Prefix", One), P(AB, "Regex", Two)>>]>>,
    !.notes.protocol = "GRPC",
    !.tls = <<[hosts |-> {Wild, Exact}, secret |-> 1], [hosts |-> {NoOne}, secret |-> 1], [hosts |-> {H(<<"c">>)}, secret |-> 2]>>]
\* A canary of the contested path, promoted automatically.
Split == [Blank(4, 3) EXCEPT
    !.rules = <<[host |-> Exact, paths |-> <<P(A, "Prefix", Two)>>]>>,
    !.notes.canary = TRUE, !.notes.weight = 10, !.notes.promote = TRUE,
    !.notes.steps = {50, 10}, !.notes.interval = [count |-> 2, unit |-> "m"]]
\* A canary the router refuses, of two paths, one of them nobody serves.
Broken == [Blank(5, 1) EXCEPT
    !.rules = <<[host |-> Exact, paths |-> <<P(Root, "Exact", Two), P(AB, "Exact", Two)>>]>>,
    !.notes.canary = TRUE, !.notes.weight = 150, !.notes.protocol = "GRPC"]
\* Only a default backend.
Only == [Blank(6, 3) EXCEPT !.default = Two, !.notes.legacy = "ramjet", !.class = None]
\* No host; a pattern that does not compile and a relative path beside it.
Hostless == [Blank(7, 2) EXCEPT
    !.rules = <<[host |-> NoOne, paths |-> <<P(A, "Regex", One), P(BadPattern, "Regex", One), P(<<"a">>, "Exact", One)>>]>>]
\* The same subtree as Web, spelled with a slash, and a backend without a port.
Twin == [Blank(8, 4) EXCEPT
    !.rules = <<[host |-> Exact, paths |-> <<P(ASlash, "Prefix", Two), P(AB, "Prefix", [name |-> 2, port |-> None])>>]>>]
\* Edits: a protocol that nothing else of the Ingress follows, another controller.
HostlessGrpc == [Hostless EXCEPT !.notes.protocol = "GRPC"]
StarTheirs == [Star EXCEPT !.notes.legacy = "nginx"]

MCObjects == {Web, Old, Star, StarTheirs, Split, Broken, Only, Hostless, HostlessGrpc, Twin}
MCClasses == "ramjet" :> [ours |-> TRUE, default |-> FALSE]
MCServices ==
    <<1, 1>> :> [external |-> FALSE, ports |-> {[number |-> 80, name |-> "http"]}]
    @@ <<1, 2>> :> [external |-> FALSE, ports |-> {[number |-> 80, name |-> "http"]}]
Pod(a, ending) == [addr |-> a, ready |-> TRUE, terminating |-> ending]
MCSlices ==
    {[ns |-> 1, service |-> 1, port |-> "http", endpoints |-> {Pod(1, FALSE), Pod(2, TRUE)}],
     [ns |-> 1, service |-> 2, port |-> "http", endpoints |-> {Pod(3, FALSE)}]}
MCPods == {1}
MCDefaultSecret == <<1, 1>>
MCSecrets == {<<1, 1>>}
Cert(type, crt) == [type |-> type, crt |-> crt, key |-> crt]
MCCerts == {Cert("kubernetes.io/tls", "x"), Cert("kubernetes.io/tls", "y")}
MCCollation == <<"*", "/", "a", "b", "c">>
MCBadPattern == <<"*">>
MCReqHosts == {H(<<"a", "c">>), Shouted(<<"b", "c">>), H(<<"c">>), H(<<"", "c">>), NoOne}
MCReqPaths == {Root, A, ASlash, AB, <<"/", "a", "/", "b">>, <<"/", "b">>}
=============================================================================
