---------------------------- MODULE MCForwarding ----------------------------
(* A small cluster for Forwarding.                                          *)
EXTENDS Forwarding, TLC

Reply(addrs, weights, policy, proto) ==
    [addrs |-> addrs, weights |-> weights, policy |-> policy, proto |-> proto]

Half == [header |-> "canary", pattern |-> None, value |-> None, cookie |-> None,
         weight |-> 1, backend |-> "next"]

Shadowed == [percent |-> 1, backend |-> "shadow"]

\* A rotation of two endpoints, copied; the same with one endpoint replaced,
\* least connections, a canary with no ready pod and the shadow gone unready;
\* and the rule deleted, leaving a default backend.
MCConfigs ==
    { [default |-> None,
       backends |-> [main |-> Reply(<<"a", "b">>, <<1, 1>>, "RoundRobin", "http1"),
                     shadow |-> Reply(<<"s">>, <<1>>, "Random", "http1")],
       rule |-> [backend |-> "main", canary |-> None, mirror |-> Shadowed]],
      [default |-> None,
       backends |-> [main |-> Reply(<<"c", "b">>, <<2, 1>>, "LeastConn", "http1"),
                     next |-> Reply(<<"n">>, <<1>>, "RoundRobin", "h2c"),
                     shadow |-> Reply(<<>>, <<>>, "RoundRobin", "http1")],
       rule |-> [backend |-> "main", canary |-> Half, mirror |-> Shadowed]],
      [default |-> "main",
       backends |-> [main |-> Reply(<<"a">>, <<1>>, "Random", "http1")],
       rule |-> None] }

Body(via, length, ended, frames) ==
    [via |-> via, length |-> length, ended |-> ended, frames |-> frames]

Arrival(grpc, upgrade, header, body) ==
    [grpc |-> grpc, upgrade |-> upgrade, header |-> header, body |-> body]

Plain == { Arrival(TRUE, FALSE, None, Body("h1", None, FALSE, <<"x", "y", "trailer">>)),
           Arrival(FALSE, FALSE, "always", Body("h3", None, FALSE, <<"x", "y", "z">>)),
           Arrival(FALSE, TRUE, "never", Body("h1", 1, FALSE, <<"x">>)),
           Arrival(FALSE, FALSE, None, Body("h1", None, FALSE, <<"x", "trailer">>)) }

Broken == { Arrival(FALSE, FALSE, None, Body("h3", None, FALSE, <<"x", "error">>)),
            Arrival(FALSE, FALSE, None, Body("h3", None, TRUE, <<>>)) }

MCArrivals == Plain \cup Broken

\* The rotation built from these weights is over their endpoints.
ASSUME RingsInRange ==
    \A config \in MCConfigs : \A name \in DOMAIN config.backends :
        LET weights == config.backends[name].weights
        IN  weights # <<>> => /\ Ring(weights) # <<>>
                              /\ Range(Ring(weights)) \subseteq DOMAIN weights

Symmetry == Permutations(Requests)
=============================================================================
