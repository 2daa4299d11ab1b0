------------------------------ MODULE MCDaemon -------------------------------
(***************************************************************************)
(* Every command line of at most two settings over a few environments,       *)
(* at most one thing wrong with the machine.                               *)
(***************************************************************************)
EXTENDS Daemon

Settings ==
    {"help", "static-routes", "hyper", "uring", "uring-strict", "no-http",
     "https", "no-https", "no-admin", "admin-token-file", "no-h2-dispatch",
     "http3", "nonsense"}

MCCommandLines == {<<>>} \cup {<<s>> : s \in Settings} \cup Settings \X Settings

MCEnvironments == {<<>>, <<"uring">>}
=============================================================================
