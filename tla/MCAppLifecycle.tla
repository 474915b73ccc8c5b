--------------------------- MODULE MCAppLifecycle ---------------------------
(***************************************************************************)
(* Instance of AppLifecycle for TLC: every configuration that differs from *)
(* a good one for production in at most two settings.                      *)
(***************************************************************************)
EXTENDS AppLifecycle

Good ==
    [production |-> TRUE, provider |-> "gemini", owner |-> "k1", admin |-> "k2",
     digest |-> "k3", database |-> "k4", gemini |-> "k5",
     url |-> TRUE, hosts |-> TRUE, origins |-> TRUE]

Variants(s) ==
    {[s EXCEPT ![f] = v] : f \in DOMAIN Credentials(s), v \in Values}
        \cup {[s EXCEPT ![f] = FALSE] : f \in {"production", "url", "hosts", "origins"}}
        \cup {[s EXCEPT !.provider = "other"]}

FewDeviations == UNION {Variants(s) : s \in Variants(Good)}
=============================================================================
