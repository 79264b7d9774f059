----------------------------- MODULE MCDamAgent -----------------------------
EXTENDS DamAgent

Local == [user |-> "postgres", ip |-> "localhost"]
MCClientOf == [s \in Sids |-> [user |-> IF s = 1 THEN "bob" ELSE "eve", ip |-> "desk"]]
\* The second session's client is one the policy allows.
MixedClients == [s \in Sids |-> [user |-> "bob", ip |-> IF s = 1 THEN "desk" ELSE "app"]]
Enforce == [ips |-> {"app"}, users |-> {}, ops |-> {"drop"}, block |-> TRUE, alert |-> TRUE]
Quiet == [Enforce EXCEPT !.alert = FALSE, !.users = {"bob"}, !.ips = {"app", "desk"}]
MCPolicies == {Quiet}
=============================================================================
