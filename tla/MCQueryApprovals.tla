-------------------------- MODULE MCQueryApprovals --------------------------
(* Instances of QueryApprovals for TLC.                                    *)
EXTENDS QueryApprovals, TLC

CONSTANTS u1, a1, a2, home, away

(* a1 and a2 administrate different tenants; u1 is a user of a1's.         *)
TwoTenants == [u \in User |-> IF u = a2 THEN away ELSE home]
OneTenant == [u \in User |-> home]

Requests == Permutations(Query) \cup Permutations(Decision)
=============================================================================
