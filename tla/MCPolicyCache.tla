--------------------------- MODULE MCPolicyCache ----------------------------
(* Instances of PolicyCache for TLC.                                       *)
EXTENDS PolicyCache, TLC

Plain == [filtered |-> FALSE, scheduled |-> FALSE]
Filtered == [Plain EXCEPT !.filtered = TRUE]
Scheduled == [Plain EXCEPT !.scheduled = TRUE]

PlainRules == {Plain}
EveryRule == {Plain, Filtered, Scheduled}

Requests == Permutations(Reader) \cup Permutations(Editor)
=============================================================================
