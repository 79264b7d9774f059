--------------------------- MODULE ApprovalLedger ---------------------------
(***************************************************************************)
(* What the approval workflow promises of its tokens, whatever the         *)
(* interleaving: a token exists once an administrator's approval has       *)
(* committed; it is granted only to requests that present it before any    *)
(* request has spent it; a query runs only for a request that was granted  *)
(* a token and has spent it.  Grants that overlap may be spent more than   *)
(* once: the code takes no lock, and the ledger does not pretend it does.  *)
(***************************************************************************)
CONSTANTS Query, Decision, None

VARIABLES
  issued,  \* tokens of committed approvals
  claim,   \* the token each request was granted
  spent,   \* tokens spent by some request
  ran      \* requests whose CRITICAL query has run

vars == <<issued, claim, spent, ran>>

Init ==
  /\ issued = {}
  /\ claim = [p \in Query |-> None]
  /\ spent = {}
  /\ ran = {}

Issue(t) ==
  /\ t \notin issued
  /\ issued' = issued \cup {t}
  /\ UNCHANGED <<claim, spent, ran>>

Grant(p, t) ==
  /\ claim[p] = None
  /\ t \in issued \ spent
  /\ claim' = [claim EXCEPT ![p] = t]
  /\ UNCHANGED <<issued, spent, ran>>

Spend(p) ==
  /\ claim[p] # None
  /\ spent' = spent \cup {claim[p]}
  /\ UNCHANGED <<issued, claim, ran>>

Run(p) ==
  /\ claim[p] \in spent
  /\ p \notin ran
  /\ ran' = ran \cup {p}
  /\ UNCHANGED <<issued, claim, spent>>

Next ==
  \/ \E t \in Decision : Issue(t)
  \/ \E p \in Query, t \in Decision : Grant(p, t)
  \/ \E p \in Query : Spend(p) \/ Run(p)

Spec == Init /\ [][Next]_vars
=============================================================================
