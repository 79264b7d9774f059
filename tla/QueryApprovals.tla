--------------------------- MODULE QueryApprovals ---------------------------
(***************************************************************************)
(* The approval workflow of CRITICAL queries: POST /query/execute          *)
(* (app/api/query.py) together with the approvals API it calls             *)
(* (app/api/approvals.py).                                                 *)
(*                                                                         *)
(* Every HTTP request is a task with a database session of its own; the    *)
(* tasks interleave between their commits (PostgreSQL, READ COMMITTED, no  *)
(* row locks, no version column).  A handler that reads a row and commits  *)
(* a change computed from it is therefore two steps.                       *)
(*                                                                         *)
(* Names: a query request stands for the primary key of the approval row   *)
(* it creates (at most one), a decision request for the token it draws     *)
(* from secrets.token_urlsafe (at most one), so that fresh keys and fresh  *)
(* tokens need no counters.                                                *)
(***************************************************************************)
EXTENDS Naturals

CONSTANTS
  Query, Decision,     \* POST /query/execute, POST /approvals/{id}/approve|reject
  None,                \* NULL
  User, Admin,         \* accounts; those require_admin lets through
  Tenant, TenantOf,    \* tenants and the tenant_id claim of each account
  Sql, Source,         \* query texts and data sources
  TTL,                 \* _APPROVAL_TTL_HOURS, in clock ticks
  MaxTime,             \* bound on the clock
  EnterpriseInstalled, \* does importing metasight_enterprise succeed?
  CommitMayFail        \* can the last commit of a handler, the audit record's, fail?

ASSUME ConstantsAssumption ==
  /\ Query \cap Decision = {}
  /\ None \notin Query \cup Decision \cup User
  /\ Admin \subseteq User
  /\ TenantOf \in [User -> Tenant]
  /\ TTL \in Nat
  /\ MaxTime \in Nat
  /\ EnterpriseInstalled \in BOOLEAN
  /\ CommitMayFail \in BOOLEAN

Task == Query \cup Decision

VARIABLES
  row,     \* query_approvals: the columns the handlers change, by row
  req,     \* what each request asked for and what its handler has read
  pc,      \* where each handler stands
  audit,   \* audit_logs, committed: <<request, action>>
  spent,   \* history: the tokens whose consumption has committed
  last,    \* history: the decision on each row that has committed last
  now      \* wall clock

vars == <<row, req, pc, audit, spent, last, now>>

Status == {"absent", "pending", "approved", "rejected", "used"}

Row == [status: Status, token: Decision \cup {None},
        approver: User \cup {None}, expires: Nat]

NoRow == [status |-> "absent", token |-> None, approver |-> None, expires |-> 0]

Request ==
  [kind: {"execute", "approve", "reject"}, user: User, sql: Sql, source: Source,
   critical: BOOLEAN, token: Decision \cup {None}, row: Query \cup {None}, at: Nat]

NoRequest == [kind |-> "none"]

Label == {"new", "gate", "consume", "run", "audit", "answered", "failed", "blocked",
          "refused", "deciding", "decided", "crashed", "lost"}

(* The requester, text, data source and tenant of a row are those of the   *)
(* request that created it; no handler changes them.                       *)
RowTenant(r) == TenantOf[req[r].user]

Init ==
  /\ row = [r \in Query |-> NoRow]
  /\ req = [p \in Task |-> NoRequest]
  /\ pc = [p \in Task |-> "new"]
  /\ audit = {}
  /\ spent = {}
  /\ last = [r \in Query |-> None]
  /\ now = 0

-----------------------------------------------------------------------------
(* POST /query/execute                                                     *)

(* The request arrives; policies are resolved and the query is scored.     *)
(* A denied table, an unparsable text or a guarded statement is blocked;   *)
(* a score below CRITICAL runs with no approval, token or not; an unknown  *)
(* source, or an error before that, fails the request.                     *)
ReceiveExecute(p, u, s, d, t) ==
  /\ pc[p] = "new"
  /\ \E c \in BOOLEAN, next \in {"gate", "run", "blocked", "failed"} :
       /\ c <=> next = "gate"
       /\ req' = [req EXCEPT ![p] =
            [kind |-> "execute", user |-> u, sql |-> s, source |-> d, critical |-> c,
             token |-> t, row |-> None, at |-> now]]
       /\ pc' = [pc EXCEPT ![p] = next]
  /\ UNCHANGED <<row, audit, spent, last, now>>

(* A CRITICAL query without a token: create_approval_request commits a     *)
(* pending row and the query is blocked.                                   *)
CreateApproval(p) ==
  /\ pc[p] = "gate"
  /\ req[p].token = None
  /\ row' = [row EXCEPT ![p] = [NoRow EXCEPT !.status = "pending"]]
  /\ pc' = [pc EXCEPT ![p] = "blocked"]
  /\ UNCHANGED <<req, audit, spent, last, now>>

(* What the SELECT of validate_approval_token finds, and its checks.       *)
TokenMatchesAnyStatus(p, r) ==
  row[r].token = req[p].token /\ RowTenant(r) = TenantOf[req[p].user]

TokenMatches(p, r) ==
  /\ row[r].token = req[p].token
  /\ row[r].status = "approved"
  /\ RowTenant(r) = TenantOf[req[p].user]

UnexpiredWithSlack(r) == row[r].expires + 1 >= now

Unexpired(r) == row[r].expires >= now

SameTextUnchecked(p, r) == TRUE

SameText(p, r) == req[r].sql = req[p].sql

TokenAccepted(p, r) == TokenMatches(p, r) /\ Unexpired(r) /\ SameText(p, r)

ValidateToken(p) ==
  /\ pc[p] = "gate"
  /\ req[p].token # None
  /\ \E r \in Query : /\ TokenAccepted(p, r)
                      /\ req' = [req EXCEPT ![p].row = r, ![p].at = now]
  /\ pc' = [pc EXCEPT ![p] = "consume"]
  /\ UNCHANGED <<row, audit, spent, last, now>>

RefuseToken(p) ==
  /\ pc[p] = "gate"
  /\ req[p].token # None
  /\ \A r \in Query : ~TokenAccepted(p, r)
  /\ pc' = [pc EXCEPT ![p] = "blocked"]
  /\ UNCHANGED <<row, req, audit, spent, last, now>>

(* The second half of validate_approval_token commits status 'used' on the *)
(* row it read; only then does execute compare the requester.              *)
Consumed(r) == [row[r] EXCEPT !.status = "used"]

ConsumeToken(p) ==
  /\ pc[p] = "consume"
  /\ LET r == req[p].row IN
       /\ row' = [row EXCEPT ![r] = Consumed(r)]
       /\ pc' = [pc EXCEPT ![p] = IF req[r].user = req[p].user THEN "run" ELSE "blocked"]
  /\ spent' = spent \cup {req[p].token}
  /\ UNCHANGED <<req, audit, last, now>>

(* The query runs on its data source, or fails there (422, 502) with no    *)
(* audit record of any kind.                                               *)
RunQuery(p) ==
  /\ pc[p] = "run"
  /\ pc' = [pc EXCEPT ![p] = "audit"]
  /\ UNCHANGED <<row, req, audit, spent, last, now>>

RunFails(p) ==
  /\ pc[p] = "run"
  /\ pc' = [pc EXCEPT ![p] = "failed"]
  /\ UNCHANGED <<row, req, audit, spent, last, now>>

(* The audit record is committed best-effort: the rows are returned either *)
(* way.                                                                    *)
AuditRun(p) ==
  /\ pc[p] = "audit"
  /\ pc' = [pc EXCEPT ![p] = "answered"]
  /\ \/ audit' = audit \cup {<<p, "query">>}
     \/ CommitMayFail /\ UNCHANGED audit
  /\ UNCHANGED <<row, req, spent, last, now>>

(* A blocked query: the audit record is flushed, then the security event,  *)
(* with an agent row made for it if the tenant has none, and the trigger   *)
(* that needs the enterprise package; any exception on the way rolls back  *)
(* everything flushed so far, the audit record too.                        *)
SecurityEventRaises == ~EnterpriseInstalled

RecordBlocked(p) ==
  /\ pc[p] = "blocked"
  /\ pc' = [pc EXCEPT ![p] = "refused"]
  /\ \/ /\ ~SecurityEventRaises
        /\ audit' = audit \cup {<<p, "query_blocked">>}
     \/ /\ SecurityEventRaises \/ CommitMayFail
        /\ UNCHANGED audit
  /\ UNCHANGED <<row, req, spent, last, now>>

-----------------------------------------------------------------------------
(* POST /approvals/{id}/approve and /reject                                *)

(* The handler reads the row and checks tenant, status and requester.      *)
(* A request those checks turn away changes nothing.                       *)
MayDecideOwn(u, r) == row[r].status = "pending" /\ RowTenant(r) = TenantOf[u]

MayDecideUntilRejected(u, r) ==
  row[r].status \notin {"absent", "rejected"} /\ RowTenant(r) = TenantOf[u] /\ req[r].user # u

MayDecide(u, r) ==
  /\ row[r].status = "pending"
  /\ RowTenant(r) = TenantOf[u]
  /\ req[r].user # u

ReadForDecision(p, u, k, r) ==
  /\ pc[p] = "new"
  /\ u \in Admin
  /\ MayDecide(u, r)
  /\ req' = [req EXCEPT ![p] =
       [kind |-> k, user |-> u, sql |-> req[r].sql, source |-> req[r].source,
        critical |-> FALSE, token |-> None, row |-> r, at |-> now]]
  /\ pc' = [pc EXCEPT ![p] = "deciding"]
  /\ UNCHANGED <<row, audit, spent, last, now>>

(* The commit writes the changed columns, and the governance records of    *)
(* the decision, whatever the row holds by then.  The lifetime of the      *)
(* token counts from a reading of the clock since the row was read.        *)
CommitApprove(p) ==
  /\ pc[p] = "deciding"
  /\ req[p].kind = "approve"
  /\ \E at \in req[p].at .. now :
       /\ req' = [req EXCEPT ![p].at = at]
       /\ row' = [row EXCEPT ![req[p].row] =
            [status |-> "approved", token |-> p, approver |-> req[p].user,
             expires |-> at + TTL]]
  /\ pc' = [pc EXCEPT ![p] = "decided"]
  /\ last' = [last EXCEPT ![req[p].row] = p]
  /\ UNCHANGED <<audit, spent, now>>

CommitReject(p) ==
  /\ pc[p] = "deciding"
  /\ req[p].kind = "reject"
  /\ row' = [row EXCEPT ![req[p].row].status = "rejected",
                        ![req[p].row].approver = req[p].user]
  /\ pc' = [pc EXCEPT ![p] = "decided"]
  /\ last' = [last EXCEPT ![req[p].row] = p]
  /\ UNCHANGED <<req, audit, spent, now>>

-----------------------------------------------------------------------------
(* The API worker dies, or the handler raises, between two commits.  Once  *)
(* the target database has run the query it has run.                       *)
Crash(p) ==
  /\ pc[p] \in {"gate", "consume", "run", "audit", "blocked", "deciding"}
  /\ pc' = [pc EXCEPT ![p] = IF pc[p] = "audit" THEN "lost" ELSE "crashed"]
  /\ UNCHANGED <<row, req, audit, spent, last, now>>

Tick ==
  /\ now < MaxTime
  /\ now' = now + 1
  /\ UNCHANGED <<row, req, pc, audit, spent, last>>

Execute(p) ==
  \/ \E u \in User, s \in Sql, d \in Source, t \in Decision \cup {None} :
       ReceiveExecute(p, u, s, d, t)
  \/ CreateApproval(p)
  \/ ValidateToken(p)
  \/ RefuseToken(p)
  \/ ConsumeToken(p)
  \/ RunQuery(p)
  \/ RunFails(p)
  \/ AuditRun(p)
  \/ RecordBlocked(p)

Decide(p) ==
  \/ \E u \in User, k \in {"approve", "reject"}, r \in Query : ReadForDecision(p, u, k, r)
  \/ CommitApprove(p)
  \/ CommitReject(p)

Next ==
  \/ \E p \in Query : Execute(p)
  \/ \E p \in Decision : Decide(p)
  \/ \E p \in Task : Crash(p)
  \/ Tick

Spec == Init /\ [][Next]_vars

-----------------------------------------------------------------------------
(* Properties                                                              *)

(* A request that validate_approval_token has let through.                 *)
Validated(p) == pc[p] # "new" /\ req[p].row # None

(* A request whose CRITICAL query has run on its data source.              *)
Ran(p) == pc[p] \in {"audit", "answered", "lost"} /\ req[p].critical

Approved(p) == pc[p] = "decided" /\ req[p].kind = "approve"

(* Every variable has its type, and every request that has arrived has     *)
(* left a request record.                                                  *)
TypeOK ==
  /\ row \in [Query -> Row]
  /\ req \in [Task -> Request \cup {NoRequest}]
  /\ pc \in [Task -> Label]
  /\ audit \subseteq Query \X {"query", "query_blocked"}
  /\ spent \subseteq Decision
  /\ last \in [Query -> Decision \cup {None}]
  /\ now \in Nat
  /\ \A p \in Task : pc[p] # "new" => req[p] \in Request

(* A token lets a query through only if an administrator of the            *)
(* requester's tenant, other than the requester, has committed an approval *)
(* of that very row, and the token is the one that approval issued.        *)
ApprovedByAnother ==
  \A p \in Query : Validated(p) =>
    LET a == req[p].token
        r == req[p].row
    IN  /\ a \in Decision /\ Approved(a) /\ req[a].row = r
        /\ req[a].user \in Admin \ {req[r].user}
        /\ TenantOf[req[a].user] = RowTenant(r)
        /\ TenantOf[req[p].user] = RowTenant(r)

(* A CRITICAL query runs only for the account that asked for the approval, *)
(* and with the text that was approved.                                    *)
RunMatchesApproval ==
  \A p \in Query : Ran(p) =>
    LET r == req[p].row
    IN  r # None /\ req[r].user = req[p].user /\ req[r].sql = req[p].sql

(* The token is checked within the lifetime counted from the approval      *)
(* handler's own clock reading, not from its commit.                       *)
WithinLifetime ==
  \A p \in Query : Validated(p) => req[p].at <= req[req[p].token].at + TTL

(* Presenting a token again after its consumption has committed is         *)
(* refused, whichever request consumed it, and whatever decisions, late    *)
(* commits and crashes have happened to the row since.                     *)
NoReplay ==
  [][\A p \in Query : pc[p] # "consume" /\ pc'[p] = "consume"
                       => req[p].token \notin spent]_vars

(* Once a decision on a request has committed, no later decision gets past *)
(* the status check, in whatever state consumption has left the row.       *)
NoLateDecision ==
  [][\A p, q \in Decision : /\ pc[p] = "new" /\ pc'[p] = "deciding"
                            /\ pc[q] = "decided"
                            => req'[p].row # req[q].row]_vars

(* Of two decisions that overlap the one that commits last stands: a token *)
(* is accepted only while the approval it came from is the last decision   *)
(* on its row, not one that a later rejection or approval has overridden.  *)
LastDecisionStands ==
  [][\A p \in Query : pc[p] # "consume" /\ pc'[p] = "consume"
                       => last[req'[p].row] = req[p].token]_vars

(* The audit trail holds a record of every query the gateway refused.      *)
RefusalAudited ==
  \A p \in Query : pc[p] = "refused" => <<p, "query_blocked">> \in audit

(* An approval token is used once.                                         *)
OneRunPerToken ==
  \A p, q \in Query : p # q /\ Ran(p) /\ Ran(q) => req[p].token # req[q].token

(* The abstract promise: the ledger of issued, granted and spent tokens.   *)
Ledger == INSTANCE ApprovalLedger WITH
  issued <- {p \in Decision : Approved(p)},
  claim  <- [p \in Query |-> IF Validated(p) THEN req[p].token ELSE None],
  spent  <- spent,
  ran    <- {p \in Query : Ran(p)}

(* Every step of the handlers is a step of the ledger or leaves it alone.  *)
LedgerSpec == Ledger!Spec

-----------------------------------------------------------------------------
(* The inductive invariant behind the properties that hold.                *)

(* Rows belong to requests that have arrived; each kind of request keeps   *)
(* to its own labels.                                                      *)
Arrivals ==
  /\ \A r \in Query : row[r].status # "absent" => pc[r] \notin {"new", "gate"}
  /\ \A p \in Query :
       /\ pc[p] \notin {"deciding", "decided"}
       /\ pc[p] # "new" => req[p].kind = "execute"
       /\ pc[p] = "gate" => req[p].row = None /\ req[p].critical
       /\ pc[p] = "consume" => req[p].row # None /\ req[p].critical
  /\ \A d \in Decision :
       /\ pc[d] \in {"new", "deciding", "decided", "crashed"}
       /\ pc[d] # "new" => req[d].kind # "execute"

(* A decision under way or made is about an existing row of the            *)
(* administrator's tenant, asked for by somebody else; once made, the row  *)
(* never looks undecided again.                                            *)
DecisionsSound ==
  \A d \in Decision : pc[d] # "new" =>
    LET r == req[d].row
    IN  /\ r \in Query /\ row[r].status # "absent"
        /\ req[d].user \in Admin /\ req[d].user # req[r].user
        /\ TenantOf[req[d].user] = RowTenant(r)
        /\ pc[d] = "decided" => row[r].status # "pending"

(* A token in the table was put there by the approval it is named after,   *)
(* and an approved row whose token has been spent holds another one; it    *)
(* holds that of the last decision.                                        *)
TokensSound ==
  \A r \in Query :
    LET t == row[r].token
    IN  /\ row[r].status = "approved" => t # None /\ t \notin spent /\ last[r] = t
        /\ t # None => Approved(t) /\ req[t].row = r /\ row[r].expires = req[t].at + TTL

(* A grant rests on a committed approval of the row, still fresh when the  *)
(* token was checked.                                                      *)
GrantsSound ==
  \A p \in Query : Validated(p) =>
    LET a == req[p].token
        r == req[p].row
    IN  /\ a \in Decision /\ Approved(a) /\ req[a].row = r
        /\ RowTenant(r) = TenantOf[req[p].user]
        /\ req[r].sql = req[p].sql
        /\ req[p].at <= req[a].at + TTL

SpentSound == \A t \in spent : Approved(t)

(* Past the gate a CRITICAL query has spent the token it was granted, on a *)
(* row its own account asked for.                                          *)
RunsSound ==
  \A p \in Query :
    pc[p] \in {"run", "audit", "answered", "failed", "lost"} /\ req[p].critical =>
      /\ req[p].row # None
      /\ req[p].token \in spent
      /\ req[req[p].row].user = req[p].user

(* The conjunction is inductive: what keeps a token from being accepted    *)
(* twice is that an approved row never holds a spent one.                  *)
Inv ==
  /\ TypeOK
  /\ Arrivals
  /\ DecisionsSound
  /\ TokensSound
  /\ GrantsSound
  /\ SpentSound
  /\ RunsSound
=============================================================================
