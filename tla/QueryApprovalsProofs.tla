------------------------ MODULE QueryApprovalsProofs ------------------------
(***************************************************************************)
(* Proofs about QueryApprovals, for any number of requests, accounts,      *)
(* tenants, texts and sources, any lifetime of a token, and both editions. *)
(***************************************************************************)
EXTENDS QueryApprovals, TLAPS

(* The step of one request touches only its own label and record.          *)
LEMMA TaskFacts ==
  /\ Query \subseteq Task /\ Decision \subseteq Task
  /\ \A p \in Query : p \notin Decision
  /\ None \notin Query /\ None \notin Decision /\ None \notin User
BY ConstantsAssumption DEF Task

(* Every variable stays within its type.                                   *)
LEMMA TypeStep == Inv /\ [Next]_vars => TypeOK'
<1> SUFFICES ASSUME Inv, [Next]_vars PROVE TypeOK'
  OBVIOUS
<1> USE ConstantsAssumption, TaskFacts DEF Inv, TypeOK, Row, Status, Request, Label
<1>1. ASSUME NEW p \in Query, NEW u \in User, NEW s \in Sql, NEW d \in Source,
             NEW t \in Decision \cup {None}, ReceiveExecute(p, u, s, d, t)
      PROVE  TypeOK'
  BY <1>1 DEF ReceiveExecute
<1>2. ASSUME NEW p \in Query, CreateApproval(p) PROVE TypeOK'
  BY <1>2 DEF CreateApproval, NoRow
<1>3. ASSUME NEW p \in Query, ValidateToken(p) PROVE TypeOK'
  BY <1>3 DEF ValidateToken
<1>4. ASSUME NEW p \in Query, RefuseToken(p) PROVE TypeOK'
  BY <1>4 DEF RefuseToken
<1>5. ASSUME NEW p \in Query, ConsumeToken(p) PROVE TypeOK'
  <2>1. req[p].row \in Query /\ req[p].token \in Decision
    BY <1>5 DEF ConsumeToken, Arrivals, GrantsSound, Validated
  <2>2. row[req[p].row] \in Row
    BY <2>1
  <2>3. Consumed(req[p].row) \in Row
    BY <2>2 DEF Consumed
  <2>4. row' \in [Query -> Row]
    BY <1>5, <2>1, <2>3 DEF ConsumeToken
  <2>5. pc' \in [Task -> Label] /\ \A q \in Task : pc'[q] # "new" => req'[q] \in Request
    BY <1>5 DEF ConsumeToken
  <2>6. spent' \subseteq Decision
    BY <1>5, <2>1 DEF ConsumeToken
  <2>7. QED
    BY <1>5, <2>4, <2>5, <2>6 DEF ConsumeToken
<1>6. ASSUME NEW p \in Query, RunQuery(p) \/ RunFails(p) PROVE TypeOK'
  BY <1>6 DEF RunQuery, RunFails
<1>7. ASSUME NEW p \in Query, AuditRun(p) \/ RecordBlocked(p) PROVE TypeOK'
  BY <1>7 DEF AuditRun, RecordBlocked
<1>8. ASSUME NEW p \in Decision, NEW u \in User, NEW k \in {"approve", "reject"},
             NEW r \in Query, ReadForDecision(p, u, k, r)
      PROVE  TypeOK'
  BY <1>8 DEF ReadForDecision, MayDecide, Arrivals
<1>9. ASSUME NEW p \in Decision, CommitApprove(p) PROVE TypeOK'
  <2>1. PICK at \in req[p].at .. now :
          /\ req' = [req EXCEPT ![p].at = at]
          /\ row' = [row EXCEPT ![req[p].row] =
               [status |-> "approved", token |-> p, approver |-> req[p].user,
                expires |-> at + TTL]]
    BY <1>9 DEF CommitApprove
  <2>2. req[p].row \in Query /\ req[p] \in Request /\ pc[p] = "deciding" /\ at \in Nat
    BY <1>9, <2>1 DEF CommitApprove, DecisionsSound
  <2>3. [req[p] EXCEPT !.at = at] \in Request
    BY <2>2
  <2>4. req' \in [Task -> Request \cup {NoRequest}] /\ \A q \in Task : pc'[q] # "new" => req'[q] \in Request
    BY <1>9, <2>1, <2>3 DEF CommitApprove
  <2>5. row' \in [Query -> Row]
    BY <2>1, <2>2
  <2>6. QED
    BY <1>9, <2>2, <2>4, <2>5 DEF CommitApprove
<1>10. ASSUME NEW p \in Decision, CommitReject(p) PROVE TypeOK'
  BY <1>10, SMTT(30) DEF CommitReject, DecisionsSound
<1>11. ASSUME NEW p \in Task, Crash(p) PROVE TypeOK'
  BY <1>11 DEF Crash
<1>12. CASE Tick
  BY <1>12 DEF Tick
<1>13. CASE UNCHANGED vars
  BY <1>13 DEF vars
<1>14. QED
  BY <1>1, <1>2, <1>3, <1>4, <1>5, <1>6, <1>7, <1>8, <1>9, <1>10, <1>11, <1>12, <1>13
     DEF Next, Execute, Decide

(* A request that arrives carries no grant and no row.                     *)
LEMMA ReceiveStep ==
  ASSUME Inv, TypeOK', NEW p \in Query, NEW u \in User, NEW s \in Sql, NEW d \in Source,
         NEW t \in Decision \cup {None}, ReceiveExecute(p, u, s, d, t)
  PROVE  Inv'
<1> USE ConstantsAssumption, TaskFacts DEF Inv, TypeOK, Request, ReceiveExecute
<1>a. pc[p] = "new" /\ req'[p].row = None /\ row' = row /\ spent' = spent
  OBVIOUS
<1>b. pc'[p] \in {"gate", "run", "blocked", "failed"} /\ (req'[p].critical => pc'[p] = "gate")
  OBVIOUS
<1>c. \A q \in Task : q # p => req'[q] = req[q] /\ pc'[q] = pc[q]
  OBVIOUS
<1>d. \A q \in Query : Validated(q) => q # p /\ req[q].row # p /\ req[q].row \in Query
  BY <1>a DEF GrantsSound, DecisionsSound, Arrivals, Validated, Approved
<1>1. Arrivals'
  BY DEF Arrivals
<1>2. DecisionsSound'
  BY DEF DecisionsSound, RowTenant, Arrivals
<1>3. TokensSound'
  BY DEF TokensSound, Approved, Arrivals
<1>4. GrantsSound'
  BY <1>a, <1>b, <1>c, <1>d DEF GrantsSound, Validated, Approved, RowTenant
<1>5. SpentSound'
  BY DEF SpentSound, Approved, Arrivals
<1>6. RunsSound'
  BY <1>a, <1>b, <1>c, <1>d DEF RunsSound, Validated
<1>7. QED
  BY <1>1, <1>2, <1>3, <1>4, <1>5, <1>6


(* A new row is pending and holds no token.                                *)
LEMMA CreateStep ==
  ASSUME Inv, TypeOK', NEW p \in Query, CreateApproval(p)
  PROVE  Inv'
<1> USE ConstantsAssumption, TaskFacts DEF Inv, TypeOK, Request, CreateApproval, NoRow
<1>a. row'[p].status = "pending" /\ \A q \in Query : q # p => row'[q] = row[q]
  OBVIOUS
<1>b. req' = req /\ \A q \in Task : q # p => pc'[q] = pc[q]
  OBVIOUS
<1>c. \A d \in Decision : pc[d] = "decided" => req[d].row # p
  BY DEF DecisionsSound, Arrivals
<1>1. Arrivals'
  BY DEF Arrivals
<1>2. DecisionsSound'
  BY <1>a, <1>b, <1>c DEF DecisionsSound, RowTenant, Arrivals
<1>3. TokensSound'
  BY DEF TokensSound, Approved, Arrivals
<1>4. GrantsSound'
  BY DEF GrantsSound, Validated, Approved, RowTenant, Arrivals
<1>5. SpentSound'
  BY DEF SpentSound, Approved, Arrivals
<1>6. RunsSound'
  BY DEF RunsSound, Arrivals
<1>7. QED
  BY <1>1, <1>2, <1>3, <1>4, <1>5, <1>6


(* A grant is made on a token of an approved row, which is not spent.      *)
LEMMA ValidateStep ==
  ASSUME Inv, TypeOK', NEW p \in Query, ValidateToken(p)
  PROVE  Inv'
<1> USE ConstantsAssumption, TaskFacts DEF Inv, TypeOK, Request
<1>a. PICK r \in Query : TokenAccepted(p, r) /\ req' = [req EXCEPT ![p].row = r, ![p].at = now]
  BY DEF ValidateToken
<1>b. req[p] \in Request /\ req[p].token \in Decision
  BY DEF ValidateToken
<1>c. /\ row[r].status = "approved" /\ row[r].token = req[p].token /\ row[r].expires >= now
      /\ req[r].sql = req[p].sql /\ RowTenant(r) = TenantOf[req[p].user]
  BY <1>a DEF TokenAccepted, TokenMatches, Unexpired, SameText
<1>d. \A q \in Task : /\ q # p => req'[q] = req[q]
                      /\ req'[q].user = req[q].user /\ req'[q].sql = req[q].sql
                      /\ req'[q].token = req[q].token /\ req'[q].critical = req[q].critical
                      /\ req'[q].kind = req[q].kind
  BY <1>a, <1>b
<1>e. req'[p].row = r /\ req'[p].at = now
  BY <1>a, <1>b
<1>f. /\ pc[p] = "gate" /\ pc'[p] = "consume" /\ \A q \in Task : q # p => pc'[q] = pc[q]
      /\ row' = row /\ spent' = spent /\ now' = now /\ last' = last
  BY DEF ValidateToken
<1>g. \A q \in Query : row[q].token \in Decision \cup {None}
  BY DEF Row
<1>h. req[p].row = None /\ req[p].critical /\ req[p].kind = "execute"
  BY <1>f DEF Arrivals
<1>i. \A d \in Decision : d # p /\ req'[d] = req[d] /\ pc'[d] = pc[d]
  BY <1>d, <1>f
<1>m. now \in Nat /\ row[r].expires \in Nat
  BY DEF Row
<1>j. Arrivals /\ DecisionsSound /\ TokensSound /\ GrantsSound /\ SpentSound /\ RunsSound
  OBVIOUS
<1>k. \A q \in Query : pc[q] # "new" => req[q].row \in Query \cup {None}
  OBVIOUS
<1>l. TypeOK'
  OBVIOUS
<1> HIDE DEF Inv, TypeOK, Request
<1>1. Arrivals'
  <2>1. \A q \in Query : row'[q].status # "absent" => pc'[q] \notin {"new", "gate"}
    BY <1>f, <1>j DEF Arrivals
  <2>2. \A q \in Query : q # p => req'[q] = req[q] /\ pc'[q] = pc[q]
    BY <1>d, <1>f
  <2>3. /\ pc'[p] = "consume" /\ req'[p].kind = "execute"
        /\ req'[p].row # None /\ req'[p].critical
    BY <1>d, <1>e, <1>f, <1>h
  <2>4. \A q \in Query : /\ pc'[q] \notin {"deciding", "decided"}
                         /\ pc'[q] # "new" => req'[q].kind = "execute"
                         /\ pc'[q] = "gate" => req'[q].row = None /\ req'[q].critical
                         /\ pc'[q] = "consume" => req'[q].row # None /\ req'[q].critical
    BY <1>j, <2>2, <2>3 DEF Arrivals
  <2>5. \A d \in Decision : /\ pc'[d] \in {"new", "deciding", "decided", "crashed"}
                            /\ pc'[d] # "new" => req'[d].kind # "execute"
    BY <1>i, <1>j DEF Arrivals
  <2>6. QED
    BY <2>1, <2>4, <2>5 DEF Arrivals
<1>2. DecisionsSound'
  BY <1>d, <1>e, <1>f, <1>i, <1>j DEF DecisionsSound, RowTenant, Arrivals
<1>3. TokensSound'
  BY <1>c, <1>d, <1>f, <1>g, <1>i, <1>j DEF TokensSound, Approved
<1>4. GrantsSound'
  <2>1. Approved(req[p].token) /\ req[req[p].token].row = r
    BY <1>b, <1>c, <1>j DEF TokensSound
  <2>2. now <= req[req[p].token].at + TTL
    BY <1>b, <1>c, <1>j, <1>m, <2>1 DEF TokensSound
  <2>a. SUFFICES ASSUME NEW q \in Query, Validated(q)'
               PROVE  (LET a == req[q].token
                           w == req[q].row
                       IN  /\ a \in Decision /\ Approved(a) /\ req[a].row = w
                           /\ RowTenant(w) = TenantOf[req[q].user]
                           /\ req[w].sql = req[q].sql
                           /\ req[q].at <= req[a].at + TTL)'
    BY DEF GrantsSound
  <2>3. CASE q = p
    BY <1>b, <1>c, <1>d, <1>e, <1>f, <1>i, <2>1, <2>2, <2>3 DEF Approved, RowTenant
  <2>4. CASE q # p
    <3>1. Validated(q) /\ req'[q] = req[q]
      BY <1>d, <1>f, <2>a, <2>4 DEF Validated
    <3>2. req[q].row \in Query
      BY <1>k, <3>1 DEF Validated
    <3>3. QED
      BY <1>d, <1>f, <1>i, <1>j, <3>1, <3>2 DEF GrantsSound, Approved, RowTenant
  <2>5. QED
    BY <2>3, <2>4
<1>5. SpentSound'
  BY <1>f, <1>i, <1>j, <1>l DEF SpentSound, Approved, TypeOK
<1>6. RunsSound'
  <2>1. \A q \in Query : pc'[q] \in {"run", "audit", "answered", "failed", "lost"}
                           => pc'[q] = pc[q] /\ req'[q] = req[q]
    BY <1>d, <1>f
  <2>2. QED
    BY <1>d, <1>f, <1>j, <1>k, <2>1 DEF RunsSound
<1>7. QED
  BY <1>1, <1>2, <1>3, <1>4, <1>5, <1>6, <1>l DEF Inv


(* A refused token changes nothing but the label.                          *)
LEMMA RefuseStep ==
  ASSUME Inv, TypeOK', NEW p \in Query, RefuseToken(p)
  PROVE  Inv'
<1> USE ConstantsAssumption, TaskFacts DEF Inv, TypeOK, Request, RefuseToken
<1>1. Arrivals'
  BY DEF Arrivals
<1>2. DecisionsSound'
  BY DEF DecisionsSound, RowTenant, Arrivals
<1>3. TokensSound'
  BY DEF TokensSound, Approved, Arrivals
<1>4. GrantsSound'
  BY DEF GrantsSound, Validated, Approved, RowTenant, Arrivals
<1>5. SpentSound'
  BY DEF SpentSound, Approved, Arrivals
<1>6. RunsSound'
  BY DEF RunsSound, Arrivals
<1>7. QED
  BY <1>1, <1>2, <1>3, <1>4, <1>5, <1>6


(* Consumption closes the only row that holds the token.                   *)
LEMMA ConsumeStep ==
  ASSUME Inv, TypeOK', NEW p \in Query, ConsumeToken(p)
  PROVE  Inv'
<1> USE ConstantsAssumption, TaskFacts DEF Inv, TypeOK, Request
<1>a. PICK r \in Query : r = req[p].row /\ row' = [row EXCEPT ![r] = Consumed(r)]
  BY DEF ConsumeToken, Arrivals, GrantsSound, Validated
<1>b. /\ pc[p] = "consume" /\ req' = req
      /\ pc' = [pc EXCEPT ![p] = IF req[r].user = req[p].user THEN "run" ELSE "blocked"]
      /\ spent' = spent \cup {req[p].token} /\ last' = last
  BY <1>a DEF ConsumeToken
<1>c. /\ req[p].token \in Decision /\ Approved(req[p].token) /\ req[req[p].token].row = r
      /\ req[p].row = r /\ r # None /\ req[p].critical
  BY <1>a, <1>b DEF GrantsSound, Validated, Arrivals
<1>d. /\ row'[r].status = "used" /\ row'[r].token = row[r].token /\ row'[r].expires = row[r].expires
      /\ \A q \in Query : q # r => row'[q] = row[q]
  BY <1>a DEF Consumed, Row
<1>e. row[r].status # "absent"
  BY <1>c DEF DecisionsSound, Approved
<1>f. \A q \in Task : q # p => pc'[q] = pc[q]
  BY <1>b
<1>g. pc'[p] \in {"run", "blocked"} /\ (pc'[p] = "run" => req[r].user = req[p].user)
  BY <1>b
<1>j. Arrivals /\ DecisionsSound /\ TokensSound /\ GrantsSound /\ SpentSound /\ RunsSound
  OBVIOUS
<1>k. \A q \in Query : pc[q] # "new" => req[q].row \in Query \cup {None}
  OBVIOUS
<1>l. TypeOK'
  OBVIOUS
<1> HIDE DEF Inv, TypeOK, Request
<1>1. Arrivals'
  BY <1>b, <1>c, <1>d, <1>e, <1>f, <1>g, <1>j, <1>k DEF Arrivals
<1>2. DecisionsSound'
  <2>1. \A d \in Decision : pc'[d] = pc[d]
    BY <1>f
  <2>2. \A q \in Query : /\ row'[q].status = "absent" => row[q].status = "absent"
                         /\ row'[q].status = "pending" => row[q].status = "pending"
    BY <1>d, <1>e
  <2>3. QED
    BY <1>b, <1>j, <2>1, <2>2 DEF DecisionsSound, RowTenant
<1>3. TokensSound'
  BY <1>b, <1>c, <1>d, <1>e, <1>f, <1>g, <1>j, <1>k DEF TokensSound, Approved, Arrivals
<1>4. GrantsSound'
  BY <1>b, <1>c, <1>d, <1>e, <1>f, <1>g, <1>j, <1>k DEF GrantsSound, Validated, Approved, RowTenant, Arrivals
<1>5. SpentSound'
  BY <1>b, <1>c, <1>d, <1>e, <1>f, <1>g, <1>j, <1>k DEF SpentSound, Approved, Arrivals
<1>6. RunsSound'
  BY <1>b, <1>c, <1>d, <1>e, <1>f, <1>g, <1>j, <1>k DEF RunsSound, Arrivals
<1>7. QED
  BY <1>1, <1>2, <1>3, <1>4, <1>5, <1>6, <1>l DEF Inv


(* Running changes nothing but the label.                                  *)
LEMMA RunStep ==
  ASSUME Inv, TypeOK', NEW p \in Query, RunQuery(p) \/ RunFails(p)
  PROVE  Inv'
<1> USE ConstantsAssumption, TaskFacts DEF Inv, TypeOK, Request, RunQuery, RunFails
<1>a. row' = row /\ req' = req /\ spent' = spent /\ \A q \in Decision : pc'[q] = pc[q]
  OBVIOUS
<1>b. \A r \in Query : row[r].token \in Decision \cup {None}
  BY DEF Row
<1>1. Arrivals'
  BY DEF Arrivals
<1>2. DecisionsSound'
  BY DEF DecisionsSound, RowTenant, Arrivals
<1>3. TokensSound'
  BY <1>a, <1>b DEF TokensSound, Approved
<1>4. GrantsSound'
  BY DEF GrantsSound, Validated, Approved, RowTenant, Arrivals
<1>5. SpentSound'
  BY DEF SpentSound, Approved, Arrivals
<1>6. RunsSound'
  BY DEF RunsSound, Arrivals
<1>7. QED
  BY <1>1, <1>2, <1>3, <1>4, <1>5, <1>6


(* Audit records are not read by the workflow.                             *)
LEMMA RecordStep ==
  ASSUME Inv, TypeOK', NEW p \in Query, AuditRun(p) \/ RecordBlocked(p)
  PROVE  Inv'
<1> USE ConstantsAssumption, TaskFacts DEF Inv, TypeOK, Request, AuditRun, RecordBlocked
<1>a. row' = row /\ req' = req /\ spent' = spent /\ \A q \in Decision : pc'[q] = pc[q]
  OBVIOUS
<1>b. \A r \in Query : row[r].token \in Decision \cup {None}
  BY DEF Row
<1>1. Arrivals'
  BY DEF Arrivals
<1>2. DecisionsSound'
  BY DEF DecisionsSound, RowTenant, Arrivals
<1>3. TokensSound'
  BY <1>a, <1>b DEF TokensSound, Approved
<1>4. GrantsSound'
  BY DEF GrantsSound, Validated, Approved, RowTenant, Arrivals
<1>5. SpentSound'
  BY DEF SpentSound, Approved, Arrivals
<1>6. RunsSound'
  BY DEF RunsSound, Arrivals
<1>7. QED
  BY <1>1, <1>2, <1>3, <1>4, <1>5, <1>6


(* A decision starts on a pending row of another account.                  *)
LEMMA ReadStep ==
  ASSUME Inv, TypeOK', NEW p \in Decision, NEW u \in Admin, NEW k \in {"approve", "reject"},
         NEW r \in Query, ReadForDecision(p, u, k, r)
  PROVE  Inv'
<1> USE ConstantsAssumption, TaskFacts DEF Inv, TypeOK, Request, ReadForDecision, MayDecide
<1>1. Arrivals'
  BY DEF Arrivals
<1>2. DecisionsSound'
  BY DEF DecisionsSound, RowTenant, Arrivals
<1>3. TokensSound'
  BY DEF TokensSound, Approved, Arrivals
<1>4. GrantsSound'
  BY DEF GrantsSound, Validated, Approved, RowTenant, Arrivals
<1>5. SpentSound'
  BY DEF SpentSound, Approved, Arrivals
<1>6. RunsSound'
  BY DEF RunsSound, Arrivals
<1>7. QED
  BY <1>1, <1>2, <1>3, <1>4, <1>5, <1>6


(* An approval that commits late brings a token of its own, not a spent one. *)
LEMMA ApproveStep ==
  ASSUME Inv, TypeOK', NEW p \in Decision, CommitApprove(p)
  PROVE  Inv'
<1> USE ConstantsAssumption, TaskFacts DEF Inv, TypeOK, Request, CommitApprove
<1>a. PICK r \in Query : r = req[p].row
  BY DEF DecisionsSound
<1>b. PICK at \in req[p].at .. now :
        /\ req' = [req EXCEPT ![p].at = at]
        /\ row' = [row EXCEPT ![req[p].row] =
             [status |-> "approved", token |-> p, approver |-> req[p].user,
              expires |-> at + TTL]]
  OBVIOUS
<1>c. /\ pc[p] = "deciding" /\ pc' = [pc EXCEPT ![p] = "decided"] /\ req[p].kind = "approve"
      /\ spent' = spent /\ last'[r] = p
      /\ \A q \in Query : q # r => last'[q] = last[q]
  BY <1>a
<1>d. row[r].status # "absent" /\ p \notin spent
  BY <1>a, <1>c DEF DecisionsSound, SpentSound, Approved
<1>e. /\ row'[r].status = "approved" /\ row'[r].token = p /\ row'[r].expires = at + TTL
      /\ \A q \in Query : q # r => row'[q] = row[q]
  BY <1>a, <1>b
<1>f. /\ \A q \in Task : q # p => req'[q] = req[q]
      /\ req'[p].at = at /\ req'[p].kind = req[p].kind /\ req'[p].row = req[p].row
      /\ req'[p].user = req[p].user
  BY <1>b, <1>c
<1>g. \A q \in Task : pc'[q] = IF q = p THEN "decided" ELSE pc[q]
  BY <1>c
<1>h. p \notin Query /\ \A t \in spent : t # p
  BY <1>d
<1>i. /\ \A d \in Decision : d # p => (Approved(d)' <=> Approved(d))
      /\ Approved(p)' /\ ~Approved(p)
  BY <1>c, <1>f, <1>g DEF Approved
<1>1. Arrivals'
  BY <1>a, <1>c, <1>d, <1>e, <1>f, <1>g, <1>h DEF Arrivals
<1>2. DecisionsSound'
  <2>1. \A d \in Decision : pc'[d] # "new" =>
          /\ pc[d] # "new" /\ req'[d].row = req[d].row /\ req'[d].user = req[d].user
          /\ pc'[d] = "decided" => pc[d] = "decided" \/ d = p
    BY <1>c, <1>f, <1>g
  <2>2. \A q \in Query : /\ req'[q] = req[q]
                         /\ row[q].status # "absent" => row'[q].status # "absent"
                         /\ row'[q].status = "pending" => row[q].status = "pending" /\ q # r
    BY <1>d, <1>e, <1>f, <1>h
  <2>3. \A d \in Decision : pc'[d] # "new" => req[d].row \in Query
    BY <2>1 DEF DecisionsSound
  <2>4. DecisionsSound
    OBVIOUS
  <2> HIDE DEF Inv, TypeOK, Request, CommitApprove
  <2>5. ASSUME NEW d \in Decision, pc'[d] # "new"
        PROVE  /\ req'[d].row \in Query /\ row'[req'[d].row].status # "absent"
               /\ req'[d].user \in Admin /\ req'[d].user # req'[req'[d].row].user
               /\ TenantOf[req'[d].user] = TenantOf[req'[req'[d].row].user]
               /\ pc'[d] = "decided" => row'[req'[d].row].status # "pending"
    <3>1. PICK q \in Query : q = req[d].row /\ q = req'[d].row
      BY <2>1, <2>3, <2>5
    <3>2. /\ row[q].status # "absent" /\ req[d].user \in Admin /\ req[d].user # req[q].user
          /\ TenantOf[req[d].user] = TenantOf[req[q].user]
          /\ pc[d] = "decided" => row[q].status # "pending"
      BY <2>1, <2>4, <2>5, <3>1 DEF DecisionsSound, RowTenant
    <3>3. row'[q].status # "absent" /\ req'[q] = req[q] /\ req'[d].user = req[d].user
      BY <2>1, <2>2, <2>5, <3>1, <3>2
    <3>4. pc'[d] = "decided" => row'[q].status # "pending"
      BY <1>a, <2>1, <2>2, <2>5, <3>1, <3>2
    <3>5. QED
      BY <3>1, <3>2, <3>3, <3>4
  <2>6. QED
    BY <2>5 DEF DecisionsSound, RowTenant
<1>3. TokensSound'
  <2>1. TokensSound
    OBVIOUS
  <2>2. /\ last'[r] = p /\ spent' = spent /\ p \notin spent /\ p # None
        /\ row'[r].token = p /\ row'[r].expires = req'[p].at + TTL
        /\ pc'[p] = "decided" /\ req'[p].kind = "approve" /\ req'[p].row = r
    BY <1>a, <1>c, <1>d, <1>e, <1>f, <1>g
  <2>3. \A d \in Decision : Approved(d) => /\ pc'[d] = "decided" /\ req'[d].kind = "approve"
                                           /\ req'[d] = req[d]
    BY <1>c, <1>f, <1>g DEF Approved
  <2>4. \A q \in Query : row[q].token \in Decision \cup {None}
    BY DEF Row
  <2>5. \A q \in Query : q # r => row'[q] = row[q] /\ last'[q] = last[q]
    BY <1>c, <1>e
  <2> HIDE DEF Inv, TypeOK, Request, CommitApprove
  <2>6. ASSUME NEW q \in Query
        PROVE  /\ row'[q].status = "approved" =>
                     row'[q].token # None /\ row'[q].token \notin spent' /\ last'[q] = row'[q].token
               /\ row'[q].token # None =>
                     /\ pc'[row'[q].token] = "decided" /\ req'[row'[q].token].kind = "approve"
                     /\ req'[row'[q].token].row = q
                     /\ row'[q].expires = req'[row'[q].token].at + TTL
    <3>1. CASE q = r
      BY <2>2, <3>1
    <3>2. CASE q # r
      <4>1. row'[q] = row[q] /\ last'[q] = last[q] /\ spent' = spent
        BY <2>2, <2>5, <3>2
      <4>2. row[q].token # None => row[q].token \in Decision /\ Approved(row[q].token)
        BY <2>1, <2>4 DEF TokensSound
      <4>3. row[q].token # None => /\ pc'[row[q].token] = "decided"
                                   /\ req'[row[q].token].kind = "approve"
                                   /\ req'[row[q].token] = req[row[q].token]
        BY <2>3, <4>2
      <4>4. QED
        BY <2>1, <4>1, <4>2, <4>3 DEF TokensSound
    <3>3. QED
      BY <3>1, <3>2
  <2>7. QED
    BY <2>6 DEF TokensSound, Approved
<1>4. GrantsSound'
  BY <1>c, <1>f, <1>g, <1>h, <1>i DEF GrantsSound, Validated, RowTenant, Arrivals
<1>5. SpentSound'
  BY <1>c, <1>i DEF SpentSound
<1>6. RunsSound'
  BY <1>c, <1>f, <1>g, <1>h DEF RunsSound, Arrivals
<1>7. QED
  BY <1>1, <1>2, <1>3, <1>4, <1>5, <1>6


(* A rejection that commits late leaves the token but closes the row.      *)
LEMMA RejectStep ==
  ASSUME Inv, TypeOK', NEW p \in Decision, CommitReject(p)
  PROVE  Inv'
<1> USE ConstantsAssumption, TaskFacts DEF Inv, TypeOK, Request, CommitReject
<1>a. PICK r \in Query : r = req[p].row
  BY DEF DecisionsSound
<1>b. /\ row'[r].status = "rejected" /\ row[r].status # "absent"
      /\ \A q \in Query : q # r => row'[q] = row[q]
  BY <1>a DEF DecisionsSound
<1>c. pc[p] = "deciding" /\ pc' = [pc EXCEPT ![p] = "decided"] /\ req' = req
  OBVIOUS
<1>1. Arrivals'
  BY <1>a, <1>b, <1>c DEF Arrivals
<1>2. DecisionsSound'
  BY SMTT(30) DEF DecisionsSound, RowTenant, Arrivals
<1>3. TokensSound'
  BY SMTT(30) DEF TokensSound, Approved, Arrivals
<1>4. GrantsSound'
  BY DEF GrantsSound, Validated, Approved, RowTenant, Arrivals
<1>5. SpentSound'
  BY DEF SpentSound, Approved, Arrivals
<1>6. RunsSound'
  BY DEF RunsSound, Arrivals
<1>7. QED
  BY <1>1, <1>2, <1>3, <1>4, <1>5, <1>6


(* A handler that dies leaves its record behind.                           *)
LEMMA CrashStep ==
  ASSUME Inv, TypeOK', NEW p \in Task, Crash(p)
  PROVE  Inv'
<1> USE ConstantsAssumption, TaskFacts DEF Inv, TypeOK, Request, Crash
<1>1. Arrivals'
  BY DEF Arrivals
<1>2. DecisionsSound'
  BY DEF DecisionsSound, RowTenant, Arrivals
<1>3. TokensSound'
  BY DEF TokensSound, Approved, Arrivals
<1>4. GrantsSound'
  BY DEF GrantsSound, Validated, Approved, RowTenant, Arrivals
<1>5. SpentSound'
  BY DEF SpentSound, Approved, Arrivals
<1>6. RunsSound'
  BY DEF RunsSound, Arrivals
<1>7. QED
  BY <1>1, <1>2, <1>3, <1>4, <1>5, <1>6

-----------------------------------------------------------------------------
(* The initial table is empty and nothing has arrived.                     *)
LEMMA InvInit == Init => Inv
BY ConstantsAssumption, TaskFacts
   DEF Init, Inv, TypeOK, Row, NoRow, Status, Label, Arrivals, DecisionsSound,
       TokensSound, GrantsSound, SpentSound, RunsSound, Validated

(* Every step preserves the invariant: one case per action.                *)
LEMMA InvStep == Inv /\ [Next]_vars => Inv'
<1> SUFFICES ASSUME Inv, [Next]_vars PROVE Inv'
  OBVIOUS
<1>1. TypeOK'
  BY TypeStep
<1>2. ASSUME NEW p \in Query, Execute(p) PROVE Inv'
  BY <1>1, <1>2, ReceiveStep, CreateStep, ValidateStep, RefuseStep, ConsumeStep,
     RunStep, RecordStep
     DEF Execute
<1>3. ASSUME NEW p \in Decision, Decide(p) PROVE Inv'
  <2>1. CASE \E u \in User, k \in {"approve", "reject"}, r \in Query : ReadForDecision(p, u, k, r)
    <3>1. PICK u \in Admin, k \in {"approve", "reject"}, r \in Query : ReadForDecision(p, u, k, r)
      BY <2>1 DEF ReadForDecision
    <3>2. QED
      BY <1>1, <3>1, ReadStep
  <2>2. QED
    BY <1>1, <1>3, <2>1, ApproveStep, RejectStep DEF Decide
<1>4. ASSUME NEW p \in Task, Crash(p) PROVE Inv'
  BY <1>1, <1>4, CrashStep
<1>5. CASE Tick \/ UNCHANGED vars
  <2>1. UNCHANGED <<row, req, pc, spent, last>>
    BY <1>5 DEF Tick, vars
  <2>2. QED
    BY <1>1, <2>1
       DEF Inv, Arrivals, DecisionsSound, TokensSound, GrantsSound, SpentSound, RunsSound,
           RowTenant, Validated, Approved
<1>6. QED
  BY <1>2, <1>3, <1>4, <1>5 DEF Next

(* The inductive invariant holds in every reachable state.                 *)
THEOREM Invariance == Spec => []Inv
<1>1. QED
  BY InvInit, InvStep, PTL DEF Spec

(* Type correctness.                                                       *)
THEOREM TypeCorrect == Spec => []TypeOK
<1>1. Inv => TypeOK
  BY DEF Inv
<1>2. QED
  BY <1>1, Invariance, PTL

(* No token is accepted without another administrator's committed approval *)
(* of that row, in the tenant of everyone involved.                        *)
THEOREM GrantsAreApproved == Spec => []ApprovedByAnother
<1>1. Inv => ApprovedByAnother
  BY ConstantsAssumption, TaskFacts
     DEF Inv, GrantsSound, DecisionsSound, ApprovedByAnother, Approved, RowTenant
<1>2. QED
  BY <1>1, Invariance, PTL

(* A CRITICAL query runs only for its requester and with the approved text.*)
THEOREM RunsMatch == Spec => []RunMatchesApproval
<1>1. Inv => RunMatchesApproval
  BY ConstantsAssumption, TaskFacts
     DEF Inv, GrantsSound, RunsSound, RunMatchesApproval, Ran, Validated
<1>2. QED
  BY <1>1, Invariance, PTL

(* A token is accepted within its lifetime only.                           *)
THEOREM GrantsAreFresh == Spec => []WithinLifetime
<1>1. Inv => WithinLifetime
  BY DEF Inv, GrantsSound, WithinLifetime
<1>2. QED
  BY <1>1, Invariance, PTL

(* Only ValidateToken lets a request past the token check, and only        *)
(* ReadForDecision starts a decision.                                      *)
LEMMA OnlyValidateConsumes ==
  ASSUME TypeOK, Next, NEW p \in Query, pc[p] # "consume", pc'[p] = "consume"
  PROVE  ValidateToken(p)
<1> USE ConstantsAssumption, TaskFacts DEF TypeOK
<1>1. ASSUME NEW q \in Query, Execute(q) PROVE ValidateToken(p)
  <2>1. CASE q = p
    BY <1>1, <2>1 DEF Execute, ReceiveExecute, CreateApproval, RefuseToken, ConsumeToken,
                      RunQuery, RunFails, AuditRun, RecordBlocked
  <2>2. CASE q # p
    BY <1>1, <2>2 DEF Execute, ReceiveExecute, CreateApproval, ValidateToken, RefuseToken,
                      ConsumeToken, RunQuery, RunFails, AuditRun, RecordBlocked
  <2>3. QED
    BY <2>1, <2>2
<1>2. ASSUME NEW q \in Decision, Decide(q) PROVE FALSE
  BY <1>2 DEF Decide, ReadForDecision, CommitApprove, CommitReject
<1>3. ASSUME NEW q \in Task, Crash(q) PROVE FALSE
  BY <1>3 DEF Crash
<1>4. QED
  BY <1>1, <1>2, <1>3 DEF Next, Tick

LEMMA OnlyReadDecides ==
  ASSUME TypeOK, Next, NEW p \in Decision, pc[p] = "new", pc'[p] = "deciding"
  PROVE  \E u \in User, k \in {"approve", "reject"}, r \in Query : ReadForDecision(p, u, k, r)
<1> USE ConstantsAssumption, TaskFacts DEF TypeOK
<1>1. ASSUME NEW q \in Query, Execute(q) PROVE FALSE
  BY <1>1 DEF Execute, ReceiveExecute, CreateApproval, ValidateToken, RefuseToken,
              ConsumeToken, RunQuery, RunFails, AuditRun, RecordBlocked
<1>2. ASSUME NEW q \in Decision, Decide(q)
      PROVE  \E u \in User, k \in {"approve", "reject"}, r \in Query : ReadForDecision(p, u, k, r)
  BY <1>2 DEF Decide, ReadForDecision, CommitApprove, CommitReject
<1>3. ASSUME NEW q \in Task, Crash(q) PROVE FALSE
  BY <1>3 DEF Crash
<1>4. QED
  BY <1>1, <1>2, <1>3 DEF Next, Tick

(* A token whose consumption has committed is refused from then on.        *)
THEOREM NoReplayHolds == Spec => NoReplay
<1>1. ASSUME Inv, Next, NEW p \in Query, pc[p] # "consume", pc'[p] = "consume"
      PROVE  req[p].token \notin spent
  <2>1. ValidateToken(p)
    BY <1>1, OnlyValidateConsumes DEF Inv
  <2>2. PICK r \in Query : row[r].status = "approved" /\ row[r].token = req[p].token
    BY <2>1 DEF ValidateToken, TokenAccepted, TokenMatches
  <2>3. QED
    BY <1>1, <2>2 DEF Inv, TokensSound
<1>2. Inv /\ [Next]_vars
        => [\A p \in Query : pc[p] # "consume" /\ pc'[p] = "consume"
                               => req[p].token \notin spent]_vars
  BY <1>1 DEF vars
<1>3. QED
  BY <1>2, Invariance, PTL DEF Spec, NoReplay

(* A decided row never takes another decision that starts later.           *)
THEOREM NoLateDecisionHolds == Spec => NoLateDecision
<1>1. ASSUME Inv, Next, NEW p \in Decision, NEW q \in Decision,
             pc[p] = "new", pc'[p] = "deciding", pc[q] = "decided"
      PROVE  req'[p].row # req[q].row
  <2>1. PICK u \in User, k \in {"approve", "reject"}, r \in Query : ReadForDecision(p, u, k, r)
    BY <1>1, OnlyReadDecides DEF Inv
  <2>2. row[r].status = "pending" /\ req'[p].row = r
    BY <1>1, <2>1, TaskFacts DEF ReadForDecision, MayDecide, Inv, TypeOK
  <2>3. row[req[q].row].status # "pending"
    BY <1>1 DEF Inv, DecisionsSound
  <2>4. QED
    BY <2>2, <2>3
<1>2. Inv /\ [Next]_vars
        => [\A p, q \in Decision : /\ pc[p] = "new" /\ pc'[p] = "deciding"
                                   /\ pc[q] = "decided"
                                   => req'[p].row # req[q].row]_vars
  BY <1>1 DEF vars
<1>3. QED
  BY <1>2, Invariance, PTL DEF Spec, NoLateDecision

(* The last decision on a row stands: no token of an approval that another *)
(* decision has overridden is accepted (validate_approval_token, after     *)
(* approve_request and reject_request have overlapped).                    *)
THEOREM LastDecisionHolds == Spec => LastDecisionStands
<1>1. ASSUME Inv, Next, NEW p \in Query, pc[p] # "consume", pc'[p] = "consume"
      PROVE  last[req'[p].row] = req[p].token
  <2>1. ValidateToken(p)
    BY <1>1, OnlyValidateConsumes DEF Inv
  <2>2. PICK r \in Query : /\ row[r].status = "approved" /\ row[r].token = req[p].token
                           /\ req' = [req EXCEPT ![p].row = r, ![p].at = now]
    BY <2>1 DEF ValidateToken, TokenAccepted, TokenMatches
  <2>3. req'[p].row = r
    BY <1>1, <2>1, <2>2, TaskFacts DEF Inv, TypeOK, Request, ValidateToken
  <2>4. QED
    BY <1>1, <2>2, <2>3 DEF Inv, TokensSound
<1>2. Inv /\ [Next]_vars
        => [\A p \in Query : pc[p] # "consume" /\ pc'[p] = "consume"
                               => last[req'[p].row] = req[p].token]_vars
  BY <1>1 DEF vars
<1>3. QED
  BY <1>2, Invariance, PTL DEF Spec, LastDecisionStands

-----------------------------------------------------------------------------
(* The workflow implements the ledger: decisions issue tokens, the token   *)
(* check grants them, consumption spends them, and every other step        *)
(* leaves the ledger alone.                                                *)
THEOREM ImplementsLedger == Spec => LedgerSpec
<1> DEFINE issued == {p \in Decision : Approved(p)}
           claim == [p \in Query |-> IF Validated(p) THEN req[p].token ELSE None]
           ran == {p \in Query : Ran(p)}
<1>1. Init => Ledger!Init
  BY ConstantsAssumption, TaskFacts DEF Init, Ledger!Init, Approved, Validated, Ran
<1>2. Inv /\ Inv' /\ [Next]_vars => [Ledger!Next]_(Ledger!vars)
  <2> SUFFICES ASSUME Inv, Inv', [Next]_vars PROVE [Ledger!Next]_(Ledger!vars)
    OBVIOUS
  <2> USE ConstantsAssumption, TaskFacts DEF Inv, TypeOK, Request
  <2>1. ASSUME NEW p \in Query, NEW u \in User, NEW s \in Sql, NEW d \in Source,
               NEW t \in Decision \cup {None}, ReceiveExecute(p, u, s, d, t)
        PROVE  UNCHANGED <<issued, claim, spent, ran>>
    BY <2>1 DEF ReceiveExecute, Approved, Validated, Ran
  <2>2. ASSUME NEW p \in Query, CreateApproval(p) \/ RefuseToken(p) \/ RecordBlocked(p) \/ RunFails(p)
        PROVE  UNCHANGED <<issued, claim, spent, ran>>
    BY <2>2 DEF CreateApproval, RefuseToken, RecordBlocked, RunFails, Approved, Validated, Ran
  <2>3. ASSUME NEW p \in Query, ValidateToken(p) PROVE \E t \in Decision : Ledger!Grant(p, t)
    <3>1. PICK r \in Query : /\ row[r].status = "approved" /\ row[r].token = req[p].token
                             /\ req' = [req EXCEPT ![p].row = r, ![p].at = now]
      BY <2>3 DEF ValidateToken, TokenAccepted, TokenMatches
    <3>2. /\ pc[p] = "gate" /\ pc' = [pc EXCEPT ![p] = "consume"]
          /\ req[p] \in Request /\ req[p].row = None /\ req[p].token \in Decision
      BY <2>3 DEF ValidateToken, Arrivals
    <3>3. req[p].token \in issued \ spent
      BY <3>1, <3>2 DEF TokensSound
    <3>4. claim[p] = None
      BY <3>2 DEF Validated
    <3>5. req'[p].row = r /\ req'[p].token = req[p].token
      BY <3>1, <3>2
    <3>6. \A q \in Task : q # p => req'[q] = req[q] /\ pc'[q] = pc[q]
      BY <3>1, <3>2
    <3>7. claim' = [claim EXCEPT ![p] = req[p].token]
      BY <3>2, <3>5, <3>6, ZenonT(40) DEF Validated
    <3>8. UNCHANGED issued
      BY <3>6 DEF Approved
    <3>9. UNCHANGED ran
      <4>1. \A q \in Query : Ran(q)' <=> Ran(q)
        BY <3>2, <3>6 DEF Ran
      <4>2. QED
        BY <4>1
    <3>10. PICK t \in Decision : t = req[p].token
      BY <3>2
    <3>11. t \in issued \ spent /\ claim' = [claim EXCEPT ![p] = t] /\ UNCHANGED spent
      BY <2>3, <3>3, <3>7, <3>10 DEF ValidateToken
    <3>12. Ledger!Grant(p, t)
      BY <3>4, <3>8, <3>9, <3>11 DEF Ledger!Grant
    <3>13. QED
      BY <3>12
  <2>4. ASSUME NEW p \in Query, ConsumeToken(p) PROVE Ledger!Spend(p)
    <3>1. /\ pc[p] = "consume" /\ req' = req /\ spent' = spent \cup {req[p].token}
          /\ pc' = [pc EXCEPT ![p] = IF req[req[p].row].user = req[p].user THEN "run" ELSE "blocked"]
      BY <2>4 DEF ConsumeToken
    <3>2. Validated(p) /\ req[p].token \in Decision
      BY <3>1 DEF Validated, Arrivals, GrantsSound
    <3>3. \A q \in Query : (Validated(q)' <=> Validated(q)) /\ (Ran(q)' <=> Ran(q))
      BY <3>1 DEF Validated, Ran
    <3>4. UNCHANGED <<claim, ran>>
      BY <3>1, <3>3
    <3>5. UNCHANGED issued
      BY <3>1 DEF Approved
    <3>6. QED
      BY <3>1, <3>2, <3>4, <3>5 DEF Ledger!Spend
  <2>5. ASSUME NEW p \in Query, RunQuery(p)
        PROVE  Ledger!Run(p) \/ UNCHANGED <<issued, claim, spent, ran>>
    <3>1. /\ pc[p] = "run" /\ pc' = [pc EXCEPT ![p] = "audit"] /\ req' = req /\ spent' = spent
      BY <2>5 DEF RunQuery
    <3>2. \A q \in Query : Validated(q)' <=> Validated(q)
      BY <3>1 DEF Validated
    <3>3. UNCHANGED <<issued, claim>>
      BY <3>1, <3>2 DEF Approved
    <3>4. CASE req[p].critical
      <4>1. claim[p] \in spent /\ p \notin ran
        BY <3>1, <3>4 DEF RunsSound, Validated, Ran
      <4>2. ran' = ran \cup {p}
        BY <3>1, <3>4 DEF Ran
      <4>3. QED
        BY <3>1, <3>3, <4>1, <4>2 DEF Ledger!Run
    <3>5. CASE ~req[p].critical
      <4>1. \A q \in Query : Ran(q)' <=> Ran(q)
        BY <3>1, <3>5 DEF Ran
      <4>2. QED
        BY <3>1, <3>3, <4>1
    <3>6. QED
      BY <3>4, <3>5
  <2>6. ASSUME NEW p \in Query, AuditRun(p) PROVE UNCHANGED <<issued, claim, spent, ran>>
    BY <2>6 DEF AuditRun, Approved, Validated, Ran
  <2>7. ASSUME NEW p \in Decision, NEW u \in User, NEW k \in {"approve", "reject"},
               NEW r \in Query, ReadForDecision(p, u, k, r)
        PROVE  UNCHANGED <<issued, claim, spent, ran>>
    BY <2>7 DEF ReadForDecision, Approved, Validated, Ran
  <2>8. ASSUME NEW p \in Decision, CommitApprove(p) PROVE Ledger!Issue(p)
    <3>1. /\ pc[p] = "deciding" /\ req[p].kind = "approve" /\ spent' = spent
          /\ pc' = [pc EXCEPT ![p] = "decided"] /\ req[p] \in Request
          /\ \E at \in req[p].at .. now : req' = [req EXCEPT ![p].at = at]
      <4>1. pc[p] = "deciding"
        BY <2>8 DEF CommitApprove
      <4>2. req[p] \in Request
        BY <4>1
      <4>3. QED
        BY <2>8, <4>2 DEF CommitApprove
    <3>2. /\ \A q \in Task : q # p => req'[q] = req[q] /\ pc'[q] = pc[q]
          /\ req'[p].kind = "approve" /\ pc'[p] = "decided"
      BY <3>1
    <3>3. p \notin issued /\ issued' = issued \cup {p}
      BY <3>1, <3>2 DEF Approved
    <3>4. \A q \in Query : req'[q] = req[q] /\ pc'[q] = pc[q]
      BY <3>2
    <3>5. \A q \in Query : (Validated(q)' <=> Validated(q)) /\ (Ran(q)' <=> Ran(q))
      BY <3>4, Zenon DEF Validated, Ran
    <3>7. claim' = claim
      BY <3>4, <3>5, Zenon
    <3>8. ran' = ran
      BY <3>5, Zenon
    <3>6. QED
      BY <3>1, <3>3, <3>7, <3>8 DEF Ledger!Issue
  <2>9. ASSUME NEW p \in Decision, CommitReject(p) PROVE UNCHANGED <<issued, claim, spent, ran>>
    BY <2>9 DEF CommitReject, Approved, Validated, Ran
  <2>10. ASSUME NEW p \in Task, Crash(p) PROVE UNCHANGED <<issued, claim, spent, ran>>
    BY <2>10 DEF Crash, Arrivals, Approved, Validated, Ran
  <2>11. ASSUME Tick \/ UNCHANGED vars PROVE UNCHANGED <<issued, claim, spent, ran>>
    BY <2>11 DEF Tick, vars, Approved, Validated, Ran
  <2> HIDE DEF Inv, TypeOK, Request, issued, claim, ran
  <2>12. ASSUME NEW p \in Query, Execute(p)
         PROVE  Ledger!Next \/ UNCHANGED <<issued, claim, spent, ran>>
    <3>2. CASE \E u \in User, s \in Sql, d \in Source, t \in Decision \cup {None} :
                 ReceiveExecute(p, u, s, d, t)
      BY <3>2, <2>1
    <3>3. CASE ValidateToken(p)
      BY <3>3, <2>3 DEF Ledger!Next
    <3>4. CASE ConsumeToken(p)
      BY <3>4, <2>4 DEF Ledger!Next
    <3>5. CASE RunQuery(p)
      BY <3>5, <2>5 DEF Ledger!Next
    <3>6. CASE \/ CreateApproval(p) \/ RefuseToken(p) \/ RecordBlocked(p) \/ RunFails(p)
               \/ AuditRun(p)
      BY <3>6, <2>2, <2>6
    <3>7. QED
      BY <2>12, <3>2, <3>3, <3>4, <3>5, <3>6 DEF Execute
  <2>13. ASSUME NEW p \in Decision, Decide(p)
         PROVE  Ledger!Next \/ UNCHANGED <<issued, claim, spent, ran>>
    BY <2>13, <2>7, <2>8, <2>9 DEF Decide, Ledger!Next
  <2>14. Ledger!Next \/ UNCHANGED <<issued, claim, spent, ran>>
    BY <2>10, <2>11, <2>12, <2>13 DEF Next
  <2>15. QED
    BY <2>14 DEF Ledger!vars, issued, claim, ran
<1>3. QED
  BY <1>1, <1>2, Invariance, PTL DEF Spec, LedgerSpec, Ledger!Spec

-----------------------------------------------------------------------------
(* The audit trail                                                         *)

(* A record is the last thing a handler leaves: a query recorded as run is *)
(* answered, one recorded as blocked is refused, and both are final.       *)
RecordsTrue ==
  /\ audit \subseteq Query \X {"query", "query_blocked"}
  /\ \A p \in Query : /\ <<p, "query">> \in audit => pc[p] = "answered"
                      /\ <<p, "query_blocked">> \in audit => pc[p] = "refused"

LEMMA RecordsInit == Init => RecordsTrue
BY DEF Init, RecordsTrue

(* Only RecordBlocked refuses a query, and only it and AuditRun write to   *)
(* the trail.                                                              *)
LEMMA RecordsSteps ==
  ASSUME Inv, [Next]_vars
  PROVE  /\ \A p \in Query : pc[p] \in {"answered", "refused"} => pc'[p] = pc[p]
         /\ \/ \E p \in Query : RecordBlocked(p) \/ AuditRun(p)
            \/ audit' = audit /\ \A p \in Query : pc'[p] = "refused" => pc[p] = "refused"
<1> USE ConstantsAssumption, TaskFacts DEF Inv, TypeOK
<1>1. ASSUME NEW p \in Query, Execute(p)
      PROVE  /\ \A q \in Query : pc[q] \in {"answered", "refused"} => pc'[q] = pc[q]
             /\ \/ RecordBlocked(p) \/ AuditRun(p)
                \/ audit' = audit /\ \A q \in Query : pc'[q] = "refused" => pc[q] = "refused"
  BY <1>1 DEF Execute, ReceiveExecute, CreateApproval, ValidateToken, RefuseToken, ConsumeToken,
              RunQuery, RunFails, AuditRun, RecordBlocked
<1>2. ASSUME NEW p \in Decision, Decide(p)
      PROVE  audit' = audit /\ \A q \in Query : pc'[q] = pc[q]
  BY <1>2 DEF Decide, ReadForDecision, CommitApprove, CommitReject
<1>3. ASSUME NEW p \in Task, Crash(p)
      PROVE  /\ \A q \in Query : pc[q] \in {"answered", "refused"} => pc'[q] = pc[q]
             /\ audit' = audit /\ \A q \in Query : pc'[q] = "refused" => pc[q] = "refused"
  BY <1>3 DEF Crash
<1>4. ASSUME Tick \/ UNCHANGED vars PROVE pc' = pc /\ audit' = audit
  BY <1>4 DEF Tick, vars
<1> HIDE DEF Inv, TypeOK
<1>5. QED
  BY <1>1, <1>2, <1>3, <1>4 DEF Next

LEMMA RecordsStep == Inv /\ RecordsTrue /\ [Next]_vars => RecordsTrue'
<1> SUFFICES ASSUME Inv, RecordsTrue, [Next]_vars PROVE RecordsTrue'
  OBVIOUS
<1>1. \A p \in Query : pc[p] \in {"answered", "refused"} => pc'[p] = pc[p]
  BY RecordsSteps
<1>2. ASSUME NEW p \in Query, RecordBlocked(p) PROVE RecordsTrue'
  <2>1. pc'[p] = "refused" /\ audit' \subseteq audit \cup {<<p, "query_blocked">>}
    BY <1>2, TaskFacts DEF RecordBlocked, Inv, TypeOK
  <2>2. QED
    BY <1>1, <2>1 DEF RecordsTrue
<1>3. ASSUME NEW p \in Query, AuditRun(p) PROVE RecordsTrue'
  <2>1. pc'[p] = "answered" /\ audit' \subseteq audit \cup {<<p, "query">>}
    BY <1>3, TaskFacts DEF AuditRun, Inv, TypeOK
  <2>2. QED
    BY <1>1, <2>1 DEF RecordsTrue
<1>4. CASE audit' = audit
  BY <1>1, <1>4 DEF RecordsTrue
<1>5. QED
  BY <1>2, <1>3, <1>4, RecordsSteps

(* The trail never lies, in either edition and whatever commit fails: a    *)
(* query recorded as run was answered, one recorded as blocked was         *)
(* refused, and none is recorded as both (execute_query_endpoint).        *)
THEOREM RecordsAreTrue == Spec => []RecordsTrue
<1>1. QED
  BY RecordsInit, RecordsStep, InvInit, InvStep, PTL DEF Spec
=============================================================================
