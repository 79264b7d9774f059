-------------------------- MODULE GatewaySessions --------------------------
(***************************************************************************)
(* The PostgreSQL gateway: client connections and their simple-query loop  *)
(* (gateway/internal/session/session.go), the pools of connections to the  *)
(* fronted databases they share (internal/backend/pool.go), and the        *)
(* credentials they authenticate with (app/api/gateway.py), which          *)
(* administrators change while connections are open.                       *)
(*                                                                         *)
(* The connection authenticates once; every query asks POST                *)
(* /gateway/prepare again.  A query then looks its source's pool up, opens *)
(* one when there is none, runs, streams its rows, and is audited by a     *)
(* goroutine whose failure is only logged.                                 *)
(***************************************************************************)
EXTENDS Naturals, FiniteSets, Sequences

CONSTANTS
  Sessions,     \* slots for client connections
  Creds,        \* gateway credentials
  Sources,      \* data sources
  SourceOf,     \* the one source a credential is scoped to
  MaxSecrets,   \* bound: secrets a credential ever has
  MaxMessages,  \* bound: messages each slot's clients send
  MaxPools,     \* bound: pools open at a time
  Kinds         \* the kinds of message the clients of each slot send

ASSUME ConstantsAssumption ==
  /\ SourceOf \in [Creds -> Sources]
  /\ MaxSecrets \in Nat \ {0}
  /\ MaxMessages \in [Sessions -> Nat]
  /\ MaxPools \in Nat \ {0}
  /\ Kinds \in [Sessions -> SUBSET {"Query", "Statements", "Extended", "Sync", "Other"}]

VARIABLES
  cred,     \* gateway_credentials
  conn,     \* where each connection stands, and what its client waits for
  inbox,    \* messages its client has sent and the gateway has not received
  sent,     \* number of messages the slot's clients have sent
  pools,    \* the open pools and their sources
  cached,   \* PoolManager.pools
  ran,      \* history: the queries the source has executed
  sending,  \* audit reports on their way
  trail     \* audit_logs: the records of the gateway

vars == <<cred, conn, inbox, sent, pools, cached, ran, sending, trail>>

Status == {"ACTIVE", "REVOKED", "DISABLED"}
Exists(c) == cred[c].status \in Status

(* _check_active *)
CheckActive(c) == cred[c].status = "ACTIVE" /\ ~cred[c].expired

PoolIds == 1 .. MaxPools
NoPool == 0
Open(p) == p # NoPool /\ pools[p] # {}

(* A message: the parts of an extended query are one kind, and so are the  *)
(* other messages the gateway does not support.  text tells apart the      *)
(* queries that hold several statements.                                   *)
Message == [kind : UNION {Kinds[s] : s \in Sessions}, n : Nat]

(* The messages a client awaits one ReadyForQuery for. *)
Asks == {"Query", "Statements", "Sync", "Other"}

Closed == [pc |-> "closed", cred |-> {}, secret |-> 0, query |-> 0, pool |-> NoPool,
           inErrorRecovery |-> FALSE, gone |-> FALSE, owed |-> 0, errors |-> 0,
           batch |-> FALSE, cutOff |-> FALSE, rotated |-> FALSE]

Working == {"preparing", "allowed", "fetching", "opened", "running", "streaming"}

CredOf(s) == CHOOSE c \in Creds : c \in conn[s].cred
Source(s) == SourceOf[CredOf(s)]

Init ==
  /\ cred = [c \in Creds |-> [status |-> "absent", expired |-> FALSE, secret |-> 0]]
  /\ conn = [s \in Sessions |-> Closed]
  /\ inbox = [s \in Sessions |-> <<>>]
  /\ sent = [s \in Sessions |-> 0]
  /\ pools = [p \in PoolIds |-> {}]
  /\ cached = [d \in Sources |-> NoPool]
  /\ ran = {}
  /\ sending = {}
  /\ trail = {}

-----------------------------------------------------------------------------
(* Credentials: what the administrators do                                 *)

(* A credential that is active again ends what it was cut off from. *)
Credential(c, new) ==
  /\ cred' = [cred EXCEPT ![c] = new]
  /\ conn' = [s \in Sessions |->
                IF c \in conn[s].cred /\ new.status = "ACTIVE" /\ ~new.expired
                  THEN [conn[s] EXCEPT !.cutOff = FALSE] ELSE conn[s]]
  /\ UNCHANGED <<inbox, sent, pools, cached, ran, sending, trail>>

Create(c, expired) ==
  /\ cred[c].status = "absent"
  /\ Credential(c, [status |-> "ACTIVE", expired |-> expired, secret |-> 1])

(* PATCH may set any status and move the expiry, a revoked one's too. *)
Patch(c, status, expired) ==
  /\ Exists(c)
  /\ Credential(c, [cred[c] EXCEPT !.status = status, !.expired = expired])

Revoke(c) == Exists(c) /\ Credential(c, [cred[c] EXCEPT !.status = "REVOKED"])

RotateSecret(c) ==
  /\ Exists(c)
  /\ cred[c].secret < MaxSecrets
  /\ Credential(c, [cred[c] EXCEPT !.secret = @ + 1])

Delete(c) == Exists(c) /\ Credential(c, [cred[c] EXCEPT !.status = "deleted"])

(* expires_at passes. *)
Expire(c) ==
  /\ Exists(c) /\ ~cred[c].expired
  /\ Credential(c, [cred[c] EXCEPT !.expired = TRUE])

-----------------------------------------------------------------------------
(* Clients                                                                 *)

(* TLS, startup, password: open only when /gateway/authenticate accepts.   *)
Connect(s, c, secret) ==
  /\ conn[s].pc = "closed"
  /\ Exists(c) /\ secret = cred[c].secret /\ CheckActive(c)
  /\ conn' = [conn EXCEPT ![s] = [Closed EXCEPT !.pc = "idle", !.cred = {c},
                                                !.secret = secret]]
  /\ UNCHANGED <<cred, inbox, sent, pools, cached, ran, sending, trail>>

(* Clients pipeline.  Only the calls that need an answer of their own      *)
(* ("Other") never stand between an extended query and its Sync.           *)
Send(s, kind) ==
  /\ conn[s].pc # "closed" /\ ~conn[s].gone
  /\ sent[s] < MaxMessages[s]
  /\ kind = "Other" => ~conn[s].batch
  /\ sent' = [sent EXCEPT ![s] = @ + 1]
  /\ inbox' = [inbox EXCEPT ![s] = Append(@, [kind |-> kind, n |-> sent[s] + 1])]
  /\ conn' = [conn EXCEPT ![s].owed = IF kind \in Asks THEN @ + 1 ELSE @,
                          ![s].batch = kind = "Extended" \/ (kind # "Sync" /\ @)]
  /\ UNCHANGED <<cred, pools, cached, ran, sending, trail>>

(* Terminate, or the socket breaks: noticed when the gateway next receives *)
(* from the client or flushes to it.                                       *)
Leave(s) ==
  /\ conn[s].pc # "closed" /\ ~conn[s].gone
  /\ conn' = [conn EXCEPT ![s] = IF @.pc = "idle" THEN Closed ELSE [@ EXCEPT !.gone = TRUE]]
  /\ inbox' = [inbox EXCEPT ![s] = <<>>]
  /\ UNCHANGED <<cred, sent, pools, cached, ran, sending, trail>>

-----------------------------------------------------------------------------
(* What the gateway receives and answers                                   *)

(* The connection after a ReadyForQuery: the client stops waiting for one  *)
(* message.  Nobody is there to notice on a broken connection: it ends.    *)
ReadyForQuery(k) ==
  IF k.gone THEN Closed
  ELSE [k EXCEPT !.pc = "idle", !.query = 0, !.pool = NoPool, !.cutOff = FALSE,
                 !.rotated = FALSE, !.owed = @ - 1, !.errors = 0]

Receive(s, kinds) ==
  /\ conn[s].pc = "idle"
  /\ inbox[s] # <<>> /\ Head(inbox[s]).kind \in kinds
  /\ inbox' = [inbox EXCEPT ![s] = Tail(@)]

HandleSyncInRecovery(s) ==
  /\ Receive(s, {"Sync"})
  /\ conn' = [conn EXCEPT ![s] = ReadyForQuery(@)]
  /\ UNCHANGED <<cred, sent, pools, cached, ran, sending, trail>>
HandleSync(s) ==
  /\ Receive(s, {"Sync"})
  /\ conn' = [conn EXCEPT ![s] = ReadyForQuery([@ EXCEPT !.inErrorRecovery = FALSE])]
  /\ UNCHANGED <<cred, sent, pools, cached, ran, sending, trail>>

(* One ErrorResponse, then silence until the Sync. *)
HandleExtended(s) ==
  /\ Receive(s, {"Extended"})
  /\ conn' = [conn EXCEPT ![s].inErrorRecovery = TRUE,
                          ![s].errors = IF conn[s].inErrorRecovery THEN @ ELSE @ + 1]
  /\ UNCHANGED <<cred, sent, pools, cached, ran, sending, trail>>

HandleOther(s) ==
  /\ Receive(s, {"Other"})
  /\ conn' = [conn EXCEPT ![s] = IF @.inErrorRecovery THEN @ ELSE ReadyForQuery(@)]
  /\ UNCHANGED <<cred, sent, pools, cached, ran, sending, trail>>

(* A Query ends the error recovery.  Several statements in one are refused *)
(* before anything else.                                                   *)
RefuseStatements(s) ==
  /\ Receive(s, {"Statements"})
  /\ conn' = [conn EXCEPT ![s] = ReadyForQuery([@ EXCEPT !.inErrorRecovery = FALSE])]
  /\ UNCHANGED <<cred, sent, pools, cached, ran, sending, trail>>

HandleQuery(s) ==
  /\ Receive(s, {"Query"})
  /\ conn' = [conn EXCEPT
       ![s].pc = "preparing",
       ![s].query = Head(inbox[s]).n,
       ![s].inErrorRecovery = FALSE,
       ![s].cutOff = ~(Exists(CredOf(s)) /\ CheckActive(CredOf(s))),
       ![s].rotated = cred[CredOf(s)].secret # conn[s].secret]
  /\ UNCHANGED <<cred, sent, pools, cached, ran, sending, trail>>

Id(s) == <<s, conn[s].query>>
Report(s, action) == [cred |-> CredOf(s), query |-> Id(s), action |-> action]

(* handleQuery gives up: one ErrorResponse and one ReadyForQuery. *)
Fail(s) ==
  /\ conn' = [conn EXCEPT ![s] = ReadyForQuery(@)]
  /\ UNCHANGED <<cred, inbox, sent, pools, cached, ran, trail>>

(* /gateway/prepare checks the credential again, then the policy. *)
PreparedAnyStatus(s) == Exists(CredOf(s))
Prepared(s) == Exists(CredOf(s)) /\ CheckActive(CredOf(s))

PrepareAllows(s) ==
  /\ conn[s].pc = "preparing"
  /\ Prepared(s)
  /\ conn' = [conn EXCEPT ![s].pc = "allowed"]
  /\ UNCHANGED <<cred, inbox, sent, pools, cached, ran, sending, trail>>

PrepareDeniesAndGoesOn(s) ==
  /\ conn[s].pc = "preparing"
  /\ Prepared(s)
  /\ sending' = sending \cup {Report(s, "gateway_query_blocked")}
  /\ conn' = [conn EXCEPT ![s].pc = "allowed"]
  /\ UNCHANGED <<cred, inbox, sent, pools, cached, ran, trail>>
PrepareDenies(s) ==
  /\ conn[s].pc = "preparing"
  /\ Prepared(s)
  /\ sending' = sending \cup {Report(s, "gateway_query_blocked")}
  /\ Fail(s)

(* 401, any other error, or no answer within the client's 10 s. *)
PrepareFails(s) ==
  /\ conn[s].pc = "preparing"
  /\ UNCHANGED sending
  /\ Fail(s)

-----------------------------------------------------------------------------
(* PoolManager.Get                                                         *)

GetCached(s) ==
  /\ conn[s].pc = "allowed"
  /\ cached[Source(s)] # NoPool
  /\ conn' = [conn EXCEPT ![s].pc = "running", ![s].pool = cached[Source(s)]]
  /\ UNCHANGED <<cred, inbox, sent, pools, cached, ran, sending, trail>>

GetMisses(s) ==
  /\ conn[s].pc = "allowed"
  /\ cached[Source(s)] = NoPool
  /\ conn' = [conn EXCEPT ![s].pc = "fetching"]
  /\ UNCHANGED <<cred, inbox, sent, pools, cached, ran, sending, trail>>

(* Without the lock: fetch the source's own credentials, open a pool. *)
OpenPool(s, p) ==
  /\ conn[s].pc = "fetching"
  /\ pools[p] = {}
  /\ pools' = [pools EXCEPT ![p] = {Source(s)}]
  /\ conn' = [conn EXCEPT ![s].pc = "opened", ![s].pool = p]
  /\ UNCHANGED <<cred, inbox, sent, cached, ran, sending, trail>>

OpenFails(s) ==
  /\ conn[s].pc = "fetching"
  /\ UNCHANGED sending
  /\ Fail(s)

(* With the lock again: another connection may have been first. *)
LostRaceUnchecked(s) == FALSE
LostRace(s) == cached[Source(s)] # NoPool

KeepPool(s) ==
  /\ conn[s].pc = "opened"
  /\ ~LostRace(s)
  /\ cached' = [cached EXCEPT ![Source(s)] = conn[s].pool]
  /\ conn' = [conn EXCEPT ![s].pc = "running"]
  /\ UNCHANGED <<cred, inbox, sent, pools, ran, sending, trail>>

DropPool(s) ==
  /\ conn[s].pc = "opened"
  /\ LostRace(s)
  /\ pools' = [pools EXCEPT ![conn[s].pool] = {}]
  /\ conn' = [conn EXCEPT ![s].pc = "running", ![s].pool = cached[Source(s)]]
  /\ UNCHANGED <<cred, inbox, sent, cached, ran, sending, trail>>

-----------------------------------------------------------------------------
(* The query and its audit                                                 *)

Execute(s) ==
  /\ conn[s].pc = "running"
  /\ ran' = ran \cup {Id(s)}
  /\ conn' = [conn EXCEPT ![s].pc = "streaming"]
  /\ UNCHANGED <<cred, inbox, sent, pools, cached, sending, trail>>

(* The source refuses the query, or fails between two rows: no report. *)
QueryFails(s) ==
  /\ conn[s].pc \in {"running", "streaming"}
  /\ UNCHANGED sending
  /\ Fail(s)

(* CommandComplete is flushed, then the report is left to a goroutine.     *)
(* After a flush that fails there is no report.                            *)
Finish(s) ==
  /\ conn[s].pc = "streaming"
  /\ \/ sending' = sending \cup {Report(s, "gateway_query")}
     \/ conn[s].gone /\ UNCHANGED sending
  /\ Fail(s)

(* /gateway/audit needs the credential to exist, not to be active. *)
Audit(r) ==
  /\ r \in sending
  /\ Exists(r.cred)
  /\ trail' = trail \cup {r}
  /\ sending' = sending \ {r}
  /\ UNCHANGED <<cred, conn, inbox, sent, pools, cached, ran>>

AuditFails(r) ==
  /\ r \in sending
  /\ sending' = sending \ {r}
  /\ UNCHANGED <<cred, conn, inbox, sent, pools, cached, ran, trail>>

(* SIGTERM or a crash: connections, pools and goroutines end with it. *)
GatewayExits ==
  /\ conn' = [s \in Sessions |-> Closed]
  /\ inbox' = [s \in Sessions |-> <<>>]
  /\ pools' = [p \in PoolIds |-> {}]
  /\ cached' = [d \in Sources |-> NoPool]
  /\ sending' = {}
  /\ UNCHANGED <<cred, sent, ran, trail>>

-----------------------------------------------------------------------------
Administer(c) ==
  \/ \E expired \in BOOLEAN :
       \/ Create(c, expired)
       \/ \E status \in Status : Patch(c, status, expired)
  \/ Revoke(c) \/ RotateSecret(c) \/ Delete(c) \/ Expire(c)

Client(s) ==
  \/ \E c \in Creds, secret \in 1 .. MaxSecrets : Connect(s, c, secret)
  \/ \E kind \in Kinds[s] : Send(s, kind)
  \/ Leave(s)

Gateway(s) ==
  \/ HandleSync(s) \/ HandleExtended(s) \/ HandleOther(s)
  \/ RefuseStatements(s) \/ HandleQuery(s)
  \/ PrepareAllows(s) \/ PrepareDenies(s) \/ PrepareFails(s)
  \/ GetCached(s) \/ GetMisses(s) \/ OpenFails(s)
  \/ \E p \in PoolIds : OpenPool(s, p)
  \/ KeepPool(s) \/ DropPool(s)
  \/ Execute(s) \/ QueryFails(s) \/ Finish(s)

Next ==
  \/ \E c \in Creds : Administer(c)
  \/ \E s \in Sessions : Client(s) \/ Gateway(s)
  \/ \E r \in sending : Audit(r) \/ AuditFails(r)
  \/ GatewayExits

Spec == Init /\ [][Next]_vars

-----------------------------------------------------------------------------
(* Properties                                                              *)

(* Every variable has its type. *)
TypeOK ==
  /\ cred \in [Creds -> [status : Status \cup {"absent", "deleted"},
                         expired : BOOLEAN, secret : 0 .. MaxSecrets]]
  /\ conn \in [Sessions ->
       [pc : Working \cup {"closed", "idle"}, cred : SUBSET Creds,
        secret : 0 .. MaxSecrets, query : Nat, pool : PoolIds \cup {NoPool},
        inErrorRecovery : BOOLEAN, gone : BOOLEAN, owed : Nat,
        errors : 0 .. 1, batch : BOOLEAN, cutOff : BOOLEAN, rotated : BOOLEAN]]
  /\ inbox \in [Sessions -> Seq(Message)]
  /\ sent \in [Sessions -> Nat] /\ \A s \in Sessions : sent[s] <= MaxMessages[s]
  /\ pools \in [PoolIds -> SUBSET Sources]
  /\ cached \in [Sources -> PoolIds \cup {NoPool}]
  /\ ran \subseteq Sessions \X Nat
  /\ \A r \in sending \cup trail : r.cred \in Creds /\ r.query \in Sessions \X Nat

(* A query that arrives after its credential was revoked, disabled,        *)
(* deleted or expired never reaches the source, on a connection that is    *)
(* already open too, unless the credential was made active again first     *)
(* (the re-check in prepare_query).                                        *)
CutOffQueriesStop ==
  \A s \in Sessions :
    conn[s].pc \in Working \ {"preparing"} => ~conn[s].cutOff

(* Two first queries may both open a pool for a source, but no pool is     *)
(* forgotten: an open pool is the source's cached one or in the hands of   *)
(* the one connection that has just opened it, and a query only uses an    *)
(* open pool of its credential's own source (PoolManager.Get).             *)
PoolsAccounted ==
  /\ \A p \in PoolIds : Open(p) =>
       \/ \E d \in Sources : cached[d] = p /\ pools[p] = {d}
       \/ \E s \in Sessions : conn[s].pc = "opened" /\ conn[s].pool = p
  /\ \A s \in Sessions : conn[s].pc \in {"running", "streaming"} =>
       Open(conn[s].pool) /\ pools[conn[s].pool] = {Source(s)}
       /\ conn[s].pool = cached[Source(s)]

(* The places of the messages that are still to be answered. *)
Asked(q) == {i \in DOMAIN q : q[i].kind \in Asks}

(* The connection never falls out of step, however the client pipelines    *)
(* and queries fail: it awaits exactly as many ReadyForQuery as it has     *)
(* unanswered messages that ask for one, and an extended query is refused  *)
(* exactly once before its Sync is answered (handle's error recovery).     *)
InStep ==
  \A s \in Sessions : conn[s].pc # "closed" /\ ~conn[s].gone =>
    /\ conn[s].owed = Cardinality(Asked(inbox[s]))
                      + (IF conn[s].pc \in Working THEN 1 ELSE 0)
    /\ conn[s].pc = "idle" => (conn[s].errors = 1 <=> conn[s].inErrorRecovery)

(* The trail tells the truth about what ran: a query is recorded as        *)
(* blocked or as run, never both, and as run only if the source executed   *)
(* it (the goroutines of handleQuery).                                     *)
TrailTruthful ==
  /\ \A r \in trail : r.action = "gateway_query" <=> r.query \in ran
  /\ \A r, q \in trail \cup sending : r.query = q.query => r = q

(* Rotating the secret takes effect "immediately, even on an already-open  *)
(* connection": no query that arrives later on a connection that           *)
(* authenticated with the old secret reaches the source.                   *)
RotationCutsOff ==
  \A s \in Sessions : conn[s].pc \in {"running", "streaming"} => ~conn[s].rotated

=============================================================================
