------------------------ MODULE GatewaySessionsProofs -----------------------
(***************************************************************************)
(* Proofs about GatewaySessions, for any number of connections,            *)
(* credentials, sources, secrets, messages and pools.                      *)
(***************************************************************************)
EXTENDS GatewaySessions, Integers, SequenceTheorems, FiniteSetTheorems, FunctionTheorems, TLAPS

Conn ==
  [pc : Working \cup {"closed", "idle"}, cred : SUBSET Creds,
   secret : 0 .. MaxSecrets, query : Nat, pool : PoolIds \cup {NoPool},
   inErrorRecovery : BOOLEAN, gone : BOOLEAN, owed : Int,
   errors : Nat, batch : BOOLEAN, cutOff : BOOLEAN, rotated : BOOLEAN]

Cred == [status : Status \cup {"absent", "deleted"},
         expired : BOOLEAN, secret : 0 .. MaxSecrets]

(* The types, but for the number of answers a client waits for: that it is *)
(* never negative is a matter of the messages under way.                   *)
Types ==
  /\ cred \in [Creds -> Cred]
  /\ conn \in [Sessions -> Conn]
  /\ inbox \in [Sessions -> Seq(Message)]
  /\ sent \in [Sessions -> Nat]
  /\ pools \in [PoolIds -> SUBSET Sources]
  /\ cached \in [Sources -> PoolIds \cup {NoPool}]
  /\ ran \subseteq Sessions \X Nat
  /\ \A r \in sending \cup trail : r.cred \in Creds /\ r.query \in Sessions \X Nat

(* A connection has one credential for as long as it is open.              *)
OneCredential ==
  \A s \in Sessions :
    IF conn[s].pc = "closed" THEN conn[s] = Closed ELSE \E c \in Creds : conn[s].cred = {c}

LEMMA CredOfOpen ==
  ASSUME NEW k, NEW c \in Creds, k.cred = {c}
  PROVE  (CHOOSE d \in Creds : d \in k.cred) = c
OBVIOUS

LEMMA OpenHasCredential ==
  ASSUME OneCredential, NEW s \in Sessions, conn[s].pc # "closed"
  PROVE  CredOf(s) \in Creds /\ conn[s].cred = {CredOf(s)}
BY CredOfOpen DEF OneCredential, CredOf

LEMMA ClosedType == Closed \in Conn
BY ConstantsAssumption DEF Closed, Conn, NoPool

(* One lemma for each change to the fields of a connection.                *)
LEMMA FieldTypes ==
  ASSUME NEW k \in Conn
  PROVE  /\ [k EXCEPT !.pc = "idle", !.query = 0, !.pool = NoPool] \in Conn
         /\ [k EXCEPT !.cutOff = FALSE, !.rotated = FALSE] \in Conn
         /\ [k EXCEPT !.inErrorRecovery = FALSE] \in Conn
         /\ [k EXCEPT !.gone = TRUE] \in Conn
         /\ \A pc \in Working : [k EXCEPT !.pc = pc] \in Conn
         /\ \A p \in PoolIds : [k EXCEPT !.pool = p] \in Conn
         /\ \A n \in Nat : [k EXCEPT !.query = n] \in Conn
         /\ \A b \in BOOLEAN : [k EXCEPT !.batch = b] \in Conn
         /\ \A b \in BOOLEAN : [k EXCEPT !.inErrorRecovery = b] \in Conn
         /\ \A b \in BOOLEAN : [k EXCEPT !.cutOff = b] \in Conn
         /\ \A b \in BOOLEAN : [k EXCEPT !.rotated = b] \in Conn
BY DEF Conn

LEMMA CountTypes ==
  ASSUME NEW k \in Conn
  PROVE  /\ \A i \in Int : [k EXCEPT !.owed = i] \in Conn
         /\ \A n \in Nat : [k EXCEPT !.errors = n] \in Conn
         /\ \A C \in SUBSET Creds : [k EXCEPT !.cred = C] \in Conn
         /\ \A n \in 0 .. MaxSecrets : [k EXCEPT !.secret = n] \in Conn
BY DEF Conn

LEMMA ReadyType ==
  ASSUME NEW k \in Conn
  PROVE  ReadyForQuery(k) \in Conn
<1> DEFINE a == [k EXCEPT !.pc = "idle", !.query = 0, !.pool = NoPool]
           b == [a EXCEPT !.cutOff = FALSE, !.rotated = FALSE]
           c == [b EXCEPT !.owed = k.owed - 1]
           d == [c EXCEPT !.errors = 0]
<1>1. a \in Conn
  BY FieldTypes
<1>2. b \in Conn
  BY <1>1, FieldTypes
<1>3. k.owed - 1 \in Int
  BY DEF Conn
<1>4. c \in Conn
  BY <1>2, <1>3, CountTypes
<1>5. d \in Conn
  BY <1>4, CountTypes
<1>6. ~k.gone => ReadyForQuery(k) = d
  BY Zenon DEF ReadyForQuery
<1>7. QED
  BY <1>5, <1>6, ClosedType DEF ReadyForQuery

(* What the answer to a message leaves of the connection.                  *)
LEMMA ReadyFacts ==
  ASSUME NEW k \in Conn
  PROVE  /\ k.gone => ReadyForQuery(k) = Closed
         /\ ~k.gone => /\ ReadyForQuery(k).pc = "idle" /\ ReadyForQuery(k).cred = k.cred
                       /\ ReadyForQuery(k).cutOff = FALSE
                       /\ ReadyForQuery(k).pool = NoPool
BY DEF ReadyForQuery, Conn

-----------------------------------------------------------------------------
(* Types                                                                   *)

LEMMA InitTypes == Init => Types /\ OneCredential
<1> SUFFICES ASSUME Init PROVE Types /\ OneCredential
  OBVIOUS
<1>1. cred \in [Creds -> Cred]
  BY ConstantsAssumption DEF Init, Cred
<1>2. conn \in [Sessions -> Conn] /\ \A s \in Sessions : conn[s] = Closed
  BY ClosedType DEF Init
<1>3. inbox \in [Sessions -> Seq(Message)]
  BY DEF Init
<1>4. QED
  BY <1>1, <1>2, <1>3 DEF Init, Types, OneCredential, Closed, NoPool

LEMMA CredentialTypes ==
  ASSUME Types, NEW c \in Creds, NEW new \in Cred, Credential(c, new)
  PROVE  Types'
<1>1. ASSUME NEW s \in Sessions PROVE [conn[s] EXCEPT !.cutOff = FALSE] \in Conn
  BY FieldTypes DEF Types
<1>2. conn' \in [Sessions -> Conn]
  BY <1>1 DEF Types, Credential
<1>3. cred' \in [Creds -> Cred]
  BY DEF Types, Credential
<1>4. QED
  BY <1>2, <1>3 DEF Types, Credential

LEMMA AdministerIsCredential ==
  ASSUME Types, NEW c \in Creds, Administer(c)
  PROVE  \E new \in Cred : Credential(c, new)
<1>1. cred[c] \in Cred
  BY DEF Types
<1>2. ASSUME NEW expired \in BOOLEAN, Create(c, expired) PROVE \E new \in Cred : Credential(c, new)
  <2>1. [status |-> "ACTIVE", expired |-> expired, secret |-> 1] \in Cred
    BY ConstantsAssumption DEF Cred, Status
  <2>2. QED
    BY <1>2, <2>1 DEF Create
<1>3. ASSUME NEW expired \in BOOLEAN, NEW status \in Status, Patch(c, status, expired)
      PROVE  \E new \in Cred : Credential(c, new)
  <2>1. [cred[c] EXCEPT !.status = status, !.expired = expired] \in Cred
    BY <1>1 DEF Cred, Status
  <2>2. QED
    BY <1>3, <2>1 DEF Patch
<1>4. CASE Revoke(c)
  <2>1. [cred[c] EXCEPT !.status = "REVOKED"] \in Cred
    BY <1>1 DEF Cred, Status
  <2>2. QED
    BY <1>4, <2>1 DEF Revoke
<1>5. CASE RotateSecret(c)
  <2>1. [cred[c] EXCEPT !.secret = @ + 1] \in Cred
    BY <1>1, <1>5, ConstantsAssumption DEF Cred, RotateSecret
  <2>2. QED
    BY <1>5, <2>1 DEF RotateSecret
<1>6. CASE Delete(c)
  <2>1. [cred[c] EXCEPT !.status = "deleted"] \in Cred
    BY <1>1 DEF Cred, Status
  <2>2. QED
    BY <1>6, <2>1 DEF Delete
<1>7. CASE Expire(c)
  <2>1. [cred[c] EXCEPT !.expired = TRUE] \in Cred
    BY <1>1 DEF Cred
  <2>2. QED
    BY <1>7, <2>1 DEF Expire
<1>8. QED
  BY <1>2, <1>3, <1>4, <1>5, <1>6, <1>7 DEF Administer

(* The message a client sends.                                             *)
LEMMA SentType ==
  ASSUME Types, NEW s \in Sessions, NEW kind \in Kinds[s]
  PROVE  [kind |-> kind, n |-> sent[s] + 1] \in Message
<1>1. kind \in UNION {Kinds[t] : t \in Sessions} /\ sent[s] + 1 \in Nat
  BY DEF Types
<1>2. QED
  BY <1>1 DEF Message

LEMMA ClientTypes ==
  ASSUME Types, NEW s \in Sessions, Client(s)
  PROVE  Types'
<1> USE DEF Types
<1>0. conn[s] \in Conn
  OBVIOUS
<1>1. ASSUME NEW c \in Creds, NEW secret \in 1 .. MaxSecrets, Connect(s, c, secret) PROVE Types'
  <2>1. [Closed EXCEPT !.pc = "idle", !.cred = {c}, !.secret = secret] \in Conn
    <3>1. [Closed EXCEPT !.pc = "idle"] \in Conn
      BY ClosedType DEF Conn
    <3>2. [[Closed EXCEPT !.pc = "idle"] EXCEPT !.cred = {c}] \in Conn
      BY <3>1, CountTypes
    <3>3. secret \in 0 .. MaxSecrets
      BY ConstantsAssumption
    <3>4. [[[Closed EXCEPT !.pc = "idle"] EXCEPT !.cred = {c}] EXCEPT !.secret = secret] \in Conn
      BY <3>2, <3>3, CountTypes
    <3>5. QED
      BY <3>4
  <2>2. QED
    BY <1>1, <2>1 DEF Connect
<1>2. ASSUME NEW kind \in Kinds[s], Send(s, kind) PROVE Types'
  <2> DEFINE i == IF kind \in Asks THEN conn[s].owed + 1 ELSE conn[s].owed
             b == kind = "Extended" \/ (kind # "Sync" /\ conn[s].batch)
  <2>1. /\ i \in Int /\ b \in BOOLEAN
        /\ conn' = [conn EXCEPT ![s].owed = i, ![s].batch = b]
    <3>1. i \in Int /\ b \in BOOLEAN
      BY <1>0 DEF Conn
    <3>2. conn' = [conn EXCEPT ![s].owed = i, ![s].batch = b]
      BY <1>2, Zenon DEF Send
    <3>3. QED
      BY <3>1, <3>2
  <2> HIDE DEF i, b
  <2>2. conn' \in [Sessions -> Conn]
    <3>1. [conn[s] EXCEPT !.owed = i] \in Conn
      BY <1>0, <2>1, CountTypes
    <3>2. [[conn[s] EXCEPT !.owed = i] EXCEPT !.batch = b] \in Conn
      BY <2>1, <3>1, FieldTypes
    <3>3. QED
      BY <2>1, <3>2
  <2>3. inbox' \in [Sessions -> Seq(Message)]
    BY <1>2, SentType DEF Send
  <2>4. sent' \in [Sessions -> Nat]
    BY <1>2 DEF Send
  <2>5. QED
    BY <1>2, <2>2, <2>3, <2>4 DEF Send
<1>3. CASE Leave(s)
  <2>1. (IF conn[s].pc = "idle" THEN Closed ELSE [conn[s] EXCEPT !.gone = TRUE]) \in Conn
    BY <1>0, ClosedType DEF Conn
  <2>2. conn' \in [Sessions -> Conn]
    BY <1>3, <2>1 DEF Leave
  <2>3. inbox' \in [Sessions -> Seq(Message)]
    BY <1>3 DEF Leave
  <2>4. QED
    BY <1>3, <2>2, <2>3 DEF Leave
<1>4. QED
  BY <1>1, <1>2, <1>3 DEF Client

(* What stands in an inbox is received in order.                           *)
LEMMA ReceiveTypes ==
  ASSUME Types, NEW s \in Sessions, NEW kinds, Receive(s, kinds)
  PROVE  inbox' \in [Sessions -> Seq(Message)] /\ Head(inbox[s]) \in Message
<1>1. inbox[s] \in Seq(Message) /\ inbox[s] # <<>>
  BY DEF Types, Receive
<1>2. Tail(inbox[s]) \in Seq(Message) /\ Head(inbox[s]) \in Message
  BY <1>1
<1>3. QED
  BY <1>2 DEF Types, Receive

LEMMA FailTypes ==
  ASSUME Types, NEW s \in Sessions, Fail(s), conn[s].pc # "closed", OneCredential,
         NEW action,
         sending' \in {sending, sending \cup {Report(s, action)}}
  PROVE  Types'
<1>1. conn' \in [Sessions -> Conn]
  BY ReadyType DEF Types, Fail
<1>2. Report(s, action).cred \in Creds /\ Report(s, action).query \in Sessions \X Nat
  BY OpenHasCredential DEF Report, Id, Types, Conn
<1>3. QED
  BY <1>1, <1>2 DEF Types, Fail

(* What a step of the gateway makes of the connection it serves: it is     *)
(* answered, or it goes on at pc with its credential.                      *)
LEMMA GatewayTypes ==
  ASSUME Types, OneCredential, NEW s \in Sessions, Gateway(s)
  PROVE  Types'
<1>0. conn[s] \in Conn
  BY DEF Types
<1>1. CASE HandleSync(s) \/ HandleOther(s) \/ RefuseStatements(s)
  <2>1. [conn[s] EXCEPT !.inErrorRecovery = FALSE] \in Conn
    BY <1>0, FieldTypes
  <2>2. ReadyForQuery(conn[s]) \in Conn
        /\ ReadyForQuery([conn[s] EXCEPT !.inErrorRecovery = FALSE]) \in Conn
    BY <1>0, <2>1, ReadyType
  <2>3. inbox' \in [Sessions -> Seq(Message)]
    BY <1>1, ReceiveTypes DEF HandleSync, HandleOther, RefuseStatements
  <2>4. conn' \in [Sessions -> Conn]
    BY <1>1, <2>2 DEF Types, HandleSync, HandleOther, RefuseStatements
  <2>5. QED
    BY <1>1, <2>3, <2>4 DEF Types, HandleSync, HandleOther, RefuseStatements
<1>2. CASE HandleExtended(s)
  <2> DEFINE n == IF conn[s].inErrorRecovery THEN conn[s].errors ELSE conn[s].errors + 1
  <2>1. n \in Nat /\ conn' = [conn EXCEPT ![s].inErrorRecovery = TRUE, ![s].errors = n]
    <3>1. n \in Nat
      BY <1>0 DEF Conn
    <3>2. conn' = [conn EXCEPT ![s].inErrorRecovery = TRUE, ![s].errors = n]
      BY <1>2, Zenon DEF HandleExtended
    <3>3. QED
      BY <3>1, <3>2
  <2> HIDE DEF n
  <2>2. [[conn[s] EXCEPT !.inErrorRecovery = TRUE] EXCEPT !.errors = n] \in Conn
    <3>1. [conn[s] EXCEPT !.inErrorRecovery = TRUE] \in Conn
      BY <1>0, FieldTypes
    <3>2. QED
      BY <2>1, <3>1, CountTypes
  <2>3. conn' \in [Sessions -> Conn]
    BY <2>1, <2>2 DEF Types
  <2>4. inbox' \in [Sessions -> Seq(Message)]
    BY <1>2, ReceiveTypes DEF HandleExtended
  <2>5. QED
    BY <1>2, <2>3, <2>4 DEF Types, HandleExtended
<1>3. CASE HandleQuery(s)
  <2>1. PICK b \in BOOLEAN, d \in BOOLEAN :
          conn' = [conn EXCEPT ![s].pc = "preparing", ![s].query = Head(inbox[s]).n,
                               ![s].inErrorRecovery = FALSE, ![s].cutOff = b, ![s].rotated = d]
    BY <1>3 DEF HandleQuery
  <2>2. Head(inbox[s]).n \in Nat /\ inbox' \in [Sessions -> Seq(Message)]
    BY <1>3, ReceiveTypes DEF HandleQuery, Message
  <2>3. [[[[[conn[s] EXCEPT !.pc = "preparing"] EXCEPT !.query = Head(inbox[s]).n]
           EXCEPT !.inErrorRecovery = FALSE] EXCEPT !.cutOff = b] EXCEPT !.rotated = d] \in Conn
    <3> HIDE DEF Conn
    <3>1. [conn[s] EXCEPT !.pc = "preparing"] \in Conn
      BY <1>0, FieldTypes DEF Working
    <3>2. [[conn[s] EXCEPT !.pc = "preparing"] EXCEPT !.query = Head(inbox[s]).n] \in Conn
      BY <2>2, <3>1, FieldTypes
    <3>3. QED
      BY <3>2, FieldTypes
  <2>4. conn' \in [Sessions -> Conn]
    BY <2>1, <2>3 DEF Types
  <2>5. QED
    BY <1>3, <2>2, <2>4 DEF Types, HandleQuery
<1>4. CASE PrepareAllows(s) \/ GetMisses(s) \/ KeepPool(s) \/ Execute(s)
  <2>1. PICK pc \in Working : conn' = [conn EXCEPT ![s].pc = pc]
    BY <1>4 DEF PrepareAllows, GetMisses, KeepPool, Execute, Working
  <2>2. conn' \in [Sessions -> Conn]
    BY <1>0, <2>1, FieldTypes DEF Types
  <2>3. conn[s].pool \in PoolIds \cup {NoPool} /\ Id(s) \in Sessions \X Nat
    BY <1>0 DEF Conn, Id
  <2>4. QED
    <3>1. cached' \in [Sources -> PoolIds \cup {NoPool}]
      BY <1>4, <2>3 DEF Types, PrepareAllows, GetMisses, KeepPool, Execute
    <3>2. ran' \subseteq Sessions \X Nat
      BY <1>4, <2>3 DEF Types, PrepareAllows, GetMisses, KeepPool, Execute
    <3>3. QED
      BY <1>4, <2>2, <3>1, <3>2 DEF Types, PrepareAllows, GetMisses, KeepPool, Execute
<1>5. CASE GetCached(s) \/ (\E p \in PoolIds : OpenPool(s, p)) \/ DropPool(s)
  <2>1. Source(s) \in Sources
    BY <1>5, OpenHasCredential, ConstantsAssumption DEF GetCached, OpenPool, DropPool, Source
  <2>2. cached[Source(s)] \in PoolIds \cup {NoPool} /\ conn[s].pool \in PoolIds \cup {NoPool}
    BY <1>0, <2>1 DEF Types, Conn
  <2>3. PICK p \in PoolIds, pc \in Working :
          conn' = [conn EXCEPT ![s].pc = pc, ![s].pool = p]
    BY <1>5, <2>2 DEF GetCached, OpenPool, DropPool, LostRace, Working
  <2>4. [[conn[s] EXCEPT !.pc = pc] EXCEPT !.pool = p] \in Conn
    BY <1>0, FieldTypes
  <2>5. conn' \in [Sessions -> Conn]
    BY <2>3, <2>4 DEF Types
  <2>6. pools' \in [PoolIds -> SUBSET Sources]
    BY <1>5, <2>1 DEF Types, GetCached, OpenPool, DropPool
  <2>7. QED
    BY <1>5, <2>5, <2>6 DEF Types, GetCached, OpenPool, DropPool
<1>6. CASE PrepareDenies(s) \/ PrepareFails(s) \/ OpenFails(s) \/ QueryFails(s) \/ Finish(s)
  <2>1. Fail(s) /\ conn[s].pc # "closed"
    BY <1>6 DEF PrepareDenies, PrepareFails, OpenFails, QueryFails, Finish
  <2>2. \/ sending' \in {sending, sending \cup {Report(s, "gateway_query_blocked")}}
        \/ sending' \in {sending, sending \cup {Report(s, "gateway_query")}}
    BY <1>6 DEF PrepareDenies, PrepareFails, OpenFails, QueryFails, Finish
  <2>3. ASSUME NEW action, sending' \in {sending, sending \cup {Report(s, action)}}
        PROVE  Types'
    BY <2>1, <2>3, FailTypes
  <2>4. QED
    BY <2>2, <2>3
<1>7. QED
  BY <1>1, <1>2, <1>3, <1>4, <1>5, <1>6 DEF Gateway

LEMMA ExitTypes == Types /\ GatewayExits => Types'
BY ClosedType DEF Types, GatewayExits, NoPool

LEMMA AuditTypes ==
  ASSUME Types, NEW r \in sending, Audit(r) \/ AuditFails(r)
  PROVE  Types'
BY DEF Types, Audit, AuditFails

LEMMA StepTypes == Types /\ OneCredential /\ [Next]_vars => Types'
<1> SUFFICES ASSUME Types, OneCredential, [Next]_vars PROVE Types'
  OBVIOUS
<1>1. ASSUME NEW c \in Creds, Administer(c) PROVE Types'
  BY <1>1, AdministerIsCredential, CredentialTypes
<1>2. CASE UNCHANGED vars
  BY <1>2 DEF Types, vars
<1>3. QED
  BY <1>1, <1>2, ClientTypes, GatewayTypes, AuditTypes, ExitTypes DEF Next

-----------------------------------------------------------------------------
(* The steps of a connection, by what they do to it                        *)

Frame(s) == \A t \in Sessions \ {s} : conn'[t] = conn[t]

(* It is answered, and the client has it back - or nobody is there.        *)
Answered(s) ==
  /\ Frame(s)
  /\ \E k \in Conn : /\ k.cred = conn[s].cred
                     /\ k.gone = conn[s].gone
                     /\ conn'[s] = ReadyForQuery(k)

(* It goes on at pc with the credential it has.                            *)
GoesOn(s, pc) ==
  /\ Frame(s)
  /\ conn'[s].pc = pc
  /\ conn'[s].cred = conn[s].cred

LEMMA HandleShape ==
  ASSUME Types, NEW s \in Sessions,
         HandleSync(s) \/ HandleOther(s) \/ RefuseStatements(s)
  PROVE  /\ conn[s].pc = "idle" /\ UNCHANGED <<cred, pools, cached, ran, sending, trail>>
         /\ Answered(s) \/ conn' = conn
<1> DEFINE k == [conn[s] EXCEPT !.inErrorRecovery = FALSE]
<1>1. conn[s] \in Conn
  BY DEF Types
<1>2. k \in Conn /\ k.cred = conn[s].cred /\ k.gone = conn[s].gone
  <2>1. k \in Conn
    BY <1>1, FieldTypes
  <2>2. k.cred = conn[s].cred /\ k.gone = conn[s].gone
    BY <1>1 DEF Conn
  <2>3. QED
    BY <2>1, <2>2
<1>3. conn' = [conn EXCEPT ![s] = ReadyForQuery(k)] \/ conn' = [conn EXCEPT ![s] = ReadyForQuery(conn[s])]
      \/ conn' = conn
  BY DEF Types, HandleSync, HandleOther, RefuseStatements
<1> HIDE DEF k
<1>4. Answered(s) \/ conn' = conn
  BY <1>1, <1>2, <1>3 DEF Types, Answered, Frame
<1>5. QED
  BY <1>4 DEF HandleSync, HandleOther, RefuseStatements, Receive

LEMMA FailShape ==
  ASSUME Types, NEW s \in Sessions, Fail(s)
  PROVE  Answered(s)
BY DEF Types, Fail, Answered, Frame

(* HandleExtended changes neither where the connection stands nor what it  *)
(* may do.                                                                 *)
LEMMA ExtendedShape ==
  ASSUME Types, NEW s \in Sessions, HandleExtended(s)
  PROVE  /\ conn[s].pc = "idle" /\ UNCHANGED <<cred, pools, cached, ran, sending, trail>>
         /\ GoesOn(s, "idle") /\ conn'[s].cutOff = conn[s].cutOff
<1>1. conn[s] \in Conn
  BY DEF Types
<1>2. conn'[s] = [conn[s] EXCEPT !.inErrorRecovery = TRUE,
                                 !.errors = IF conn[s].inErrorRecovery THEN @ ELSE @ + 1]
  BY Zenon DEF HandleExtended, Types
<1>3. conn'[s].pc = conn[s].pc /\ conn'[s].cred = conn[s].cred /\ conn'[s].cutOff = conn[s].cutOff
  BY <1>1, <1>2 DEF Conn
<1>4. QED
  BY <1>3 DEF HandleExtended, Receive, GoesOn, Frame, Types

LEMMA OneCredentialFrame ==
  ASSUME Types, OneCredential, NEW s \in Sessions, conn[s].pc # "closed",
         Answered(s) \/ \E pc \in Working \cup {"idle"} : GoesOn(s, pc)
  PROVE  OneCredential'
<1>1. CASE Answered(s)
  <2>1. conn'[s] = Closed \/ (conn'[s].pc = "idle" /\ conn'[s].cred = conn[s].cred)
    BY <1>1, ReadyFacts DEF Answered, Conn
  <2>2. conn[s].cred \in {{c} : c \in Creds}
    BY DEF OneCredential
  <2>3. Closed.pc = "closed"
    BY DEF Closed
  <2>4. ASSUME NEW t \in Sessions
        PROVE  IF conn'[t].pc = "closed" THEN conn'[t] = Closed
                                         ELSE \E c \in Creds : conn'[t].cred = {c}
    <3>1. CASE t = s
      BY <2>1, <2>2, <2>3, <3>1
    <3>2. CASE t # s
      BY <1>1, <3>2 DEF OneCredential, Answered, Frame
    <3>3. QED
      BY <3>1, <3>2
  <2>5. QED
    BY <2>4 DEF OneCredential, Closed
<1>2. ASSUME NEW pc \in Working \cup {"idle"}, GoesOn(s, pc) PROVE OneCredential'
  BY <1>2 DEF OneCredential, GoesOn, Frame, Working
<1>3. QED
  BY <1>1, <1>2

(* Which of the shapes each step of the gateway has.                       *)
LEMMA StepShape ==
  ASSUME Types, OneCredential, NEW s \in Sessions, Gateway(s)
  PROVE  /\ conn[s].pc # "closed"
         /\ Answered(s) \/ conn' = conn \/ \E pc \in Working \cup {"idle"} : GoesOn(s, pc)
<1>1. CASE HandleSync(s) \/ HandleOther(s) \/ RefuseStatements(s)
  BY <1>1, HandleShape
<1>2. CASE HandleExtended(s)
  BY <1>2, ExtendedShape
<1>3. CASE HandleQuery(s)
  <2>1. conn[s].pc = "idle"
    BY <1>3 DEF HandleQuery, Receive
  <2>2. GoesOn(s, "preparing")
    BY <1>3 DEF Types, Conn, HandleQuery, GoesOn, Frame
  <2>3. QED
    BY <2>1, <2>2 DEF Working
<1>4. CASE PrepareAllows(s) \/ GetMisses(s) \/ KeepPool(s) \/ Execute(s)
  <2>1. PICK pc \in Working : conn' = [conn EXCEPT ![s].pc = pc]
    BY <1>4 DEF PrepareAllows, GetMisses, KeepPool, Execute, Working
  <2>2. GoesOn(s, pc)
    BY <2>1 DEF Types, Conn, GoesOn, Frame
  <2>3. QED
    BY <1>4, <2>2 DEF PrepareAllows, GetMisses, KeepPool, Execute
<1>5. CASE GetCached(s) \/ (\E p \in PoolIds : OpenPool(s, p)) \/ DropPool(s)
  <2>1. PICK pc \in Working : \E p : conn' = [conn EXCEPT ![s].pc = pc, ![s].pool = p]
    BY <1>5 DEF GetCached, OpenPool, DropPool, Working
  <2>2. PICK p : conn' = [conn EXCEPT ![s].pc = pc, ![s].pool = p]
    BY <2>1
  <2>3. GoesOn(s, pc)
    BY <2>2 DEF Types, Conn, GoesOn, Frame
  <2>4. QED
    BY <1>5, <2>3 DEF GetCached, OpenPool, DropPool
<1>6. CASE PrepareDenies(s) \/ PrepareFails(s) \/ OpenFails(s) \/ QueryFails(s) \/ Finish(s)
  BY <1>6, FailShape DEF PrepareDenies, PrepareFails, OpenFails, QueryFails, Finish
<1>7. QED
  BY <1>1, <1>2, <1>3, <1>4, <1>5, <1>6 DEF Gateway

(* Nothing else changes the credential of a connection that stays open.    *)
LEMMA ConnectFacts ==
  ASSUME Types, NEW s \in Sessions, NEW c \in Creds, NEW secret, Connect(s, c, secret)
  PROVE  Frame(s) /\ conn'[s].pc = "idle" /\ conn'[s].cred = {c} /\ conn'[s].cutOff = FALSE
BY DEF Types, Connect, Frame, Closed

LEMMA SendFacts ==
  ASSUME Types, NEW s \in Sessions, NEW kind, Send(s, kind)
  PROVE  /\ GoesOn(s, conn[s].pc) /\ conn'[s].cutOff = conn[s].cutOff
         /\ conn'[s].pool = conn[s].pool /\ conn'[s].query = conn[s].query
         /\ conn[s].pc # "closed"
<1>1. conn[s] \in Conn
  BY DEF Types
<1>2. conn'[s] = [conn[s] EXCEPT !.owed = IF kind \in Asks THEN @ + 1 ELSE @,
                                 !.batch = kind = "Extended" \/ (kind # "Sync" /\ @)]
  BY Zenon DEF Send, Types
<1>3. /\ conn'[s].pc = conn[s].pc /\ conn'[s].cred = conn[s].cred
      /\ conn'[s].cutOff = conn[s].cutOff
      /\ conn'[s].pool = conn[s].pool /\ conn'[s].query = conn[s].query
  BY <1>1, <1>2 DEF Conn
<1>4. QED
  BY <1>3 DEF Send, GoesOn, Frame, Types

LEMMA LeaveFacts ==
  ASSUME Types, NEW s \in Sessions, Leave(s)
  PROVE  /\ Frame(s) /\ conn[s].pc # "closed"
         /\ \/ conn[s].pc = "idle" /\ conn'[s] = Closed
            \/ /\ conn[s].pc # "idle" /\ GoesOn(s, conn[s].pc)
               /\ conn'[s].cutOff = conn[s].cutOff
               /\ conn'[s].pool = conn[s].pool /\ conn'[s].query = conn[s].query
BY DEF Types, Conn, Leave, GoesOn, Frame

LEMMA CredentialFacts ==
  ASSUME Types, NEW c \in Creds, NEW new, Credential(c, new), NEW s \in Sessions
  PROVE  /\ conn'[s].pc = conn[s].pc /\ conn'[s].cred = conn[s].cred
         /\ conn'[s].pool = conn[s].pool /\ conn'[s].query = conn[s].query
         /\ conn[s].pc = "closed" /\ conn[s].cred = {} => conn'[s] = conn[s]
         /\ conn'[s].cutOff => conn[s].cutOff
         /\ conn'[s].cutOff => (c \in conn[s].cred => new.status # "ACTIVE" \/ new.expired)
BY DEF Types, Conn, Credential

LEMMA OneCredentialStep == Types /\ OneCredential /\ [Next]_vars => OneCredential'
<1> SUFFICES ASSUME Types, OneCredential, [Next]_vars PROVE OneCredential'
  OBVIOUS
<1>1. ASSUME NEW c \in Creds, Administer(c) PROVE OneCredential'
  <2>1. PICK new \in Cred : Credential(c, new)
    BY <1>1, AdministerIsCredential
  <2>2. Closed.pc = "closed" /\ Closed.cred = {}
    BY DEF Closed
  <2>3. ASSUME NEW t \in Sessions
        PROVE  IF conn'[t].pc = "closed" THEN conn'[t] = Closed
                                         ELSE \E d \in Creds : conn'[t].cred = {d}
    <3>1. /\ conn'[t].pc = conn[t].pc /\ conn'[t].cred = conn[t].cred
          /\ conn[t].pc = "closed" /\ conn[t].cred = {} => conn'[t] = conn[t]
      BY <2>1, CredentialFacts
    <3>2. IF conn[t].pc = "closed" THEN conn[t] = Closed ELSE \E d \in Creds : conn[t].cred = {d}
      BY DEF OneCredential
    <3>3. QED
      BY <2>2, <3>1, <3>2
  <2>4. QED
    BY <2>3 DEF OneCredential, Closed
<1>2. ASSUME NEW s \in Sessions, Client(s) PROVE OneCredential'
  <2>1. ASSUME NEW c \in Creds, NEW secret, Connect(s, c, secret) PROVE OneCredential'
    <3>1. Frame(s) /\ conn'[s].pc = "idle" /\ conn'[s].cred = {c}
      BY <2>1, ConnectFacts
    <3>2. ASSUME NEW t \in Sessions
          PROVE  IF conn'[t].pc = "closed" THEN conn'[t] = Closed
                                           ELSE \E d \in Creds : conn'[t].cred = {d}
      <4>1. CASE t = s
        BY <3>1, <4>1
      <4>2. CASE t # s
        BY <3>1, <4>2 DEF OneCredential, Frame
      <4>3. QED
        BY <4>1, <4>2
    <3>3. QED
      BY <3>2 DEF OneCredential, Closed
  <2>2. ASSUME NEW kind, Send(s, kind) PROVE OneCredential'
    BY <2>2, SendFacts DEF OneCredential, GoesOn, Frame
  <2>3. CASE Leave(s)
    <3>1. Closed.pc = "closed"
      BY DEF Closed
    <3>2. conn'[s] = Closed \/ (conn'[s].pc = conn[s].pc /\ conn'[s].cred = conn[s].cred)
      BY <2>3, LeaveFacts DEF GoesOn
    <3>3. ASSUME NEW t \in Sessions
          PROVE  IF conn'[t].pc = "closed" THEN conn'[t] = Closed
                                           ELSE \E c \in Creds : conn'[t].cred = {c}
      BY <2>3, <3>1, <3>2, LeaveFacts DEF OneCredential, Frame
    <3>4. QED
      BY <3>3 DEF OneCredential, Closed
  <2>4. QED
    BY <1>2, <2>1, <2>2, <2>3 DEF Client
<1>3. ASSUME NEW s \in Sessions, Gateway(s) PROVE OneCredential'
  <2>1. CASE conn' = conn
    BY <2>1 DEF OneCredential
  <2>2. QED
    BY <1>3, <2>1, StepShape, OneCredentialFrame
<1>4. ASSUME NEW r \in sending, Audit(r) \/ AuditFails(r) PROVE OneCredential'
  BY <1>4 DEF OneCredential, Audit, AuditFails
<1>5. CASE GatewayExits
  BY <1>5 DEF OneCredential, GatewayExits, Closed
<1>6. CASE UNCHANGED vars
  BY <1>6 DEF OneCredential, vars
<1>7. QED
  BY <1>1, <1>2, <1>3, <1>4, <1>5, <1>6 DEF Next

-----------------------------------------------------------------------------
(* Queries of credentials that were cut off                                *)

(* A query that was cut off on arrival is still to be prepared, with a     *)
(* credential that is not active.                                          *)
CutTracked ==
  \A s \in Sessions : conn[s].cutOff =>
    /\ conn[s].pc = "preparing"
    /\ \A c \in conn[s].cred : ~(cred[c].status = "ACTIVE" /\ ~cred[c].expired)

LEMMA InitCut == Init => CutTracked
BY DEF Init, CutTracked, Closed

LEMMA CutStep == Types /\ OneCredential /\ CutTracked /\ [Next]_vars => CutTracked'
<1> SUFFICES ASSUME Types, OneCredential, CutTracked, [Next]_vars PROVE CutTracked'
  OBVIOUS
<1> USE DEF CutTracked
<1>1. ASSUME NEW c \in Creds, Administer(c) PROVE CutTracked'
  <2>1. PICK new \in Cred : Credential(c, new)
    BY <1>1, AdministerIsCredential
  <2>2. cred' = [cred EXCEPT ![c] = new] /\ cred \in [Creds -> Cred]
    BY <2>1 DEF Credential, Types
  <2>3. \A s \in Sessions : conn[s].cred \subseteq Creds
    BY DEF Types, Conn
  <2>4. QED
    BY <2>1, <2>2, <2>3, CredentialFacts
<1>2. ASSUME NEW s \in Sessions, Client(s) PROVE CutTracked'
  <2>1. ASSUME NEW c \in Creds, NEW secret, Connect(s, c, secret) PROVE CutTracked'
    <3>1. cred' = cred
      BY <2>1 DEF Connect
    <3>2. QED
      BY <2>1, <3>1, ConnectFacts DEF Frame
  <2>2. ASSUME NEW kind, Send(s, kind) PROVE CutTracked'
    <3>1. cred' = cred
      BY <2>2 DEF Send
    <3>2. QED
      BY <2>2, <3>1, SendFacts DEF GoesOn, Frame
  <2>3. CASE Leave(s)
    <3>1. cred' = cred
      BY <2>3 DEF Leave
    <3>2. QED
      BY <2>3, <3>1, LeaveFacts DEF GoesOn, Frame, Closed
  <2>4. QED
    BY <1>2, <2>1, <2>2, <2>3 DEF Client
<1>3. ASSUME NEW s \in Sessions, Gateway(s) PROVE CutTracked'
  <2>0. cred' = cred
    BY <1>3 DEF Gateway, HandleSync, HandleExtended, HandleOther, RefuseStatements, HandleQuery,
                PrepareAllows, PrepareDenies, PrepareFails, GetCached, GetMisses, OpenFails,
                OpenPool, KeepPool, DropPool, Execute, QueryFails, Finish, Fail
  <2>1. CASE Answered(s) \/ conn' = conn
    <3>1. CASE Answered(s)
      <4>1. conn'[s].cutOff = FALSE
        <5>1. Closed.cutOff = FALSE
          BY DEF Closed
        <5>2. QED
          BY <3>1, <5>1, ReadyFacts DEF Answered
      <4>2. QED
        BY <2>0, <3>1, <4>1 DEF Answered, Frame
    <3>2. QED
      BY <2>0, <2>1, <3>1
  <2>2. CASE HandleExtended(s)
    BY <2>0, <2>2, ExtendedShape DEF GoesOn, Frame
  <2>3. CASE HandleQuery(s)
    <3>1. conn[s].pc # "closed"
      BY <2>3 DEF HandleQuery, Receive
    <3>2. CredOf(s) \in Creds /\ conn[s].cred = {CredOf(s)}
      BY <3>1, OpenHasCredential
    <3>3. conn'[s].pc = "preparing" /\ conn'[s].cred = conn[s].cred
          /\ conn'[s].cutOff = ~(Exists(CredOf(s)) /\ CheckActive(CredOf(s)))
      BY <2>3 DEF HandleQuery, Types, Conn
    <3>4. Frame(s)
      BY <2>3 DEF HandleQuery, Types, Frame
    <3>5. QED
      BY <2>0, <3>2, <3>3, <3>4 DEF Frame, Exists, CheckActive, Status
  <2>4. ASSUME conn[s].cutOff => FALSE, conn'[s].cutOff = conn[s].cutOff, Frame(s) PROVE CutTracked'
    BY <2>0, <2>4 DEF Frame
  <2>5. CASE PrepareAllows(s)
    <3>1. conn[s].pc # "closed" /\ Prepared(s) /\ conn' = [conn EXCEPT ![s].pc = "allowed"]
      BY <2>5 DEF PrepareAllows
    <3>2. conn[s].cred = {CredOf(s)}
      BY <3>1, OpenHasCredential
    <3>3. ~conn[s].cutOff
      BY <3>1, <3>2 DEF Prepared, CheckActive
    <3>4. conn'[s].cutOff = conn[s].cutOff /\ Frame(s)
      BY <3>1 DEF Types, Conn, Frame
    <3>5. QED
      BY <2>4, <3>3, <3>4
  <2>6. CASE GetCached(s) \/ GetMisses(s) \/ (\E p \in PoolIds : OpenPool(s, p))
             \/ KeepPool(s) \/ DropPool(s) \/ Execute(s)
    <3>1. conn[s].pc # "preparing"
      BY <2>6 DEF GetCached, GetMisses, OpenPool, KeepPool, DropPool, Execute
    <3>2. conn'[s].cutOff = conn[s].cutOff /\ Frame(s)
      BY <2>6 DEF GetCached, GetMisses, OpenPool, KeepPool, DropPool, Execute, Types, Conn, Frame
    <3>3. QED
      BY <2>4, <3>1, <3>2
  <2>7. QED
    BY <1>3, <2>1, <2>2, <2>3, <2>5, <2>6, HandleShape, FailShape
       DEF Gateway, PrepareDenies, PrepareFails, OpenFails, QueryFails, Finish
<1>4. ASSUME NEW r \in sending, Audit(r) \/ AuditFails(r) PROVE CutTracked'
  BY <1>4 DEF Audit, AuditFails
<1>5. CASE GatewayExits
  BY <1>5 DEF GatewayExits, Closed
<1>6. CASE UNCHANGED vars
  BY <1>6 DEF vars
<1>7. QED
  BY <1>1, <1>2, <1>3, <1>4, <1>5, <1>6 DEF Next

(* A query that arrives after its credential was revoked, disabled,        *)
(* deleted or expired never reaches the source.                            *)
THEOREM CutOffQueriesAreStopped == Spec => []CutOffQueriesStop
<1> DEFINE Inv == Types /\ OneCredential /\ CutTracked
<1>1. Init => Inv
  BY InitTypes, InitCut
<1>2. Inv /\ [Next]_vars => Inv'
  BY StepTypes, OneCredentialStep, CutStep
<1>3. Inv => CutOffQueriesStop
  BY DEF CutTracked, CutOffQueriesStop
<1>4. QED
  BY <1>1, <1>2, <1>3, PTL DEF Spec

-----------------------------------------------------------------------------
(* Pools                                                                   *)

Holds(s) == conn[s].pc = "opened"
Uses(s) == conn[s].pc \in {"running", "streaming"}

(* A pool that is open is cached, or held by the connection that has just  *)
(* opened it, which is one only; what is cached is open, for its source,   *)
(* and is what the connections use.                                        *)
PoolsInv ==
  /\ \A p \in PoolIds : pools[p] # {} =>
       (\E d \in Sources : cached[d] = p) \/ (\E s \in Sessions : Holds(s) /\ conn[s].pool = p)
  /\ \A s \in Sessions : Holds(s) =>
       /\ conn[s].pool \in PoolIds /\ pools[conn[s].pool] = {Source(s)}
       /\ \A d \in Sources : cached[d] # conn[s].pool
  /\ \A s, t \in Sessions : Holds(s) /\ Holds(t) /\ conn[s].pool = conn[t].pool => s = t
  /\ \A d \in Sources : cached[d] # NoPool => pools[cached[d]] = {d}
  /\ \A s \in Sessions : Uses(s) => conn[s].pool = cached[Source(s)] /\ conn[s].pool # NoPool

LEMMA InitPools == Init => PoolsInv
BY DEF Init, PoolsInv, Holds, Uses, Closed

LEMMA SourceSame ==
  ASSUME NEW s \in Sessions, conn'[s].cred = conn[s].cred
  PROVE  Source(s)' = Source(s)
BY Zenon DEF Source, CredOf

LEMMA SourceType ==
  ASSUME OneCredential, NEW s \in Sessions, conn[s].pc # "closed"
  PROVE  Source(s) \in Sources
BY OpenHasCredential, ConstantsAssumption DEF Source

(* No connection takes a pool or gives one back.                           *)
Quiet ==
  /\ UNCHANGED <<pools, cached>>
  /\ \A t \in Sessions :
       /\ Holds(t)' <=> Holds(t)
       /\ Uses(t)' => Uses(t)
       /\ Holds(t)' \/ Uses(t)' => conn'[t].pool = conn[t].pool /\ conn'[t].cred = conn[t].cred

LEMMA QuietPools == PoolsInv /\ Quiet => PoolsInv'
<1> SUFFICES ASSUME PoolsInv, Quiet PROVE PoolsInv'
  OBVIOUS
<1>1. ASSUME NEW t \in Sessions, Holds(t)' \/ Uses(t)' PROVE Source(t)' = Source(t)
  BY <1>1, SourceSame DEF Quiet
<1>2. /\ pools' = pools /\ cached' = cached
      /\ \A t \in Sessions :
           /\ Holds(t)' <=> Holds(t)
           /\ Uses(t)' => Uses(t)
           /\ Holds(t)' \/ Uses(t)' => conn'[t].pool = conn[t].pool /\ Source(t)' = Source(t)
  BY <1>1 DEF Quiet
<1>3. QED
  BY <1>2 DEF PoolsInv

(* A connection whose turn it is neither holds a pool nor comes to.        *)
LEMMA QuietStep ==
  ASSUME UNCHANGED <<pools, cached>>, NEW s \in Sessions, Frame(s),
         ~Holds(s),
         \/ conn'[s].pc \notin {"opened", "running", "streaming"}
         \/ Uses(s) /\ conn'[s].pc # "opened" /\ conn'[s].pool = conn[s].pool
                    /\ conn'[s].cred = conn[s].cred
  PROVE  Quiet
BY DEF Quiet, Frame, Holds, Uses

LEMMA AnsweredQuiet ==
  ASSUME UNCHANGED <<pools, cached>>, NEW s \in Sessions, Answered(s), ~Holds(s)
  PROVE  Quiet
<1>1. Closed.pc = "closed"
  BY DEF Closed
<1>2. conn'[s].pc \in {"idle", "closed"}
  BY <1>1, ReadyFacts DEF Answered
<1>3. QED
  BY <1>2, QuietStep DEF Answered

LEMMA GatewayQuiet ==
  ASSUME Types, NEW s \in Sessions,
         \/ HandleSync(s) \/ HandleExtended(s) \/ HandleOther(s)
         \/ RefuseStatements(s) \/ HandleQuery(s)
         \/ PrepareAllows(s) \/ PrepareDenies(s) \/ PrepareFails(s)
         \/ GetMisses(s) \/ OpenFails(s)
         \/ Execute(s) \/ QueryFails(s) \/ Finish(s)
  PROVE  Quiet
<1>1. CASE HandleSync(s) \/ HandleOther(s) \/ RefuseStatements(s)
  <2>1. CASE conn' = conn
    BY <1>1, <2>1, HandleShape DEF Quiet, Holds, Uses
  <2>2. QED
    BY <1>1, <2>1, HandleShape, AnsweredQuiet DEF Holds
<1>2. CASE HandleExtended(s)
  BY <1>2, ExtendedShape, QuietStep DEF GoesOn, Holds
<1>3. CASE HandleQuery(s) \/ PrepareAllows(s) \/ GetMisses(s)
  <2>1. UNCHANGED <<pools, cached>> /\ ~Holds(s)
    BY <1>3 DEF HandleQuery, Receive, PrepareAllows, GetMisses, Holds
  <2>2. Frame(s) /\ conn'[s].pc \in {"preparing", "allowed", "fetching"}
    BY <1>3 DEF HandleQuery, PrepareAllows, GetMisses, Frame, Types, Conn
  <2>3. QED
    BY <2>1, <2>2, QuietStep
<1>4. CASE Execute(s)
  <2>1. UNCHANGED <<pools, cached>> /\ Uses(s)
    BY <1>4 DEF Execute, Uses
  <2>2. /\ Frame(s) /\ conn'[s].pc = "streaming"
        /\ conn'[s].pool = conn[s].pool /\ conn'[s].cred = conn[s].cred
    BY <1>4 DEF Execute, Frame, Types, Conn
  <2>3. QED
    BY <2>1, <2>2, QuietStep DEF Uses, Holds
<1>5. CASE PrepareDenies(s) \/ PrepareFails(s) \/ OpenFails(s) \/ QueryFails(s) \/ Finish(s)
  <2>1. Fail(s) /\ ~Holds(s)
    BY <1>5 DEF PrepareDenies, PrepareFails, OpenFails, QueryFails, Finish, Holds
  <2>2. UNCHANGED <<pools, cached>>
    BY <2>1 DEF Fail
  <2>3. QED
    BY <2>1, <2>2, FailShape, AnsweredQuiet
<1>6. QED
  BY <1>1, <1>2, <1>3, <1>4, <1>5

(* A connection gets the pool of its source.                               *)
LEMMA GetCachedPools ==
  ASSUME Types, OneCredential, PoolsInv, NEW s \in Sessions, GetCached(s)
  PROVE  PoolsInv'
<1>0. conn' = [conn EXCEPT ![s].pc = "running", ![s].pool = cached[Source(s)]]
  BY DEF GetCached
<1>1. /\ pools' = pools /\ cached' = cached /\ ~Holds(s)
      /\ cached[Source(s)] # NoPool
  BY DEF GetCached, Holds
<1>2. /\ Frame(s) /\ conn'[s].pc = "running" /\ conn'[s].pool = cached[Source(s)]
      /\ conn'[s].cred = conn[s].cred
  BY <1>0 DEF Types, Conn, Frame
<1>3. \A t \in Sessions : Source(t)' = Source(t)
  BY <1>2, SourceSame DEF Frame
<1>4. ~Holds(s)' /\ Uses(s)'
  BY <1>2 DEF Holds, Uses
<1>5. ASSUME NEW t \in Sessions, t # s
      PROVE  /\ Holds(t)' <=> Holds(t)
             /\ Uses(t)' <=> Uses(t)
             /\ conn'[t].pool = conn[t].pool
  BY <1>2, <1>5 DEF Frame, Holds, Uses
<1>6. QED
  <2>1. ASSUME NEW q \in PoolIds, pools'[q] # {}
        PROVE  (\E d \in Sources : cached'[d] = q) \/ (\E t \in Sessions : Holds(t)' /\ conn'[t].pool = q)
    <3>1. CASE \E d \in Sources : cached[d] = q
      BY <1>1, <3>1
    <3>2. CASE \E t \in Sessions : Holds(t) /\ conn[t].pool = q
      <4>1. PICK t \in Sessions : Holds(t) /\ conn[t].pool = q
        BY <3>2
      <4>2. QED
        BY <1>1, <1>5, <4>1
    <3>3. QED
      BY <1>1, <2>1, <3>1, <3>2 DEF PoolsInv
  <2>2. ASSUME NEW t \in Sessions, Holds(t)'
        PROVE  /\ conn'[t].pool \in PoolIds /\ pools'[conn'[t].pool] = {Source(t)'}
               /\ \A d \in Sources : cached'[d] # conn'[t].pool
    <3>1. t # s /\ Holds(t)
      BY <1>4, <1>5, <2>2
    <3>2. QED
      BY <1>1, <1>3, <1>5, <3>1 DEF PoolsInv
  <2>3. ASSUME NEW t \in Sessions, NEW u \in Sessions, Holds(t)', Holds(u)', conn'[t].pool = conn'[u].pool
        PROVE  t = u
    <3>1. t # s /\ Holds(t) /\ u # s /\ Holds(u)
      BY <1>4, <1>5, <2>3
    <3>2. QED
      BY <1>5, <2>3, <3>1 DEF PoolsInv
  <2>4. ASSUME NEW d \in Sources, cached'[d] # NoPool
        PROVE  pools'[cached'[d]] = {d}
    BY <1>1, <2>4 DEF PoolsInv
  <2>5. ASSUME NEW t \in Sessions, Uses(t)'
        PROVE  conn'[t].pool = cached'[Source(t)'] /\ conn'[t].pool # NoPool
    <3>1. CASE t = s
      BY <1>1, <1>2, <1>3, <3>1
    <3>2. CASE t # s
      BY <1>1, <1>3, <1>5, <2>5, <3>2 DEF PoolsInv
    <3>3. QED
      BY <3>1, <3>2
  <2>6. QED
    BY <2>1, <2>2, <2>3, <2>4, <2>5 DEF PoolsInv

(* It opens one: nobody has it.                                            *)
LEMMA OpenPoolPools ==
  ASSUME Types, OneCredential, PoolsInv, NEW s \in Sessions, NEW p \in PoolIds, OpenPool(s, p)
  PROVE  PoolsInv'
<1>0. /\ conn' = [conn EXCEPT ![s].pc = "opened", ![s].pool = p]
      /\ pools' = [pools EXCEPT ![p] = {Source(s)}]
  BY DEF OpenPool
<1>1. cached' = cached /\ ~Holds(s) /\ ~Uses(s) /\ pools[p] = {}
  BY DEF OpenPool, Holds, Uses
<1>2. /\ Frame(s) /\ conn'[s].pc = "opened" /\ conn'[s].pool = p
      /\ conn'[s].cred = conn[s].cred
  BY <1>0 DEF Types, Conn, Frame
<1>3. \A t \in Sessions : Source(t)' = Source(t)
  BY <1>2, SourceSame DEF Frame
<1>4. Holds(s)' /\ ~Uses(s)'
  BY <1>2 DEF Holds, Uses
<1>5. ASSUME NEW t \in Sessions, t # s
      PROVE  /\ Holds(t)' <=> Holds(t)
             /\ Uses(t)' <=> Uses(t)
             /\ conn'[t].pool = conn[t].pool
  BY <1>2, <1>5 DEF Frame, Holds, Uses
<1>6. pools'[p] = {Source(s)} /\ \A q \in PoolIds \ {p} : pools'[q] = pools[q]
  BY <1>0 DEF Types
<1>7. p # NoPool
  BY DEF PoolIds, NoPool
<1>8. ASSUME NEW d \in Sources PROVE cached[d] # p
  BY <1>1, <1>7 DEF PoolsInv
<1>9. ASSUME NEW t \in Sessions, Holds(t) PROVE conn[t].pool # p
  BY <1>1, <1>9 DEF PoolsInv
<1>10. ASSUME NEW d \in Sources PROVE cached[d] \in PoolIds \cup {NoPool}
  BY DEF Types
<1>11. QED
  <2>1. ASSUME NEW q \in PoolIds, pools'[q] # {}
        PROVE  (\E d \in Sources : cached'[d] = q) \/ (\E t \in Sessions : Holds(t)' /\ conn'[t].pool = q)
    <3>1. CASE q = p
      BY <1>2, <1>4, <3>1
    <3>2. CASE q # p /\ \E d \in Sources : cached[d] = q
      BY <1>1, <3>2
    <3>3. CASE q # p /\ \E t \in Sessions : Holds(t) /\ conn[t].pool = q
      <4>1. PICK t \in Sessions : Holds(t) /\ conn[t].pool = q
        BY <3>3
      <4>2. QED
        BY <1>1, <1>5, <4>1
    <3>4. QED
      BY <1>6, <2>1, <3>1, <3>2, <3>3 DEF PoolsInv
  <2>2. ASSUME NEW t \in Sessions, Holds(t)'
        PROVE  /\ conn'[t].pool \in PoolIds /\ pools'[conn'[t].pool] = {Source(t)'}
               /\ \A d \in Sources : cached'[d] # conn'[t].pool
    <3>1. CASE t = s
      BY <1>1, <1>2, <1>3, <1>6, <1>8, <3>1
    <3>2. CASE t # s
      <4>1. Holds(t) /\ conn'[t].pool = conn[t].pool /\ conn[t].pool # p
        BY <1>5, <1>9, <2>2, <3>2
      <4>2. conn[t].pool \in PoolIds /\ pools[conn[t].pool] = {Source(t)}
            /\ \A d \in Sources : cached[d] # conn[t].pool
        BY <4>1 DEF PoolsInv
      <4>3. QED
        BY <1>1, <1>3, <1>6, <4>1, <4>2
    <3>3. QED
      BY <3>1, <3>2
  <2>3. ASSUME NEW t \in Sessions, NEW u \in Sessions, Holds(t)', Holds(u)', conn'[t].pool = conn'[u].pool
        PROVE  t = u
    <3>1. CASE t = s \/ u = s
      BY <1>2, <1>5, <1>9, <2>3, <3>1
    <3>2. CASE t # s /\ u # s
      BY <1>5, <2>3, <3>2 DEF PoolsInv
    <3>3. QED
      BY <3>1, <3>2
  <2>4. ASSUME NEW d \in Sources, cached'[d] # NoPool
        PROVE  pools'[cached'[d]] = {d}
    <3>1. cached[d] \in PoolIds \ {p} /\ pools[cached[d]] = {d}
      BY <1>1, <1>8, <1>10, <2>4 DEF PoolsInv
    <3>2. QED
      BY <1>1, <1>6, <3>1
  <2>5. ASSUME NEW t \in Sessions, Uses(t)'
        PROVE  conn'[t].pool = cached'[Source(t)'] /\ conn'[t].pool # NoPool
    <3>1. t # s
      BY <1>4, <2>5
    <3>2. QED
      BY <1>1, <1>3, <1>5, <2>5, <3>1 DEF PoolsInv
  <2>6. QED
    BY <2>1, <2>2, <2>3, <2>4, <2>5 DEF PoolsInv

(* There was none: its own becomes the one of the source.                  *)
LEMMA KeepPoolPools ==
  ASSUME Types, OneCredential, PoolsInv, NEW s \in Sessions, KeepPool(s)
  PROVE  PoolsInv'
<1>0. /\ conn' = [conn EXCEPT ![s].pc = "running"]
      /\ cached' = [cached EXCEPT ![Source(s)] = conn[s].pool]
  BY DEF KeepPool
<1>1. pools' = pools /\ Holds(s) /\ cached[Source(s)] = NoPool
  BY DEF KeepPool, Holds, LostRace
<1>2. /\ Frame(s) /\ conn'[s].pc = "running" /\ conn'[s].pool = conn[s].pool
      /\ conn'[s].cred = conn[s].cred
  BY <1>0 DEF Types, Conn, Frame
<1>3. \A t \in Sessions : Source(t)' = Source(t)
  BY <1>2, SourceSame DEF Frame
<1>4. ~Holds(s)' /\ Uses(s)'
  BY <1>2 DEF Holds, Uses
<1>5. ASSUME NEW t \in Sessions, t # s
      PROVE  /\ Holds(t)' <=> Holds(t)
             /\ Uses(t)' <=> Uses(t)
             /\ conn'[t].pool = conn[t].pool
  BY <1>2, <1>5 DEF Frame, Holds, Uses
<1>6. Source(s) \in Sources
  BY <1>1, SourceType DEF Holds
<1>7. cached'[Source(s)] = conn[s].pool /\ \A d \in Sources \ {Source(s)} : cached'[d] = cached[d]
  BY <1>0, <1>6 DEF Types
<1>8. /\ conn[s].pool \in PoolIds /\ pools[conn[s].pool] = {Source(s)}
      /\ \A d \in Sources : cached[d] # conn[s].pool
  BY <1>1 DEF PoolsInv
<1>9. conn[s].pool # NoPool
  BY <1>8 DEF PoolIds, NoPool
<1>10. QED
  <2>1. ASSUME NEW q \in PoolIds, pools'[q] # {}
        PROVE  (\E d \in Sources : cached'[d] = q) \/ (\E t \in Sessions : Holds(t)' /\ conn'[t].pool = q)
    <3>1. CASE q = conn[s].pool
      BY <1>6, <1>7, <3>1
    <3>2. CASE q # conn[s].pool /\ \E d \in Sources : cached[d] = q
      <4>1. PICK d \in Sources : cached[d] = q
        BY <3>2
      <4>2. q # NoPool
        BY DEF PoolIds, NoPool
      <4>3. QED
        BY <1>1, <1>7, <4>1, <4>2
    <3>3. CASE q # conn[s].pool /\ \E t \in Sessions : Holds(t) /\ conn[t].pool = q
      <4>1. PICK t \in Sessions : Holds(t) /\ conn[t].pool = q
        BY <3>3
      <4>2. QED
        BY <1>5, <3>3, <4>1
    <3>4. QED
      BY <1>1, <2>1, <3>1, <3>2, <3>3 DEF PoolsInv
  <2>2. ASSUME NEW t \in Sessions, Holds(t)'
        PROVE  /\ conn'[t].pool \in PoolIds /\ pools'[conn'[t].pool] = {Source(t)'}
               /\ \A d \in Sources : cached'[d] # conn'[t].pool
    <3>1. t # s /\ Holds(t) /\ conn'[t].pool = conn[t].pool
      BY <1>4, <1>5, <2>2
    <3>2. /\ conn[t].pool \in PoolIds /\ pools[conn[t].pool] = {Source(t)}
          /\ \A d \in Sources : cached[d] # conn[t].pool
      BY <3>1 DEF PoolsInv
    <3>3. conn[t].pool # conn[s].pool
      BY <1>1, <3>1 DEF PoolsInv
    <3>4. QED
      BY <1>1, <1>3, <1>7, <3>1, <3>2, <3>3
  <2>3. ASSUME NEW t \in Sessions, NEW u \in Sessions, Holds(t)', Holds(u)', conn'[t].pool = conn'[u].pool
        PROVE  t = u
    <3>1. t # s /\ Holds(t) /\ u # s /\ Holds(u)
      BY <1>4, <1>5, <2>3
    <3>2. QED
      BY <1>5, <2>3, <3>1 DEF PoolsInv
  <2>4. ASSUME NEW d \in Sources, cached'[d] # NoPool
        PROVE  pools'[cached'[d]] = {d}
    <3>1. CASE d = Source(s)
      BY <1>1, <1>7, <1>8, <3>1
    <3>2. CASE d # Source(s)
      BY <1>1, <1>7, <2>4, <3>2 DEF PoolsInv
    <3>3. QED
      BY <3>1, <3>2
  <2>5. ASSUME NEW t \in Sessions, Uses(t)'
        PROVE  conn'[t].pool = cached'[Source(t)'] /\ conn'[t].pool # NoPool
    <3>1. CASE t = s
      BY <1>2, <1>3, <1>7, <1>9, <3>1
    <3>2. CASE t # s
      <4>1. Uses(t) /\ conn'[t].pool = conn[t].pool
        BY <1>5, <2>5, <3>2
      <4>2. conn[t].pool = cached[Source(t)] /\ conn[t].pool # NoPool
        BY <4>1 DEF PoolsInv
      <4>3. Source(t) \in Sources
        BY <4>1, SourceType DEF Uses
      <4>4. QED
        BY <1>1, <1>3, <1>7, <4>1, <4>2, <4>3
    <3>3. QED
      BY <3>1, <3>2
  <2>6. QED
    BY <2>1, <2>2, <2>3, <2>4, <2>5 DEF PoolsInv

(* Somebody was first: its own is closed, and it uses the other's.         *)
LEMMA DropPoolPools ==
  ASSUME Types, OneCredential, PoolsInv, NEW s \in Sessions, DropPool(s)
  PROVE  PoolsInv'
<1>0. /\ conn' = [conn EXCEPT ![s].pc = "running", ![s].pool = cached[Source(s)]]
      /\ pools' = [pools EXCEPT ![conn[s].pool] = {}]
  BY DEF DropPool
<1>1. cached' = cached /\ Holds(s) /\ cached[Source(s)] # NoPool
  BY DEF DropPool, Holds, LostRace
<1>2. /\ Frame(s) /\ conn'[s].pc = "running" /\ conn'[s].pool = cached[Source(s)]
      /\ conn'[s].cred = conn[s].cred
  BY <1>0 DEF Types, Conn, Frame
<1>3. \A t \in Sessions : Source(t)' = Source(t)
  BY <1>2, SourceSame DEF Frame
<1>4. ~Holds(s)' /\ Uses(s)'
  BY <1>2 DEF Holds, Uses
<1>5. ASSUME NEW t \in Sessions, t # s
      PROVE  /\ Holds(t)' <=> Holds(t)
             /\ Uses(t)' <=> Uses(t)
             /\ conn'[t].pool = conn[t].pool
  BY <1>2, <1>5 DEF Frame, Holds, Uses
<1>6. /\ conn[s].pool \in PoolIds
      /\ \A d \in Sources : cached[d] # conn[s].pool
  BY <1>1 DEF PoolsInv
<1>7. /\ pools'[conn[s].pool] = {}
      /\ \A q \in PoolIds \ {conn[s].pool} : pools'[q] = pools[q]
  BY <1>0, <1>6 DEF Types
<1>8. ASSUME NEW d \in Sources PROVE cached[d] \in PoolIds \cup {NoPool}
  BY DEF Types
<1>9. QED
  <2>1. ASSUME NEW q \in PoolIds, pools'[q] # {}
        PROVE  (\E d \in Sources : cached'[d] = q) \/ (\E t \in Sessions : Holds(t)' /\ conn'[t].pool = q)
    <3>1. q # conn[s].pool /\ pools[q] # {}
      BY <1>7, <2>1
    <3>2. CASE \E d \in Sources : cached[d] = q
      BY <1>1, <3>2
    <3>3. CASE \E t \in Sessions : Holds(t) /\ conn[t].pool = q
      <4>1. PICK t \in Sessions : Holds(t) /\ conn[t].pool = q
        BY <3>3
      <4>2. QED
        BY <1>5, <3>1, <4>1
    <3>4. QED
      BY <3>1, <3>2, <3>3 DEF PoolsInv
  <2>2. ASSUME NEW t \in Sessions, Holds(t)'
        PROVE  /\ conn'[t].pool \in PoolIds /\ pools'[conn'[t].pool] = {Source(t)'}
               /\ \A d \in Sources : cached'[d] # conn'[t].pool
    <3>1. t # s /\ Holds(t) /\ conn'[t].pool = conn[t].pool
      BY <1>4, <1>5, <2>2
    <3>2. /\ conn[t].pool \in PoolIds /\ pools[conn[t].pool] = {Source(t)}
          /\ \A d \in Sources : cached[d] # conn[t].pool
      BY <3>1 DEF PoolsInv
    <3>3. conn[t].pool # conn[s].pool
      BY <1>1, <3>1 DEF PoolsInv
    <3>4. QED
      BY <1>1, <1>3, <1>7, <3>1, <3>2, <3>3
  <2>3. ASSUME NEW t \in Sessions, NEW u \in Sessions, Holds(t)', Holds(u)', conn'[t].pool = conn'[u].pool
        PROVE  t = u
    <3>1. t # s /\ Holds(t) /\ u # s /\ Holds(u)
      BY <1>4, <1>5, <2>3
    <3>2. QED
      BY <1>5, <2>3, <3>1 DEF PoolsInv
  <2>4. ASSUME NEW d \in Sources, cached'[d] # NoPool
        PROVE  pools'[cached'[d]] = {d}
    <3>1. cached[d] \in PoolIds \ {conn[s].pool} /\ pools[cached[d]] = {d}
      BY <1>1, <1>6, <1>8, <2>4 DEF PoolsInv
    <3>2. QED
      BY <1>1, <1>7, <3>1
  <2>5. ASSUME NEW t \in Sessions, Uses(t)'
        PROVE  conn'[t].pool = cached'[Source(t)'] /\ conn'[t].pool # NoPool
    <3>1. CASE t = s
      BY <1>1, <1>2, <1>3, <3>1
    <3>2. CASE t # s
      BY <1>1, <1>3, <1>5, <2>5, <3>2 DEF PoolsInv
    <3>3. QED
      BY <3>1, <3>2
  <2>6. QED
    BY <2>1, <2>2, <2>3, <2>4, <2>5 DEF PoolsInv

LEMMA PoolsStep == Types /\ OneCredential /\ PoolsInv /\ [Next]_vars => PoolsInv'
<1> SUFFICES ASSUME Types, OneCredential, PoolsInv, [Next]_vars PROVE PoolsInv'
  OBVIOUS
<1>1. ASSUME NEW c \in Creds, Administer(c) PROVE PoolsInv'
  <2>1. PICK new \in Cred : Credential(c, new)
    BY <1>1, AdministerIsCredential
  <2>2. UNCHANGED <<pools, cached>>
    BY <2>1 DEF Credential
  <2>3. Quiet
    BY <2>1, <2>2, CredentialFacts DEF Quiet, Holds, Uses
  <2>4. QED
    BY <2>3, QuietPools
<1>2. ASSUME NEW s \in Sessions, Client(s) PROVE PoolsInv'
  <2>0. UNCHANGED <<pools, cached>>
    BY <1>2 DEF Client, Connect, Send, Leave
  <2>1. ASSUME NEW c \in Creds, NEW secret, Connect(s, c, secret) PROVE Quiet
    BY <2>0, <2>1, ConnectFacts, QuietStep DEF Connect, Holds
  <2>2. ASSUME NEW kind, Send(s, kind) PROVE Quiet
    BY <2>0, <2>2, SendFacts DEF Quiet, GoesOn, Frame, Holds, Uses
  <2>3. CASE Leave(s)
    <3>1. Closed.pc = "closed"
      BY DEF Closed
    <3>2. \A t \in Sessions : \/ t = s /\ conn[t].pc = "idle" /\ conn'[t].pc = "closed"
                              \/ /\ conn'[t].pc = conn[t].pc /\ conn'[t].pool = conn[t].pool
                                 /\ conn'[t].cred = conn[t].cred
      BY <2>3, <3>1, LeaveFacts DEF GoesOn, Frame
    <3>3. Quiet
      BY <2>0, <3>2 DEF Quiet, Holds, Uses
    <3>4. QED
      BY <3>3, QuietPools
  <2>4. QED
    BY <1>2, <2>1, <2>2, <2>3, QuietPools DEF Client
<1>3. ASSUME NEW s \in Sessions, Gateway(s) PROVE PoolsInv'
  BY <1>3, GatewayQuiet, QuietPools, GetCachedPools, OpenPoolPools, KeepPoolPools, DropPoolPools
     DEF Gateway
<1>4. ASSUME NEW r \in sending, Audit(r) \/ AuditFails(r) PROVE PoolsInv'
  <2>1. Quiet
    BY <1>4 DEF Audit, AuditFails, Quiet, Holds, Uses
  <2>2. QED
    BY <2>1, QuietPools
<1>5. CASE GatewayExits
  BY <1>5 DEF PoolsInv, GatewayExits, Closed, Holds, Uses
<1>6. CASE UNCHANGED vars
  <2>1. Quiet
    BY <1>6 DEF vars, Quiet, Holds, Uses
  <2>2. QED
    BY <2>1, QuietPools
<1>7. QED
  BY <1>1, <1>2, <1>3, <1>4, <1>5, <1>6 DEF Next

(* No pool is forgotten, and a query uses an open pool of its own source.  *)
THEOREM PoolsAreAccounted == Spec => []PoolsAccounted
<1> DEFINE Inv == Types /\ OneCredential /\ PoolsInv
<1>1. Init => Inv
  BY InitTypes, InitPools
<1>2. Inv /\ [Next]_vars => Inv'
  BY StepTypes, OneCredentialStep, PoolsStep
<1>3. Inv => PoolsAccounted
  <2> SUFFICES ASSUME Inv PROVE PoolsAccounted
    OBVIOUS
  <2>1. ASSUME NEW p \in PoolIds, Open(p)
        PROVE  \/ \E d \in Sources : cached[d] = p /\ pools[p] = {d}
               \/ \E s \in Sessions : conn[s].pc = "opened" /\ conn[s].pool = p
    BY <2>1 DEF PoolsInv, Open, Holds
  <2>2. ASSUME NEW s \in Sessions, conn[s].pc \in {"running", "streaming"}
        PROVE  /\ Open(conn[s].pool) /\ pools[conn[s].pool] = {Source(s)}
               /\ conn[s].pool = cached[Source(s)]
    <3>1. Source(s) \in Sources
      BY <2>2, SourceType
    <3>2. QED
      BY <2>2, <3>1 DEF PoolsInv, Open, Uses
  <2>3. QED
    BY <2>1, <2>2 DEF PoolsAccounted
<1>4. QED
  BY <1>1, <1>2, <1>3, PTL DEF Spec

-----------------------------------------------------------------------------
(* The trail                                                               *)

Above(q, n) == \A i \in 1 .. Len(q) : n < q[i].n
UpTo(q, m) == \A i \in 1 .. Len(q) : q[i].n <= m
Sorted(q) == \A i, j \in 1 .. Len(q) : i < j => q[i].n < q[j].n

LEMMA TailFacts ==
  ASSUME NEW q \in Seq(Message), q # <<>>, NEW m \in Nat, Sorted(q), UpTo(q, m)
  PROVE  /\ Sorted(Tail(q)) /\ UpTo(Tail(q), m)
         /\ Head(q).n \in Nat /\ Head(q).n <= m /\ Above(Tail(q), Head(q).n)
         /\ \A n \in Nat : Above(q, n) => Above(Tail(q), n) /\ n < Head(q).n
<1>1. Len(q) \in Nat /\ Len(q) > 0 /\ Head(q) = q[1]
  BY EmptySeq, LenProperties, HeadTailProperties
<1>2. Len(Tail(q)) = Len(q) - 1 /\ \A i \in 1 .. Len(q) - 1 : Tail(q)[i] = q[i + 1]
  BY HeadTailProperties
<1>3. \A i \in 1 .. Len(q) : q[i] \in Message /\ q[i].n \in Nat
  <2>1. \A i \in 1 .. Len(q) : q[i] \in Message
    BY ElementOfSeq
  <2>2. QED
    BY <2>1 DEF Message
<1>4. Sorted(Tail(q)) /\ UpTo(Tail(q), m)
  BY <1>1, <1>2 DEF Sorted, UpTo
<1>5. Above(Tail(q), Head(q).n)
  BY <1>1, <1>2 DEF Sorted, Above
<1>6. \A n \in Nat : Above(q, n) => Above(Tail(q), n) /\ n < Head(q).n
  BY <1>1, <1>2 DEF Above
<1>7. QED
  BY <1>1, <1>3, <1>4, <1>5, <1>6 DEF UpTo

LEMMA AppendFacts ==
  ASSUME NEW q \in Seq(Message), NEW m \in Nat, Sorted(q), UpTo(q, m),
         NEW x \in Message, x.n = m + 1
  PROVE  /\ Sorted(Append(q, x)) /\ UpTo(Append(q, x), m + 1)
         /\ \A n \in Nat : n <= m /\ Above(q, n) => Above(Append(q, x), n)
<1>1. /\ Len(q) \in Nat /\ Len(Append(q, x)) = Len(q) + 1
      /\ Append(q, x)[Len(q) + 1] = x
      /\ \A i \in 1 .. Len(q) : Append(q, x)[i] = q[i]
  BY LenProperties, AppendProperties
<1>2. \A i \in 1 .. Len(q) : q[i].n \in Nat
  <2>1. \A i \in 1 .. Len(q) : q[i] \in Message
    BY ElementOfSeq
  <2>2. QED
    BY <2>1 DEF Message
<1>3. \A i \in 1 .. Len(q) + 1 : i \in 1 .. Len(q) \/ i = Len(q) + 1
  BY <1>1
<1>4. UpTo(Append(q, x), m + 1)
  BY <1>1, <1>2, <1>3 DEF UpTo
<1>5. Sorted(Append(q, x))
  <2> SUFFICES ASSUME NEW i \in 1 .. Len(q) + 1, NEW j \in 1 .. Len(q) + 1, i < j
               PROVE  Append(q, x)[i].n < Append(q, x)[j].n
    BY <1>1 DEF Sorted
  <2>1. i \in 1 .. Len(q) /\ Append(q, x)[i] = q[i]
    BY <1>1
  <2>2. CASE j \in 1 .. Len(q)
    BY <1>1, <2>1, <2>2 DEF Sorted
  <2>3. CASE j = Len(q) + 1
    BY <1>1, <1>2, <2>1, <2>3 DEF UpTo
  <2>4. QED
    BY <1>3, <2>2, <2>3
<1>6. \A n \in Nat : n <= m /\ Above(q, n) => Above(Append(q, x), n)
  BY <1>1, <1>3 DEF Above
<1>7. QED
  BY <1>4, <1>5, <1>6

Works(s) == conn[s].pc \in Working
Reports == sending \cup trail
Ran(s, n) == <<s, n>> \in ran
Told(s, n) == \E r \in Reports : r.query = <<s, n>>

(* The number of a message that has been received: none that waits has it, *)
(* or a lower one.                                                         *)
Past(s, n) == n <= sent[s] /\ Above(inbox[s], n)

(* The messages of a connection are numbered in the order it receives      *)
(* them; the query it works on is the last one, and has been executed only *)
(* if its rows are being streamed, and not been reported yet.              *)
Numbered ==
  \A s \in Sessions :
    /\ Sorted(inbox[s]) /\ UpTo(inbox[s], sent[s])
    /\ Works(s) => Past(s, conn[s].query)
    /\ \A n \in Nat : Ran(s, n) \/ Told(s, n) => Past(s, n)
    /\ \A n \in Nat : Works(s) /\ Told(s, n) => n < conn[s].query
    /\ \A n \in Nat : Works(s) /\ Ran(s, n) =>
                        n < conn[s].query \/ (conn[s].pc = "streaming" /\ n = conn[s].query)
    /\ conn[s].pc = "streaming" => Ran(s, conn[s].query)

Truthful ==
  /\ \A r \in Reports : r.action = "gateway_query" <=> r.query \in ran
  /\ \A r, q \in Reports : r.query = q.query => r = q

TrailInv == Numbered /\ Truthful

LEMMA InitTrail == Init => TrailInv
<1> SUFFICES ASSUME Init PROVE TrailInv
  OBVIOUS
<1>1. \A s \in Sessions : inbox[s] = <<>> /\ conn[s].pc = "closed"
  BY DEF Init, Closed
<1>2. ran = {} /\ Reports = {}
  BY DEF Init, Reports
<1>3. \A m : Sorted(<<>>) /\ UpTo(<<>>, m)
  BY DEF Sorted, UpTo
<1>4. QED
  BY <1>1, <1>2, <1>3 DEF TrailInv, Numbered, Truthful, Works, Working, Ran, Told

(* What the connections have received and run stays; messages may be       *)
(* received or dropped, connections may end, and reports be lost.          *)
Calm ==
  /\ ran' = ran /\ Reports' \subseteq Reports /\ sent' = sent
  /\ \A t \in Sessions :
       /\ \/ inbox'[t] = inbox[t] \/ inbox'[t] = <<>>
          \/ inbox[t] # <<>> /\ inbox'[t] = Tail(inbox[t])
       /\ Works(t)' => Works(t) /\ conn'[t].query = conn[t].query
       /\ conn'[t].pc = "streaming" <=> conn[t].pc = "streaming" /\ Works(t)'

LEMMA CalmTrail == Types /\ TrailInv /\ Calm => TrailInv'
<1> SUFFICES ASSUME Types, TrailInv, Calm PROVE TrailInv'
  OBVIOUS
<1>1. Truthful'
  BY DEF TrailInv, Truthful, Calm
<1>2. ASSUME NEW s \in Sessions, NEW n \in Nat
      PROVE  /\ Ran(s, n)' <=> Ran(s, n)
             /\ Told(s, n)' => Told(s, n)
  BY DEF Calm, Ran, Told
<1>3. ASSUME NEW s \in Sessions
      PROVE  /\ Sorted(inbox'[s]) /\ UpTo(inbox'[s], sent'[s])
             /\ \A n \in Nat : Past(s, n) => Past(s, n)'
  <2>1. Sorted(inbox[s]) /\ UpTo(inbox[s], sent[s])
    BY DEF TrailInv, Numbered
  <2>2. inbox[s] \in Seq(Message) /\ sent[s] \in Nat /\ sent' = sent
    BY DEF Types, Calm
  <2>3. CASE inbox'[s] = inbox[s]
    BY <2>1, <2>2, <2>3 DEF Past
  <2>4. CASE inbox'[s] = <<>>
    BY <2>2, <2>4 DEF Past, Sorted, UpTo, Above
  <2>5. CASE inbox[s] # <<>> /\ inbox'[s] = Tail(inbox[s])
    BY <2>1, <2>2, <2>5, TailFacts DEF Past
  <2>6. QED
    BY <2>3, <2>4, <2>5 DEF Calm
<1>4. ASSUME NEW s \in Sessions
      PROVE  /\ Works(s)' => Works(s) /\ conn'[s].query = conn[s].query /\ conn[s].query \in Nat
             /\ conn'[s].pc = "streaming" <=> conn[s].pc = "streaming" /\ Works(s)'
  BY DEF Calm, Types, Conn
<1>5. Numbered'
  <2> SUFFICES ASSUME NEW s \in Sessions
      PROVE  /\ Sorted(inbox'[s]) /\ UpTo(inbox'[s], sent'[s])
             /\ Works(s)' => Past(s, conn[s].query)'
             /\ \A n \in Nat : Ran(s, n)' \/ Told(s, n)' => Past(s, n)'
             /\ \A n \in Nat : Works(s)' /\ Told(s, n)' => n < conn'[s].query
             /\ \A n \in Nat : Works(s)' /\ Ran(s, n)' =>
                  n < conn'[s].query \/ (conn'[s].pc = "streaming" /\ n = conn'[s].query)
             /\ conn'[s].pc = "streaming" => Ran(s, conn[s].query)'
    BY DEF Numbered
  <2>1. Works(s)' => Past(s, conn[s].query)'
    <3>1. ASSUME Works(s)' PROVE Past(s, conn[s].query)'
      <4>1. PICK n \in Nat : n = conn[s].query /\ n = conn'[s].query
        BY <1>4, <3>1
      <4>2. Past(s, n)'
        BY <1>3, <1>4, <3>1, <4>1 DEF TrailInv, Numbered
      <4>3. QED
        BY <4>1, <4>2 DEF Past
    <3>2. QED
      BY <3>1
  <2>2. \A n \in Nat : Ran(s, n)' \/ Told(s, n)' => Past(s, n)'
    BY <1>2, <1>3 DEF TrailInv, Numbered
  <2>3. \A n \in Nat : Works(s)' /\ Told(s, n)' => n < conn'[s].query
    BY <1>2, <1>4 DEF TrailInv, Numbered
  <2>4. \A n \in Nat : Works(s)' /\ Ran(s, n)' =>
          n < conn'[s].query \/ (conn'[s].pc = "streaming" /\ n = conn'[s].query)
    BY <1>2, <1>4 DEF TrailInv, Numbered
  <2>5. conn'[s].pc = "streaming" => Ran(s, conn[s].query)'
    <3>1. ASSUME conn'[s].pc = "streaming" PROVE <<s, conn'[s].query>> \in ran'
      BY <1>4, <3>1 DEF TrailInv, Numbered, Ran, Calm
    <3>2. QED
      BY <3>1 DEF Ran
  <2>6. QED
    BY <1>3, <2>1, <2>2, <2>3, <2>4, <2>5
<1>6. QED
  BY <1>1, <1>5 DEF TrailInv

(* A client sends a message: it has the highest number so far.             *)
LEMMA SendTrail ==
  ASSUME Types, TrailInv, NEW s \in Sessions, NEW kind \in Kinds[s], Send(s, kind)
  PROVE  TrailInv'
<1> DEFINE x == [kind |-> kind, n |-> sent[s] + 1]
<1>0. /\ inbox[s] \in Seq(Message) /\ sent[s] \in Nat /\ x \in Message /\ x.n = sent[s] + 1
      /\ Sorted(inbox[s]) /\ UpTo(inbox[s], sent[s])
  BY SentType DEF Types, TrailInv, Numbered
<1>1. /\ inbox'[s] = Append(inbox[s], x) /\ sent'[s] = sent[s] + 1
      /\ \A t \in Sessions \ {s} : inbox'[t] = inbox[t] /\ sent'[t] = sent[t]
      /\ ran' = ran /\ sending' = sending /\ trail' = trail
  BY DEF Types, Send
<1>2. ASSUME NEW t \in Sessions
      PROVE  /\ conn'[t].pc = conn[t].pc /\ conn'[t].query = conn[t].query /\ conn[t].query \in Nat
             /\ Works(t)' <=> Works(t)
  BY SendFacts DEF GoesOn, Frame, Works, Types, Conn
<1>3. ASSUME NEW t \in Sessions
      PROVE  /\ Sorted(inbox'[t]) /\ UpTo(inbox'[t], sent'[t])
             /\ \A n \in Nat : Past(t, n) => n <= sent'[t] /\ Above(inbox'[t], n)
  <2> HIDE DEF x
  <2>1. CASE t = s
    <3>1. /\ Sorted(Append(inbox[s], x)) /\ UpTo(Append(inbox[s], x), sent[s] + 1)
          /\ \A n \in Nat : n <= sent[s] /\ Above(inbox[s], n) => Above(Append(inbox[s], x), n)
      BY <1>0, AppendFacts
    <3>2. \A n \in Nat : n <= sent[s] => n <= sent[s] + 1
      BY <1>0
    <3>3. QED
      BY <1>1, <2>1, <3>1, <3>2 DEF Past
  <2>2. CASE t # s
    BY <1>1, <2>2 DEF Past, TrailInv, Numbered
  <2>3. QED
    BY <2>1, <2>2
<1>4. Truthful'
  BY <1>1 DEF TrailInv, Truthful, Reports
<1>5. ASSUME NEW t \in Sessions, NEW n \in Nat
      PROVE  (Ran(t, n)' <=> Ran(t, n)) /\ (Told(t, n)' <=> Told(t, n))
  BY <1>1 DEF Ran, Told, Reports
<1>6. Numbered'
  <2> SUFFICES ASSUME NEW t \in Sessions
      PROVE  /\ Sorted(inbox'[t]) /\ UpTo(inbox'[t], sent'[t])
             /\ Works(t)' => conn'[t].query <= sent'[t] /\ Above(inbox'[t], conn'[t].query)
             /\ \A n \in Nat : Ran(t, n)' \/ Told(t, n)' => n <= sent'[t] /\ Above(inbox'[t], n)
             /\ \A n \in Nat : Works(t)' /\ Told(t, n)' => n < conn'[t].query
             /\ \A n \in Nat : Works(t)' /\ Ran(t, n)' =>
                  n < conn'[t].query \/ (conn'[t].pc = "streaming" /\ n = conn'[t].query)
             /\ conn'[t].pc = "streaming" => <<t, conn'[t].query>> \in ran'
    BY DEF Numbered, Past, Ran
  <2>1. /\ Works(t) => Past(t, conn[t].query)
        /\ \A n \in Nat : Ran(t, n) \/ Told(t, n) => Past(t, n)
        /\ \A n \in Nat : Works(t) /\ Told(t, n) => n < conn[t].query
        /\ \A n \in Nat : Works(t) /\ Ran(t, n) =>
             n < conn[t].query \/ (conn[t].pc = "streaming" /\ n = conn[t].query)
        /\ conn[t].pc = "streaming" => <<t, conn[t].query>> \in ran
    BY DEF TrailInv, Numbered, Ran
  <2>2. QED
    BY <1>1, <1>2, <1>3, <1>5, <2>1
<1>7. QED
  BY <1>4, <1>6 DEF TrailInv

(* The gateway takes up the query that comes first.                        *)
LEMMA HandleQueryTrail ==
  ASSUME Types, TrailInv, NEW s \in Sessions, HandleQuery(s)
  PROVE  TrailInv'
<1> DEFINE h == Head(inbox[s]).n
<1>0. /\ inbox[s] \in Seq(Message) /\ inbox[s] # <<>> /\ sent[s] \in Nat
      /\ Sorted(inbox[s]) /\ UpTo(inbox[s], sent[s])
  BY DEF Types, TrailInv, Numbered, HandleQuery, Receive
<1>1. /\ Frame(s) /\ conn'[s].pc = "preparing" /\ conn'[s].query = h
      /\ inbox'[s] = Tail(inbox[s])
      /\ \A t \in Sessions \ {s} : inbox'[t] = inbox[t]
      /\ ran' = ran /\ sending' = sending /\ trail' = trail /\ sent' = sent
  <2>1. Frame(s) /\ conn'[s].pc = "preparing" /\ conn'[s].query = h
    BY DEF Types, Conn, HandleQuery, Frame
  <2>2. QED
    BY <2>1 DEF Types, HandleQuery, Receive
<1>2. /\ Sorted(inbox'[s]) /\ UpTo(inbox'[s], sent[s])
      /\ h \in Nat /\ h <= sent[s] /\ Above(inbox'[s], h)
      /\ \A n \in Nat : Above(inbox[s], n) => Above(inbox'[s], n) /\ n < h
  BY <1>0, <1>1, TailFacts
<1> HIDE DEF h
<1>3. Truthful'
  BY <1>1 DEF TrailInv, Truthful, Reports
<1>4. ASSUME NEW t \in Sessions, NEW n \in Nat
      PROVE  (Ran(t, n)' <=> Ran(t, n)) /\ (Told(t, n)' <=> Told(t, n))
  BY <1>1 DEF Ran, Told, Reports
<1>5. Numbered'
  <2> SUFFICES ASSUME NEW t \in Sessions
      PROVE  /\ Sorted(inbox'[t]) /\ UpTo(inbox'[t], sent'[t])
             /\ Works(t)' => conn'[t].query <= sent'[t] /\ Above(inbox'[t], conn'[t].query)
             /\ \A n \in Nat : Ran(t, n)' \/ Told(t, n)' => n <= sent'[t] /\ Above(inbox'[t], n)
             /\ \A n \in Nat : Works(t)' /\ Told(t, n)' => n < conn'[t].query
             /\ \A n \in Nat : Works(t)' /\ Ran(t, n)' =>
                  n < conn'[t].query \/ (conn'[t].pc = "streaming" /\ n = conn'[t].query)
             /\ conn'[t].pc = "streaming" => <<t, conn'[t].query>> \in ran'
    BY DEF Numbered, Past, Ran
  <2>1. /\ Sorted(inbox[t]) /\ UpTo(inbox[t], sent[t])
        /\ Works(t) => conn[t].query <= sent[t] /\ Above(inbox[t], conn[t].query)
        /\ \A n \in Nat : Ran(t, n) \/ Told(t, n) => n <= sent[t] /\ Above(inbox[t], n)
        /\ \A n \in Nat : Works(t) /\ Told(t, n) => n < conn[t].query
        /\ \A n \in Nat : Works(t) /\ Ran(t, n) =>
             n < conn[t].query \/ (conn[t].pc = "streaming" /\ n = conn[t].query)
        /\ conn[t].pc = "streaming" => <<t, conn[t].query>> \in ran
    BY DEF TrailInv, Numbered, Past, Ran
  <2>2. CASE t = s
    BY <1>1, <1>2, <1>4, <2>1, <2>2
  <2>3. CASE t # s
    <3>1. conn'[t] = conn[t] /\ (Works(t)' <=> Works(t))
      BY <1>1, <2>3 DEF Frame, Works
    <3>2. QED
      BY <1>1, <1>4, <2>1, <2>3, <3>1
  <2>4. QED
    BY <2>2, <2>3
<1>6. QED
  BY <1>3, <1>5 DEF TrailInv

(* The source executes the query: nothing has been reported of it.         *)
LEMMA ExecuteTrail ==
  ASSUME Types, TrailInv, NEW s \in Sessions, Execute(s)
  PROVE  TrailInv'
<1>1. /\ Frame(s) /\ conn[s].pc = "running" /\ conn'[s].pc = "streaming"
      /\ conn'[s].query = conn[s].query /\ conn[s].query \in Nat
      /\ ran' = ran \cup {<<s, conn[s].query>>}
      /\ inbox' = inbox /\ sending' = sending /\ trail' = trail /\ sent' = sent
  BY DEF Types, Conn, Execute, Frame, Id
<1>2. Works(s)
  BY <1>1 DEF Works, Working
<1>3. \A r \in Reports : r.query # <<s, conn[s].query>>
  <2> SUFFICES ASSUME Told(s, conn[s].query) PROVE FALSE
    BY DEF Told
  <2>1. conn[s].query < conn[s].query
    BY <1>1, <1>2 DEF TrailInv, Numbered
  <2>2. QED
    BY <1>1, <2>1
<1>4. Truthful'
  BY <1>1, <1>3 DEF TrailInv, Truthful, Reports
<1>5. ASSUME NEW t \in Sessions, NEW n \in Nat
      PROVE  /\ Ran(t, n)' <=> Ran(t, n) \/ (t = s /\ n = conn[s].query)
             /\ Told(t, n)' <=> Told(t, n)
  BY <1>1 DEF Ran, Told, Reports
<1>6. Numbered'
  <2> SUFFICES ASSUME NEW t \in Sessions
      PROVE  /\ Sorted(inbox'[t]) /\ UpTo(inbox'[t], sent'[t])
             /\ Works(t)' => conn'[t].query <= sent'[t] /\ Above(inbox'[t], conn'[t].query)
             /\ \A n \in Nat : Ran(t, n)' \/ Told(t, n)' => n <= sent'[t] /\ Above(inbox'[t], n)
             /\ \A n \in Nat : Works(t)' /\ Told(t, n)' => n < conn'[t].query
             /\ \A n \in Nat : Works(t)' /\ Ran(t, n)' =>
                  n < conn'[t].query \/ (conn'[t].pc = "streaming" /\ n = conn'[t].query)
             /\ conn'[t].pc = "streaming" => <<t, conn'[t].query>> \in ran'
    BY DEF Numbered, Past, Ran
  <2>1. /\ Sorted(inbox[t]) /\ UpTo(inbox[t], sent[t])
        /\ Works(t) => conn[t].query <= sent[t] /\ Above(inbox[t], conn[t].query)
        /\ \A n \in Nat : Ran(t, n) \/ Told(t, n) => n <= sent[t] /\ Above(inbox[t], n)
        /\ \A n \in Nat : Works(t) /\ Told(t, n) => n < conn[t].query
        /\ \A n \in Nat : Works(t) /\ Ran(t, n) =>
             n < conn[t].query \/ (conn[t].pc = "streaming" /\ n = conn[t].query)
        /\ conn[t].pc = "streaming" => <<t, conn[t].query>> \in ran
    BY DEF TrailInv, Numbered, Past, Ran
  <2>2. CASE t = s
    BY <1>1, <1>2, <1>5, <2>1, <2>2
  <2>3. CASE t # s
    <3>1. conn'[t] = conn[t] /\ (Works(t)' <=> Works(t))
      BY <1>1, <2>3 DEF Frame, Works
    <3>2. QED
      BY <1>1, <1>5, <2>1, <2>3, <3>1
  <2>4. QED
    BY <2>2, <2>3
<1>7. QED
  BY <1>4, <1>6 DEF TrailInv

(* The gateway reports on the query it works on, and is done with it: as   *)
(* run, if its rows were being streamed, as blocked before that.           *)
LEMMA ReportTrail ==
  ASSUME Types, TrailInv, NEW s \in Sessions, NEW action, Fail(s), Works(s),
         sending' = sending \cup {Report(s, action)},
         action = "gateway_query" <=> conn[s].pc = "streaming"
  PROVE  TrailInv'
<1> DEFINE m == conn[s].query
           new == Report(s, action)
<1>1. /\ ran' = ran /\ trail' = trail /\ inbox' = inbox /\ sent' = sent
      /\ Reports' = Reports \cup {new} /\ new.query = <<s, m>> /\ new.action = action /\ m \in Nat
  BY DEF Fail, Reports, Report, Id, Types, Conn
<1>2. Frame(s) /\ ~Works(s)' /\ conn'[s].pc # "streaming"
  <2>1. Answered(s)
    BY FailShape
  <2>2. Closed.pc = "closed"
    BY DEF Closed
  <2>3. conn'[s].pc \in {"idle", "closed"}
    BY <2>1, <2>2, ReadyFacts DEF Answered
  <2>4. QED
    BY <2>1, <2>3 DEF Answered, Works, Working
<1>3. /\ Past(s, m) /\ ~Told(s, m) /\ (conn[s].pc = "streaming" <=> Ran(s, m))
  BY <1>1 DEF TrailInv, Numbered
<1> HIDE DEF m, new
<1>4. Truthful'
  BY <1>1, <1>3 DEF TrailInv, Truthful, Told, Ran
<1>5. ASSUME NEW t \in Sessions, NEW n \in Nat
      PROVE  /\ Ran(t, n)' <=> Ran(t, n)
             /\ Told(t, n)' => Told(t, n) \/ (t = s /\ n = m)
  BY <1>1 DEF Ran, Told
<1>6. Numbered'
  <2> SUFFICES ASSUME NEW t \in Sessions
      PROVE  /\ Sorted(inbox'[t]) /\ UpTo(inbox'[t], sent'[t])
             /\ Works(t)' => conn'[t].query <= sent'[t] /\ Above(inbox'[t], conn'[t].query)
             /\ \A n \in Nat : Ran(t, n)' \/ Told(t, n)' => n <= sent'[t] /\ Above(inbox'[t], n)
             /\ \A n \in Nat : Works(t)' /\ Told(t, n)' => n < conn'[t].query
             /\ \A n \in Nat : Works(t)' /\ Ran(t, n)' =>
                  n < conn'[t].query \/ (conn'[t].pc = "streaming" /\ n = conn'[t].query)
             /\ conn'[t].pc = "streaming" => <<t, conn'[t].query>> \in ran'
    BY DEF Numbered, Past, Ran
  <2>1. /\ Sorted(inbox[t]) /\ UpTo(inbox[t], sent[t])
        /\ Works(t) => conn[t].query <= sent[t] /\ Above(inbox[t], conn[t].query)
        /\ \A n \in Nat : Ran(t, n) \/ Told(t, n) => n <= sent[t] /\ Above(inbox[t], n)
        /\ \A n \in Nat : Works(t) /\ Told(t, n) => n < conn[t].query
        /\ \A n \in Nat : Works(t) /\ Ran(t, n) =>
             n < conn[t].query \/ (conn[t].pc = "streaming" /\ n = conn[t].query)
        /\ conn[t].pc = "streaming" => <<t, conn[t].query>> \in ran
    BY DEF TrailInv, Numbered, Past, Ran
  <2>2. CASE t = s
    BY <1>1, <1>2, <1>3, <1>5, <2>1, <2>2 DEF Past
  <2>3. CASE t # s
    <3>1. conn'[t] = conn[t] /\ (Works(t)' <=> Works(t))
      BY <1>2, <2>3 DEF Frame, Works
    <3>2. QED
      BY <1>1, <1>5, <2>1, <2>3, <3>1
  <2>4. QED
    BY <2>2, <2>3
<1>7. QED
  BY <1>4, <1>6 DEF TrailInv

(* The steps that leave it all as it is.                                   *)
LEMMA GatewayCalm ==
  ASSUME Types, OneCredential, NEW s \in Sessions, Gateway(s),
         ~HandleQuery(s), ~Execute(s), sending' = sending
  PROVE  Calm
<1>1. /\ ran' = ran /\ Reports' = Reports /\ sent' = sent
  BY DEF Gateway, HandleSync, HandleExtended, HandleOther, RefuseStatements,
         PrepareAllows, PrepareDenies, PrepareFails, GetCached, GetMisses, OpenFails,
         OpenPool, KeepPool, DropPool, QueryFails, Finish, Fail, Reports
<1>2. \A t \in Sessions : \/ inbox'[t] = inbox[t]
                          \/ inbox[t] # <<>> /\ inbox'[t] = Tail(inbox[t])
  BY DEF Gateway, HandleSync, HandleExtended, HandleOther, RefuseStatements, Receive, Types,
         PrepareAllows, PrepareDenies, PrepareFails, GetCached, GetMisses, OpenFails,
         OpenPool, KeepPool, DropPool, QueryFails, Finish, Fail
<1>3. \/ conn' = conn
      \/ Frame(s) /\ conn'[s].pc \in {"idle", "closed"}
      \/ Frame(s) /\ {conn[s].pc, conn'[s].pc} \subseteq Working \ {"streaming"}
         /\ conn'[s].query = conn[s].query
  <2>0. Closed.pc = "closed"
    BY DEF Closed
  <2>1. CASE Answered(s)
    BY <2>0, <2>1, ReadyFacts DEF Answered
  <2>2. CASE HandleExtended(s)
    BY <2>2, ExtendedShape DEF GoesOn
  <2>3. CASE PrepareAllows(s) \/ GetMisses(s) \/ KeepPool(s)
    BY <2>3 DEF PrepareAllows, GetMisses, KeepPool, Types, Conn, Working, Frame
  <2>4. CASE GetCached(s) \/ (\E p \in PoolIds : OpenPool(s, p)) \/ DropPool(s)
    BY <2>4 DEF GetCached, OpenPool, DropPool, Types, Conn, Working, Frame
  <2>5. QED
    BY <2>1, <2>2, <2>3, <2>4, HandleShape, FailShape
       DEF Gateway, PrepareDenies, PrepareFails, OpenFails, QueryFails, Finish
<1>4. ASSUME NEW t \in Sessions
      PROVE  /\ Works(t)' => Works(t) /\ conn'[t].query = conn[t].query
             /\ conn'[t].pc = "streaming" <=> conn[t].pc = "streaming" /\ Works(t)'
  <2>1. CASE conn'[t] = conn[t]
    BY <2>1 DEF Works, Working
  <2>2. CASE conn'[t].pc \in {"idle", "closed"}
    BY <2>2 DEF Works, Working
  <2>3. CASE /\ {conn[t].pc, conn'[t].pc} \subseteq Working \ {"streaming"}
             /\ conn'[t].query = conn[t].query
    BY <2>3 DEF Works
  <2>4. QED
    BY <1>3, <2>1, <2>2, <2>3 DEF Frame
<1>5. QED
  BY <1>1, <1>2, <1>4 DEF Calm

LEMMA GatewayTrail ==
  ASSUME Types, OneCredential, TrailInv, NEW s \in Sessions, Gateway(s)
  PROVE  TrailInv'
<1>1. CASE PrepareDenies(s)
  <2>1. Fail(s) /\ Works(s) /\ conn[s].pc # "streaming"
        /\ sending' = sending \cup {Report(s, "gateway_query_blocked")}
    BY <1>1 DEF PrepareDenies, Works, Working
  <2>2. QED
    BY <2>1, ReportTrail
<1>2. CASE Finish(s) /\ sending' # sending
  <2>1. Fail(s) /\ Works(s) /\ conn[s].pc = "streaming"
        /\ sending' = sending \cup {Report(s, "gateway_query")}
    BY <1>2 DEF Finish, Works, Working
  <2>2. QED
    BY <2>1, ReportTrail
<1>3. CASE ~PrepareDenies(s) /\ ~(Finish(s) /\ sending' # sending)
  <2>1. sending' = sending
    BY <1>3 DEF Gateway, HandleSync, HandleExtended, HandleOther, RefuseStatements, HandleQuery,
                PrepareAllows, PrepareFails, GetCached, GetMisses, OpenFails,
                OpenPool, KeepPool, DropPool, Execute, QueryFails
  <2>2. QED
    BY <2>1, GatewayCalm, CalmTrail, HandleQueryTrail, ExecuteTrail
<1>4. QED
  BY <1>1, <1>2, <1>3

LEMMA TrailStep == Types /\ OneCredential /\ TrailInv /\ [Next]_vars => TrailInv'
<1> SUFFICES ASSUME Types, OneCredential, TrailInv, [Next]_vars PROVE TrailInv'
  OBVIOUS
<1>1. ASSUME NEW c \in Creds, Administer(c) PROVE TrailInv'
  <2>1. PICK new \in Cred : Credential(c, new)
    BY <1>1, AdministerIsCredential
  <2>2. Calm
    BY <2>1, CredentialFacts DEF Credential, Calm, Reports, Works, Working
  <2>3. QED
    BY <2>2, CalmTrail
<1>2. ASSUME NEW s \in Sessions, Client(s) PROVE TrailInv'
  <2>1. ASSUME NEW c \in Creds, NEW secret, Connect(s, c, secret) PROVE TrailInv'
    <3>1. conn[s].pc = "closed"
      BY <2>1 DEF Connect
    <3>2. Calm
      BY <2>1, <3>1, ConnectFacts DEF Connect, Calm, Frame, Reports, Works, Working
    <3>3. QED
      BY <3>2, CalmTrail
  <2>2. CASE Leave(s)
    <3>1. Closed.pc = "closed"
      BY DEF Closed
    <3>2. \A t \in Sessions : \/ conn[t].pc = "idle" /\ conn'[t].pc = "closed"
                              \/ conn'[t].pc = conn[t].pc /\ conn'[t].query = conn[t].query
      <4>1. \/ conn[s].pc = "idle" /\ conn'[s].pc = "closed"
            \/ conn'[s].pc = conn[s].pc /\ conn'[s].query = conn[s].query
        BY <2>2, <3>1, LeaveFacts DEF GoesOn
      <4>2. ASSUME NEW t \in Sessions, t # s PROVE conn'[t] = conn[t]
        BY <2>2, <4>2, LeaveFacts DEF Frame
      <4>3. QED
        BY <4>1, <4>2
    <3>3. \A t \in Sessions : inbox'[t] = inbox[t] \/ inbox'[t] = <<>>
      BY <2>2 DEF Leave, Types
    <3>4. Calm
      BY <2>2, <3>2, <3>3 DEF Leave, Calm, Reports, Works, Working
    <3>5. QED
      BY <3>4, CalmTrail
  <2>3. QED
    BY <1>2, <2>1, <2>2, SendTrail DEF Client
<1>3. ASSUME NEW r \in sending, Audit(r) \/ AuditFails(r) PROVE TrailInv'
  <2>1. Calm
    BY <1>3 DEF Audit, AuditFails, Calm, Reports, Works, Working
  <2>2. QED
    BY <2>1, CalmTrail
<1>4. CASE GatewayExits
  <2>1. Closed.pc = "closed"
    BY DEF Closed
  <2>2. \A t \in Sessions : conn'[t].pc = "closed" /\ inbox'[t] = <<>>
    BY <1>4, <2>1 DEF GatewayExits
  <2>3. Calm
    BY <1>4, <2>2 DEF GatewayExits, Calm, Reports, Works, Working
  <2>4. QED
    BY <2>3, CalmTrail
<1>5. CASE UNCHANGED vars
  <2>1. Calm
    BY <1>5 DEF vars, Calm, Reports, Works, Working
  <2>2. QED
    BY <2>1, CalmTrail
<1>6. QED
  BY <1>1, <1>2, <1>3, <1>4, <1>5, GatewayTrail DEF Next

(* A query is recorded as blocked or as run, never both, and as run only   *)
(* if the source executed it.                                              *)
THEOREM TrailIsTruthful == Spec => []TrailTruthful
<1> DEFINE Inv == Types /\ OneCredential /\ TrailInv
<1>1. Init => Inv
  BY InitTypes, InitTrail
<1>2. Inv /\ [Next]_vars => Inv'
  BY StepTypes, OneCredentialStep, TrailStep
<1>3. Inv => TrailTruthful
  BY DEF TrailInv, Truthful, Reports, TrailTruthful
<1>4. QED
  BY <1>1, <1>2, <1>3, PTL DEF Spec

-----------------------------------------------------------------------------
(* Staying in step                                                         *)

(* A Sync stands in the inbox behind place j and before place i. *)
SyncBetween(q, j, i) == \E m \in DOMAIN q : j < m /\ m < i /\ q[m].kind = "Sync"

(* What stands at place i is not received in error recovery: the recovery  *)
(* that is on, and each one that an extended query before place i begins,  *)
(* ends with a Sync before it.                                             *)
Clear(q, rec, i) ==
  /\ rec => SyncBetween(q, 0, i)
  /\ \A j \in DOMAIN q : j < i /\ q[j].kind = "Extended" => SyncBetween(q, j, i)

(* Every call that needs an answer of its own is received outside error    *)
(* recovery, and the next message is too unless the client has yet to sync.*)
Synced(k, q) ==
  /\ \A i \in DOMAIN q : q[i].kind = "Other" => Clear(q, k.inErrorRecovery, i)
  /\ ~k.batch => Clear(q, k.inErrorRecovery, Len(q) + 1)

Busy(k) == IF k.pc \in Working THEN 1 ELSE 0

(* Where a connection k with inbox q stands.                               *)
Stands(k, q) ==
  /\ k.pc = "closed" \/ k.gone => q = <<>>
  /\ k.owed \in Nat /\ k.errors \in 0 .. 1
  /\ k.pc \in Working => k.inErrorRecovery = FALSE
  /\ k.pc = "idle" => k.gone = FALSE
  /\ k.pc = "idle" => (k.errors = 1 <=> k.inErrorRecovery)
  /\ k.pc # "closed" /\ ~k.gone => k.owed = Cardinality(Asked(q)) + Busy(k)
  /\ k.pc # "closed" /\ ~k.gone => Synced(k, q)

StepInv == \A s \in Sessions : Stands(conn[s], inbox[s])

LEMMA AskedFinite ==
  ASSUME NEW q \in Seq(Message)
  PROVE  IsFiniteSet(Asked(q)) /\ Cardinality(Asked(q)) \in Nat
<1>1. DOMAIN q = 1 .. Len(q) /\ Len(q) \in Nat
  BY LenProperties
<1>2. IsFiniteSet(1 .. Len(q))
  BY <1>1, FS_Interval
<1>3. Asked(q) \in SUBSET (1 .. Len(q))
  BY <1>1 DEF Asked
<1>4. QED
  BY <1>2, <1>3, FS_Subset, FS_CardinalityType

LEMMA AskedEmpty == Asked(<<>>) = {} /\ Cardinality(Asked(<<>>)) = 0
<1>1. Asked(<<>>) = {}
  BY DEF Asked
<1>2. QED
  BY <1>1, FS_EmptySet

(* A message that is sent is one more to answer if it asks.                *)
LEMMA AskedAppend ==
  ASSUME NEW q \in Seq(Message), NEW x \in Message
  PROVE  Cardinality(Asked(Append(q, x))) =
           IF x.kind \in Asks THEN Cardinality(Asked(q)) + 1 ELSE Cardinality(Asked(q))
<1> DEFINE n == Len(q) + 1
           p == Append(q, x)
<1>1. /\ Len(q) \in Nat /\ DOMAIN q = 1 .. Len(q) /\ DOMAIN p = 1 .. n
      /\ p[n] = x /\ \A i \in 1 .. Len(q) : p[i] = q[i]
  <2>1. /\ Append(q, x) \in Seq(Message) /\ Len(Append(q, x)) = Len(q) + 1
        /\ Append(q, x)[Len(q) + 1] = x /\ \A i \in 1 .. Len(q) : Append(q, x)[i] = q[i]
    BY AppendProperties
  <2>2. QED
    BY <2>1, LenProperties
<1>2. 1 .. n = (1 .. Len(q)) \cup {n} /\ n \notin 1 .. Len(q)
  BY <1>1
<1> HIDE DEF n, p
<1>3. Asked(p) = IF x.kind \in Asks THEN Asked(q) \cup {n} ELSE Asked(q)
  BY <1>1, <1>2 DEF Asked
<1>4. n \notin Asked(q)
  BY <1>1, <1>2 DEF Asked
<1>5. IsFiniteSet(Asked(q))
  BY AskedFinite
<1>6. Cardinality(Asked(q) \cup {n}) = Cardinality(Asked(q)) + 1
  BY <1>4, <1>5, FS_AddElement
<1>7. QED
  BY <1>3, <1>6 DEF p

(* A message that is received is one less to answer if it asks.            *)
LEMMA AskedTail ==
  ASSUME NEW q \in Seq(Message), q # <<>>
  PROVE  Cardinality(Asked(q)) = IF Head(q).kind \in Asks THEN Cardinality(Asked(Tail(q))) + 1
                                                          ELSE Cardinality(Asked(Tail(q)))
<1> DEFINE t == Tail(q)
           S == {i + 1 : i \in Asked(t)}
           f == [i \in Asked(t) |-> i + 1]
<1>1. /\ Len(q) \in Nat /\ Len(q) > 0 /\ Head(q) = q[1] /\ DOMAIN q = 1 .. Len(q)
      /\ t \in Seq(Message) /\ DOMAIN t = 1 .. Len(q) - 1
      /\ \A i \in 1 .. Len(q) - 1 : t[i] = q[i + 1]
  <2>1. Tail(q) \in Seq(Message) /\ Len(Tail(q)) = Len(q) - 1 /\ Head(q) = q[1]
        /\ \A i \in 1 .. Len(Tail(q)) : Tail(q)[i] = q[i + 1]
    BY HeadTailProperties
  <2>2. QED
    BY <2>1, EmptySeq, LenProperties
<1> HIDE DEF t
<1>2. Asked(t) \subseteq 1 .. Len(q) - 1
  BY <1>1 DEF Asked
<1>3. Asked(q) = IF Head(q).kind \in Asks THEN S \cup {1} ELSE S
  <2>1. ASSUME NEW i \in 2 .. Len(q) PROVE i \in Asked(q) <=> i \in S
    <3>1. i - 1 \in 1 .. Len(q) - 1 /\ t[i - 1] = q[i]
      BY <1>1
    <3>2. i \in S <=> i - 1 \in Asked(t)
      BY <1>1, <1>2
    <3>3. QED
      BY <1>1, <3>1, <3>2 DEF Asked
  <2>2. 1 \in Asked(q) <=> Head(q).kind \in Asks
    BY <1>1 DEF Asked
  <2>3. S \subseteq 2 .. Len(q) /\ Asked(q) \subseteq 1 .. Len(q)
    BY <1>1, <1>2 DEF Asked
  <2>4. 1 .. Len(q) = {1} \cup 2 .. Len(q) /\ 1 \notin 2 .. Len(q)
    BY <1>1
  <2>5. QED
    BY <2>1, <2>2, <2>3, <2>4
<1>4. IsFiniteSet(Asked(t))
  BY <1>1, AskedFinite
<1>5. ExistsBijection(Asked(t), S)
  <2>1. f \in Bijection(Asked(t), S)
    <3>1. f \in [Asked(t) -> S]
      OBVIOUS
    <3>2. \A a, b \in Asked(t) : f[a] = f[b] => a = b
      BY <1>1, <1>2
    <3>3. \A y \in S : \E a \in Asked(t) : f[a] = y
      OBVIOUS
    <3>4. QED
      BY <3>1, <3>2, <3>3, Fun_IsBij
  <2>2. QED
    BY <2>1 DEF ExistsBijection
<1>6. IsFiniteSet(S) /\ Cardinality(S) = Cardinality(Asked(t))
  BY <1>4, <1>5, FS_Bijection
<1>7. 1 \notin S
  BY <1>1, <1>2
<1> HIDE DEF S
<1>8. Cardinality(S \cup {1}) = Cardinality(S) + 1
  BY <1>6, <1>7, FS_AddElement
<1>9. QED
  BY <1>3, <1>6, <1>8 DEF t

-----------------------------------------------------------------------------
(* Where the recovery ends                                                 *)

(* What is sent behind a message changes nothing for it.                   *)
LEMMA ClearAppend ==
  ASSUME NEW q \in Seq(Message), NEW x \in Message, NEW rec \in BOOLEAN,
         NEW i \in 1 .. Len(q) + 1, Clear(q, rec, i)
  PROVE  Clear(Append(q, x), rec, i)
<1> DEFINE p == Append(q, x)
<1>1. /\ Len(q) \in Nat /\ DOMAIN q = 1 .. Len(q) /\ DOMAIN p = 1 .. Len(q) + 1
      /\ \A m \in 1 .. Len(q) : p[m] = q[m]
  BY AppendProperties, LenProperties
<1> HIDE DEF p
<1>2. ASSUME NEW j \in 0 .. Len(q), SyncBetween(q, j, i) PROVE SyncBetween(p, j, i)
  BY <1>1, <1>2 DEF SyncBetween
<1>3. \A j \in DOMAIN p : j < i => j \in DOMAIN q /\ p[j] = q[j]
  BY <1>1
<1>4. rec => SyncBetween(p, 0, i)
  BY <1>1, <1>2 DEF Clear
<1>5. \A j \in DOMAIN p : j < i /\ p[j].kind = "Extended" => SyncBetween(p, j, i)
  BY <1>1, <1>2, <1>3 DEF Clear
<1>6. Clear(p, rec, i)
  BY <1>4, <1>5 DEF Clear
<1>7. QED
  BY <1>6 DEF p

(* A Sync clears what comes behind it; behind another message that begins  *)
(* no recovery it is as clear as before it.                                *)
LEMMA ClearBehind ==
  ASSUME NEW q \in Seq(Message), NEW x \in Message, NEW rec \in BOOLEAN,
         x.kind = "Sync" \/ (x.kind # "Extended" /\ Clear(q, rec, Len(q) + 1))
  PROVE  Clear(Append(q, x), rec, Len(Append(q, x)) + 1)
<1> DEFINE p == Append(q, x)
           n == Len(q) + 1
<1>1. /\ Len(q) \in Nat /\ DOMAIN q = 1 .. Len(q) /\ DOMAIN p = 1 .. n /\ Len(p) = n
      /\ p[n] = x /\ \A m \in 1 .. Len(q) : p[m] = q[m]
  BY AppendProperties, LenProperties
<1> HIDE DEF p
<1>2. ASSUME NEW j \in 0 .. Len(q), x.kind = "Sync" \/ SyncBetween(q, j, n)
      PROVE  SyncBetween(p, j, n + 1)
  <2>1. CASE x.kind = "Sync"
    <3>1. n \in DOMAIN p /\ j < n /\ n < n + 1
      BY <1>1
    <3>2. QED
      BY <1>1, <2>1, <3>1 DEF SyncBetween
  <2>2. CASE SyncBetween(q, j, n)
    <3>1. PICK m \in DOMAIN q : j < m /\ m < n /\ q[m].kind = "Sync"
      BY <2>2 DEF SyncBetween
    <3>2. m \in DOMAIN p /\ p[m].kind = "Sync" /\ m < n + 1
      BY <1>1, <3>1
    <3>3. QED
      BY <3>1, <3>2 DEF SyncBetween
  <2>3. QED
    BY <1>2, <2>1, <2>2
<1>3. rec => SyncBetween(p, 0, n + 1)
  BY <1>1, <1>2 DEF Clear
<1>4. ASSUME NEW j \in DOMAIN p, p[j].kind = "Extended" PROVE SyncBetween(p, j, n + 1)
  <2>1. j \in 1 .. Len(q) /\ q[j].kind = "Extended"
    <3>1. j # n
      BY <1>1, <1>4
    <3>2. QED
      BY <1>1, <1>4, <3>1
  <2>2. x.kind = "Sync" \/ SyncBetween(q, j, n)
    BY <1>1, <2>1 DEF Clear
  <2>3. QED
    BY <1>1, <1>2, <2>1, <2>2
<1>5. QED
  BY <1>1, <1>3, <1>4 DEF Clear, p

(* The error recovery a connection is in when it has received m: an        *)
(* extended query begins it, a Sync or a simple query ends it.             *)
After(m, rec) ==
  IF m.kind = "Extended" THEN TRUE ELSE IF m.kind = "Other" THEN rec ELSE FALSE

LEMMA ClearTail ==
  ASSUME NEW q \in Seq(Message), q # <<>>, NEW rec \in BOOLEAN,
         NEW i \in 1 .. Len(Tail(q)) + 1, Clear(q, rec, i + 1),
         Head(q).kind = "Other" => rec = FALSE
  PROVE  Clear(Tail(q), After(Head(q), rec), i)
<1> DEFINE t == Tail(q)
<1>1. /\ Len(q) \in Nat /\ Len(q) > 0 /\ Head(q) = q[1] /\ DOMAIN q = 1 .. Len(q)
      /\ DOMAIN t = 1 .. Len(q) - 1 /\ Len(t) = Len(q) - 1
      /\ \A m \in 1 .. Len(q) - 1 : t[m] = q[m + 1]
  <2>1. Tail(q) \in Seq(Message) /\ Len(Tail(q)) = Len(q) - 1 /\ Head(q) = q[1]
        /\ \A m \in 1 .. Len(Tail(q)) : Tail(q)[m] = q[m + 1]
    BY HeadTailProperties
  <2>2. QED
    BY <2>1, EmptySeq, LenProperties
<1>2. i \in 1 .. Len(q)
  BY <1>1
<1> HIDE DEF t
<1>3. ASSUME NEW j \in 0 .. Len(q) - 1, SyncBetween(q, j + 1, i + 1) PROVE SyncBetween(t, j, i)
  <2>1. PICK m \in DOMAIN q : j + 1 < m /\ m < i + 1 /\ q[m].kind = "Sync"
    BY <1>3 DEF SyncBetween
  <2>2. m - 1 \in DOMAIN t /\ t[m - 1] = q[m] /\ j < m - 1 /\ m - 1 < i
    BY <1>1, <1>2, <2>1
  <2>3. QED
    BY <2>1, <2>2 DEF SyncBetween
<1>4. Head(q).kind = "Extended" => SyncBetween(t, 0, i)
  <2>1. 1 \in DOMAIN q /\ 1 < i + 1
    BY <1>1, <1>2
  <2>2. Head(q).kind = "Extended" => SyncBetween(q, 1, i + 1)
    BY <1>1, <2>1 DEF Clear
  <2>3. 0 \in 0 .. Len(q) - 1 /\ 0 + 1 = 1
    BY <1>1
  <2>4. QED
    BY <1>3, <2>2, <2>3
<1>5. ASSUME NEW j \in DOMAIN t, j < i, t[j].kind = "Extended" PROVE SyncBetween(t, j, i)
  <2>1. j + 1 \in DOMAIN q /\ j + 1 < i + 1 /\ q[j + 1].kind = "Extended"
    BY <1>1, <1>2, <1>5
  <2>2. SyncBetween(q, j + 1, i + 1)
    BY <2>1 DEF Clear
  <2>3. QED
    BY <1>1, <1>3, <2>2
<1>6. QED
  BY <1>4, <1>5 DEF Clear, After, t

-----------------------------------------------------------------------------
(* What the steps do to where a connection stands                          *)

LEMMA ClosedStands == Stands(Closed, <<>>)
BY DEF Stands, Closed, Working

(* Steps that leave the counters, the recovery and the batch alone, and a  *)
(* connection that works at work.                                          *)
Alike(k, j) ==
  /\ j.pc = "closed" <=> k.pc = "closed"
  /\ j.pc = "idle" <=> k.pc = "idle"
  /\ j.pc \in Working <=> k.pc \in Working
  /\ j.gone = k.gone /\ j.owed = k.owed /\ j.errors = k.errors /\ j.batch = k.batch
  /\ j.inErrorRecovery = k.inErrorRecovery

LEMMA AlikeStands ==
  ASSUME NEW k, NEW j, NEW q, Alike(k, j), Stands(k, q)
  PROVE  Stands(j, q)
BY Zenon DEF Alike, Stands, Synced, Busy

(* The connection when it is answered and the messages of q wait.          *)
LEMMA ReadyStands ==
  ASSUME NEW k \in Conn, NEW q \in Seq(Message),
         k.gone => q = <<>>,
         ~k.gone => /\ k.inErrorRecovery = FALSE
                    /\ k.owed = Cardinality(Asked(q)) + 1
                    /\ Synced(k, q)
  PROVE  Stands(ReadyForQuery(k), q)
<1> DEFINE r == ReadyForQuery(k)
<1>1. CASE k.gone
  BY <1>1, ClosedStands DEF ReadyForQuery
<1>2. CASE ~k.gone
  <2>1. r = [k EXCEPT !.pc = "idle", !.query = 0, !.pool = NoPool, !.cutOff = FALSE,
                      !.rotated = FALSE, !.owed = k.owed - 1, !.errors = 0]
    BY <1>2, Zenon DEF ReadyForQuery
  <2>2. /\ r.pc = "idle" /\ r.gone = k.gone /\ r.owed = k.owed - 1 /\ r.errors = 0
        /\ r.batch = k.batch /\ r.inErrorRecovery = k.inErrorRecovery /\ k.gone = FALSE
    BY <1>2, <2>1 DEF Conn
  <2> HIDE DEF r
  <2>3. Cardinality(Asked(q)) \in Nat
    BY AskedFinite
  <2>4. r.owed = Cardinality(Asked(q))
    BY <1>2, <2>2, <2>3
  <2>5. Synced(r, q)
    BY <1>2, <2>2, Zenon DEF Synced
  <2>6. Busy(r) = 0 /\ r.pc \notin Working /\ r.pc # "closed"
    BY <2>2 DEF Busy, Working
  <2>7. Stands(r, q)
    BY <1>2, <2>2, <2>3, <2>4, <2>5, <2>6 DEF Stands
  <2>8. QED
    BY <2>7 DEF r
<1>3. QED
  BY <1>1, <1>2

(* What holds of an open connection that receives the next message.        *)
LEMMA ReceivedFacts ==
  ASSUME NEW k \in Conn, NEW q \in Seq(Message), q # <<>>, Stands(k, q), k.pc = "idle"
  PROVE  /\ k.gone = FALSE /\ Tail(q) \in Seq(Message)
         /\ k.owed = Cardinality(Asked(q))
         /\ Head(q).kind = "Other" => k.inErrorRecovery = FALSE
         /\ \A j : j.batch = k.batch /\ j.inErrorRecovery = After(Head(q), k.inErrorRecovery)
                     => Synced(j, Tail(q))
<1>1. /\ Len(q) \in Nat /\ Len(q) > 0 /\ Head(q) = q[1] /\ DOMAIN q = 1 .. Len(q)
      /\ Tail(q) \in Seq(Message) /\ DOMAIN Tail(q) = 1 .. Len(q) - 1 /\ Len(Tail(q)) = Len(q) - 1
      /\ \A m \in 1 .. Len(q) - 1 : Tail(q)[m] = q[m + 1]
  <2>1. Tail(q) \in Seq(Message) /\ Len(Tail(q)) = Len(q) - 1 /\ Head(q) = q[1]
        /\ \A m \in 1 .. Len(Tail(q)) : Tail(q)[m] = q[m + 1]
    BY HeadTailProperties
  <2>2. QED
    BY <2>1, EmptySeq, LenProperties
<1>2. /\ k.gone = FALSE /\ Busy(k) = 0 /\ k.inErrorRecovery \in BOOLEAN
      /\ k.owed = Cardinality(Asked(q)) + Busy(k) /\ Synced(k, q)
  <2>1. k.gone = FALSE /\ Busy(k) = 0 /\ k.inErrorRecovery \in BOOLEAN /\ k.pc # "closed"
    BY DEF Stands, Busy, Working, Conn
  <2>2. QED
    BY <2>1 DEF Stands
<1>3. Head(q).kind = "Other" => k.inErrorRecovery = FALSE
  <2> SUFFICES ASSUME Head(q).kind = "Other" PROVE k.inErrorRecovery = FALSE
    OBVIOUS
  <2>1. Clear(q, k.inErrorRecovery, 1)
    BY <1>1, <1>2 DEF Synced
  <2>2. ~SyncBetween(q, 0, 1)
    BY <1>1 DEF SyncBetween
  <2>3. QED
    BY <1>2, <2>1, <2>2 DEF Clear
<1>4. ASSUME NEW j, j.batch = k.batch, j.inErrorRecovery = After(Head(q), k.inErrorRecovery)
      PROVE  Synced(j, Tail(q))
  <2>1. ASSUME NEW i \in DOMAIN Tail(q), Tail(q)[i].kind = "Other"
        PROVE  Clear(Tail(q), j.inErrorRecovery, i)
    <3>1. i \in 1 .. Len(Tail(q)) + 1 /\ i + 1 \in DOMAIN q /\ q[i + 1].kind = "Other"
      BY <1>1, <2>1
    <3>2. Clear(q, k.inErrorRecovery, i + 1)
      BY <1>2, <3>1 DEF Synced
    <3>3. QED
      BY <1>2, <1>3, <1>4, <3>1, <3>2, ClearTail
  <2>2. ASSUME ~j.batch PROVE Clear(Tail(q), j.inErrorRecovery, Len(Tail(q)) + 1)
    <3>1. Len(Tail(q)) + 1 \in 1 .. Len(Tail(q)) + 1 /\ (Len(Tail(q)) + 1) + 1 = Len(q) + 1
      BY <1>1
    <3>2. Clear(q, k.inErrorRecovery, Len(q) + 1)
      BY <1>2, <1>4, <2>2 DEF Synced
    <3>3. QED
      BY <1>2, <1>3, <1>4, <3>1, <3>2, ClearTail
  <2>3. QED
    BY <2>1, <2>2 DEF Synced
<1>5. k.owed = Cardinality(Asked(q))
  <2>1. Cardinality(Asked(q)) \in Nat
    BY AskedFinite
  <2>2. QED
    BY <1>2, <2>1
<1>6. QED
  BY <1>1, <1>2, <1>3, <1>4, <1>5

(* A connection whose inbox and record change to q and k, the others' not. *)
Moves(s, k, q) ==
  /\ Frame(s) /\ conn'[s] = k
  /\ inbox'[s] = q /\ \A t \in Sessions \ {s} : inbox'[t] = inbox[t]

LEMMA MovesStep ==
  ASSUME StepInv, NEW s \in Sessions, NEW k, NEW q, Moves(s, k, q), Stands(k, q)
  PROVE  StepInv'
<1>1. ASSUME NEW t \in Sessions PROVE Stands(conn'[t], inbox'[t])
  <2>1. CASE t = s
    BY <2>1 DEF Moves
  <2>2. CASE t # s
    BY <2>2 DEF Moves, Frame, StepInv
  <2>3. QED
    BY <2>1, <2>2
<1>2. QED
  BY <1>1 DEF StepInv

(* Nobody speaks, and nobody is answered.                                  *)
LEMMA AlikeStep ==
  ASSUME StepInv, inbox' = inbox, \A t \in Sessions : Alike(conn[t], conn'[t])
  PROVE  StepInv'
BY AlikeStands DEF StepInv

LEMMA HandleStep ==
  ASSUME Types, StepInv, NEW s \in Sessions,
         HandleSync(s) \/ HandleOther(s) \/ RefuseStatements(s)
  PROVE  StepInv'
<1> DEFINE k == conn[s]
           q == inbox[s]
           j == [conn[s] EXCEPT !.inErrorRecovery = FALSE]
<1>1. k \in Conn /\ q \in Seq(Message) /\ q # <<>> /\ k.pc = "idle" /\ Stands(k, q)
      /\ Head(q).kind \in {"Sync", "Other", "Statements"}
  BY DEF Types, StepInv, HandleSync, HandleOther, RefuseStatements, Receive
<1>2. /\ k.gone = FALSE /\ Tail(q) \in Seq(Message)
      /\ k.owed = Cardinality(Asked(q))
      /\ Head(q).kind = "Other" => k.inErrorRecovery = FALSE
      /\ \A i : i.batch = k.batch /\ i.inErrorRecovery = After(Head(q), k.inErrorRecovery)
                  => Synced(i, Tail(q))
  BY <1>1, ReceivedFacts
<1>3. j \in Conn /\ j.gone = FALSE /\ j.owed = k.owed /\ j.batch = k.batch /\ j.inErrorRecovery = FALSE
  <2>1. j \in Conn
    BY <1>1, FieldTypes
  <2>2. QED
    BY <1>1, <1>2, <2>1 DEF Conn
<1>4. Moves(s, ReadyForQuery(j), Tail(q))
  <2>1. Frame(s) /\ inbox'[s] = Tail(q) /\ \A t \in Sessions \ {s} : inbox'[t] = inbox[t]
    BY DEF Types, HandleSync, HandleOther, RefuseStatements, Receive, Frame
  <2>2. conn'[s] = ReadyForQuery(j)
    <3>1. CASE HandleSync(s) \/ RefuseStatements(s)
      BY <3>1 DEF Types, HandleSync, RefuseStatements
    <3>2. CASE HandleOther(s)
      <4>1. k.inErrorRecovery = FALSE
        BY <1>2, <3>2 DEF HandleOther, Receive
      <4>2. j = k
        BY <1>1, <4>1 DEF Conn
      <4>3. conn'[s] = ReadyForQuery(k)
        BY <3>2, <4>1 DEF Types, HandleOther
      <4>4. QED
        BY <4>2, <4>3
    <3>3. QED
      BY <3>1, <3>2
  <2>3. QED
    BY <2>1, <2>2 DEF Moves
<1>5. After(Head(q), k.inErrorRecovery) = FALSE /\ Head(q).kind \in Asks
  BY <1>1, <1>2 DEF After, Asks
<1> HIDE DEF k, q, j
<1>6. Synced(j, Tail(q))
  BY <1>2, <1>3, <1>5
<1>7. j.owed = Cardinality(Asked(Tail(q))) + 1
  BY <1>1, <1>2, <1>3, <1>5, AskedTail
<1>8. Stands(ReadyForQuery(j), Tail(q))
  BY <1>2, <1>3, <1>6, <1>7, ReadyStands
<1>9. QED
  BY <1>4, <1>8, MovesStep

LEMMA ExtendedStep ==
  ASSUME Types, StepInv, NEW s \in Sessions, HandleExtended(s)
  PROVE  StepInv'
<1> DEFINE k == conn[s]
           q == inbox[s]
           j == conn'[s]
<1>1. k \in Conn /\ q \in Seq(Message) /\ q # <<>> /\ k.pc = "idle" /\ Stands(k, q)
      /\ Head(q).kind = "Extended"
  BY DEF Types, StepInv, HandleExtended, Receive
<1>2. /\ k.gone = FALSE /\ Tail(q) \in Seq(Message)
      /\ k.owed = Cardinality(Asked(q))
      /\ \A i : i.batch = k.batch /\ i.inErrorRecovery = After(Head(q), k.inErrorRecovery)
                  => Synced(i, Tail(q))
  BY <1>1, ReceivedFacts
<1>3. /\ j.pc = "idle" /\ j.gone = k.gone /\ j.owed = k.owed /\ j.batch = k.batch
      /\ j.inErrorRecovery = TRUE /\ j.errors = 1
  <2>1. j = [k EXCEPT !.inErrorRecovery = TRUE,
                      !.errors = IF k.inErrorRecovery THEN k.errors ELSE k.errors + 1]
    BY Zenon DEF HandleExtended, Types
  <2>2. (IF k.inErrorRecovery THEN k.errors ELSE k.errors + 1) = 1
    BY <1>1 DEF Stands, Conn
  <2>3. j = [k EXCEPT !.inErrorRecovery = TRUE, !.errors = 1]
    BY <2>1, <2>2
  <2> HIDE DEF j
  <2>4. QED
    BY <1>1, <2>3 DEF Conn
<1>4. Moves(s, j, Tail(q))
  BY DEF Types, HandleExtended, Receive, Frame, Moves
<1>5. After(Head(q), k.inErrorRecovery) = TRUE /\ Head(q).kind \notin Asks
  BY <1>1 DEF After, Asks
<1> HIDE DEF k, q, j
<1>6. Synced(j, Tail(q))
  BY <1>2, <1>3, <1>5
<1>7. j.owed = Cardinality(Asked(Tail(q))) /\ Cardinality(Asked(Tail(q))) \in Nat
  BY <1>1, <1>2, <1>3, <1>5, AskedTail, AskedFinite
<1>8. Busy(j) = 0 /\ j.pc \notin Working /\ j.pc # "closed"
  BY <1>3 DEF Busy, Working
<1>9. Stands(j, Tail(q))
  BY <1>2, <1>3, <1>6, <1>7, <1>8 DEF Stands
<1>10. QED
  BY <1>4, <1>9, MovesStep

LEMMA HandleQueryStep ==
  ASSUME Types, StepInv, NEW s \in Sessions, HandleQuery(s)
  PROVE  StepInv'
<1> DEFINE k == conn[s]
           q == inbox[s]
           j == conn'[s]
<1>1. k \in Conn /\ q \in Seq(Message) /\ q # <<>> /\ k.pc = "idle" /\ Stands(k, q)
      /\ Head(q).kind = "Query"
  BY DEF Types, StepInv, HandleQuery, Receive
<1>2. /\ k.gone = FALSE /\ Tail(q) \in Seq(Message)
      /\ k.owed = Cardinality(Asked(q))
      /\ \A i : i.batch = k.batch /\ i.inErrorRecovery = After(Head(q), k.inErrorRecovery)
                  => Synced(i, Tail(q))
  BY <1>1, ReceivedFacts
<1>3. /\ j.pc = "preparing" /\ j.gone = k.gone /\ j.owed = k.owed /\ j.batch = k.batch
      /\ j.inErrorRecovery = FALSE /\ j.errors = k.errors
  BY <1>1 DEF HandleQuery, Types, Conn
<1>4. Moves(s, j, Tail(q))
  BY DEF Types, HandleQuery, Receive, Frame, Moves
<1>5. After(Head(q), k.inErrorRecovery) = FALSE /\ Head(q).kind \in Asks
  BY <1>1 DEF After, Asks
<1> HIDE DEF k, q, j
<1>6. Synced(j, Tail(q))
  BY <1>2, <1>3, <1>5
<1>7. j.owed = Cardinality(Asked(Tail(q))) + 1 /\ Cardinality(Asked(Tail(q))) \in Nat
  BY <1>1, <1>2, <1>3, <1>5, AskedTail, AskedFinite
<1>8. Busy(j) = 1 /\ j.pc \in Working /\ j.pc # "closed" /\ j.pc # "idle"
  BY <1>3 DEF Busy, Working
<1>9. Stands(j, Tail(q))
  <2>1. j.errors \in 0 .. 1
    BY <1>1, <1>3 DEF Stands
  <2>2. QED
    BY <1>2, <1>3, <1>6, <1>7, <1>8, <2>1 DEF Stands
<1>10. QED
  BY <1>4, <1>9, MovesStep

LEMMA FailStep ==
  ASSUME Types, StepInv, NEW s \in Sessions, Fail(s), Works(s)
  PROVE  StepInv'
<1> DEFINE k == conn[s]
           q == inbox[s]
<1>1. k \in Conn /\ q \in Seq(Message) /\ Stands(k, q) /\ k.pc \in Working
  BY DEF Types, StepInv, Works
<1>2. Moves(s, ReadyForQuery(k), q)
  BY DEF Types, Fail, Frame, Moves
<1> HIDE DEF k, q
<1>3. Busy(k) = 1 /\ k.pc # "closed"
  BY <1>1 DEF Busy, Working
<1>4. Stands(ReadyForQuery(k), q)
  BY <1>1, <1>3, ReadyStands DEF Stands
<1>5. QED
  BY <1>2, <1>4, MovesStep

LEMMA SendStep ==
  ASSUME Types, StepInv, NEW s \in Sessions, NEW kind \in Kinds[s], Send(s, kind)
  PROVE  StepInv'
<1> DEFINE k == conn[s]
           q == inbox[s]
           j == conn'[s]
           x == [kind |-> kind, n |-> sent[s] + 1]
           p == Append(q, x)
<1>1. k \in Conn /\ q \in Seq(Message) /\ Stands(k, q) /\ k.pc # "closed" /\ k.gone = FALSE
      /\ x \in Message /\ x.kind = kind /\ (kind = "Other" => ~k.batch)
  <2>1. k \in Conn /\ q \in Seq(Message) /\ Stands(k, q) /\ k.pc # "closed" /\ ~k.gone
        /\ (kind = "Other" => ~k.batch)
    BY DEF Types, StepInv, Send
  <2>2. k.gone = FALSE
    BY <2>1 DEF Conn
  <2>3. QED
    BY <2>1, <2>2, SentType
<1>2. Moves(s, j, p)
  BY DEF Types, Send, Frame, Moves
<1>3. /\ j.pc = k.pc /\ j.gone = FALSE /\ j.errors = k.errors
      /\ j.inErrorRecovery = k.inErrorRecovery /\ k.inErrorRecovery \in BOOLEAN
      /\ j.owed = IF kind \in Asks THEN k.owed + 1 ELSE k.owed
      /\ j.batch = (kind = "Extended" \/ (kind # "Sync" /\ k.batch))
  <2> DEFINE i == IF kind \in Asks THEN k.owed + 1 ELSE k.owed
             b == kind = "Extended" \/ (kind # "Sync" /\ k.batch)
  <2>1. j = [k EXCEPT !.owed = i, !.batch = b]
    BY Zenon DEF Send, Types
  <2> HIDE DEF i, b, j
  <2>2. /\ j.pc = k.pc /\ j.gone = k.gone /\ j.errors = k.errors
        /\ j.inErrorRecovery = k.inErrorRecovery /\ k.inErrorRecovery \in BOOLEAN
        /\ j.owed = i /\ j.batch = b
    BY <1>1, <2>1 DEF Conn
  <2>3. QED
    BY <1>1, <2>2 DEF i, b
<1> HIDE DEF k, q, j, x
<1>4. Busy(j) = Busy(k) /\ Busy(k) \in {0, 1} /\ k.owed = Cardinality(Asked(q)) + Busy(k)
      /\ Synced(k, q) /\ k.owed \in Nat /\ k.errors \in 0 .. 1
  BY <1>1, <1>3 DEF Stands, Busy
<1>5. Cardinality(Asked(p)) = IF kind \in Asks THEN Cardinality(Asked(q)) + 1
                                              ELSE Cardinality(Asked(q))
  BY <1>1, AskedAppend
<1>6. j.owed = Cardinality(Asked(p)) + Busy(j) /\ j.owed \in Nat
  BY <1>1, <1>3, <1>4, <1>5, AskedFinite
<1>7. Synced(j, p)
  <2>1. /\ Len(q) \in Nat /\ DOMAIN q = 1 .. Len(q) /\ DOMAIN p = 1 .. Len(q) + 1
        /\ Len(p) = Len(q) + 1 /\ p[Len(q) + 1] = x /\ \A i \in 1 .. Len(q) : p[i] = q[i]
    BY <1>1, AppendProperties, LenProperties
  <2>2. ASSUME NEW i \in DOMAIN p, p[i].kind = "Other" PROVE Clear(p, j.inErrorRecovery, i)
    <3>1. Clear(q, k.inErrorRecovery, i)
      <4>1. CASE i \in 1 .. Len(q)
        BY <1>4, <2>1, <2>2, <4>1 DEF Synced
      <4>2. CASE i = Len(q) + 1
        <5>1. ~k.batch
          BY <1>1, <2>1, <2>2, <4>2
        <5>2. QED
          BY <1>4, <4>2, <5>1 DEF Synced
      <4>3. QED
        BY <2>1, <4>1, <4>2
    <3>2. i \in 1 .. Len(q) + 1
      BY <2>1
    <3>3. QED
      BY <1>1, <1>3, <3>1, <3>2, ClearAppend
  <2>3. ASSUME ~j.batch PROVE Clear(p, j.inErrorRecovery, Len(p) + 1)
    <3>1. kind = "Sync" \/ (kind # "Extended" /\ ~k.batch)
      BY <1>3, <2>3
    <3>2. x.kind = "Sync" \/ (x.kind # "Extended" /\ Clear(q, k.inErrorRecovery, Len(q) + 1))
      BY <1>1, <1>4, <3>1 DEF Synced
    <3>3. QED
      BY <1>1, <1>3, <3>2, ClearBehind
  <2>4. QED
    BY <2>2, <2>3 DEF Synced
<1> HIDE DEF p
<1>8. Stands(j, p)
  <2>1. /\ k.pc \in Working => k.inErrorRecovery = FALSE
        /\ k.pc = "idle" => (k.errors = 1 <=> k.inErrorRecovery)
    BY <1>1 DEF Stands
  <2>2. QED
    BY <1>1, <1>3, <1>4, <1>6, <1>7, <2>1 DEF Stands
<1>9. QED
  BY <1>2, <1>8, MovesStep

LEMMA LeaveStep ==
  ASSUME Types, StepInv, NEW s \in Sessions, Leave(s)
  PROVE  StepInv'
<1>1. Moves(s, conn'[s], <<>>) /\ conn[s] \in Conn /\ Stands(conn[s], inbox[s])
  BY DEF Types, StepInv, Leave, Frame, Moves
<1>2. CASE conn[s].pc = "idle"
  <2>1. conn'[s] = Closed
    BY <1>2 DEF Types, Leave
  <2>2. QED
    BY <1>1, <2>1, ClosedStands, MovesStep
<1>3. CASE conn[s].pc # "idle"
  <2> DEFINE k == conn[s]
             j == conn'[s]
  <2>1. j = [k EXCEPT !.gone = TRUE]
    BY <1>3 DEF Types, Leave
  <2>2. /\ j.pc = k.pc /\ j.gone = TRUE /\ j.owed = k.owed /\ j.errors = k.errors
        /\ j.inErrorRecovery = k.inErrorRecovery
    BY <1>1, <2>1 DEF Conn
  <2>3. Stands(j, <<>>)
    <3> HIDE DEF k, j
    <3>1. k.owed \in Nat /\ k.errors \in 0 .. 1 /\ (k.pc \in Working => k.inErrorRecovery = FALSE)
      BY <1>1 DEF Stands, k
    <3>2. j.pc # "idle"
      BY <1>3, <2>2 DEF k
    <3>3. QED
      BY <2>2, <3>1, <3>2 DEF Stands
  <2>4. QED
    BY <1>1, <2>3, MovesStep
<1>4. QED
  BY <1>2, <1>3

LEMMA ConnectStep ==
  ASSUME Types, StepInv, NEW s \in Sessions, NEW c, NEW secret, Connect(s, c, secret)
  PROVE  StepInv'
<1> DEFINE j == conn'[s]
<1>1. Moves(s, j, inbox[s]) /\ inbox[s] = <<>>
  BY DEF Types, StepInv, Stands, Connect, Frame, Moves
<1>2. /\ j.pc = "idle" /\ j.gone = FALSE /\ j.owed = 0 /\ j.errors = 0
      /\ j.inErrorRecovery = FALSE
  BY DEF Types, Connect, Closed
<1>3. Stands(j, <<>>)
  <2> HIDE DEF j
  <2>1. Synced(j, <<>>)
    BY <1>2 DEF Synced, Clear
  <2>2. Busy(j) = 0 /\ j.pc \notin Working
    BY <1>2 DEF Busy, Working
  <2>3. QED
    BY <1>2, <2>1, <2>2, AskedEmpty DEF Stands
<1>4. QED
  BY <1>1, <1>3, MovesStep

(* A query goes on from one stage to the next.                             *)
LEMMA WorkStep ==
  ASSUME Types, StepInv, NEW s \in Sessions,
         \/ PrepareAllows(s) \/ GetCached(s) \/ GetMisses(s) \/ KeepPool(s) \/ DropPool(s)
         \/ Execute(s) \/ \E p \in PoolIds : OpenPool(s, p)
  PROVE  StepInv'
<1>1. PICK pc \in Working : \E p : \/ conn' = [conn EXCEPT ![s].pc = pc]
                                   \/ conn' = [conn EXCEPT ![s].pc = pc, ![s].pool = p]
  BY DEF PrepareAllows, GetCached, GetMisses, OpenPool, KeepPool, DropPool, Execute, Working
<1>2. conn[s].pc \in Working /\ inbox' = inbox
  BY DEF PrepareAllows, GetCached, GetMisses, OpenPool, KeepPool, DropPool, Execute, Working
<1>3. pc # "closed" /\ pc # "idle" /\ conn[s].pc # "closed" /\ conn[s].pc # "idle"
  BY <1>1, <1>2 DEF Working
<1>4. Alike(conn[s], conn'[s])
  <2>1. conn[s] \in Conn
    BY DEF Types
  <2>2. /\ conn'[s].pc = pc
        /\ conn'[s].gone = conn[s].gone /\ conn'[s].owed = conn[s].owed
        /\ conn'[s].errors = conn[s].errors /\ conn'[s].batch = conn[s].batch
        /\ conn'[s].inErrorRecovery = conn[s].inErrorRecovery
    BY <1>1, <2>1 DEF Types, Conn
  <2>3. QED
    BY <1>1, <1>2, <1>3, <2>2 DEF Alike
<1>5. ASSUME NEW t \in Sessions PROVE Alike(conn[t], conn'[t])
  <2>1. CASE t = s
    BY <1>4, <2>1
  <2>2. CASE t # s
    <3>1. conn'[t] = conn[t]
      BY <1>1, <2>2 DEF Types
    <3>2. QED
      BY <3>1 DEF Alike
  <2>3. QED
    BY <2>1, <2>2
<1>6. QED
  BY <1>2, <1>5, AlikeStep

LEMMA InitStep == Init => StepInv
<1> SUFFICES ASSUME Init, NEW s \in Sessions PROVE Stands(conn[s], inbox[s])
  BY DEF StepInv
<1>1. conn[s] = Closed /\ inbox[s] = <<>>
  BY DEF Init
<1>2. QED
  BY <1>1, ClosedStands

LEMMA InStepStep == Types /\ StepInv /\ [Next]_vars => StepInv'
<1> SUFFICES ASSUME Types, StepInv, [Next]_vars PROVE StepInv'
  OBVIOUS
<1>1. ASSUME NEW c \in Creds, Administer(c) PROVE StepInv'
  <2>1. PICK new \in Cred : Credential(c, new)
    BY <1>1, AdministerIsCredential
  <2>2. ASSUME NEW t \in Sessions PROVE Alike(conn[t], conn'[t])
    BY <2>1 DEF Types, Conn, Credential, Alike
  <2>3. inbox' = inbox
    BY <2>1 DEF Credential
  <2>4. QED
    BY <2>2, <2>3, AlikeStep
<1>2. ASSUME NEW s \in Sessions, Client(s) PROVE StepInv'
  BY <1>2, ConnectStep, SendStep, LeaveStep DEF Client
<1>3. ASSUME NEW s \in Sessions, Gateway(s) PROVE StepInv'
  <2>1. CASE PrepareDenies(s) \/ PrepareFails(s) \/ OpenFails(s) \/ QueryFails(s) \/ Finish(s)
    <3>1. Fail(s) /\ Works(s)
      BY <2>1 DEF PrepareDenies, PrepareFails, OpenFails, QueryFails, Finish, Works, Working
    <3>2. QED
      BY <3>1, FailStep
  <2>2. QED
    BY <1>3, <2>1, HandleStep, ExtendedStep, HandleQueryStep, WorkStep DEF Gateway
<1>4. ASSUME inbox' = inbox, conn' = conn PROVE StepInv'
  BY <1>4, AlikeStep DEF Alike
<1>5. CASE GatewayExits
  <2>1. ASSUME NEW t \in Sessions PROVE conn'[t] = Closed /\ inbox'[t] = <<>>
    BY <1>5 DEF GatewayExits
  <2>2. QED
    BY <2>1, ClosedStands DEF StepInv
<1>6. QED
  BY <1>1, <1>2, <1>3, <1>4, <1>5 DEF Next, vars, Audit, AuditFails

(* The connection never falls out of step, however the client pipelines    *)
(* and queries fail: it awaits exactly as many ReadyForQuery as it has     *)
(* unanswered messages that ask for one, and an extended query is refused  *)
(* exactly once before its Sync is answered (handle's error recovery).     *)
THEOREM StaysInStep == Spec => []InStep
<1> DEFINE Inv == Types /\ OneCredential /\ StepInv
<1>1. Init => Inv
  BY InitTypes, InitStep
<1>2. Inv /\ [Next]_vars => Inv'
  BY StepTypes, OneCredentialStep, InStepStep
<1>3. Inv => InStep
  BY DEF StepInv, Stands, Busy, InStep
<1>4. QED
  BY <1>1, <1>2, <1>3, PTL DEF Spec

(* Every variable has its type: the client never waits for a negative      *)
(* number of answers and is never told twice of one error (handle).        *)
THEOREM TypeCorrect == Spec => []TypeOK
<1> DEFINE Within == \A s \in Sessions : sent[s] <= MaxMessages[s]
           Inv == Types /\ OneCredential /\ StepInv /\ Within
<1>1. Init => Inv
  <2>1. Init => Within
    BY ConstantsAssumption DEF Init
  <2>2. QED
    BY <2>1, InitTypes, InitStep
<1>2. Inv /\ [Next]_vars => Inv'
  <2> SUFFICES ASSUME Inv, [Next]_vars PROVE Inv'
    OBVIOUS
  <2>1. ASSUME NEW s \in Sessions, NEW kind \in Kinds[s], Send(s, kind) PROVE Within'
    <3>1. \A t \in Sessions : sent[t] \in Nat /\ MaxMessages[t] \in Nat
      BY ConstantsAssumption DEF Types
    <3>2. sent[s] < MaxMessages[s] /\ sent' = [sent EXCEPT ![s] = sent[s] + 1]
      BY <2>1 DEF Send
    <3>3. ASSUME NEW t \in Sessions PROVE sent'[t] <= MaxMessages[t]
      <4>1. sent'[t] = IF t = s THEN sent[s] + 1 ELSE sent[t]
        BY <3>2 DEF Types
      <4>2. QED
        BY <3>1, <3>2, <4>1
    <3>4. QED
      BY <3>3
  <2>2. sent' = sent => Within'
    OBVIOUS
  <2>3. ASSUME NEW c \in Creds, Administer(c) PROVE sent' = sent
    BY <2>3, AdministerIsCredential DEF Credential
  <2>4. ASSUME NEW s \in Sessions, Gateway(s) PROVE sent' = sent
    BY <2>4 DEF Gateway, HandleSync, HandleExtended, HandleOther, RefuseStatements, HandleQuery,
                PrepareAllows, PrepareDenies, PrepareFails, GetCached, GetMisses, OpenFails,
                OpenPool, KeepPool, DropPool, Execute, QueryFails, Finish, Fail
  <2>5. Within'
    BY <2>1, <2>2, <2>3, <2>4 DEF Next, Client, Connect, Leave, Audit, AuditFails, GatewayExits, vars
  <2>6. QED
    BY <2>5, StepTypes, OneCredentialStep, InStepStep
<1>3. Inv => TypeOK
  <2> SUFFICES ASSUME Inv PROVE TypeOK
    OBVIOUS
  <2>1. ASSUME NEW s \in Sessions
        PROVE  conn[s] \in [pc : Working \cup {"closed", "idle"}, cred : SUBSET Creds,
                 secret : 0 .. MaxSecrets, query : Nat, pool : PoolIds \cup {NoPool},
                 inErrorRecovery : BOOLEAN, gone : BOOLEAN, owed : Nat,
                 errors : 0 .. 1, batch : BOOLEAN, cutOff : BOOLEAN, rotated : BOOLEAN]
    <3>1. conn[s] \in Conn /\ conn[s].owed \in Nat /\ conn[s].errors \in 0 .. 1
      BY DEF Types, StepInv, Stands
    <3>2. QED
      BY <3>1 DEF Conn
  <2>2. QED
    BY <2>1 DEF Types, TypeOK, Cred
<1>4. QED
  BY <1>1, <1>2, <1>3, PTL DEF Spec
=============================================================================
