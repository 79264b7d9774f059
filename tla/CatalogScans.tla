---------------------------- MODULE CatalogScans ----------------------------
(* What the metadata scans of the sources write into the catalog             *)
(* (app/ingestion/native_scanner.py and nosql_scanner.py): a database row of  *)
(* the source, its tables and their columns, while the sources change, other  *)
(* scans run, a column is classified by hand (app/api/catalog.py) and a       *)
(* source is deleted (app/api/sources.py).  ScanRuns has the status of the    *)
(* scans; here is their content.                                              *)
(* A scan writes in one transaction after another: what it has not committed  *)
(* is in scan[s] and locks the rows it concerns; it meets its tables in any   *)
(* order, so that scans of one source may lock them crosswise: PostgreSQL     *)
(* then breaks one of them off (Break).  Bounds: a table has one column, of   *)
(* which the type is kept (0 for none), and a source one database row (a      *)
(* MongoDB source with its database configured).                              *)
EXTENDS Naturals, FiniteSets

CONSTANTS
    Sources,      \* data sources
    DbName,       \* source -> the name its scan gives to the database row
    Kinds,        \* source -> the connectors it may be of
    Tables,
    SchemaOf,     \* table -> its schema, in a SQL source
    Contents,     \* source -> what it may contain: functions from tables to types
    CommitEvery,  \* _COMMIT_EVERY
    Scans,        \* scans under way at the same time
    NoSource

Names == {DbName[d] : d \in Sources}
Schemas == {SchemaOf[t] : t \in Tables}

ASSUME CatalogAssumption ==
    /\ NoSource \notin Sources
    /\ CommitEvery \in Nat \ {0}
    /\ \A d \in Sources : Contents[d] \subseteq [Tables -> Nat]

----------------------------------------------------------------------------
\* The connectors.  early: commits at every schema and every CommitEvery
\* tables, and looks before each whether it was cancelled.  reads: when the
\* columns of a table are read.  unread: what happens when that fails.
\* partial: the list of tables may lack some without an error.  swallows: an
\* error of the catalog while columns are written is logged, like theirs.

Connector(early, reads, unread, partial) ==
    [early |-> early, reads |-> reads, unread |-> unread, partial |-> partial,
     swallows |-> FALSE]

\* A schema at a time; views that cannot be listed are left out.
SQL == Connector(TRUE, "schema", "skip", TRUE)
\* Collections that cannot be listed or sampled are left out.
MongoDB == Connector(FALSE, "table", "skip", TRUE)
\* The mappings of all indices, before anything is written.
Elasticsearch == Connector(FALSE, "start", "fail", FALSE)
Cassandra == Connector(FALSE, "table", "fail", FALSE)
DynamoDB == [Connector(FALSE, "table", "skip", FALSE) EXCEPT !.swallows = TRUE]
\* The first 500 keys.
Redis == Connector(FALSE, "list", "skip", TRUE)
\* The first 100 objects; one that cannot be read gets a generic column.
S3 == Connector(FALSE, "table", "skip", TRUE)
\* Every resource is fetched before its row is written.
OracleERP == Connector(FALSE, "before", "fail", FALSE)

----------------------------------------------------------------------------
VARIABLES
    kind,     \* source -> its connector
    exists,   \* the sources that have not been deleted
    content,  \* source -> table -> type, 0 if there is no such table
    owner,    \* database name -> the source of its row (names are unique)
    catalog,  \* database name -> table -> [listed, type, tag, by]
    scan      \* what each scan is doing and has not committed
vars == <<kind, exists, content, owner, catalog, scan>>

\* tag: classified by hand; by: the source that was scanned (history).
Unlisted == [listed |-> FALSE, type |-> 0, tag |-> FALSE, by |-> NoSource]
Nowhere == [t \in Tables |-> 0]

\* root: the source of the database row the scan writes under.  todo: the
\* tables it has still to enter; here: those it has entered and not read yet.
\* lost: its transaction is aborted and nobody has noticed.
\* must: the tables that are the same since the scan began, which no other
\* scan of the source has met and which could be read and written (history).
Idle == [pc |-> "idle", src |-> NoSource, root |-> NoSource, todo |-> {}, here |-> {},
         seen |-> Nowhere, since |-> 0, db |-> FALSE, rows |-> {}, types |-> Nowhere,
         lost |-> FALSE, must |-> {}]

Init ==
    /\ kind \in {k \in [Sources -> UNION {Kinds[d] : d \in Sources}] :
                    \A d \in Sources : k[d] \in Kinds[d]}
    /\ exists = Sources
    /\ content \in {c \in [Sources -> UNION {Contents[d] : d \in Sources}] :
                    \A d \in Sources : c[d] \in Contents[d]}
    /\ owner = [n \in Names |-> NoSource]
    /\ catalog = [n \in Names |-> [t \in Tables |-> Unlisted]]
    /\ scan = [s \in Scans |-> Idle]

Running(s) == scan[s].pc \notin {"idle", "completed"}
Name(s) == DbName[scan[s].src]
Of(s) == kind[scan[s].src]
Present(d) == {t \in Tables : content[d][t] # 0}
Rivals(s) == {o \in Scans \ {s} : Running(o) /\ Name(o) = Name(s) /\ scan[o].root = scan[s].root}

\* The transaction of a scan has something to commit.
Dirty(s) == scan[s].db \/ scan[s].rows # {} \/ scan[s].types # Nowhere

----------------------------------------------------------------------------
\* What a commit makes of the catalog: rows are inserted unless they are
\* there; of a column that is there only the type is set.
TypedAnew(entry, type) == [entry EXCEPT !.type = type, !.tag = FALSE]
Typed(entry, type) == [entry EXCEPT !.type = type]
Entry(s, t) ==
    LET old == catalog[Name(s)][t]
        row == IF t \in scan[s].rows /\ ~old.listed
               THEN [Unlisted EXCEPT !.listed = TRUE, !.by = scan[s].src] ELSE old
    IN IF scan[s].types[t] = 0 THEN row ELSE [Typed(row, scan[s].types[t]) EXCEPT !.by = scan[s].src]
Commit(s) ==
    /\ owner' = IF scan[s].db THEN [owner EXCEPT ![Name(s)] = scan[s].root] ELSE owner
    /\ catalog' = [catalog EXCEPT ![Name(s)] = [t \in Tables |-> Entry(s, t)]]
Clean(s) == [scan[s] EXCEPT !.db = FALSE, !.rows = {}, !.types = Nowhere]

\* A row that another scan has inserted or updated and not committed.
DbLocked(s) == \E o \in Scans \ {s} : Running(o) /\ scan[o].db /\ Name(o) = Name(s)
RowLocked(s, t) ==
    ~catalog[Name(s)][t].listed /\ \E o \in Rivals(s) : t \in scan[o].rows
TypeLocked(s, t) == \E o \in Rivals(s) : scan[o].types[t] # 0
\* The database row the scan goes on writing under is there.
Rooted(s) == scan[s].db \/ owner[Name(s)] = scan[s].root

----------------------------------------------------------------------------
\* run_native_scan, from a scan of the source that is to run.
Start(s, d) ==
    /\ ~Running(s)
    /\ d \in exists
    /\ LET rivals == {o \in Scans \ {s} : Running(o) /\ scan[o].src = d}
           began == [Idle EXCEPT !.pc = "find", !.src = d,
                        !.seen = IF kind[d].reads = "start" THEN content[d] ELSE Nowhere,
                        !.must = IF rivals = {} THEN Present(d) ELSE {}]
       IN scan' = [o \in Scans |-> CASE o = s -> began
                                     [] o \in rivals -> [scan[o] EXCEPT !.must = {}]
                                     [] OTHER -> scan[o]]
    /\ UNCHANGED <<kind, exists, content, owner, catalog>>

\* _upsert_db looks for a row of this name and this source ...
FoundAnySource(s) == owner[Name(s)] # NoSource
Found(s) == owner[Name(s)] = scan[s].src
FindDb(s) ==
    /\ scan[s].pc = "find"
    /\ scan' = [scan EXCEPT ![s].pc = IF Found(s) THEN "list" ELSE "insert",
                          ![s].root = IF Found(s) THEN owner[Name(s)] ELSE @]
    /\ UNCHANGED <<kind, exists, content, owner, catalog>>

\* ... and inserts one otherwise: the name must be free of any source's row.
InsertDb(s) ==
    /\ scan[s].pc = "insert"
    /\ ~DbLocked(s)
    /\ scan[s].src \in exists
    /\ owner[Name(s)] = NoSource
    /\ scan' = [scan EXCEPT ![s].pc = "list", ![s].db = TRUE,
                          ![s].root = scan[s].src]
    /\ UNCHANGED <<kind, exists, content, owner, catalog>>

\* The tables there are, as far as they are listed; of a SQL source these are
\* its schemas, and of an ERP source the resources that are configured.
List(s) ==
    /\ scan[s].pc = "list"
    /\ \E hidden \in SUBSET Tables :
        /\ hidden # {} => Of(s).partial
        /\ LET d == scan[s].src
               all == CASE Of(s).early \/ Of(s).reads = "before" -> Tables
                        [] Of(s).reads = "start" -> {t \in Tables : scan[s].seen[t] # 0}
                        [] OTHER -> Present(d)
           IN scan' = [scan EXCEPT ![s].pc = "work", ![s].todo = all \ hidden,
                          ![s].must = @ \ hidden,
                          ![s].seen = IF Of(s).reads = "list" THEN content[d] ELSE @]
    /\ UNCHANGED <<kind, exists, content, owner, catalog>>

\* Writing its progress at the start of a schema commits what the scan has.
BeginSchema(s) ==
    /\ scan[s].pc = "work" /\ Of(s).early
    /\ scan[s].here = {} /\ scan[s].todo # {}
    /\ Commit(s)
    /\ scan' = [scan EXCEPT ![s] = [Clean(s) EXCEPT !.pc = "schema"]]
    /\ UNCHANGED <<kind, exists, content>>

\* The rows of all the tables of a schema are inserted at once, unless they are
\* there, and all their columns asked for; some may not be in the answer.
EnterSchema(s, x) ==
    LET all == {t \in scan[s].todo : SchemaOf[t] = x}
        there == all \cap Present(scan[s].src)
    IN /\ scan[s].pc = "schema" /\ all # {}
       /\ Rooted(s) /\ \A t \in there : ~RowLocked(s, t)
       /\ \E read \in SUBSET there :
            scan' = [scan EXCEPT ![s].pc = "work", ![s].todo = @ \ all, ![s].here = @ \cup there,
                       ![s].rows = @ \cup there,
                       ![s].seen = [t \in Tables |-> IF t \in read THEN content[scan[s].src][t]
                                                                  ELSE @[t]]]
       /\ UNCHANGED <<kind, exists, content, owner, catalog>>

\* Elsewhere, what is known of the columns when the row of the table is
\* written; 0 if nothing yet.
ReadSoFar(s, t) ==
    IF Of(s).reads = "before" THEN {content[scan[s].src][t]} \ {0} ELSE {scan[s].seen[t]}

\* The row of one table is inserted unless it is there.
EnterTable(s, t) ==
    /\ scan[s].pc = "work" /\ ~Of(s).early /\ ~scan[s].lost
    /\ scan[s].here = {} /\ t \in scan[s].todo
    /\ Rooted(s) /\ ~RowLocked(s, t)
    /\ \E read \in ReadSoFar(s, t) :
        scan' = [scan EXCEPT ![s].todo = @ \ {t}, ![s].here = {t}, ![s].rows = @ \cup {t},
                             ![s].seen[t] = read]
    /\ UNCHANGED <<kind, exists, content, owner, catalog>>

\* The columns of a table are read, if they are not, and written; columns that
\* cannot be read (the table may be gone) are left out or end the scan.
WriteColumns(s, t) ==
    /\ scan[s].pc = "work" /\ t \in scan[s].here
    /\ Rooted(s) /\ ~TypeLocked(s, t)
    /\ LET seen == scan[s].seen[t]
           full == Of(s).early /\ scan[s].since + 1 = CommitEvery
       IN \E type \in IF seen # 0 THEN {seen} ELSE {0, content[scan[s].src][t]} :
            /\ type = 0 => Of(s).unread = "skip"
            /\ scan' = [scan EXCEPT ![s].pc = IF full THEN "checkpoint" ELSE "work",
                   ![s].here = @ \ {t}, ![s].types[t] = type, ![s].seen[t] = 0,
                   ![s].since = IF full \/ ~Of(s).early THEN 0 ELSE @ + 1,
                   ![s].must = IF type = 0 THEN @ \ {t} ELSE @]
    /\ UNCHANGED <<kind, exists, content, owner, catalog>>

\* Writing columns fails and is passed over: PostgreSQL has aborted the
\* transaction, and the next statement fails, but a commit only rolls back.
SwallowError(s) ==
    /\ scan[s].pc = "work" /\ scan[s].here # {} /\ Of(s).swallows
    /\ scan' = [scan EXCEPT ![s] = [Clean(s) EXCEPT !.here = {}, !.lost = TRUE, !.must = {}]]
    /\ UNCHANGED <<kind, exists, content, owner, catalog>>

\* Every CommitEvery tables.
Checkpoint(s) ==
    /\ scan[s].pc = "checkpoint"
    /\ Commit(s)
    /\ scan' = [scan EXCEPT ![s] = [Clean(s) EXCEPT !.pc = "work"]]
    /\ UNCHANGED <<kind, exists, content>>

\* Every table has been entered and its columns written.
Through(s) == scan[s].pc = "work" /\ scan[s].todo = {} /\ scan[s].here = {}

\* A scan that forgets its last commit: its session is closed and rolled back.
FinishUncommitted(s) ==
    /\ Through(s)
    /\ scan' = [scan EXCEPT ![s] = [Idle EXCEPT !.pc = "completed"]]
    /\ UNCHANGED <<kind, exists, content, owner, catalog>>
\* The scanner's last commit, and COMPLETED; a run that was deleted with its
\* source cannot be updated.
Finish(s) ==
    /\ Through(s) /\ scan[s].src \in exists
    /\ Commit(s)
    /\ scan' = [scan EXCEPT ![s] = [Idle EXCEPT !.pc = "completed"]]
    /\ UNCHANGED <<kind, exists, content>>

\* The scan fails on the side of the source, or finds itself cancelled: the
\* status is recorded in the same session, and what the scan has written is
\* committed with it.
Fail(s) ==
    /\ Running(s) /\ scan[s].src \in exists /\ ~scan[s].lost
    /\ Commit(s)
    /\ scan' = [scan EXCEPT ![s] = Idle]
    /\ UNCHANGED <<kind, exists, content>>

\* It fails on the side of the catalog (the name is taken, the database row or
\* the source is gone, the locks of two scans are crossed), or its process
\* dies: the transaction is rolled back.
Break(s) ==
    /\ Running(s)
    /\ scan' = [scan EXCEPT ![s] = Idle]
    /\ UNCHANGED <<kind, exists, content, owner, catalog>>

----------------------------------------------------------------------------
\* PATCH /catalog/columns/{id} sets pii_type, classification and action.
ClassifyColumn(n, t) ==
    /\ catalog[n][t].type # 0
    /\ ~\E o \in Scans : Running(o) /\ Name(o) = n /\ Rooted(o) /\ scan[o].types[t] # 0
    /\ catalog' = [catalog EXCEPT ![n][t].tag = TRUE]
    /\ UNCHANGED <<kind, exists, content, owner, scan>>

\* DELETE /sources/{id} takes the database rows of the source along; it waits
\* for scans that have written below them.
DeleteSource(d) ==
    /\ d \in exists
    /\ ~\E s \in Scans : Running(s) /\ scan[s].src = d /\ Dirty(s)
    /\ exists' = exists \ {d}
    /\ owner' = [n \in Names |-> IF owner[n] = d THEN NoSource ELSE owner[n]]
    /\ catalog' = [n \in Names |-> IF owner[n] = d THEN [t \in Tables |-> Unlisted]
                                                  ELSE catalog[n]]
    /\ UNCHANGED <<kind, content, scan>>

\* The source changes.
ChangeSource(d) ==
    /\ \E c \in Contents[d] :
        /\ content' = [content EXCEPT ![d] = c]
        /\ scan' = [s \in Scans |->
               IF scan[s].src = d
               THEN [scan[s] EXCEPT !.must = {t \in @ : c[t] = content[d][t]}] ELSE scan[s]]
    /\ UNCHANGED <<kind, exists, owner, catalog>>

----------------------------------------------------------------------------
Scanning(s) ==
    \/ \E d \in Sources : Start(s, d)
    \/ \E x \in Schemas : EnterSchema(s, x)
    \/ \E t \in Tables : EnterTable(s, t) \/ WriteColumns(s, t)
    \/ FindDb(s) \/ InsertDb(s) \/ List(s) \/ BeginSchema(s) \/ Checkpoint(s)
    \/ SwallowError(s) \/ Finish(s) \/ Fail(s) \/ Break(s)

Next ==
    \/ \E s \in Scans : Scanning(s)
    \/ \E d \in Sources : DeleteSource(d) \/ ChangeSource(d)
    \/ \E n \in Names, t \in Tables : ClassifyColumn(n, t)

Spec == Init /\ [][Next]_vars

----------------------------------------------------------------------------
TypeOK ==
    /\ exists \subseteq Sources
    /\ \A d \in Sources : content[d] \in Contents[d]
    /\ owner \in [Names -> Sources \cup {NoSource}]
    /\ catalog \in [Names -> [Tables -> [listed: BOOLEAN, type: Nat, tag: BOOLEAN,
                                         by: Sources \cup {NoSource}]]]
    /\ scan \in [Scans -> [pc: {"idle", "find", "insert", "list", "work", "schema",
                                "checkpoint", "completed"},
            src: Sources \cup {NoSource}, root: Sources \cup {NoSource},
            todo: SUBSET Tables, here: SUBSET Tables, seen: [Tables -> Nat],
            since: 0..CommitEvery, db: BOOLEAN, rows: SUBSET Tables,
            types: [Tables -> Nat], lost: BOOLEAN, must: SUBSET Tables]]

\* Two sources never write into each other's part of the catalog, whatever
\* their databases are called and in whatever order their scans run
\* (native_scanner.py:777).
OwnHierarchy ==
    \A n \in Names, t \in Tables :
        catalog[n][t].listed => catalog[n][t].by = owner[n]

\* A scan that completes has brought into the catalog, with its type, every
\* table that it could list and read and that stayed the same while it ran,
\* unless another scan of the source ran meanwhile, or DynamoDB's passed over
\* an error of the catalog: neither the commits on the way nor earlier scans
\* that failed half-way leave a gap.
CompletedCovers ==
    [][\A s \in Scans :
        Running(s) /\ scan'[s].pc = "completed" =>
            \A t \in scan[s].must :
                catalog'[Name(s)][t].listed
                /\ catalog'[Name(s)][t].type = content[scan[s].src][t]]_vars

\* What was classified by hand stays so, however often the source is scanned,
\* until the source is deleted.
CurationSurvives ==
    [][\A n \in Names, t \in Tables :
        catalog[n][t].tag /\ ~catalog'[n][t].tag => exists' # exists]_vars

\* Two scans of one source never wait for each other.  False: they meet their
\* tables in any order and each may hold a row that the other is to insert
\* next (nosql_scanner.py:468-489, native_scanner.py:956-983); PostgreSQL then
\* breaks one of them off (Break).
Awaits(s) ==
    {o \in Scans \ {s} : Running(s) /\ Running(o) /\ Name(o) = Name(s) /\
        \/ scan[s].pc = "insert" /\ scan[o].db
        \/ scan[s].pc = "schema" /\ \E t \in scan[s].todo \cap scan[o].rows : RowLocked(s, t)
        \/ scan[s].pc = "work" /\ scan[s].here = {} /\ scan[s].todo # {} /\ ~Of(s).early
             /\ \A t \in scan[s].todo : RowLocked(s, t) /\ t \in scan[o].rows
        \/ scan[s].pc = "work" /\ scan[s].here # {} /\ \A t \in scan[s].here : scan[o].types[t] # 0}
NoCircularWait == \A s, o \in Scans : ~(o \in Awaits(s) /\ s \in Awaits(o))

\* native_scanner.py:777-779: "two sources with the same DB name (e.g. both
\* Oracle instances named "ORCL") each get their own Database row": a scan
\* that has to insert its row finds the name free of other sources' rows.
OwnDatabaseRow ==
    \A s \in Scans :
        scan[s].pc = "insert" => owner[Name(s)] \in {NoSource, scan[s].src}
=============================================================================
