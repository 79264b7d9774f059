------------------------- MODULE CatalogScansProofs -------------------------
\* Proofs about CatalogScans, for any number of sources, names, tables and
\* scans, whatever the connectors and the contents of the sources.
EXTENDS CatalogScans, TLAPS

Unrooted == {"idle", "find", "insert", "completed"}
Rooting == {"list", "work", "schema", "checkpoint"}

ScanRec == [pc: Unrooted \cup Rooting,
            src: Sources \cup {NoSource}, root: Sources \cup {NoSource},
            todo: SUBSET Tables, here: SUBSET Tables, seen: [Tables -> Nat], since: Nat, db: BOOLEAN,
            rows: SUBSET Tables, types: [Tables -> Nat], lost: BOOLEAN, must: SUBSET Tables]

EntryRec == [listed: BOOLEAN, type: Nat, tag: BOOLEAN, by: Sources \cup {NoSource}]

Types ==
    /\ content \in [Sources -> [Tables -> Nat]]
    /\ owner \in [Names -> Sources \cup {NoSource}]
    /\ catalog \in [Names -> [Tables -> EntryRec]]
    /\ scan \in [Scans -> ScanRec]

\* A scan that has written anything has the database row it writes under: its
\* own, not committed yet, or the committed one of its source.
RecordOK(r) ==
    /\ r.pc \notin {"idle", "completed"} => r.src \in Sources
    /\ r.pc \in Unrooted => ~r.db /\ r.rows = {} /\ r.types = Nowhere
    /\ r.pc \in Rooting => r.root = r.src
    /\ r.rows # {} \/ r.types # Nowhere => r.db \/ owner[DbName[r.src]] = r.root
    /\ r.db => owner[DbName[r.src]] = NoSource

\* Two scans do not insert one name.
OneInsert ==
    \A s, o \in Scans : scan[s].db /\ scan[o].db /\ Name(s) = Name(o) => s = o

\* What is listed belongs to the source of the database row.
Owned ==
    \A n \in Names, t \in Tables :
        catalog[n][t].listed => catalog[n][t].by = owner[n] /\ owner[n] \in Sources

Inv == Types /\ (\A s \in Scans : RecordOK(scan[s])) /\ OneInsert /\ Owned

LEMMA ConstantFacts == NoSource \notin Sources /\ CommitEvery \in Nat
                       /\ \A d \in Sources : Contents[d] \subseteq [Tables -> Nat]
BY CatalogAssumption

LEMMA IdleType == Idle \in ScanRec /\ [Idle EXCEPT !.pc = "completed"] \in ScanRec
<1>1. Nowhere \in [Tables -> Nat]
    BY DEF Nowhere
<1>2. Idle \in ScanRec
    BY <1>1 DEF Idle, ScanRec, Unrooted, Rooting
<1>3. QED
    BY <1>2 DEF ScanRec, Unrooted

LEMMA IdleOK == RecordOK(Idle) /\ RecordOK([Idle EXCEPT !.pc = "completed"])
BY DEF Idle, RecordOK, Unrooted, Rooting

\* A step of one scan that leaves the catalog alone.
LEMMA AloneKeeps ==
    ASSUME Inv, NEW s \in Scans, NEW r \in ScanRec, scan' = [scan EXCEPT ![s] = r],
           RecordOK(r), r.db => \A o \in Scans \ {s} : ~(scan[o].db /\ Name(o) = DbName[r.src]),
           content' \in [Sources -> [Tables -> Nat]], UNCHANGED <<owner, catalog>>
    PROVE  Inv'
<1>1. Types' /\ scan'[s] = r /\ \A o \in Scans : o # s => scan'[o] = scan[o]
    BY DEF Inv, Types
<1>2. \A o \in Scans : RecordOK(scan'[o])
    BY <1>1 DEF Inv
<1>3. \A o \in Scans : RecordOK(scan[o])'
    BY <1>2 DEF RecordOK
<1>4. OneInsert'
    BY <1>1 DEF Inv, OneInsert, Name
<1>5. Owned'
    BY DEF Inv, Owned
<1>6. QED
    BY <1>1, <1>3, <1>4, <1>5 DEF Inv

\* A step of one scan that commits what it has written.
LEMMA CommitKeeps ==
    ASSUME Inv, NEW s \in Scans, Running(s), Commit(s), UNCHANGED content,
           NEW r \in ScanRec, scan' = [scan EXCEPT ![s] = r],
           ~r.db, r.rows = {}, r.types = Nowhere,
           r.pc \notin {"idle", "completed"} => r.src \in Sources,
           r.pc \in Rooting => r.root = r.src
    PROVE  Inv'
<1> DEFINE q == scan[s]
           n == DbName[q.src]
<1>1. /\ q \in ScanRec /\ RecordOK(q) /\ q.src \in Sources /\ n \in Names /\ n = Name(s)
      /\ owner \in [Names -> Sources \cup {NoSource}]
      /\ catalog \in [Names -> [Tables -> EntryRec]]
      /\ q.root \in Sources \cup {NoSource} /\ q.types \in [Tables -> Nat]
    BY DEF Inv, Types, Running, RecordOK, Names, Name, ScanRec
<1>2. /\ owner' = IF q.db THEN [owner EXCEPT ![n] = q.root] ELSE owner
      /\ catalog'[n] = [t \in Tables |-> Entry(s, t)]
      /\ \A m \in Names : m # n => catalog'[m] = catalog[m]
      /\ DOMAIN catalog' = Names
    BY <1>1 DEF Commit
<1>3. ASSUME NEW t \in Tables
      PROVE  /\ Entry(s, t) \in EntryRec
             /\ Entry(s, t).listed =>
                  \/ (t \in q.rows \/ q.types[t] # 0) /\ Entry(s, t).by = q.src
                  \/ catalog[n][t].listed /\ Entry(s, t).by = catalog[n][t].by
    <2> DEFINE old == catalog[n][t]
               row == IF t \in q.rows /\ ~old.listed
                      THEN [Unlisted EXCEPT !.listed = TRUE, !.by = q.src] ELSE old
    <2>1. old \in EntryRec
        BY <1>1
    <2>2. row \in EntryRec /\ (row.listed => \/ t \in q.rows /\ row.by = q.src
                                             \/ old.listed /\ row.by = old.by)
        BY <1>1, <2>1 DEF EntryRec, Unlisted
    <2>3. Entry(s, t) = IF q.types[t] = 0 THEN row ELSE [Typed(row, q.types[t]) EXCEPT !.by = q.src]
        BY <1>1 DEF Entry
    <2> HIDE DEF row
    <2>4. CASE q.types[t] = 0
        BY <2>2, <2>3, <2>4
    <2>5. CASE q.types[t] # 0
        <3>1. q.types[t] \in Nat
            BY <1>1
        <3>2. Typed(row, q.types[t]) \in EntryRec
            BY <2>2, <3>1 DEF Typed, EntryRec
        <3>3. Entry(s, t) \in EntryRec /\ Entry(s, t).by = q.src
            BY <1>1, <2>3, <2>5, <3>2 DEF EntryRec
        <3>4. QED
            BY <2>5, <3>3
    <2>6. QED
        BY <2>4, <2>5
<1>4. Types'
    <2>1. catalog' \in [Names -> [Tables -> EntryRec]]
        <3>1. catalog'[n] \in [Tables -> EntryRec]
            BY <1>2, <1>3
        <3>2. \A m \in Names : catalog'[m] \in [Tables -> EntryRec]
            BY <1>1, <1>2, <3>1
        <3>3. QED
            BY <1>1, <3>2 DEF Commit
    <2>2. owner' \in [Names -> Sources \cup {NoSource}]
        BY <1>1, <1>2
    <2>3. QED
        BY <2>1, <2>2 DEF Inv, Types
<1>5. scan'[s] = r /\ \A o \in Scans : o # s => scan'[o] = scan[o]
    BY DEF Inv, Types
<1>6. ASSUME NEW o \in Scans PROVE RecordOK(scan[o])'
    <2>1. CASE o = s
        BY <1>5, <2>1 DEF RecordOK
    <2>2. CASE o # s
        <3>1. RecordOK(scan[o]) /\ scan'[o] = scan[o] /\ scan[o] \in ScanRec
            BY <1>5, <2>2 DEF Inv, Types
        <3>2. CASE owner'[DbName[scan[o].src]] = owner[DbName[scan[o].src]]
            BY <3>1, <3>2 DEF RecordOK
        <3>3. CASE owner'[DbName[scan[o].src]] # owner[DbName[scan[o].src]]
            <4>1. q.db /\ DbName[scan[o].src] = n
                BY <1>1, <1>2, <3>3
            <4>2. owner[n] = NoSource /\ ~scan[o].db
                BY <1>1, <2>2, <4>1 DEF RecordOK, Inv, OneInsert, Name
            <4>3. scan[o].rows = {} /\ scan[o].types = Nowhere
                <5>1. scan[o].rows # {} \/ scan[o].types # Nowhere => scan[o].root = NoSource
                    BY <3>1, <4>1, <4>2 DEF RecordOK
                <5>2. scan[o].pc \in Rooting => scan[o].root \in Sources
                    BY <3>1, ConstantFacts DEF RecordOK, Rooting, ScanRec
                <5>3. scan[o].pc \in Unrooted \cup Rooting
                    BY <3>1 DEF ScanRec
                <5>4. QED
                    BY <3>1, <5>1, <5>2, <5>3, ConstantFacts DEF RecordOK
            <4>4. QED
                BY <3>1, <4>2, <4>3 DEF RecordOK
        <3>4. QED
            BY <3>2, <3>3
    <2>3. QED
        BY <2>1, <2>2
<1>7. OneInsert'
    BY <1>5 DEF Inv, OneInsert, Name
<1>8. ASSUME NEW m \in Names, NEW t \in Tables, catalog'[m][t].listed
      PROVE  catalog'[m][t].by = owner'[m] /\ owner'[m] \in Sources
    <2>1. CASE m # n
        BY <1>1, <1>2, <1>8, <2>1 DEF Inv, Owned
    <2>2. CASE m = n
        <3>1. catalog'[m][t] = Entry(s, t)
            BY <1>2, <2>2
        <3>2. CASE (t \in q.rows \/ q.types[t] # 0) /\ Entry(s, t).by = q.src
            <4>1. q.rows # {} \/ q.types # Nowhere
                BY <3>2 DEF Nowhere
            <4>2. q.root = q.src /\ (q.db \/ owner[n] = q.root)
                BY <1>1, <4>1 DEF RecordOK, ScanRec
            <4>3. owner'[n] = q.src
                BY <1>1, <1>2, <4>2
            <4>4. QED
                BY <1>1, <2>2, <3>1, <3>2, <4>3
        <3>3. CASE catalog[n][t].listed /\ Entry(s, t).by = catalog[n][t].by
            <4>1. catalog[n][t].by = owner[n] /\ owner[n] \in Sources
                BY <1>1, <3>3 DEF Inv, Owned
            <4>2. owner' = owner
                BY <1>1, <1>2, <4>1, ConstantFacts DEF RecordOK
            <4>3. QED
                BY <2>2, <3>1, <3>3, <4>1, <4>2
        <3>4. QED
            BY <1>3, <1>8, <3>1, <3>2, <3>3
    <2>3. QED
        BY <2>1, <2>2
<1>9. QED
    BY <1>4, <1>6, <1>7, <1>8 DEF Inv, Owned

\* What a step may do to a scan that stays under its database row and writes
\* nothing, or only where it may.
Moves(q, r) ==
    /\ r \in ScanRec /\ r.src = q.src /\ r.root = q.root /\ r.db = q.db
    /\ r.pc \in Rooting /\ q.pc \in Rooting

LEMMA MovesOK ==
    ASSUME NEW q, NEW r, Moves(q, r), RecordOK(q),
           (r.rows = q.rows /\ r.types = q.types) \/ q.db \/ owner[DbName[q.src]] = q.root
    PROVE  RecordOK(r)
BY DEF Moves, RecordOK, Unrooted, Rooting

LEMMA MoveKeeps ==
    ASSUME Inv, NEW s \in Scans, NEW r, Moves(scan[s], r), scan' = [scan EXCEPT ![s] = r],
           (r.rows = scan[s].rows /\ r.types = scan[s].types) \/ Rooted(s),
           UNCHANGED <<content, owner, catalog>>
    PROVE  Inv'
<1>1. RecordOK(scan[s]) /\ content \in [Sources -> [Tables -> Nat]]
    BY DEF Inv, Types
<1>2. RecordOK(r)
    BY <1>1, MovesOK DEF Rooted, Name
<1>3. r.db => \A o \in Scans \ {s} : ~(scan[o].db /\ Name(o) = DbName[r.src])
    BY DEF Moves, Inv, OneInsert, Name
<1>4. QED
    BY <1>1, <1>2, <1>3, AloneKeeps DEF Moves

LEMMA StartKeeps ==
    ASSUME Inv, NEW s \in Scans, NEW d \in Sources, Start(s, d)
    PROVE  Inv'
<1> DEFINE rivals == {o \in Scans \ {s} : Running(o) /\ scan[o].src = d}
           began == [Idle EXCEPT !.pc = "find", !.src = d,
                        !.seen = IF kind[d].reads = "start" THEN content[d] ELSE Nowhere,
                        !.must = IF rivals = {} THEN Present(d) ELSE {}]
<1>0. content \in [Sources -> [Tables -> Nat]] /\ scan \in [Scans -> ScanRec]
    BY DEF Inv, Types
<1>1. scan' = [o \in Scans |-> CASE o = s -> began
                                 [] o \in rivals -> [scan[o] EXCEPT !.must = {}]
                                 [] OTHER -> scan[o]]
    BY DEF Start
<1>2. began \in ScanRec /\ began.pc = "find" /\ began.src = d
      /\ ~began.db /\ began.rows = {} /\ began.types = Nowhere
    <2>1. (IF kind[d].reads = "start" THEN content[d] ELSE Nowhere) \in [Tables -> Nat]
        BY <1>0 DEF Nowhere
    <2>2. (IF rivals = {} THEN Present(d) ELSE {}) \in SUBSET Tables
        BY DEF Present
    <2> DEFINE seen == IF kind[d].reads = "start" THEN content[d] ELSE Nowhere
               must == IF rivals = {} THEN Present(d) ELSE {}
               a == [Idle EXCEPT !.pc = "find"]
    <2>3. a \in ScanRec /\ a.pc = "find" /\ ~a.db /\ a.rows = {} /\ a.types = Nowhere
        <3>1. Idle \in ScanRec /\ ~Idle.db /\ Idle.rows = {} /\ Idle.types = Nowhere
            BY IdleType DEF Idle
        <3>2. QED
            BY <3>1 DEF ScanRec, Unrooted
    <2> HIDE DEF seen, must, a
    <2>4. began = [[[a EXCEPT !.src = d] EXCEPT !.seen = seen] EXCEPT !.must = must]
        BY DEF a, seen, must
    <2>5. seen \in [Tables -> Nat] /\ must \in SUBSET Tables
        BY <2>1, <2>2 DEF seen, must
    <2> DEFINE b == [a EXCEPT !.src = d]
               c == [b EXCEPT !.seen = seen]
               e == [c EXCEPT !.must = must]
    <2>6. b \in ScanRec /\ b.pc = "find" /\ b.src = d /\ ~b.db /\ b.rows = {} /\ b.types = Nowhere
        BY <2>3 DEF ScanRec
    <2> HIDE DEF b
    <2>7. c \in ScanRec /\ c.pc = "find" /\ c.src = d /\ ~c.db /\ c.rows = {} /\ c.types = Nowhere
        BY <2>5, <2>6 DEF ScanRec
    <2> HIDE DEF c
    <2>8. e \in ScanRec /\ e.pc = "find" /\ e.src = d /\ ~e.db /\ e.rows = {} /\ e.types = Nowhere
        BY <2>5, <2>7 DEF ScanRec
    <2>9. began = e
        BY <2>4 DEF b, c
    <2> HIDE DEF began, e
    <2>10. QED
        BY <2>8, <2>9
<1>3. s \notin rivals
    OBVIOUS
<1> HIDE DEF began, rivals
<1>4. scan'[s] = began
    BY <1>1, <1>3
<1>5. ASSUME NEW o \in Scans, o # s
      PROVE  /\ scan'[o] \in ScanRec /\ scan'[o].pc = scan[o].pc /\ scan'[o].src = scan[o].src
             /\ scan'[o].root = scan[o].root /\ scan'[o].db = scan[o].db
             /\ scan'[o].rows = scan[o].rows /\ scan'[o].types = scan[o].types
    <2>1. scan'[o] = scan[o] \/ scan'[o] = [scan[o] EXCEPT !.must = {}]
        BY <1>1, <1>5
    <2>2. scan[o] \in ScanRec
        BY <1>0
    <2>3. QED
        BY <2>1, <2>2 DEF ScanRec
<1>6. Types'
    <2>1. \A o \in Scans : scan'[o] \in ScanRec
        BY <1>2, <1>4, <1>5
    <2>2. scan' \in [Scans -> ScanRec]
        BY <1>1, <2>1
    <2>3. QED
        BY <2>2 DEF Start, Inv, Types
<1>7. ASSUME NEW o \in Scans PROVE RecordOK(scan[o])'
    <2>1. CASE o = s
        BY <1>2, <1>4, <2>1 DEF RecordOK, Unrooted, Rooting
    <2>2. CASE o # s
        <3>1. RecordOK(scan[o]) /\ owner' = owner
            BY DEF Start, Inv
        <3>2. QED
            BY <1>5, <2>2, <3>1 DEF RecordOK
    <2>3. QED
        BY <2>1, <2>2
<1>8. OneInsert'
    BY <1>2, <1>4, <1>5 DEF Inv, OneInsert, Name
<1>9. Owned'
    BY DEF Start, Inv, Owned
<1>10. QED
    BY <1>6, <1>7, <1>8, <1>9 DEF Inv

LEMMA FindKeeps ==
    ASSUME Inv, NEW s \in Scans, FindDb(s)
    PROVE  Inv'
<1> DEFINE pc == IF Found(s) THEN "list" ELSE "insert"
           root == IF Found(s) THEN owner[Name(s)] ELSE scan[s].root
           r == [[scan[s] EXCEPT !.pc = pc] EXCEPT !.root = root]
<1>1. /\ scan[s] \in ScanRec /\ RecordOK(scan[s]) /\ scan[s].pc = "find"
      /\ content \in [Sources -> [Tables -> Nat]]
      /\ UNCHANGED <<content, owner, catalog>>
    BY DEF Inv, Types, FindDb
<1>2. pc \in {"list", "insert"} /\ root \in Sources \cup {NoSource} /\ scan' = [scan EXCEPT ![s] = r]
    <2>1. Found(s) => owner[Name(s)] \in Sources
        BY <1>1 DEF Found, RecordOK
    <2>2. scan[s].root \in Sources \cup {NoSource}
        BY <1>1 DEF ScanRec
    <2>3. scan' = [scan EXCEPT ![s] = r]
        BY <1>1 DEF FindDb, Inv, Types
    <2>4. QED
        BY <2>1, <2>2, <2>3
<1>3. /\ r \in ScanRec /\ r.pc = pc /\ r.root = root /\ r.src = scan[s].src /\ r.db = scan[s].db
      /\ r.rows = scan[s].rows /\ r.types = scan[s].types
    <2> HIDE DEF pc, root
    <2>1. QED
        BY <1>1, <1>2 DEF ScanRec, Unrooted, Rooting
<1>4. RecordOK(r) /\ ~r.db
    BY <1>1, <1>2, <1>3 DEF RecordOK, Found, Unrooted, Rooting
<1>5. QED
    BY <1>1, <1>2, <1>3, <1>4, AloneKeeps

LEMMA InsertKeeps ==
    ASSUME Inv, NEW s \in Scans, InsertDb(s)
    PROVE  Inv'
<1> DEFINE r == [scan[s] EXCEPT !.pc = "list", !.db = TRUE, !.root = scan[s].src]
<1>1. /\ scan[s] \in ScanRec /\ RecordOK(scan[s]) /\ scan[s].pc = "insert"
      /\ content \in [Sources -> [Tables -> Nat]]
      /\ UNCHANGED <<content, owner, catalog>> /\ scan' = [scan EXCEPT ![s] = r]
      /\ owner[Name(s)] = NoSource
    BY DEF Inv, Types, InsertDb
<1>2. /\ r \in ScanRec /\ r.pc = "list" /\ r.db /\ r.root = r.src /\ r.src = scan[s].src
    BY <1>1 DEF ScanRec, Rooting
<1>3. RecordOK(r)
    BY <1>1, <1>2 DEF RecordOK, Name, Unrooted
<1>4. ASSUME NEW o \in Scans \ {s}, scan[o].db, Name(o) = DbName[r.src] PROVE FALSE
    <2>1. Running(o)
        BY <1>4 DEF Inv, RecordOK, Running, Unrooted
    <2>2. QED
        BY <1>2, <1>4, <2>1 DEF InsertDb, DbLocked, Name
<1>5. QED
    BY <1>1, <1>2, <1>3, <1>4, AloneKeeps

LEMMA ListKeeps ==
    ASSUME Inv, NEW s \in Scans, List(s)
    PROVE  Inv'
<1>1. /\ scan[s] \in ScanRec /\ RecordOK(scan[s]) /\ scan[s].pc = "list" /\ scan[s].src \in Sources
      /\ content \in [Sources -> [Tables -> Nat]]
      /\ UNCHANGED <<content, owner, catalog>>
    BY DEF Inv, Types, List, RecordOK
<1>2. PICK todo \in SUBSET Tables, hidden \in SUBSET Tables, seen \in [Tables -> Nat] :
          scan' = [scan EXCEPT ![s].pc = "work", ![s].todo = todo,
                               ![s].must = @ \ hidden, ![s].seen = seen]
    <2> DEFINE d == scan[s].src
               all == CASE Of(s).early \/ Of(s).reads = "before" -> Tables
                        [] Of(s).reads = "start" -> {t \in Tables : scan[s].seen[t] # 0}
                        [] OTHER -> Present(d)
               seen == IF Of(s).reads = "list" THEN content[d] ELSE scan[s].seen
    <2>1. all \subseteq Tables
        BY DEF Present
    <2>2. seen \in [Tables -> Nat]
        BY <1>1 DEF ScanRec
    <2>3. PICK hidden \in SUBSET Tables :
              scan' = [scan EXCEPT ![s].pc = "work", ![s].todo = all \ hidden,
                                   ![s].must = @ \ hidden,
                                   ![s].seen = IF Of(s).reads = "list" THEN content[d] ELSE @]
        BY DEF List
    <2>4. scan' = [scan EXCEPT ![s].pc = "work", ![s].todo = all \ hidden,
                               ![s].must = @ \ hidden, ![s].seen = seen]
        BY <1>1, <2>3 DEF Inv, Types, ScanRec
    <2>5. all \ hidden \in SUBSET Tables
        BY <2>1
    <2> HIDE DEF all, seen
    <2>6. QED
        BY <2>2, <2>4, <2>5
<1> DEFINE r == [scan[s] EXCEPT !.pc = "work", !.todo = todo, !.must = @ \ hidden, !.seen = seen]
<1>4. Moves(scan[s], r) /\ r.rows = scan[s].rows /\ r.types = scan[s].types
    BY <1>1 DEF Moves, ScanRec, Rooting
<1>5. scan' = [scan EXCEPT ![s] = r]
    BY <1>2 DEF Inv, Types
<1>6. QED
    BY <1>1, <1>4, <1>5, MoveKeeps

\* What entering tables and writing columns make of a scan.
LEMMA EnterSchemaShape ==
    ASSUME Types, NEW s \in Scans, NEW x, EnterSchema(s, x), scan[s].src \in Sources
    PROVE  LET q == scan[s]
               r == scan'[s]
               there == {t \in q.todo : SchemaOf[t] = x} \cap Present(q.src)
           IN  /\ scan' = [scan EXCEPT ![s] = r] /\ Moves(q, r) /\ q.pc = "schema" /\ r.pc = "work"
               /\ r.todo = q.todo \ {t \in q.todo : SchemaOf[t] = x} /\ r.here = q.here \cup there
               /\ r.since = q.since /\ r.rows = q.rows \cup there /\ r.types = q.types
               /\ r.lost = q.lost /\ r.must = q.must
               /\ \A t \in Tables : r.seen[t] \in {q.seen[t], content[q.src][t]}
<1> DEFINE q == scan[s]
           all == {t \in q.todo : SchemaOf[t] = x}
           there == all \cap Present(q.src)
<1>1. /\ q \in ScanRec /\ q.pc = "schema" /\ content[q.src] \in [Tables -> Nat]
      /\ q.todo \in SUBSET Tables /\ q.seen \in [Tables -> Nat] /\ q.rows \in SUBSET Tables
      /\ q.here \in SUBSET Tables
    BY DEF Types, EnterSchema, ScanRec
<1>2. PICK read \in SUBSET there :
          scan' = [scan EXCEPT ![s].pc = "work", ![s].todo = @ \ all, ![s].here = @ \cup there,
                     ![s].rows = @ \cup there,
                     ![s].seen = [t \in Tables |-> IF t \in read THEN content[scan[s].src][t] ELSE @[t]]]
    BY DEF EnterSchema
<1> DEFINE todo == q.todo \ all
           rows == q.rows \cup there
           here == q.here \cup there
           seen == [t \in Tables |-> IF t \in read THEN content[q.src][t] ELSE q.seen[t]]
           r == [q EXCEPT !.pc = "work", !.todo = todo, !.here = here, !.rows = rows, !.seen = seen]
<1>3. scan' = [scan EXCEPT ![s] = r]
    BY <1>1, <1>2 DEF Types, ScanRec
<1>4. todo \in SUBSET Tables /\ here \in SUBSET Tables /\ rows \in SUBSET Tables
    BY <1>1
<1>5. seen \in [Tables -> Nat] /\ \A t \in Tables : seen[t] \in {q.seen[t], content[q.src][t]}
    BY <1>1
<1> HIDE DEF todo, here, there, rows, seen
<1>6. /\ r \in ScanRec /\ r.pc = "work" /\ r.todo = todo /\ r.here = here /\ r.rows = rows
      /\ r.seen = seen /\ r.src = q.src /\ r.root = q.root /\ r.db = q.db /\ r.since = q.since
      /\ r.types = q.types /\ r.lost = q.lost /\ r.must = q.must
    BY <1>1, <1>4, <1>5 DEF ScanRec, Rooting
<1>7. scan'[s] = r
    BY <1>3 DEF Types
<1> HIDE DEF r
<1>8. QED
    BY <1>1, <1>3, <1>5, <1>6, <1>7 DEF Moves, Rooting, todo, here, there, rows

LEMMA EnterTableShape ==
    ASSUME Types, NEW s \in Scans, NEW t \in Tables, EnterTable(s, t), scan[s].src \in Sources
    PROVE  LET q == scan[s]
               r == scan'[s]
           IN  /\ scan' = [scan EXCEPT ![s] = r] /\ Moves(q, r) /\ q.pc = "work" /\ r.pc = "work"
               /\ q.here = {} /\ t \in q.todo
               /\ r.todo = q.todo \ {t} /\ r.here = {t}
               /\ r.since = q.since /\ r.rows = q.rows \cup {t} /\ r.types = q.types
               /\ r.lost = q.lost /\ r.must = q.must
               /\ \A u \in Tables : r.seen[u] \in {q.seen[u], content[q.src][u]}
<1> DEFINE q == scan[s]
<1>1. /\ q \in ScanRec /\ q.pc = "work" /\ content[q.src] \in [Tables -> Nat]
      /\ q.here = {} /\ t \in q.todo
      /\ q.todo \in SUBSET Tables /\ q.seen \in [Tables -> Nat] /\ q.rows \in SUBSET Tables
    BY DEF Types, EnterTable, ScanRec
<1>2. PICK read \in ReadSoFar(s, t) :
        scan' = [scan EXCEPT ![s].todo = @ \ {t}, ![s].here = {t}, ![s].rows = @ \cup {t},
                             ![s].seen[t] = read]
    BY DEF EnterTable
<1>3. read \in {q.seen[t], content[q.src][t]}
    BY DEF ReadSoFar
<1> DEFINE todo == q.todo \ {t}
           rows == q.rows \cup {t}
           seen == [q.seen EXCEPT ![t] = read]
           r == [q EXCEPT !.todo = todo, !.here = {t}, !.rows = rows, !.seen = seen]
<1>4. scan' = [scan EXCEPT ![s] = r]
    BY <1>1, <1>2 DEF Types, ScanRec
<1>5. todo \in SUBSET Tables /\ {t} \in SUBSET Tables /\ rows \in SUBSET Tables
    BY <1>1
<1>6. seen \in [Tables -> Nat] /\ \A u \in Tables : seen[u] \in {q.seen[u], content[q.src][u]}
    BY <1>1, <1>3
<1> HIDE DEF todo, rows, seen
<1>7. /\ r \in ScanRec /\ r.pc = "work" /\ r.todo = todo /\ r.here = {t} /\ r.rows = rows
      /\ r.seen = seen /\ r.src = q.src /\ r.root = q.root /\ r.db = q.db /\ r.since = q.since
      /\ r.types = q.types /\ r.lost = q.lost /\ r.must = q.must
    BY <1>1, <1>5, <1>6 DEF ScanRec, Rooting
<1>8. scan'[s] = r
    BY <1>4 DEF Types
<1> HIDE DEF r
<1>9. QED
    BY <1>1, <1>4, <1>6, <1>7, <1>8 DEF Moves, Rooting, todo, rows

LEMMA WriteShape ==
    ASSUME Types, NEW s \in Scans, NEW t \in Tables, WriteColumns(s, t), scan[s].src \in Sources
    PROVE  \E type \in {scan[s].seen[t], content[scan[s].src][t]} :
           LET q == scan[s]
               r == scan'[s]
           IN  /\ scan' = [scan EXCEPT ![s] = r] /\ Moves(q, r) /\ q.pc = "work" /\ t \in q.here
               /\ r.pc \in {"work", "checkpoint"} /\ type \in Nat
               /\ q.since + 1 = CommitEvery => r.since = 0
               /\ r.since \in {0, q.since + 1}
               /\ r.todo = q.todo /\ r.here = q.here \ {t} /\ r.rows = q.rows
               /\ r.types = [q.types EXCEPT ![t] = type] /\ r.seen = [q.seen EXCEPT ![t] = 0]
               /\ r.lost = q.lost
               /\ type = 0 => r.must = q.must \ {t}
               /\ type # 0 => r.must = q.must
<1> DEFINE q == scan[s]
           full == Of(s).early /\ q.since + 1 = CommitEvery
<1>1. /\ q \in ScanRec /\ q.pc = "work" /\ t \in q.here /\ content[q.src] \in [Tables -> Nat]
      /\ q.here \in SUBSET Tables /\ q.seen \in [Tables -> Nat] /\ q.types \in [Tables -> Nat]
      /\ q.since \in Nat /\ q.must \in SUBSET Tables
    BY DEF Types, WriteColumns, ScanRec
<1>2. PICK type \in IF q.seen[t] # 0 THEN {q.seen[t]} ELSE {0, content[q.src][t]} :
        scan' = [scan EXCEPT ![s].pc = IF full THEN "checkpoint" ELSE "work",
                   ![s].here = @ \ {t}, ![s].types[t] = type, ![s].seen[t] = 0,
                   ![s].since = IF full \/ ~Of(s).early THEN 0 ELSE @ + 1,
                   ![s].must = IF type = 0 THEN @ \ {t} ELSE @]
    BY DEF WriteColumns
<1>3. type \in {q.seen[t], content[q.src][t]} /\ type \in Nat
    BY <1>1, <1>2
<1> DEFINE pc == IF full THEN "checkpoint" ELSE "work"
           here == q.here \ {t}
           types == [q.types EXCEPT ![t] = type]
           seen == [q.seen EXCEPT ![t] = 0]
           since == IF full \/ ~Of(s).early THEN 0 ELSE q.since + 1
           must == IF type = 0 THEN q.must \ {t} ELSE q.must
           r == [q EXCEPT !.pc = pc, !.here = here, !.types = types, !.seen = seen,
                          !.since = since, !.must = must]
<1>4. scan' = [scan EXCEPT ![s] = r]
    BY <1>1, <1>2 DEF Types, ScanRec
<1>5. /\ pc \in {"work", "checkpoint"} /\ here \in SUBSET Tables /\ types \in [Tables -> Nat]
      /\ seen \in [Tables -> Nat]
    BY <1>1, <1>3
<1>6. /\ since \in Nat /\ since \in {0, q.since + 1}
      /\ q.since + 1 = CommitEvery => since = 0
    BY <1>1
<1>7. must \in SUBSET Tables /\ (type = 0 => must = q.must \ {t}) /\ (type # 0 => must = q.must)
    BY <1>1
<1> HIDE DEF pc, here, types, seen, since, must
<1>8. /\ r \in ScanRec /\ r.pc = pc /\ r.todo = q.todo /\ r.here = here /\ r.rows = q.rows
      /\ r.seen = seen /\ r.src = q.src /\ r.root = q.root /\ r.db = q.db /\ r.since = since
      /\ r.types = types /\ r.lost = q.lost /\ r.must = must
    BY <1>1, <1>5, <1>6, <1>7 DEF ScanRec, Rooting
<1>9. scan'[s] = r
    BY <1>4 DEF Types
<1> HIDE DEF r
<1>10. /\ scan' = [scan EXCEPT ![s] = scan'[s]] /\ Moves(q, scan'[s])
    BY <1>1, <1>4, <1>5, <1>8, <1>9 DEF Moves, Rooting
<1> WITNESS type \in {scan[s].seen[t], content[scan[s].src][t]}
<1>11. QED
    BY <1>1, <1>3, <1>5, <1>6, <1>7, <1>8, <1>9, <1>10 DEF here, types, seen

LEMMA SwallowShape ==
    ASSUME Types, NEW s \in Scans, SwallowError(s)
    PROVE  LET q == scan[s]
               r == scan'[s]
           IN  /\ scan' = [scan EXCEPT ![s] = r] /\ r \in ScanRec
               /\ q.pc = "work" /\ r.pc = "work" /\ r.src = q.src /\ r.root = q.root
               /\ ~r.db /\ r.rows = {} /\ r.types = Nowhere /\ r.since = q.since
               /\ r.here = {} /\ r.must = {} /\ r.todo = q.todo
<1>1. /\ scan[s] \in ScanRec /\ scan[s].pc = "work" /\ Nowhere \in [Tables -> Nat]
      /\ scan' = [scan EXCEPT ![s] = [Clean(s) EXCEPT !.here = {}, !.lost = TRUE, !.must = {}]]
    BY DEF Types, SwallowError, Nowhere
<1> DEFINE r == [scan[s] EXCEPT !.db = FALSE, !.rows = {}, !.types = Nowhere, !.here = {},
                                !.lost = TRUE, !.must = {}]
<1>2. scan' = [scan EXCEPT ![s] = r]
    BY <1>1 DEF Clean, ScanRec
<1>3. /\ r \in ScanRec /\ r.pc = "work" /\ r.src = scan[s].src /\ r.root = scan[s].root
      /\ ~r.db /\ r.rows = {} /\ r.types = Nowhere /\ r.since = scan[s].since
      /\ r.here = {} /\ r.must = {} /\ r.todo = scan[s].todo
    BY <1>1 DEF ScanRec
<1>4. scan'[s] = r
    BY <1>2 DEF Types
<1> HIDE DEF r
<1>5. QED
    BY <1>1, <1>2, <1>3, <1>4

LEMMA EnterKeeps ==
    ASSUME Inv, NEW s \in Scans,
           (\E x \in Schemas : EnterSchema(s, x))
           \/ \E t \in Tables : EnterTable(s, t) \/ WriteColumns(s, t)
    PROVE  Inv'
<1>1. Types /\ Rooted(s) /\ UNCHANGED <<content, owner, catalog>>
    BY DEF Inv, EnterSchema, EnterTable, WriteColumns
<1>2. scan[s].src \in Sources
    BY DEF Inv, RecordOK, EnterSchema, EnterTable, WriteColumns
<1>3. scan' = [scan EXCEPT ![s] = scan'[s]] /\ Moves(scan[s], scan'[s])
    <2>1. ASSUME NEW x \in Schemas, EnterSchema(s, x) PROVE <1>3!:
        BY <1>1, <1>2, <2>1, EnterSchemaShape
    <2>2. ASSUME NEW t \in Tables, EnterTable(s, t) PROVE <1>3!:
        BY <1>1, <1>2, <2>2, EnterTableShape
    <2>3. ASSUME NEW t \in Tables, WriteColumns(s, t) PROVE <1>3!:
        BY <1>1, <1>2, <2>3, WriteShape
    <2>4. QED
        BY <2>1, <2>2, <2>3
<1>4. QED
    BY <1>1, <1>3, MoveKeeps

LEMMA SwallowKeeps ==
    ASSUME Inv, NEW s \in Scans, SwallowError(s)
    PROVE  Inv'
<1>1. /\ Types /\ RecordOK(scan[s]) /\ UNCHANGED <<content, owner, catalog>>
      /\ content \in [Sources -> [Tables -> Nat]]
    BY DEF Inv, Types, SwallowError
<1>2. /\ scan' = [scan EXCEPT ![s] = scan'[s]] /\ scan'[s] \in ScanRec
      /\ scan[s].pc = "work" /\ scan'[s].pc = "work"
      /\ scan'[s].src = scan[s].src /\ scan'[s].root = scan[s].root
      /\ ~scan'[s].db /\ scan'[s].rows = {} /\ scan'[s].types = Nowhere
    BY <1>1, SwallowShape
<1> DEFINE r == scan'[s]
<1> HIDE DEF r
<1>3. /\ scan' = [scan EXCEPT ![s] = r] /\ r \in ScanRec
      /\ r.pc = "work" /\ r.src = scan[s].src /\ r.root = scan[s].root
      /\ ~r.db /\ r.rows = {} /\ r.types = Nowhere
    BY <1>2 DEF r
<1>4. RecordOK(r)
    BY <1>1, <1>2, <1>3 DEF RecordOK, Rooting, Unrooted
<1>5. QED
    BY <1>1, <1>3, <1>4, AloneKeeps

\* The steps that commit.
LEMMA CleanType ==
    ASSUME NEW q \in ScanRec
    PROVE  LET r == [q EXCEPT !.db = FALSE, !.rows = {}, !.types = Nowhere]
           IN  /\ r \in ScanRec /\ r.pc = q.pc /\ r.src = q.src /\ r.root = q.root
               /\ ~r.db /\ r.rows = {} /\ r.types = Nowhere
<1>1. Nowhere \in [Tables -> Nat]
    BY DEF Nowhere
<1>2. QED
    BY <1>1 DEF ScanRec

LEMMA BeginKeeps ==
    ASSUME Inv, NEW s \in Scans, BeginSchema(s)
    PROVE  Inv'
<1> DEFINE r == [Clean(s) EXCEPT !.pc = "schema"]
<1>1. /\ scan[s] \in ScanRec /\ RecordOK(scan[s]) /\ scan[s].pc = "work"
      /\ Commit(s) /\ content' = content /\ scan' = [scan EXCEPT ![s] = r]
    BY DEF Inv, Types, BeginSchema
<1>2. /\ Clean(s) \in ScanRec /\ Clean(s).src = scan[s].src /\ Clean(s).root = scan[s].root
      /\ ~Clean(s).db /\ Clean(s).rows = {} /\ Clean(s).types = Nowhere
    BY <1>1, CleanType DEF Clean
<1>3. /\ r \in ScanRec /\ r.src = scan[s].src /\ r.root = scan[s].root
      /\ ~r.db /\ r.rows = {} /\ r.types = Nowhere
    BY <1>2 DEF ScanRec, Rooting
<1>4. Running(s) /\ scan[s].src \in Sources /\ scan[s].root = scan[s].src
    BY <1>1 DEF Running, RecordOK, Rooting
<1> HIDE DEF r
<1>5. QED
    BY <1>1, <1>3, <1>4, CommitKeeps

LEMMA CheckpointKeeps ==
    ASSUME Inv, NEW s \in Scans, Checkpoint(s)
    PROVE  Inv'
<1> DEFINE r == [Clean(s) EXCEPT !.pc = "work"]
<1>1. /\ scan[s] \in ScanRec /\ RecordOK(scan[s]) /\ scan[s].pc = "checkpoint"
      /\ Commit(s) /\ content' = content /\ scan' = [scan EXCEPT ![s] = r]
    BY DEF Inv, Types, Checkpoint
<1>2. /\ Clean(s) \in ScanRec /\ Clean(s).src = scan[s].src /\ Clean(s).root = scan[s].root
      /\ ~Clean(s).db /\ Clean(s).rows = {} /\ Clean(s).types = Nowhere
    BY <1>1, CleanType DEF Clean
<1>3. /\ r \in ScanRec /\ r.src = scan[s].src /\ r.root = scan[s].root
      /\ ~r.db /\ r.rows = {} /\ r.types = Nowhere
    BY <1>2 DEF ScanRec, Rooting
<1>4. Running(s) /\ scan[s].src \in Sources /\ scan[s].root = scan[s].src
    BY <1>1 DEF Running, RecordOK, Rooting
<1> HIDE DEF r
<1>5. QED
    BY <1>1, <1>3, <1>4, CommitKeeps

LEMMA EndKeeps ==
    ASSUME Inv, NEW s \in Scans, Finish(s) \/ Fail(s)
    PROVE  Inv'
<1>1. PICK r \in {Idle, [Idle EXCEPT !.pc = "completed"]} : scan' = [scan EXCEPT ![s] = r]
    BY DEF Finish, Fail
<1>2. Commit(s) /\ content' = content /\ Running(s)
    BY DEF Finish, Fail, Running, Through
<1>3. /\ r \in ScanRec /\ r.pc \in {"idle", "completed"}
      /\ ~r.db /\ r.rows = {} /\ r.types = Nowhere
    <2>1. /\ Idle \in ScanRec /\ Idle.pc = "idle"
          /\ ~Idle.db /\ Idle.rows = {} /\ Idle.types = Nowhere
        BY IdleType DEF Idle
    <2> DEFINE done == [Idle EXCEPT !.pc = "completed"]
    <2>2. /\ done \in ScanRec /\ done.pc = "completed"
          /\ ~done.db /\ done.rows = {} /\ done.types = Nowhere
        BY <2>1, IdleType DEF ScanRec
    <2>3. r = Idle \/ r = done
        BY <1>1
    <2> HIDE DEF done
    <2>4. QED
        BY <2>1, <2>2, <2>3
<1>4. r.pc \notin Rooting
    BY <1>3 DEF Rooting
<1>5. QED
    BY <1>1, <1>2, <1>3, <1>4, CommitKeeps

LEMMA BreakKeeps ==
    ASSUME Inv, NEW s \in Scans, Break(s)
    PROVE  Inv'
<1>1. ~Idle.db /\ content \in [Sources -> [Tables -> Nat]]
    BY DEF Idle, Inv, Types
<1>2. QED
    BY <1>1, IdleType, IdleOK, AloneKeeps DEF Break

-----------------------------------------------------------------------------
LEMMA ClassifyKeeps ==
    ASSUME Inv, NEW n \in Names, NEW t \in Tables, ClassifyColumn(n, t)
    PROVE  Inv'
<1>1. catalog \in [Names -> [Tables -> EntryRec]] /\ catalog' = [catalog EXCEPT ![n][t].tag = TRUE]
    BY DEF Inv, Types, ClassifyColumn
<1> DEFINE old == catalog[n][t]
           new == [old EXCEPT !.tag = TRUE]
<1>2. new \in EntryRec /\ new.listed = old.listed /\ new.by = old.by
    <2>1. old \in EntryRec
        BY <1>1
    <2> HIDE DEF old
    <2>2. QED
        BY <2>1 DEF EntryRec
<1> HIDE DEF new
<1>3. catalog' = [catalog EXCEPT ![n] = [catalog[n] EXCEPT ![t] = new]]
    BY <1>1 DEF new
<1>4. /\ catalog' \in [Names -> [Tables -> EntryRec]]
      /\ \A m \in Names, u \in Tables : catalog'[m][u].listed = catalog[m][u].listed
                                        /\ catalog'[m][u].by = catalog[m][u].by
    <2> DEFINE row == [catalog[n] EXCEPT ![t] = new]
    <2>1. catalog[n] \in [Tables -> EntryRec]
        BY <1>1
    <2>2. row \in [Tables -> EntryRec] /\ row[t] = new
          /\ \A u \in Tables : u # t => row[u] = catalog[n][u]
        BY <1>2, <2>1
    <2> HIDE DEF row
    <2>3. catalog' = [catalog EXCEPT ![n] = row]
        BY <1>3 DEF row
    <2>4. catalog'[n] = row /\ \A m \in Names : m # n => catalog'[m] = catalog[m]
        BY <1>1, <2>3
    <2>5. \A m \in Names, u \in Tables :
             catalog'[m][u] = IF m = n /\ u = t THEN new ELSE catalog[m][u]
        BY <2>2, <2>4
    <2>6. catalog' \in [Names -> [Tables -> EntryRec]]
        BY <1>1, <2>2, <2>3
    <2>7. ASSUME NEW m \in Names, NEW u \in Tables
          PROVE  catalog'[m][u].listed = catalog[m][u].listed /\ catalog'[m][u].by = catalog[m][u].by
        <3>1. CASE m = n /\ u = t
            BY <1>2, <2>5, <3>1
        <3>2. CASE ~(m = n /\ u = t)
            BY <2>5, <3>2
        <3>3. QED
            BY <3>1, <3>2
    <2>8. QED
        BY <2>6, <2>7
<1>5. UNCHANGED <<content, owner, scan>>
    BY DEF ClassifyColumn
<1>6. Types' /\ OneInsert' /\ Owned'
    <2>1. Types'
        BY <1>4, <1>5 DEF Inv, Types
    <2>2. OneInsert'
        BY <1>5 DEF Inv, OneInsert, Name
    <2>3. Owned'
        BY <1>4, <1>5 DEF Inv, Owned
    <2>4. QED
        BY <2>1, <2>2, <2>3
<1>7. \A s \in Scans : RecordOK(scan[s])'
    BY <1>5 DEF Inv, RecordOK
<1>8. QED
    BY <1>6, <1>7 DEF Inv

LEMMA DeleteKeeps ==
    ASSUME Inv, NEW d \in Sources, DeleteSource(d)
    PROVE  Inv'
<1>1. /\ owner \in [Names -> Sources \cup {NoSource}] /\ catalog \in [Names -> [Tables -> EntryRec]]
      /\ owner' = [n \in Names |-> IF owner[n] = d THEN NoSource ELSE owner[n]]
      /\ catalog' = [n \in Names |-> IF owner[n] = d THEN [t \in Tables |-> Unlisted] ELSE catalog[n]]
      /\ UNCHANGED <<content, scan>>
    BY DEF Inv, Types, DeleteSource
<1>2. Unlisted \in EntryRec /\ ~Unlisted.listed
    BY DEF Unlisted, EntryRec
<1>3. Types'
    BY <1>1, <1>2 DEF Inv, Types
<1>4. Owned'
    BY <1>1, <1>2 DEF Inv, Owned
<1>5. OneInsert'
    BY <1>1 DEF Inv, OneInsert, Name
<1>6. ASSUME NEW s \in Scans PROVE RecordOK(scan[s])'
    <2> DEFINE q == scan[s]
               n == DbName[q.src]
    <2>1. RecordOK(q) /\ q \in ScanRec /\ q.pc \in Unrooted \cup Rooting
        BY DEF Inv, Types, ScanRec
    <2>2. CASE q.pc \in Unrooted
        BY <1>1, <2>1, <2>2 DEF RecordOK, Rooting, Unrooted
    <2>3. CASE q.pc \in Rooting
        <3>1. q.src \in Sources /\ n \in Names /\ q.root = q.src /\ Running(s)
            BY <2>1, <2>3 DEF RecordOK, Rooting, Names, Running
        <3>2. q.db => owner'[n] = NoSource
            BY <1>1, <2>1, <3>1 DEF RecordOK
        <3>3. q.rows # {} \/ q.types # Nowhere => q.src # d
            BY <3>1 DEF DeleteSource, Dirty
        <3>4. q.rows # {} \/ q.types # Nowhere => q.db \/ owner'[n] = q.root
            BY <1>1, <2>1, <3>1, <3>3 DEF RecordOK
        <3>5. QED
            BY <1>1, <2>1, <2>3, <3>1, <3>2, <3>4 DEF RecordOK, Rooting, Unrooted
    <2>4. QED
        BY <2>1, <2>2, <2>3
<1>7. QED
    BY <1>3, <1>4, <1>5, <1>6 DEF Inv

LEMMA ChangeKeeps ==
    ASSUME Inv, NEW d \in Sources, ChangeSource(d)
    PROVE  Inv'
<1>1. PICK c \in Contents[d] :
          /\ content' = [content EXCEPT ![d] = c]
          /\ scan' = [s \in Scans |->
                 IF scan[s].src = d
                 THEN [scan[s] EXCEPT !.must = {t \in @ : c[t] = content[d][t]}] ELSE scan[s]]
    BY DEF ChangeSource
<1>2. content' \in [Sources -> [Tables -> Nat]]
    BY <1>1, ConstantFacts DEF Inv, Types
<1>3. ASSUME NEW s \in Scans
      PROVE  /\ scan'[s] \in ScanRec /\ scan'[s].pc = scan[s].pc /\ scan'[s].src = scan[s].src
             /\ scan'[s].root = scan[s].root /\ scan'[s].db = scan[s].db
             /\ scan'[s].rows = scan[s].rows /\ scan'[s].types = scan[s].types
    <2>1. scan[s] \in ScanRec
        BY DEF Inv, Types
    <2>2. {t \in scan[s].must : c[t] = content[d][t]} \in SUBSET Tables
        BY <2>1 DEF ScanRec
    <2>3. \/ scan'[s] = scan[s]
          \/ scan'[s] = [scan[s] EXCEPT !.must = {t \in scan[s].must : c[t] = content[d][t]}]
        BY <1>1, <2>1 DEF ScanRec
    <2>4. QED
        BY <2>1, <2>2, <2>3 DEF ScanRec
<1>4. Types'
    <2>1. scan' \in [Scans -> ScanRec]
        BY <1>1, <1>3
    <2>2. QED
        BY <1>2, <2>1 DEF ChangeSource, Inv, Types
<1>5. UNCHANGED <<owner, catalog>>
    BY DEF ChangeSource
<1>6. \A s \in Scans : RecordOK(scan[s])'
    <2>1. \A s \in Scans : RecordOK(scan[s])
        BY DEF Inv
    <2>2. QED
        BY <1>3, <1>5, <2>1 DEF RecordOK
<1>7. OneInsert' /\ Owned'
    BY <1>3, <1>5 DEF Inv, OneInsert, Owned, Name
<1>8. QED
    BY <1>4, <1>6, <1>7 DEF Inv

LEMMA InitInv == Init => Inv
<1> SUFFICES ASSUME Init PROVE Inv
    OBVIOUS
<1>1. content \in [Sources -> [Tables -> Nat]]
    BY ConstantFacts DEF Init
<1>2. Unlisted \in EntryRec /\ ~Unlisted.listed
    BY DEF Unlisted, EntryRec
<1>3. Types
    BY <1>1, <1>2, IdleType DEF Init, Types
<1>4. \A s \in Scans : RecordOK(scan[s])
    BY IdleOK DEF Init
<1>5. OneInsert
    BY DEF Init, OneInsert, Idle
<1>6. Owned
    BY <1>2 DEF Init, Owned
<1>7. QED
    BY <1>3, <1>4, <1>5, <1>6 DEF Inv

LEMMA StepInv == Inv /\ [Next]_vars => Inv'
<1> SUFFICES ASSUME Inv, [Next]_vars PROVE Inv'
    OBVIOUS
<1>1. ASSUME NEW s \in Scans, Scanning(s) PROVE Inv'
    BY <1>1, StartKeeps, FindKeeps, InsertKeeps, ListKeeps, BeginKeeps, EnterKeeps,
       SwallowKeeps, CheckpointKeeps, EndKeeps, BreakKeeps DEF Scanning
<1>2. CASE UNCHANGED vars
    BY <1>2 DEF vars, Inv, Types, RecordOK, OneInsert, Owned, Name
<1>3. QED
    BY <1>1, <1>2, ClassifyKeeps, DeleteKeeps, ChangeKeeps DEF Next

\* Two sources never write into each other's part of the catalog.
THEOREM HierarchiesAreOwn == Spec => []OwnHierarchy
<1>1. Inv => OwnHierarchy
    BY DEF Inv, Owned, OwnHierarchy
<1>2. QED
    BY <1>1, InitInv, StepInv, PTL DEF Spec

-----------------------------------------------------------------------------
\* How far a scan has come: what it has written and not committed lies behind

-----------------------------------------------------------------------------
\* What each step makes of the scan that takes it.

LEMMA Alone ==
    ASSUME Types, NEW s \in Scans, NEW r, scan' = [scan EXCEPT ![s] = r]
    PROVE  scan'[s] = r /\ \A o \in Scans \ {s} : scan'[o] = scan[o]
BY DEF Types

LEMMA FindShape ==
    ASSUME Types, NEW s \in Scans, FindDb(s) \/ InsertDb(s)
    PROVE  LET q == scan[s]
               r == scan'[s]
           IN  /\ q.pc \in {"find", "insert"} /\ r.pc \in {"insert", "list"} /\ r.src = q.src
               /\ r.todo = q.todo /\ r.here = q.here /\ r.seen = q.seen /\ r.rows = q.rows
               /\ r.db => q.db \/ q.src \in exists
               /\ r.types = q.types /\ r.must = q.must /\ r.since = q.since
               /\ \A o \in Scans \ {s} : scan'[o] = scan[o]
<1>1. scan[s] \in ScanRec
    BY DEF Types
<1>2. CASE FindDb(s)
    <2> DEFINE pc == IF Found(s) THEN "list" ELSE "insert"
               root == IF Found(s) THEN owner[Name(s)] ELSE scan[s].root
               r == [[scan[s] EXCEPT !.pc = pc] EXCEPT !.root = root]
    <2>1. scan' = [scan EXCEPT ![s] = r]
        BY <1>1, <1>2 DEF FindDb, Types
    <2>2. pc \in {"list", "insert"} /\ scan[s].pc = "find"
        BY <1>2 DEF FindDb
    <2> HIDE DEF pc, root
    <2>3. /\ r.pc = pc /\ r.src = scan[s].src /\ r.todo = scan[s].todo /\ r.here = scan[s].here
          /\ r.seen = scan[s].seen /\ r.rows = scan[s].rows /\ r.types = scan[s].types
          /\ r.must = scan[s].must /\ r.since = scan[s].since /\ r.db = scan[s].db
        BY <1>1 DEF ScanRec
    <2>4. scan'[s] = r /\ \A o \in Scans \ {s} : scan'[o] = scan[o]
        BY <2>1, Alone
    <2> HIDE DEF r
    <2>5. QED
        BY <2>2, <2>3, <2>4
<1>3. CASE InsertDb(s)
    <2> DEFINE r == [scan[s] EXCEPT !.pc = "list", !.db = TRUE, !.root = scan[s].src]
    <2>1. scan' = [scan EXCEPT ![s] = r] /\ scan[s].pc = "insert" /\ scan[s].src \in exists
        BY <1>3 DEF InsertDb, Types
    <2>2. /\ r.pc = "list" /\ r.src = scan[s].src /\ r.todo = scan[s].todo /\ r.here = scan[s].here
          /\ r.seen = scan[s].seen /\ r.rows = scan[s].rows /\ r.types = scan[s].types
          /\ r.must = scan[s].must /\ r.since = scan[s].since
        BY <1>1 DEF ScanRec
    <2>3. scan'[s] = r /\ \A o \in Scans \ {s} : scan'[o] = scan[o]
        BY <2>1, Alone
    <2> HIDE DEF r
    <2>4. QED
        BY <2>1, <2>2, <2>3
<1>4. QED
    BY <1>2, <1>3

LEMMA ListShape ==
    ASSUME Types, NEW s \in Scans, List(s)
    PROVE  LET q == scan[s]
               r == scan'[s]
           IN  /\ q.pc = "list" /\ r.pc = "work" /\ r.src = q.src /\ r.here = q.here /\ r.db = q.db
               /\ r.rows = q.rows /\ r.types = q.types /\ r.since = q.since
               /\ r.seen = IF Of(s).reads = "list" THEN content[q.src] ELSE q.seen
               /\ \E hidden \in SUBSET Tables :
                    /\ r.must = q.must \ hidden
                    /\ r.todo = (CASE Of(s).early \/ Of(s).reads = "before" -> Tables
                                    [] Of(s).reads = "start" -> {t \in Tables : q.seen[t] # 0}
                                    [] OTHER -> Present(q.src)) \ hidden
               /\ \A o \in Scans \ {s} : scan'[o] = scan[o]
<1> DEFINE q == scan[s]
           all == CASE Of(s).early \/ Of(s).reads = "before" -> Tables
                    [] Of(s).reads = "start" -> {t \in Tables : q.seen[t] # 0}
                    [] OTHER -> Present(q.src)
           seen == IF Of(s).reads = "list" THEN content[q.src] ELSE q.seen
<1>1. q \in ScanRec /\ q.pc = "list"
    BY DEF Types, List
<1>2. PICK hidden \in SUBSET Tables :
          scan' = [scan EXCEPT ![s].pc = "work", ![s].todo = all \ hidden,
                               ![s].must = @ \ hidden, ![s].seen = seen]
    <2>1. PICK hidden \in SUBSET Tables :
              scan' = [scan EXCEPT ![s].pc = "work", ![s].todo = all \ hidden,
                                   ![s].must = @ \ hidden,
                                   ![s].seen = IF Of(s).reads = "list" THEN content[q.src] ELSE @]
        BY DEF List
    <2>2. QED
        BY <1>1, <2>1 DEF Types, ScanRec
<1> HIDE DEF all, seen
<1> DEFINE todo == all \ hidden
           must == q.must \ hidden
           r == [q EXCEPT !.pc = "work", !.todo = todo, !.must = must, !.seen = seen]
<1>3. scan' = [scan EXCEPT ![s] = r]
    BY <1>2 DEF Types
<1>5. scan'[s] = r /\ \A o \in Scans \ {s} : scan'[o] = scan[o]
    BY <1>3, Alone
<1> HIDE DEF todo, must, seen
<1>6. /\ r.pc = "work" /\ r.src = q.src /\ r.here = q.here /\ r.db = q.db /\ r.rows = q.rows
      /\ r.types = q.types /\ r.since = q.since /\ r.seen = seen /\ r.must = must /\ r.todo = todo
    BY <1>1 DEF ScanRec
<1> HIDE DEF r
<1>7. QED
    BY <1>1, <1>5, <1>6 DEF all, seen, must, todo

\* Entering tables and writing columns: where the tables go, what becomes
\* dirty, and what is kept.
Works(s, q, r) ==
    /\ q.pc \in {"work", "schema"} /\ r.pc \in {"work", "checkpoint"}
    /\ r.src = q.src /\ q.src \in Sources /\ (r.db => q.db)
    /\ UNCHANGED <<kind, exists, content, owner, catalog>>
    /\ r.since \in {q.since, 0, q.since + 1} /\ (q.since + 1 = CommitEvery => r.since # q.since + 1)
    /\ r.must \subseteq q.must
    /\ \A t \in Tables : t \in r.here \/ r.types[t] # 0 =>
          t \in r.rows \/ ((t \in q.here \/ q.types[t] # 0) /\ t \notin q.rows)
    /\ \A o \in Scans \ {s} : scan'[o] = scan[o]

LEMMA WorkShape ==
    ASSUME Inv, NEW s \in Scans,
           \/ \E x \in Schemas : EnterSchema(s, x)
           \/ \E t \in Tables : EnterTable(s, t) \/ WriteColumns(s, t)
           \/ SwallowError(s)
    PROVE  Works(s, scan[s], scan'[s])
<1>1. Types /\ scan[s] \in ScanRec /\ RecordOK(scan[s])
    BY DEF Inv, Types
<1>2. /\ scan[s].src \in Sources /\ scan[s].since \in Nat /\ scan[s].types \in [Tables -> Nat]
      /\ UNCHANGED <<kind, exists, content, owner, catalog>>
    BY <1>1 DEF RecordOK, EnterSchema, EnterTable, WriteColumns, SwallowError, ScanRec
<1>3. ASSUME NEW x \in Schemas, EnterSchema(s, x) PROVE Works(s, scan[s], scan'[s])
    <2>1. scan' = [scan EXCEPT ![s] = scan'[s]]
        BY <1>1, <1>2, <1>3, EnterSchemaShape
    <2>2. QED
        BY <1>1, <1>2, <1>3, <2>1, EnterSchemaShape, Alone DEF Moves, Works
<1>4. ASSUME NEW t \in Tables, EnterTable(s, t) PROVE Works(s, scan[s], scan'[s])
    <2>1. scan' = [scan EXCEPT ![s] = scan'[s]]
        BY <1>1, <1>2, <1>4, EnterTableShape
    <2>2. QED
        BY <1>1, <1>2, <1>4, <2>1, EnterTableShape, Alone DEF Moves, Works
<1>5. ASSUME NEW t \in Tables, WriteColumns(s, t) PROVE Works(s, scan[s], scan'[s])
    <2>1. scan' = [scan EXCEPT ![s] = scan'[s]]
        BY <1>1, <1>2, <1>5, WriteShape
    <2>2. QED
        <3>1. \A o \in Scans \ {s} : scan'[o] = scan[o]
            BY <1>1, <2>1, Alone
        <3> DEFINE q == scan[s]
                   r == scan'[s]
        <3>2. PICK type \in {q.seen[t], content[q.src][t]} :
                 /\ scan' = [scan EXCEPT ![s] = r] /\ Moves(q, r) /\ q.pc = "work" /\ t \in q.here
                 /\ r.pc \in {"work", "checkpoint"} /\ type \in Nat
                 /\ q.since + 1 = CommitEvery => r.since = 0
                 /\ r.since \in {0, q.since + 1}
                 /\ r.todo = q.todo /\ r.here = q.here \ {t} /\ r.rows = q.rows
                 /\ r.types = [q.types EXCEPT ![t] = type] /\ r.seen = [q.seen EXCEPT ![t] = 0]
                 /\ r.lost = q.lost
                 /\ type = 0 => r.must = q.must \ {t}
                 /\ type # 0 => r.must = q.must
            BY <1>1, <1>2, <1>5, WriteShape
        <3> HIDE DEF q, r
        <3>3. q.types \in [Tables -> Nat] /\ q.since \in Nat /\ q.src \in Sources
            BY <1>2 DEF q
        <3>4. \A u \in Tables : u # t => r.types[u] = q.types[u]
            BY <3>2, <3>3
        <3>5. /\ r.must \subseteq q.must
              /\ q.since + 1 = CommitEvery => r.since # q.since + 1
            BY <3>2, <3>3
        <3>6. Works(s, q, r)
            BY <1>2, <3>1, <3>2, <3>3, <3>4, <3>5 DEF Moves, Works
        <3>7. QED
            BY <3>6 DEF q, r
<1>6. ASSUME SwallowError(s) PROVE Works(s, scan[s], scan'[s])
    <2>1. scan' = [scan EXCEPT ![s] = scan'[s]]
        BY <1>1, <1>6, SwallowShape
    <2>2. QED
        BY <1>1, <1>2, <1>6, <2>1, SwallowShape, Alone DEF Nowhere, Works
<1> QED
    BY <1>3, <1>4, <1>5, <1>6

LEMMA CommitShape ==
    ASSUME Types, NEW s \in Scans, BeginSchema(s) \/ Checkpoint(s)
    PROVE  LET q == scan[s]
               r == scan'[s]
           IN  /\ q.pc \in {"work", "checkpoint"} /\ r.pc \in {"schema", "work"}
               /\ r.src = q.src /\ r.todo = q.todo /\ r.here = q.here /\ r.seen = q.seen
               /\ r.must = q.must /\ r.since = q.since
               /\ ~r.db /\ r.rows = {} /\ r.types = Nowhere
               /\ \A o \in Scans \ {s} : scan'[o] = scan[o]
<1>1. scan[s] \in ScanRec /\ Nowhere \in [Tables -> Nat] /\ scan[s].pc \in {"work", "checkpoint"}
    BY DEF Types, Nowhere, BeginSchema, Checkpoint
<1>2. PICK pc \in {"schema", "work"} : scan' = [scan EXCEPT ![s] = [Clean(s) EXCEPT !.pc = pc]]
    BY DEF BeginSchema, Checkpoint
<1> DEFINE a == Clean(s)
           r == [a EXCEPT !.pc = pc]
<1>3. /\ a \in ScanRec /\ a.src = scan[s].src /\ a.todo = scan[s].todo /\ a.here = scan[s].here
      /\ a.seen = scan[s].seen /\ a.must = scan[s].must /\ a.since = scan[s].since
      /\ ~a.db /\ a.rows = {} /\ a.types = Nowhere
    BY <1>1 DEF Clean, ScanRec
<1> HIDE DEF a
<1>4. /\ r.pc = pc /\ r.src = a.src /\ r.todo = a.todo /\ r.here = a.here /\ r.seen = a.seen
      /\ r.must = a.must /\ r.since = a.since /\ ~r.db /\ r.rows = {} /\ r.types = Nowhere
    BY <1>3 DEF ScanRec
<1>5. scan'[s] = r /\ \A o \in Scans \ {s} : scan'[o] = scan[o]
    BY <1>2, Alone DEF a
<1> HIDE DEF r
<1>6. QED
    BY <1>1, <1>3, <1>4, <1>5

LEMMA IdleFacts ==
    ASSUME NEW r \in {Idle, [Idle EXCEPT !.pc = "completed"]}
    PROVE  /\ r.pc \in {"idle", "completed"} /\ r.src = NoSource /\ r.here = {} /\ r.rows = {}
           /\ r.types = Nowhere /\ r.must = {} /\ r.since = 0 /\ ~r.db
BY DEF Idle

LEMMA EndShape ==
    ASSUME Types, NEW s \in Scans, Finish(s) \/ Fail(s) \/ Break(s)
    PROVE  /\ Running(s)
           /\ scan'[s] \in {Idle, [Idle EXCEPT !.pc = "completed"]}
           /\ \A o \in Scans \ {s} : scan'[o] = scan[o]
<1>1. PICK r \in {Idle, [Idle EXCEPT !.pc = "completed"]} : scan' = [scan EXCEPT ![s] = r]
    BY DEF Finish, Fail, Break
<1>2. QED
    BY <1>1, Alone DEF Finish, Fail, Break, Running, Through

LEMMA StartShape ==
    ASSUME Types, NEW s \in Scans, NEW d \in Sources, Start(s, d)
    PROVE  LET r == scan'[s]
               alone == ~\E o \in Scans \ {s} : Running(o) /\ scan[o].src = d
           IN  /\ r.pc = "find" /\ r.src = d /\ r.here = {} /\ r.rows = {} /\ r.types = Nowhere /\ ~r.db
               /\ r.since = 0 /\ r.must = IF alone THEN Present(d) ELSE {}
               /\ r.seen = IF kind[d].reads = "start" THEN content[d] ELSE Nowhere
               /\ \A o \in Scans \ {s} :
                    IF Running(o) /\ scan[o].src = d
                    THEN scan'[o] = [scan[o] EXCEPT !.must = {}] ELSE scan'[o] = scan[o]
<1> DEFINE rivals == {o \in Scans \ {s} : Running(o) /\ scan[o].src = d}
           must == IF rivals = {} THEN Present(d) ELSE {}
           seen == IF kind[d].reads = "start" THEN content[d] ELSE Nowhere
           began == [Idle EXCEPT !.pc = "find", !.src = d, !.seen = seen, !.must = must]
<1>1. scan' = [o \in Scans |-> CASE o = s -> began
                                 [] o \in rivals -> [scan[o] EXCEPT !.must = {}]
                                 [] OTHER -> scan[o]]
    BY DEF Start
<1>2. s \notin rivals
    OBVIOUS
<1>3. \A o \in Scans \ {s} : o \in rivals <=> Running(o) /\ scan[o].src = d
    OBVIOUS
<1>4. must = IF ~\E o \in Scans \ {s} : Running(o) /\ scan[o].src = d THEN Present(d) ELSE {}
    OBVIOUS
<1> HIDE DEF rivals, must, seen
<1>5. /\ began.pc = "find" /\ began.src = d /\ began.here = {} /\ began.rows = {} /\ ~began.db
      /\ began.types = Nowhere /\ began.since = 0 /\ began.must = must /\ began.seen = seen
    BY DEF Idle
<1> HIDE DEF began
<1>6. scan'[s] = began
    BY <1>1, <1>2
<1>7. \A o \in Scans \ {s} : IF o \in rivals THEN scan'[o] = [scan[o] EXCEPT !.must = {}]
                             ELSE scan'[o] = scan[o]
    BY <1>1
<1>8. QED
    BY <1>3, <1>4, <1>5, <1>6, <1>7 DEF seen

\* A step of one scan leaves the others alone; a start or a change of the
\* source takes tables from what the others are held to.
Untouched(q, r) ==
    /\ r.pc = q.pc /\ r.src = q.src /\ r.todo = q.todo /\ r.here = q.here /\ r.seen = q.seen
    /\ r.db = q.db /\ r.since = q.since /\ r.rows = q.rows /\ r.types = q.types /\ r.must \subseteq q.must

LEMMA OthersUntouched ==
    ASSUME Inv, NEW s \in Scans, Scanning(s), NEW o \in Scans \ {s}
    PROVE  /\ Untouched(scan[o], scan'[o])
           /\ scan'[o] = scan[o] \/ scan'[o].must = {}
<1>1. scan[o] \in ScanRec /\ Types
    BY DEF Inv, Types
<1>2. ASSUME NEW d \in Sources, Start(s, d)
      PROVE  scan'[o] = scan[o] \/ scan'[o] = [scan[o] EXCEPT !.must = {}]
    BY <1>1, <1>2, StartShape
<1>3. \/ scan'[o] = scan[o]
      \/ scan'[o] = [scan[o] EXCEPT !.must = {}]
    <2>1. CASE FindDb(s) \/ InsertDb(s) \/ List(s) \/ BeginSchema(s) \/ Checkpoint(s)
        BY <1>1, <2>1, FindShape, ListShape, CommitShape
    <2>2. CASE \E x \in Schemas : EnterSchema(s, x)
        BY <2>2, WorkShape DEF Works
    <2>3. CASE SwallowError(s) \/ \E t \in Tables : EnterTable(s, t) \/ WriteColumns(s, t)
        BY <2>3, WorkShape DEF Works
    <2>4. CASE Finish(s) \/ Fail(s) \/ Break(s)
        BY <1>1, <2>4, EndShape
    <2>5. QED
        BY <1>2, <2>1, <2>2, <2>3, <2>4 DEF Scanning
<1>4. QED
    BY <1>1, <1>3 DEF Untouched, ScanRec

LEMMA EnvironmentTouches ==
    ASSUME Types, NEW d \in Sources, ChangeSource(d), NEW o \in Scans
    PROVE  /\ Untouched(scan[o], scan'[o])
           /\ \A t \in scan'[o].must : content'[scan[o].src][t] = content[scan[o].src][t]
<1>1. PICK c \in Contents[d] :
          /\ content' = [content EXCEPT ![d] = c]
          /\ scan' = [s \in Scans |->
                 IF scan[s].src = d
                 THEN [scan[s] EXCEPT !.must = {t \in @ : c[t] = content[d][t]}] ELSE scan[s]]
    BY DEF ChangeSource
<1>2. scan[o] \in ScanRec /\ content \in [Sources -> [Tables -> Nat]]
    BY DEF Types
<1> DEFINE must == {t \in scan[o].must : c[t] = content[d][t]}
<1>3. CASE scan[o].src = d
    <2>1. scan'[o] = [scan[o] EXCEPT !.must = must]
        BY <1>1, <1>2, <1>3 DEF ScanRec
    <2>2. must \subseteq scan[o].must /\ \A t \in must : c[t] = content[d][t]
        OBVIOUS
    <2>3. content'[d] = c
        BY <1>1, <1>2
    <2> HIDE DEF must
    <2>4. Untouched(scan[o], scan'[o]) /\ scan'[o].must = must
        BY <1>2, <2>1, <2>2 DEF Untouched, ScanRec
    <2>5. QED
        BY <1>3, <2>2, <2>3, <2>4
<1>4. CASE scan[o].src # d
    BY <1>1, <1>2, <1>4 DEF Untouched
<1>5. QED
    BY <1>3, <1>4

-----------------------------------------------------------------------------
\* A scan commits before it has written more than CommitEvery tables.

Paced == \A s \in Scans : scan[s].since \in Nat /\ scan[s].since < CommitEvery

LEMMA StepPaced ==
    ASSUME Inv, Paced, [Next]_vars
    PROVE  Paced'
<1>1. Types /\ CommitEvery \in Nat \ {0}
    BY CatalogAssumption DEF Inv
<1>2. ASSUME NEW s \in Scans, Scanning(s), NEW o \in Scans
      PROVE  scan'[o].since \in Nat /\ scan'[o].since < CommitEvery
    <2>0. scan[s].since \in Nat /\ scan[s].since < CommitEvery
        BY DEF Paced
    <2>1. CASE o # s
        BY <1>2, <2>1, OthersUntouched DEF Untouched, Paced
    <2>2. CASE o = s /\ \E d \in Sources : Start(s, d)
        BY <1>1, <2>2, StartShape
    <2>3. CASE o = s /\ (FindDb(s) \/ InsertDb(s) \/ List(s) \/ BeginSchema(s) \/ Checkpoint(s))
        BY <1>1, <2>0, <2>3, FindShape, ListShape, CommitShape
    <2>4. CASE o = s /\ (Finish(s) \/ Fail(s) \/ Break(s))
        <3>1. scan'[s] \in {Idle, [Idle EXCEPT !.pc = "completed"]}
            BY <1>1, <2>4, EndShape
        <3>2. scan'[s].since = 0
            BY <3>1, IdleFacts
        <3>3. QED
            BY <1>1, <2>4, <3>2
    <2>5. CASE /\ o = s
               /\ \/ \E x \in Schemas : EnterSchema(s, x)
                  \/ \E t \in Tables : EnterTable(s, t) \/ WriteColumns(s, t)
                  \/ SwallowError(s)
        <3>1. /\ scan'[s].since \in {scan[s].since, 0, scan[s].since + 1}
              /\ scan[s].since + 1 = CommitEvery => scan'[s].since # scan[s].since + 1
            BY <2>5, WorkShape DEF Works
        <3>2. QED
            BY <1>1, <2>0, <2>5, <3>1
    <2>6. QED
        BY <1>2, <2>1, <2>2, <2>3, <2>4, <2>5 DEF Scanning
<1>3. ASSUME NEW d \in Sources, ChangeSource(d), NEW o \in Scans
      PROVE  scan'[o].since \in Nat /\ scan'[o].since < CommitEvery
    BY <1>1, <1>3, EnvironmentTouches DEF Untouched, Paced
<1>4. CASE scan' = scan
    BY <1>4 DEF Paced
<1>5. QED
    BY <1>2, <1>3, <1>4 DEF Next, vars, DeleteSource, ClassifyColumn, Paced

LEMMA InitPaced == Init => Paced
BY CatalogAssumption DEF Init, Paced, Idle

-----------------------------------------------------------------------------
\* What is in the catalog when a scan has committed.

LEMMA EntryFacts ==
    ASSUME Inv, NEW s \in Scans, Running(s), NEW t \in Tables
    PROVE  LET q == scan[s]
               old == catalog[Name(s)][t]
               new == Entry(s, t)
               fresh == t \in q.rows /\ ~old.listed
           IN  /\ new.listed = (old.listed \/ t \in q.rows)
               /\ new.type = IF q.types[t] # 0 THEN q.types[t] ELSE IF fresh THEN 0 ELSE old.type
               /\ new.tag = IF fresh THEN FALSE ELSE old.tag
               /\ t \notin q.rows /\ q.types[t] = 0 => new = old
<1> DEFINE q == scan[s]
           old == catalog[Name(s)][t]
           fresh == t \in q.rows /\ ~old.listed
           row == IF fresh THEN [Unlisted EXCEPT !.listed = TRUE, !.by = q.src] ELSE old
<1>1. old \in EntryRec /\ q \in ScanRec
    BY DEF Inv, Types, Running, RecordOK, Names, Name
<1> HIDE DEF old
<1>2. /\ row.listed = (old.listed \/ t \in q.rows) /\ row.type = (IF fresh THEN 0 ELSE old.type)
      /\ row.tag = (IF fresh THEN FALSE ELSE old.tag) /\ (t \notin q.rows => row = old)
    <2>1. CASE fresh
        <3>1. row = [listed |-> TRUE, type |-> 0, tag |-> FALSE, by |-> q.src]
            BY <2>1 DEF Unlisted
        <3>2. QED
            BY <2>1, <3>1
    <2>2. CASE ~fresh
        <3>1. row = old /\ (t \in q.rows => old.listed) /\ old.listed \in BOOLEAN
            BY <1>1, <2>2 DEF EntryRec
        <3>2. QED
            BY <2>2, <3>1
    <2>3. QED
        BY <2>1, <2>2
<1>3. row \in EntryRec
    <2> DEFINE first == [listed |-> TRUE, type |-> 0, tag |-> FALSE, by |-> q.src]
    <2>1. row = old \/ row = first
        BY DEF Unlisted
    <2>2. q.src \in Sources \cup {NoSource}
        BY <1>1 DEF ScanRec
    <2> HIDE DEF row
    <2>3. first \in EntryRec
        BY <2>2 DEF EntryRec
    <2> HIDE DEF first
    <2>4. QED
        BY <1>1, <2>1, <2>3
<1>4. Entry(s, t) = IF q.types[t] = 0 THEN row ELSE [Typed(row, q.types[t]) EXCEPT !.by = q.src]
    BY DEF Entry, old
<1> HIDE DEF row, fresh
<1>5. CASE q.types[t] = 0
    BY <1>2, <1>4, <1>5 DEF old, fresh
<1>6. CASE q.types[t] # 0
    <2> DEFINE a == [row EXCEPT !.type = q.types[t]]
    <2>1. Entry(s, t) = [a EXCEPT !.by = q.src]
        BY <1>4, <1>6 DEF Typed
    <2>2. a.listed = row.listed /\ a.tag = row.tag /\ a.type = q.types[t]
          /\ [a EXCEPT !.by = q.src].listed = a.listed /\ [a EXCEPT !.by = q.src].tag = a.tag
          /\ [a EXCEPT !.by = q.src].type = a.type
        BY <1>3 DEF EntryRec
    <2> HIDE DEF a
    <2>3. QED
        BY <1>2, <1>6, <2>1, <2>2 DEF old, fresh
<1>7. QED
    BY <1>5, <1>6

LEMMA CommitFacts ==
    ASSUME Inv, NEW s \in Scans, Running(s), Commit(s)
    PROVE  /\ Name(s) \in Names
           /\ \A t \in Tables : catalog'[Name(s)][t] = Entry(s, t)
           /\ \A n \in Names : n # Name(s) => catalog'[n] = catalog[n] /\ owner'[n] = owner[n]
           /\ owner'[Name(s)] = IF scan[s].db THEN scan[s].root ELSE owner[Name(s)]
BY DEF Inv, Types, Running, RecordOK, Names, Name, Commit

\* The catalog is written by commits, by hand and by deletions.
LEMMA CatalogSteps ==
    ASSUME NEW s \in Scans, Scanning(s)
    PROVE  \/ UNCHANGED <<owner, catalog>>
           \/ Running(s) /\ Commit(s)
BY DEF Scanning, Start, FindDb, InsertDb, List, BeginSchema, EnterSchema, EnterTable, WriteColumns,
       SwallowError, Checkpoint, Through, Finish, Fail, Break, Running

\* Only the mark of one column is set.
Marked(n, t) ==
    \A m \in Names, u \in Tables :
        /\ catalog'[m][u].listed = catalog[m][u].listed /\ catalog'[m][u].type = catalog[m][u].type
        /\ catalog'[m][u].tag = IF m = n /\ u = t THEN TRUE ELSE catalog[m][u].tag

LEMMA ClassifyFacts ==
    ASSUME Inv, NEW n \in Names, NEW t \in Tables, ClassifyColumn(n, t)
    PROVE  /\ catalog[n][t].type # 0 /\ UNCHANGED <<kind, exists, content, owner, scan>>
           /\ Marked(n, t)
<1>1. /\ catalog \in [Names -> [Tables -> EntryRec]] /\ catalog' = [catalog EXCEPT ![n][t].tag = TRUE]
      /\ catalog[n][t].type # 0 /\ UNCHANGED <<kind, exists, content, owner, scan>>
    BY DEF Inv, Types, ClassifyColumn
<1> DEFINE old == catalog[n][t]
           new == [old EXCEPT !.tag = TRUE]
           row == [catalog[n] EXCEPT ![t] = new]
<1>2. old \in EntryRec /\ catalog[n] \in [Tables -> EntryRec]
    BY <1>1
<1>3. catalog' = [catalog EXCEPT ![n] = row]
    BY <1>1
<1> HIDE DEF old
<1>4. new.listed = old.listed /\ new.type = old.type /\ new.tag = TRUE
    BY <1>2 DEF EntryRec
<1> HIDE DEF new
<1>5. row[t] = new /\ \A u \in Tables : u # t => row[u] = catalog[n][u]
    BY <1>2
<1> HIDE DEF row
<1>6. catalog'[n] = row /\ \A m \in Names : m # n => catalog'[m] = catalog[m]
    BY <1>1, <1>3
<1>7. ASSUME NEW m \in Names, NEW u \in Tables
      PROVE  /\ catalog'[m][u].listed = catalog[m][u].listed /\ catalog'[m][u].type = catalog[m][u].type
             /\ catalog'[m][u].tag = IF m = n /\ u = t THEN TRUE ELSE catalog[m][u].tag
    <2>1. CASE m = n /\ u = t
        BY <1>4, <1>5, <1>6, <2>1 DEF old
    <2>2. CASE ~(m = n /\ u = t)
        BY <1>5, <1>6, <2>2
    <2>3. QED
        BY <2>1, <2>2
<1>8. Marked(n, t)
    BY <1>7 DEF Marked
<1>9. QED
    BY <1>1, <1>8

LEMMA ClassifyKeepsRows ==
    ASSUME Inv, \E n \in Names, t \in Tables : ClassifyColumn(n, t)
    PROVE  /\ owner' = owner
           /\ \A m \in Names, u \in Tables :
                catalog'[m][u].listed = catalog[m][u].listed /\ catalog'[m][u].type = catalog[m][u].type
<1>1. PICK n \in Names, t \in Tables : ClassifyColumn(n, t)
    OBVIOUS
<1>2. owner' = owner /\ Marked(n, t)
    BY <1>1, ClassifyFacts
<1>3. QED
    BY <1>2 DEF Marked

LEMMA DeleteFacts ==
    ASSUME Types, NEW d \in Sources, DeleteSource(d)
    PROVE  /\ d \in exists /\ exists' = exists \ {d} /\ UNCHANGED <<kind, content, scan>>
           /\ \A n \in Names : IF owner[n] = d
                               THEN owner'[n] = NoSource /\ catalog'[n] = [t \in Tables |-> Unlisted]
                               ELSE owner'[n] = owner[n] /\ catalog'[n] = catalog[n]
BY DEF DeleteSource

\* What a step may do to a classification made by hand.
LEMMA SurroundingsKept ==
    ASSUME NEW s \in Scans, Scanning(s)
    PROVE  UNCHANGED <<kind, exists, content>>
BY DEF Scanning, Start, FindDb, InsertDb, List, BeginSchema, EnterSchema, EnterTable, WriteColumns,
       SwallowError, Checkpoint, Finish, Fail, Break

\* A commit takes nothing out of the catalog.
LEMMA CommitAdds ==
    ASSUME Inv, NEW s \in Scans, Running(s), Commit(s), NEW n \in Names
    PROVE  /\ owner[n] # NoSource => owner'[n] = owner[n]
           /\ \A t \in Tables : catalog[n][t].listed => catalog'[n][t].listed
<1>1. RecordOK(scan[s]) /\ Name(s) \in Names
    BY CommitFacts DEF Inv
<1>2. owner[n] # NoSource => owner'[n] = owner[n]
    BY <1>1, CommitFacts DEF RecordOK, Name
<1>3. ASSUME NEW t \in Tables, catalog[n][t].listed PROVE catalog'[n][t].listed
    <2>1. CASE n # Name(s)
        BY <1>3, <2>1, CommitFacts
    <2>2. CASE n = Name(s)
        BY <1>3, <2>2, CommitFacts, EntryFacts
    <2>3. QED
        BY <2>1, <2>2
<1>4. QED
    BY <1>2, <1>3

-----------------------------------------------------------------------------
\* A table whose columns a scan is about to write, or has written and not
\* committed, has its row in the same transaction or in the catalog: a commit
\* on the way leaves no columns without their table.

Standing ==
    /\ exists \subseteq Sources
    /\ \A n \in Names : owner[n] # NoSource => owner[n] \in exists
    /\ \A s \in Scans : scan[s].db => scan[s].src \in exists

Landed(s) ==
    \A t \in Tables :
        /\ t \in scan[s].here \/ scan[s].types[t] # 0
        /\ t \notin scan[s].rows /\ scan[s].src \in exists
        => owner[Name(s)] = scan[s].src /\ catalog[Name(s)][t].listed

LandedInv == Standing /\ \A s \in Scans : Landed(s)

\* Who has something to commit has a source and its database row.
LEMMA DirtyStands ==
    ASSUME Inv, Standing, NEW s \in Scans, Dirty(s)
    PROVE  /\ scan[s].src \in exists /\ Running(s) /\ scan[s].root = scan[s].src
           /\ scan[s].src \in Sources
<1>1. RecordOK(scan[s]) /\ scan[s] \in ScanRec
    BY DEF Inv, Types
<1>2. scan[s].pc \in Rooting
    BY <1>1 DEF Dirty, RecordOK, ScanRec
<1>3. Running(s) /\ scan[s].root = scan[s].src /\ scan[s].src \in Sources
    BY <1>1, <1>2 DEF Running, RecordOK, Rooting
<1>4. scan[s].db \/ owner[Name(s)] = scan[s].src
    BY <1>1, <1>3 DEF Dirty, RecordOK, Name
<1>5. Name(s) \in Names
    BY <1>3 DEF Name, Names
<1>6. QED
    BY <1>3, <1>4, <1>5, ConstantFacts DEF Standing

LEMMA StandingOwn ==
    ASSUME Inv, LandedInv, NEW s \in Scans, Scanning(s)
    PROVE  scan'[s].db => scan'[s].src \in exists
<1>1. Types
    BY DEF Inv
<1>2. ASSUME NEW d \in Sources, Start(s, d) PROVE ~scan'[s].db
    BY <1>1, <1>2, StartShape
<1>3. CASE FindDb(s) \/ InsertDb(s) \/ List(s) \/ BeginSchema(s) \/ Checkpoint(s)
    BY <1>1, <1>3, FindShape, ListShape, CommitShape DEF LandedInv, Standing
<1>4. CASE Finish(s) \/ Fail(s) \/ Break(s)
    BY <1>1, <1>4, EndShape, IdleFacts
<1>5. CASE \/ \E x \in Schemas : EnterSchema(s, x)
           \/ \E t \in Tables : EnterTable(s, t) \/ WriteColumns(s, t)
           \/ SwallowError(s)
    BY <1>5, WorkShape DEF Works, LandedInv, Standing
<1>6. QED
    BY <1>2, <1>3, <1>4, <1>5 DEF Scanning

LEMMA StepStands ==
    ASSUME Inv, LandedInv, [Next]_vars
    PROVE  Standing'
<1>1. Types /\ Standing
    BY DEF Inv, LandedInv
<1>2. ASSUME NEW s \in Scans, Scanning(s) PROVE Standing'
    <2>1. exists' = exists
        BY <1>2, SurroundingsKept
    <2>2. ASSUME NEW o \in Scans, scan'[o].db PROVE scan'[o].src \in exists
        BY <1>1, <1>2, <2>2, StandingOwn, OthersUntouched DEF Untouched, Standing
    <2>3. ASSUME NEW n \in Names, owner'[n] # NoSource PROVE owner'[n] \in exists
        <3>1. CASE owner' = owner
            BY <1>1, <2>3, <3>1 DEF Standing
        <3>2. CASE Running(s) /\ Commit(s)
            <4>1. scan[s].db => scan[s].root \in exists
                BY <1>1, DirtyStands DEF Dirty
            <4>2. QED
                BY <1>1, <2>3, <3>2, <4>1, CommitFacts DEF Standing
        <3>3. QED
            BY <1>2, <3>1, <3>2, CatalogSteps
    <2>4. QED
        BY <1>1, <2>1, <2>2, <2>3 DEF Standing
<1>3. ASSUME NEW d \in Sources, DeleteSource(d) PROVE Standing'
    <2>1. scan' = scan /\ exists' = exists \ {d}
        BY <1>1, <1>3, DeleteFacts
    <2>2. ASSUME NEW s \in Scans, scan[s].db PROVE scan[s].src \in exists \ {d}
        <3>1. scan[s].src \in exists /\ Running(s)
            BY <1>1, <2>2, DirtyStands DEF Dirty
        <3>2. QED
            BY <1>3, <2>2, <3>1 DEF DeleteSource, Dirty
    <2>3. \A n \in Names : owner'[n] # NoSource => owner'[n] \in exists \ {d}
        BY <1>1, <1>3, DeleteFacts DEF Standing
    <2>4. QED
        BY <1>1, <2>1, <2>2, <2>3 DEF Standing
<1>4. ASSUME NEW d \in Sources, ChangeSource(d) PROVE Standing'
    <2>1. UNCHANGED <<exists, owner>> /\ \A o \in Scans : Untouched(scan[o], scan'[o])
        BY <1>1, <1>4, EnvironmentTouches DEF ChangeSource
    <2>2. QED
        BY <1>1, <2>1 DEF Standing, Untouched
<1>5. CASE UNCHANGED <<exists, owner, scan>>
    BY <1>1, <1>5 DEF Standing
<1>6. QED
    BY <1>2, <1>3, <1>4, <1>5 DEF Next, vars, ClassifyColumn

\* The rows of a scan that has nothing new in them stay.
LEMMA LandedKept ==
    ASSUME NEW x \in Scans, Landed(x), exists' \subseteq exists, scan'[x].src = scan[x].src,
           \A t \in Tables : t \in scan'[x].here \/ scan'[x].types[t] # 0 =>
               \/ t \in scan'[x].rows
               \/ (t \in scan[x].here \/ scan[x].types[t] # 0) /\ t \notin scan[x].rows,
           scan[x].src \in exists' /\ owner[Name(x)] = scan[x].src =>
               /\ owner'[Name(x)] = scan[x].src
               /\ \A t \in Tables : catalog[Name(x)][t].listed => catalog'[Name(x)][t].listed
    PROVE  Landed(x)'
<1>1. Name(x)' = Name(x)
    BY DEF Name
<1>2. QED
    BY <1>1 DEF Landed

LEMMA OwnStepLands ==
    ASSUME Inv, LandedInv, NEW s \in Scans, Scanning(s)
    PROVE  Landed(s)'
<1>1. Types /\ exists' = exists /\ Landed(s) /\ scan[s] \in ScanRec
    BY SurroundingsKept DEF Inv, Types, LandedInv
<1>2. ASSUME NEW d \in Sources, Start(s, d) PROVE Landed(s)'
    BY <1>1, <1>2, StartShape DEF Landed, Nowhere
<1>3. CASE FindDb(s) \/ InsertDb(s) \/ List(s)
    <2>1. /\ scan'[s].src = scan[s].src /\ scan'[s].here = scan[s].here
          /\ scan'[s].rows = scan[s].rows /\ scan'[s].types = scan[s].types
        BY <1>1, <1>3, FindShape, ListShape
    <2>2. UNCHANGED <<owner, catalog>>
        BY <1>3 DEF FindDb, InsertDb, List
    <2>3. QED
        BY <1>1, <2>1, <2>2, LandedKept
<1>4. CASE \/ \E x \in Schemas : EnterSchema(s, x)
           \/ \E t \in Tables : EnterTable(s, t) \/ WriteColumns(s, t)
           \/ SwallowError(s)
    <2>1. Works(s, scan[s], scan'[s])
        BY <1>4, WorkShape
    <2>2. QED
        BY <1>1, <2>1, LandedKept DEF Works
<1>5. CASE BeginSchema(s) \/ Checkpoint(s)
    <2>1. /\ scan'[s].src = scan[s].src /\ scan'[s].here = scan[s].here
          /\ scan'[s].rows = {} /\ scan'[s].types = Nowhere
        BY <1>1, <1>5, CommitShape
    <2>2. Running(s) /\ Commit(s) /\ Name(s)' = Name(s)
        BY <2>1, <1>5 DEF BeginSchema, Checkpoint, Running, Name
    <2>3. Name(s) \in Names
        BY <2>2, CommitFacts
    <2>4. ASSUME NEW t \in Tables, t \in scan[s].here, scan[s].src \in exists
          PROVE  owner'[Name(s)] = scan[s].src /\ catalog'[Name(s)][t].listed
        <3>1. CASE t \in scan[s].rows
            <4>1. Dirty(s)
                BY <3>1 DEF Dirty
            <4>2. scan[s].root = scan[s].src
                BY <4>1, DirtyStands DEF LandedInv
            <4>3. scan[s].db \/ owner[Name(s)] = scan[s].src
                BY <3>1, <4>2 DEF Inv, RecordOK, Name
            <4>4. QED
                BY <2>2, <3>1, <4>2, <4>3, CommitFacts, EntryFacts
        <3>2. CASE t \notin scan[s].rows
            <4>1. owner[Name(s)] = scan[s].src /\ catalog[Name(s)][t].listed
                BY <1>1, <2>4, <3>2 DEF Landed
            <4>2. scan[s].src # NoSource
                BY <2>2, ConstantFacts DEF Inv, RecordOK, Running
            <4>3. QED
                BY <2>2, <2>3, <4>1, <4>2, CommitAdds
        <3>3. QED
            BY <3>1, <3>2
    <2>5. QED
        BY <1>1, <2>1, <2>2, <2>4 DEF Landed, Nowhere
<1>6. CASE Finish(s) \/ Fail(s) \/ Break(s)
    <2>1. scan'[s] \in {Idle, [Idle EXCEPT !.pc = "completed"]}
        BY <1>1, <1>6, EndShape
    <2>2. scan'[s].here = {} /\ scan'[s].types = Nowhere
        BY <2>1, IdleFacts
    <2>3. QED
        BY <2>2 DEF Landed, Nowhere
<1>7. QED
    BY <1>2, <1>3, <1>4, <1>5, <1>6 DEF Scanning

LEMMA StepLands ==
    ASSUME Inv, LandedInv, [Next]_vars
    PROVE  LandedInv'
<1> SUFFICES ASSUME NEW x \in Scans PROVE Landed(x)'
    BY StepStands DEF LandedInv
<1>1. Types /\ Landed(x) /\ RecordOK(scan[x])
    BY DEF Inv, LandedInv
<1>2. ASSUME Untouched(scan[x], scan'[x])
      PROVE  /\ scan'[x].src = scan[x].src
             /\ \A t \in Tables : t \in scan'[x].here \/ scan'[x].types[t] # 0 =>
                   \/ t \in scan'[x].rows
                   \/ (t \in scan[x].here \/ scan[x].types[t] # 0) /\ t \notin scan[x].rows
    BY <1>2 DEF Untouched
<1>3. scan[x].src \in exists => Name(x) \in Names /\ scan[x].src # NoSource
    BY ConstantFacts DEF LandedInv, Standing, Name, Names
<1>4. ASSUME NEW s \in Scans, Scanning(s) PROVE Landed(x)'
    <2>1. CASE x = s
        BY <1>4, <2>1, OwnStepLands
    <2>2. CASE x # s
        <3>1. Untouched(scan[x], scan'[x]) /\ exists' = exists
            BY <1>4, <2>2, OthersUntouched, SurroundingsKept
        <3>2. CASE UNCHANGED <<owner, catalog>>
            BY <1>1, <1>2, <3>1, <3>2, LandedKept
        <3>3. CASE Running(s) /\ Commit(s)
            <4>1. scan[x].src \in exists /\ owner[Name(x)] = scan[x].src =>
                    /\ owner'[Name(x)] = scan[x].src
                    /\ \A t \in Tables : catalog[Name(x)][t].listed => catalog'[Name(x)][t].listed
                BY <1>3, <3>3, CommitAdds
            <4>2. QED
                BY <1>1, <1>2, <3>1, <4>1, LandedKept
        <3>4. QED
            BY <1>4, <3>2, <3>3, CatalogSteps
    <2>3. QED
        BY <2>1, <2>2
<1>5. ASSUME NEW d \in Sources, DeleteSource(d) PROVE Landed(x)'
    <2>1. scan' = scan /\ exists' = exists \ {d} /\ Untouched(scan[x], scan'[x])
        BY <1>1, <1>5, DeleteFacts DEF Untouched
    <2>2. scan[x].src \in exists' /\ owner[Name(x)] = scan[x].src =>
            owner'[Name(x)] = owner[Name(x)] /\ catalog'[Name(x)] = catalog[Name(x)]
        BY <1>1, <1>3, <1>5, <2>1, DeleteFacts
    <2>3. QED
        BY <1>1, <1>2, <2>1, <2>2, LandedKept
<1>6. ASSUME NEW d \in Sources, ChangeSource(d) PROVE Landed(x)'
    <2>1. UNCHANGED <<exists, owner, catalog>> /\ Untouched(scan[x], scan'[x])
        BY <1>1, <1>6, EnvironmentTouches DEF ChangeSource
    <2>2. QED
        BY <1>1, <1>2, <2>1, LandedKept
<1>7. ASSUME NEW n \in Names, NEW t \in Tables, ClassifyColumn(n, t) PROVE Landed(x)'
    <2>1. exists' = exists /\ owner' = owner /\ scan' = scan /\ Untouched(scan[x], scan'[x])
        BY <1>7 DEF ClassifyColumn, Untouched
    <2>2. scan[x].src \in exists =>
            \A u \in Tables : catalog[Name(x)][u].listed => catalog'[Name(x)][u].listed
        BY <1>3, <1>7, ClassifyKeepsRows
    <2>3. QED
        BY <1>1, <1>2, <2>1, <2>2, LandedKept
<1>8. CASE UNCHANGED vars
    BY <1>1, <1>8 DEF vars, Landed, Name
<1>9. QED
    BY <1>4, <1>5, <1>6, <1>7, <1>8 DEF Next

LEMMA InitLands == Init => LandedInv
BY ConstantFacts DEF Init, LandedInv, Standing, Landed, Idle, Nowhere

-----------------------------------------------------------------------------
\* What has a type or a classification is listed.
Curated ==
    \A n \in Names, t \in Tables :
        catalog[n][t].type # 0 \/ catalog[n][t].tag => catalog[n][t].listed

LEMMA CommitCurates ==
    ASSUME Inv, LandedInv, Curated, NEW s \in Scans, Running(s), Commit(s)
    PROVE  Curated' /\ \A n \in Names, t \in Tables : catalog[n][t].tag => catalog'[n][t].tag
<1> SUFFICES ASSUME NEW n \in Names, NEW t \in Tables
             PROVE  /\ catalog'[n][t].type # 0 \/ catalog'[n][t].tag => catalog'[n][t].listed
                    /\ catalog[n][t].tag => catalog'[n][t].tag
    BY DEF Curated
<1>1. CASE n # Name(s)
    BY <1>1, CommitFacts DEF Curated
<1>2. CASE n = Name(s)
    <2>1. catalog'[n][t] = Entry(s, t)
        BY <1>2, CommitFacts
    <2>2. scan[s].types[t] # 0 => t \in scan[s].rows \/ catalog[n][t].listed
        <3>1. scan[s].types[t] # 0 => Dirty(s)
            BY DEF Dirty, Nowhere
        <3>2. QED
            BY <1>2, <3>1, DirtyStands DEF LandedInv, Landed
    <2>3. catalog[n][t].type # 0 \/ catalog[n][t].tag => catalog[n][t].listed
        BY DEF Curated
    <2> DEFINE q == scan[s]
               old == catalog[Name(s)][t]
               new == Entry(s, t)
    <2>4. /\ new.listed = (old.listed \/ t \in q.rows)
          /\ new.type = IF q.types[t] # 0 THEN q.types[t]
                        ELSE IF t \in q.rows /\ ~old.listed THEN 0 ELSE old.type
          /\ new.tag = IF t \in q.rows /\ ~old.listed THEN FALSE ELSE old.tag
        BY EntryFacts
    <2>5. CASE t \in q.rows /\ ~old.listed
        BY <1>2, <2>1, <2>3, <2>4, <2>5
    <2>6. CASE ~(t \in q.rows /\ ~old.listed)
        BY <1>2, <2>1, <2>2, <2>3, <2>4, <2>6
    <2>7. QED
        BY <2>5, <2>6
<1>3. QED
    BY <1>1, <1>2

\* What a step may do to a classification made by hand.
Curation ==
    \A n \in Names, t \in Tables :
        catalog[n][t].tag /\ ~catalog'[n][t].tag => exists' # exists

LEMMA StepCurates ==
    ASSUME Inv, LandedInv, Curated, [Next]_vars
    PROVE  Curated' /\ Curation
<1>1. CASE UNCHANGED catalog
    BY <1>1 DEF Curated, Curation
<1>2. ASSUME NEW s \in Scans, Scanning(s) PROVE Curated' /\ Curation
    <2>1. CASE Running(s) /\ Commit(s)
        BY <2>1, CommitCurates DEF Curation
    <2>2. CASE UNCHANGED <<owner, catalog>>
        <3>1. UNCHANGED catalog
            BY <2>2
        <3>2. QED
            BY <1>1, <3>1
    <2>3. QED
        BY <1>2, <2>1, <2>2, CatalogSteps
<1>3. ASSUME NEW n \in Names, NEW t \in Tables, ClassifyColumn(n, t) PROVE Curated' /\ Curation
    <2>1. catalog[n][t].type # 0
        BY <1>3, ClassifyFacts
    <2>2. Marked(n, t)
        BY <1>3, ClassifyFacts
    <2>3. ASSUME NEW m \in Names, NEW u \in Tables, catalog'[m][u].type # 0 \/ catalog'[m][u].tag
          PROVE  catalog'[m][u].listed
        <3>1. catalog[m][u].type # 0 \/ catalog[m][u].tag
            BY <2>1, <2>2, <2>3 DEF Marked
        <3>2. QED
            BY <2>2, <3>1 DEF Curated, Marked
    <2>4. Curation
        BY <2>2 DEF Curation, Marked
    <2>5. QED
        BY <2>3, <2>4 DEF Curated
<1>4. ASSUME NEW d \in Sources, DeleteSource(d) PROVE Curated' /\ Curation
    <2>1. exists' # exists
        BY <1>4 DEF DeleteSource
    <2>2. Unlisted.type = 0 /\ ~Unlisted.tag
        BY DEF Unlisted
    <2>3. \A n \in Names : catalog'[n] = [t \in Tables |-> Unlisted] \/ catalog'[n] = catalog[n]
        BY <1>4, DeleteFacts DEF Inv
    <2>4. QED
        BY <2>1, <2>2, <2>3 DEF Curated, Curation
<1>5. QED
    BY <1>1, <1>2, <1>3, <1>4 DEF Next, vars, ChangeSource

LEMMA InitCurated == Init => Curated
BY DEF Init, Curated, Unlisted

\* However often a source is scanned, and by however many scans at once, a
\* column that was classified by hand stays classified until the source goes.
THEOREM CurationIsKept == Spec => CurationSurvives
<1>1. Inv /\ LandedInv /\ Curated /\ [Next]_vars => Curation
    BY StepCurates
<1>2. Inv /\ LandedInv /\ Curated /\ [Next]_vars => Inv' /\ LandedInv' /\ Curated'
    BY StepInv, StepLands, StepCurates
<1>3. QED
    BY <1>1, <1>2, InitInv, InitLands, InitCurated, PTL DEF Spec, CurationSurvives, Curation

-----------------------------------------------------------------------------

-----------------------------------------------------------------------------
\* What a scan is held to: it is the only one of its source, it has read the
\* tables as they are, and each of them it has still to enter, or has entered,
\* or has written: to the catalog or to what it is about to commit.

Working == {"work", "schema", "checkpoint"}

Covered(s, t) ==
    \/ scan[s].types[t] = content[scan[s].src][t]
    \/ /\ scan[s].types[t] = 0
       /\ owner[Name(s)] = scan[s].src
       /\ catalog[Name(s)][t].listed /\ catalog[Name(s)][t].type = content[scan[s].src][t]

Sole(s) == \A o \in Scans \ {s} : Running(o) => scan[o].src # scan[s].src

Faithful(s) ==
    \A t \in scan[s].must :
        /\ content[scan[s].src][t] # 0
        /\ scan[s].seen[t] # 0 => scan[s].seen[t] = content[scan[s].src][t]
        /\ scan[s].pc \in {"find", "insert", "list"} /\ Of(s).reads = "start" => scan[s].seen[t] # 0

Leaves(s) ==
    scan[s].pc \in Working =>
        \A t \in scan[s].must : t \in scan[s].todo \/ t \in scan[s].here \/ Covered(s, t)

Covers(s) ==
    Running(s) /\ scan[s].must # {} =>
        Sole(s) /\ Faithful(s) /\ (scan[s].src \in exists => Leaves(s))

CoversInv == \A s \in Scans : Covers(s)

\* A commit brings what the scan has passed into the catalog ...
LEMMA CommitCovers ==
    ASSUME Inv, LandedInv, NEW s \in Scans, scan[s].src \in exists, scan[s].pc \in Rooting, Commit(s), NEW t \in Tables,
           content[scan[s].src][t] # 0, Covered(s, t)
    PROVE  /\ owner'[Name(s)] = scan[s].src
           /\ catalog'[Name(s)][t].listed /\ catalog'[Name(s)][t].type = content[scan[s].src][t]
<1> DEFINE q == scan[s]
           old == catalog[Name(s)][t]
           new == Entry(s, t)
<1>1. /\ Running(s) /\ RecordOK(q) /\ q.src \in Sources /\ q.root = q.src
      /\ q.types[t] # 0 => t \in q.rows \/ (owner[Name(s)] = q.src /\ old.listed)
      /\ q.types[t] # 0 => q.db \/ owner[Name(s)] = q.root
    BY DEF Inv, Running, RecordOK, Rooting, LandedInv, Landed, Nowhere, Name
<1>2. /\ new.listed = (old.listed \/ t \in q.rows)
      /\ new.type = IF q.types[t] # 0 THEN q.types[t]
                    ELSE IF t \in q.rows /\ ~old.listed THEN 0 ELSE old.type
    BY <1>1, EntryFacts
<1>3. /\ catalog'[Name(s)][t] = new
      /\ owner'[Name(s)] = IF q.db THEN q.root ELSE owner[Name(s)]
    BY <1>1, CommitFacts
<1>4. CASE q.types[t] = content[q.src][t]
    <2>1. (t \in q.rows \/ old.listed) /\ (q.db \/ owner[Name(s)] = q.root)
        BY <1>1, <1>4
    <2>2. QED
        BY <1>1, <1>2, <1>3, <1>4, <2>1
<1>5. CASE q.types[t] = 0 /\ owner[Name(s)] = q.src /\ old.listed /\ old.type = content[q.src][t]
    <2>1. ~q.db
        BY <1>1, <1>5, ConstantFacts DEF RecordOK, Name
    <2>2. QED
        BY <1>1, <1>2, <1>3, <1>5, <2>1
<1>6. QED
    BY <1>4, <1>5 DEF Covered

\* ... and does not touch what a scan of another source has committed.
LEMMA ForeignCommit ==
    ASSUME Inv, NEW s \in Scans, Running(s), Commit(s), NEW x \in Scans, scan[x].src \in Sources,
           scan[x].src # scan[s].src, owner[Name(x)] = scan[x].src, NEW t \in Tables
    PROVE  owner'[Name(x)] = scan[x].src /\ catalog'[Name(x)][t] = catalog[Name(x)][t]
<1> DEFINE q == scan[s]
<1>1. Name(x) \in Names
    BY DEF Names, Name
<1>2. CASE Name(x) # Name(s)
    BY <1>1, <1>2, CommitFacts
<1>3. CASE Name(x) = Name(s)
    <2>1. RecordOK(q) /\ q \in ScanRec /\ q.src \in Sources
        BY DEF Inv, Types, Running, RecordOK
    <2>2. ~q.db
        BY <1>3, <2>1, ConstantFacts DEF RecordOK, Name
    <2>3. q.pc \in Rooting => q.rows = {} /\ q.types = Nowhere
        BY <1>3, <2>1, <2>2 DEF RecordOK, Name
    <2>4. q.rows = {} /\ q.types = Nowhere
        BY <2>1, <2>3 DEF RecordOK, ScanRec
    <2>5. Entry(s, t) = catalog[Name(s)][t]
        BY <2>4, EntryFacts DEF Nowhere
    <2>6. QED
        BY <1>3, <2>2, <2>5, CommitFacts
<1>4. QED
    BY <1>2, <1>3

\* The step of another scan.
LEMMA OthersCover ==
    ASSUME Inv, CoversInv, NEW s \in Scans, Scanning(s), NEW x \in Scans \ {s}
    PROVE  Covers(x)'
<1>1. Types /\ UNCHANGED <<kind, exists, content>> /\ Covers(x)
    BY SurroundingsKept DEF Inv, CoversInv
<1>2. Untouched(scan[x], scan'[x])
    BY <1>1, OthersUntouched
<1> SUFFICES ASSUME Running(x)', scan'[x].must # {}
             PROVE  Sole(x)' /\ Faithful(x)' /\ (scan'[x].src \in exists' => Leaves(x)')
    BY DEF Covers
<1>3. scan'[x] = scan[x]
    BY <1>1, OthersUntouched
<1>4. /\ Running(x) /\ Sole(x) /\ Faithful(x) /\ (scan[x].src \in exists => Leaves(x))
      /\ scan[x].src \in Sources
    BY <1>1, <1>3 DEF Covers, Running, Inv, RecordOK
<1>5. Faithful(x)'
    BY <1>1, <1>3, <1>4 DEF Faithful, Of
<1>6. Sole(x)'
    <2>1. ASSUME NEW d \in Sources, Start(s, d) PROVE scan'[s].src # scan[x].src
        <3>1. scan'[s].src = d
            BY <1>1, <2>1, StartShape
        <3>2. CASE scan[x].src = d
            <4>1. scan'[x] = [scan[x] EXCEPT !.must = {}] /\ scan[x] \in ScanRec
                BY <1>1, <1>4, <2>1, <3>2, StartShape DEF Types
            <4>2. scan'[x].must = {}
                BY <4>1 DEF ScanRec
            <4>3. QED
                BY <4>2
        <3>3. QED
            BY <3>1, <3>2
    <2>2. (\E d \in Sources : Start(s, d)) \/ scan'[s].src = scan[s].src \/ ~Running(s)'
        <3>1. CASE FindDb(s) \/ InsertDb(s) \/ List(s) \/ BeginSchema(s) \/ Checkpoint(s)
            BY <1>1, <3>1, FindShape, ListShape, CommitShape
        <3>2. CASE \/ \E y \in Schemas : EnterSchema(s, y)
                   \/ \E t \in Tables : EnterTable(s, t) \/ WriteColumns(s, t)
                   \/ SwallowError(s)
            BY <3>2, WorkShape DEF Works
        <3>3. CASE Finish(s) \/ Fail(s) \/ Break(s)
            <4>1. scan'[s] \in {Idle, [Idle EXCEPT !.pc = "completed"]}
                BY <1>1, <3>3, EndShape
            <4>2. QED
                BY <4>1, IdleFacts DEF Running
        <3>4. QED
            BY <3>1, <3>2, <3>3 DEF Scanning
    <2>3. scan'[s].src = scan[s].src /\ Running(s)' => Running(s) \/ \E d \in Sources : Start(s, d)
        BY DEF Scanning, FindDb, InsertDb, List, BeginSchema, EnterSchema, EnterTable,
               WriteColumns, SwallowError, Checkpoint, Finish, Fail, Break, Running, Through
    <2>4. ASSUME NEW o \in Scans \ {x}, Running(o)' PROVE scan'[o].src # scan[x].src
        <3>1. CASE o = s
            BY <1>4, <2>1, <2>2, <2>3, <2>4, <3>1 DEF Sole
        <3>2. CASE o # s
            <4>1. Untouched(scan[o], scan'[o])
                BY <1>1, <3>2, OthersUntouched
            <4>2. QED
                BY <1>4, <2>4, <4>1 DEF Untouched, Sole, Running
        <3>3. QED
            BY <3>1, <3>2
    <2>5. QED
        BY <1>3, <2>4 DEF Sole
<1>7. ASSUME scan[x].src \in exists PROVE Leaves(x)'
    <2> SUFFICES ASSUME scan[x].pc \in Working, NEW t \in scan[x].must, Covered(x, t)
                 PROVE  Covered(x, t)'
        BY <1>3, <1>4, <1>7 DEF Leaves
    <2>1. t \in Tables
        BY <1>1 DEF Types, ScanRec
    <2>2. CASE UNCHANGED <<owner, catalog>>
        BY <1>1, <1>3, <2>1, <2>2 DEF Covered, Name
    <2>3. CASE Running(s) /\ Commit(s)
        <3>1. scan[s].src # scan[x].src
            BY <1>4, <2>3 DEF Sole
        <3>2. owner[Name(x)] = scan[x].src =>
                  owner'[Name(x)] = scan[x].src /\ catalog'[Name(x)][t] = catalog[Name(x)][t]
            BY <1>4, <2>1, <2>3, <3>1, ForeignCommit
        <3>3. QED
            BY <1>1, <1>3, <2>1, <3>2 DEF Covered, Name
    <2>4. QED
        BY <2>2, <2>3, CatalogSteps
<1>8. QED
    BY <1>1, <1>3, <1>5, <1>6, <1>7

\* The scan's own steps: what it must still be faithful to, and what it has

\* passed.  Any but the first leaves it its source.
LEMMA StartCovers ==
    ASSUME Inv, NEW s \in Scans, NEW d \in Sources, Start(s, d)
    PROVE  Covers(s)'
<1>1. Types /\ UNCHANGED <<kind, exists, content>> /\ content \in [Sources -> [Tables -> Nat]]
    BY DEF Inv, Types, Start
<1> DEFINE r == scan'[s]
           alone == ~\E o \in Scans \ {s} : Running(o) /\ scan[o].src = d
<1>2. /\ r.pc = "find" /\ r.src = d /\ r.must = IF alone THEN Present(d) ELSE {}
      /\ r.seen = IF kind[d].reads = "start" THEN content[d] ELSE Nowhere
    BY <1>1, StartShape
<1>3. \A o \in Scans \ {s} : scan'[o].pc = scan[o].pc /\ scan'[o].src = scan[o].src
    <2>1. Scanning(s)
        BY DEF Scanning
    <2>2. QED
        BY <1>1, <2>1, OthersUntouched DEF Untouched
<1> SUFFICES ASSUME r.must # {} PROVE Sole(s)' /\ Faithful(s)' /\ Leaves(s)'
    BY DEF Covers
<1>4. alone /\ r.must = Present(d)
    BY <1>2
<1>5. Sole(s)'
    BY <1>2, <1>3, <1>4 DEF Sole, Running
<1>6. ASSUME NEW t \in r.must
      PROVE  /\ content[d][t] # 0 /\ (r.seen[t] # 0 => r.seen[t] = content[d][t])
             /\ (kind[d].reads = "start" => r.seen[t] # 0)
    <2>1. t \in Tables /\ content[d][t] # 0
        BY <1>4, <1>6 DEF Present
    <2>2. CASE kind[d].reads = "start"
        BY <1>2, <2>1, <2>2
    <2>3. CASE kind[d].reads # "start"
        BY <1>2, <2>1, <2>3 DEF Nowhere
    <2>4. QED
        BY <2>2, <2>3
<1>7. Faithful(s)'
    BY <1>1, <1>2, <1>6 DEF Faithful, Of
<1>8. Leaves(s)'
    BY <1>2 DEF Leaves, Working
<1>9. QED
    BY <1>5, <1>7, <1>8

\* What the scan is still held to, it was held to.
\* What the scan is still held to, it was held to.
LEMMA HeldBefore ==
    ASSUME Inv, LandedInv, CoversInv, NEW s \in Scans, Scanning(s), Running(s),
           scan'[s].src = scan[s].src, scan'[s].must \subseteq scan[s].must, scan'[s].must # {},
           \A o \in Scans \ {s} : scan'[o] = scan[o]
    PROVE  /\ Sole(s)' /\ Faithful(s) /\ (scan[s].src \in exists => Leaves(s))
           /\ UNCHANGED <<kind, exists, content>> /\ Name(s)' = Name(s) /\ Of(s)' = Of(s)
           /\ Types /\ scan[s] \in ScanRec /\ RecordOK(scan[s])
           /\ scan[s].src \in Sources /\ scan[s].must \subseteq Tables
<1>1. UNCHANGED <<kind, exists, content>> /\ Covers(s)
    BY SurroundingsKept DEF CoversInv
<1>2. Sole(s) /\ Faithful(s) /\ (scan[s].src \in exists => Leaves(s))
    BY <1>1 DEF Covers
<1>3. Sole(s)'
    BY <1>2 DEF Sole, Running
<1>4. /\ Types /\ scan[s] \in ScanRec /\ RecordOK(scan[s])
      /\ scan[s].src \in Sources
    BY DEF Inv, Types, Running, RecordOK
<1>5. Name(s)' = Name(s) /\ Of(s)' = Of(s)
    BY <1>1 DEF Name, Of
<1>6. scan[s].must \subseteq Tables
    BY <1>4 DEF ScanRec
<1>7. QED
    BY <1>1, <1>2, <1>3, <1>4, <1>5, <1>6


\* What is covered without a commit stays so.
LEMMA LeavesKept ==
    ASSUME NEW s \in Scans, UNCHANGED <<kind, content, owner, catalog>>, Leaves(s),
           scan[s].pc \in Working, scan'[s].src = scan[s].src, scan'[s].must \subseteq scan[s].must,
           \A t \in scan'[s].must :
               \/ t \in scan'[s].todo \/ t \in scan'[s].here
               \/ /\ t \notin scan[s].todo /\ t \notin scan[s].here
                  /\ scan'[s].types[t] = scan[s].types[t]
               \/ scan'[s].types[t] = content[scan[s].src][t]
    PROVE  Leaves(s)'
<1>1. Name(s)' = Name(s)
    BY DEF Name
<1> SUFFICES ASSUME NEW t \in scan'[s].must,
                    ~(t \in scan'[s].todo \/ t \in scan'[s].here)
             PROVE  Covered(s, t)'
    BY DEF Leaves
<1>2. CASE /\ t \notin scan[s].todo /\ t \notin scan[s].here
           /\ scan'[s].types[t] = scan[s].types[t]
    <2>1. Covered(s, t)
        BY <1>2 DEF Leaves
    <2>2. QED
        BY <1>1, <1>2, <2>1 DEF Covered
<1>3. CASE scan'[s].types[t] = content[scan[s].src][t]
    BY <1>3 DEF Covered
<1>4. QED
    BY <1>2, <1>3

LEMMA ReadingCovers ==
    ASSUME Inv, LandedInv, CoversInv, NEW s \in Scans, FindDb(s) \/ InsertDb(s) \/ List(s)
    PROVE  Covers(s)'
<1> DEFINE q == scan[s]
           r == scan'[s]
<1>1. /\ Types /\ Scanning(s) /\ Running(s) /\ UNCHANGED <<kind, content, owner, catalog>>
      /\ content \in [Sources -> [Tables -> Nat]]
    BY DEF Inv, Types, Scanning, FindDb, InsertDb, List, Running
<1> SUFFICES ASSUME r.must # {}
             PROVE  Sole(s)' /\ Faithful(s)' /\ Leaves(s)'
    BY DEF Covers
<1>2. /\ r.src = q.src /\ r.must \subseteq q.must
      /\ \A o \in Scans \ {s} : scan'[o] = scan[o]
    BY <1>1, FindShape, ListShape
<1>3. /\ Sole(s)' /\ Faithful(s) /\ Of(s)' = Of(s) /\ q.src \in Sources /\ q.must \subseteq Tables
    BY <1>1, <1>2, HeldBefore
<1>6. CASE FindDb(s) \/ InsertDb(s)
    <2>1. /\ q.pc \in {"find", "insert"} /\ r.pc \in {"insert", "list"} /\ r.seen = q.seen /\ r.must = q.must
        BY <1>1, <1>6, FindShape
    <2>2. Faithful(s)'
        BY <1>1, <1>2, <1>3, <2>1 DEF Faithful
    <2>3. QED
        BY <1>3, <2>1, <2>2 DEF Leaves, Working
<1>7. CASE List(s)
    <2>1. /\ q.pc = "list" /\ r.pc = "work"
          /\ r.seen = (IF Of(s).reads = "list" THEN content[q.src] ELSE q.seen)
        BY <1>1, <1>7, ListShape
    <2>2. PICK hidden \in SUBSET Tables :
             /\ r.must = q.must \ hidden
             /\ r.todo = (CASE Of(s).early \/ Of(s).reads = "before" -> Tables
                             [] Of(s).reads = "start" -> {t \in Tables : q.seen[t] # 0}
                             [] OTHER -> Present(q.src)) \ hidden
        BY <1>1, <1>7, ListShape
    <2>3. ASSUME NEW t \in r.must
          PROVE  t \in r.todo /\ content[q.src][t] # 0 /\ (r.seen[t] # 0 => r.seen[t] = content[q.src][t])
        <3>1. /\ t \in q.must /\ t \in Tables /\ t \notin hidden /\ content[q.src][t] # 0
              /\ q.seen[t] # 0 => q.seen[t] = content[q.src][t]
              /\ Of(s).reads = "start" => q.seen[t] # 0
            BY <1>3, <2>1, <2>2, <2>3 DEF Faithful
        <3>2. t \in r.todo
            BY <2>2, <3>1 DEF Present
        <3>3. QED
            BY <2>1, <3>1, <3>2
    <2>4. Faithful(s)'
        BY <1>1, <1>2, <2>1, <2>3 DEF Faithful
    <2>5. Leaves(s)'
        BY <2>3 DEF Leaves
    <2>6. QED
        BY <1>3, <2>4, <2>5
<1>8. QED
    BY <1>6, <1>7

LEMMA EnterCovers ==
    ASSUME Inv, LandedInv, CoversInv, NEW s \in Scans,
           (\E x \in Schemas : EnterSchema(s, x)) \/ \E t \in Tables : EnterTable(s, t)
    PROVE  Covers(s)'
<1> DEFINE q == scan[s]
           r == scan'[s]
<1>1. /\ Types /\ Scanning(s) /\ Running(s) /\ UNCHANGED <<kind, content, owner, catalog>>
      /\ q.src \in Sources
    BY DEF Inv, Scanning, EnterSchema, EnterTable, Running, RecordOK
<1> SUFFICES ASSUME r.must # {}
             PROVE  Sole(s)' /\ Faithful(s)' /\ (r.src \in exists' => Leaves(s)')
    BY DEF Covers
<1>2. /\ q.pc \in {"work", "schema"} /\ r.pc = "work" /\ r.src = q.src /\ r.types = q.types
      /\ r.must = q.must
      /\ \A u \in Tables : r.seen[u] \in {q.seen[u], content[q.src][u]}
      /\ \A o \in Scans \ {s} : scan'[o] = scan[o]
    <2>1. CASE \E x \in Schemas : EnterSchema(s, x)
        BY <1>1, <2>1, EnterSchemaShape, Alone DEF Moves
    <2>2. CASE \E t \in Tables : EnterTable(s, t)
        BY <1>1, <2>2, EnterTableShape, Alone DEF Moves
    <2>3. QED
        BY <2>1, <2>2
<1>3. /\ Sole(s)' /\ Faithful(s) /\ (q.src \in exists => Leaves(s)) /\ exists' = exists
      /\ Of(s)' = Of(s) /\ q.must \subseteq Tables
    BY <1>1, <1>2, HeldBefore
<1>4. Faithful(s)'
    BY <1>1, <1>2, <1>3 DEF Faithful
<1>5. ASSUME NEW t \in q.must, t \in q.todo \/ t \in q.here
      PROVE  t \in r.todo \/ t \in r.here
    <2>1. t \in Present(q.src)
        BY <1>3 DEF Faithful, Present
    <2>2. ASSUME NEW x \in Schemas, EnterSchema(s, x) PROVE t \in r.todo \/ t \in r.here
        <3>1. /\ r.todo = q.todo \ {u \in q.todo : SchemaOf[u] = x}
              /\ r.here = q.here \cup ({u \in q.todo : SchemaOf[u] = x} \cap Present(q.src))
            BY <1>1, <2>2, EnterSchemaShape
        <3>2. QED
            BY <1>5, <2>1, <3>1
    <2>3. ASSUME NEW u \in Tables, EnterTable(s, u) PROVE t \in r.todo \/ t \in r.here
        BY <1>1, <1>5, <2>3, EnterTableShape
    <2>4. QED
        BY <2>2, <2>3
<1>6. q.src \in exists => Leaves(s)'
    <2>1. q.pc \in Working
        BY <1>2 DEF Working
    <2>2. QED
        BY <1>1, <1>2, <1>3, <1>5, <2>1, LeavesKept
<1>7. QED
    BY <1>2, <1>3, <1>4, <1>6

LEMMA WriteCovers ==
    ASSUME Inv, LandedInv, CoversInv, NEW s \in Scans, NEW t \in Tables, WriteColumns(s, t)
    PROVE  Covers(s)'
<1> DEFINE q == scan[s]
           r == scan'[s]
<1>1. /\ Types /\ Scanning(s) /\ Running(s) /\ UNCHANGED <<kind, content, owner, catalog>>
      /\ q \in ScanRec /\ q.src \in Sources
    BY DEF Inv, Types, Scanning, WriteColumns, Running, RecordOK
<1> SUFFICES ASSUME r.must # {}
             PROVE  Sole(s)' /\ Faithful(s)' /\ (r.src \in exists' => Leaves(s)')
    BY DEF Covers
<1>2. PICK type \in {q.seen[t], content[q.src][t]} :
         /\ scan' = [scan EXCEPT ![s] = r] /\ Moves(q, r) /\ q.pc = "work" /\ t \in q.here
         /\ r.pc \in {"work", "checkpoint"} /\ type \in Nat
         /\ q.since + 1 = CommitEvery => r.since = 0
         /\ r.since \in {0, q.since + 1}
         /\ r.todo = q.todo /\ r.here = q.here \ {t} /\ r.rows = q.rows
         /\ r.types = [q.types EXCEPT ![t] = type] /\ r.seen = [q.seen EXCEPT ![t] = 0]
         /\ r.lost = q.lost
         /\ type = 0 => r.must = q.must \ {t}
         /\ type # 0 => r.must = q.must
    BY <1>1, WriteShape
<1>3. /\ r.must \subseteq q.must /\ (t \in r.must => type # 0) /\ r.src = q.src
      /\ \A o \in Scans \ {s} : scan'[o] = scan[o]
    BY <1>1, <1>2, Alone DEF Moves
<1>4. /\ Sole(s)' /\ Faithful(s) /\ (q.src \in exists => Leaves(s)) /\ exists' = exists
      /\ Of(s)' = Of(s) /\ q.must \subseteq Tables
    BY <1>1, <1>3, HeldBefore
<1>5. \A u \in Tables : /\ r.seen[u] = IF u = t THEN 0 ELSE q.seen[u]
                        /\ r.types[u] = IF u = t THEN type ELSE q.types[u]
    BY <1>1, <1>2 DEF ScanRec
<1>6. Faithful(s)'
    BY <1>1, <1>2, <1>3, <1>4, <1>5 DEF Faithful
<1>7. t \in r.must => type = content[q.src][t]
    BY <1>2, <1>3, <1>4 DEF Faithful
<1>8. ASSUME NEW u \in r.must
      PROVE  \/ u \in r.todo \/ u \in r.here
             \/ u \notin q.todo /\ u \notin q.here /\ r.types[u] = q.types[u]
             \/ r.types[u] = content[q.src][u]
    BY <1>2, <1>3, <1>4, <1>5, <1>7
<1>9. q.src \in exists => Leaves(s)'
    <2>1. q.pc \in Working
        BY <1>2 DEF Working
    <2>2. QED
        BY <1>1, <1>3, <1>4, <1>8, <2>1, LeavesKept
<1>10. QED
    BY <1>3, <1>4, <1>6, <1>9

LEMMA SwallowCovers ==
    ASSUME Inv, NEW s \in Scans, SwallowError(s)
    PROVE  Covers(s)'
BY SwallowShape DEF Inv, Covers

LEMMA CommittingCovers ==
    ASSUME Inv, LandedInv, CoversInv, NEW s \in Scans, BeginSchema(s) \/ Checkpoint(s)
    PROVE  Covers(s)'
<1> DEFINE q == scan[s]
           r == scan'[s]
<1>1. Types /\ Scanning(s) /\ Running(s) /\ Commit(s) /\ UNCHANGED <<kind, content>>
    <2>1. Types /\ Scanning(s) /\ Running(s)
        BY DEF Inv, Scanning, BeginSchema, Checkpoint, Running
    <2>2. QED
        BY <2>1 DEF BeginSchema, Checkpoint
<1> SUFFICES ASSUME r.must # {}
             PROVE  Sole(s)' /\ Faithful(s)' /\ (r.src \in exists' => Leaves(s)')
    BY DEF Covers
<1>2. /\ q.pc \in {"work", "checkpoint"} /\ r.pc \in {"schema", "work"} /\ r.src = q.src
      /\ r.todo = q.todo /\ r.here = q.here /\ r.seen = q.seen /\ r.must = q.must
      /\ r.types = Nowhere /\ \A o \in Scans \ {s} : scan'[o] = scan[o]
    BY <1>1, CommitShape
<1>3. /\ Sole(s)' /\ Faithful(s) /\ (q.src \in exists => Leaves(s)) /\ exists' = exists
      /\ Of(s)' = Of(s) /\ Name(s)' = Name(s) /\ q.must \subseteq Tables
    BY <1>1, <1>2, HeldBefore
<1>4. q.pc \in Rooting /\ q.pc \in Working
    BY <1>2 DEF Rooting, Working
<1>5. Faithful(s)'
    BY <1>1, <1>2, <1>3 DEF Faithful
<1>6. ASSUME q.src \in exists, NEW t \in r.must
      PROVE  t \in r.todo \/ t \in r.here \/ Covered(s, t)'
    <2> SUFFICES ASSUME t \notin q.todo, t \notin q.here PROVE Covered(s, t)'
        BY <1>2
    <2>1. t \in q.must /\ t \in Tables /\ Covered(s, t)
        BY <1>2, <1>3, <1>4, <1>6 DEF Leaves
    <2>2. content[q.src][t] # 0
        BY <1>3, <2>1 DEF Faithful
    <2>3. /\ owner'[Name(s)] = q.src /\ catalog'[Name(s)][t].listed
          /\ catalog'[Name(s)][t].type = content[q.src][t]
        BY <1>1, <1>4, <1>6, <2>1, <2>2, CommitCovers
    <2>4. r.types[t] = 0
        BY <1>2, <2>1 DEF Nowhere
    <2>5. QED
        BY <1>1, <1>2, <1>3, <2>3, <2>4 DEF Covered
<1>7. q.src \in exists => Leaves(s)'
    BY <1>6 DEF Leaves
<1>8. QED
    BY <1>2, <1>3, <1>5, <1>7

LEMMA OwnStepCovers ==
    ASSUME Inv, LandedInv, CoversInv, NEW s \in Scans, Scanning(s)
    PROVE  Covers(s)'
<1>1. CASE Finish(s) \/ Fail(s) \/ Break(s)
    <2>1. scan'[s] \in {Idle, [Idle EXCEPT !.pc = "completed"]}
        BY <1>1, EndShape DEF Inv
    <2>2. scan'[s].pc \in {"idle", "completed"}
        BY <2>1, IdleFacts
    <2>3. QED
        BY <2>2 DEF Covers, Running
<1>2. QED
    BY <1>1, StartCovers, ReadingCovers, EnterCovers, WriteCovers, SwallowCovers, CommittingCovers
       DEF Scanning

\* The steps that are not a scan's.
LEMMA EnvironmentCovers ==
    ASSUME Inv, CoversInv, NEW x \in Scans,
           \/ UNCHANGED vars
           \/ \E d \in Sources : DeleteSource(d) \/ ChangeSource(d)
           \/ \E n \in Names, t \in Tables : ClassifyColumn(n, t)
    PROVE  Covers(x)'
<1>1. Types /\ Covers(x)
    BY DEF Inv, CoversInv
<1>2. /\ kind' = kind /\ exists' \subseteq exists /\ \A o \in Scans : Untouched(scan[o], scan'[o])
      /\ \A t \in scan'[x].must : content'[scan[x].src][t] = content[scan[x].src][t]
    <2>1. CASE UNCHANGED vars
        BY <2>1 DEF vars, Untouched
    <2>2. ASSUME NEW d \in Sources, DeleteSource(d)
          PROVE  kind' = kind /\ exists' \subseteq exists /\ scan' = scan /\ content' = content
        BY <1>1, <2>2, DeleteFacts
    <2>3. ASSUME NEW d \in Sources, ChangeSource(d)
          PROVE  /\ kind' = kind /\ exists' = exists /\ \A o \in Scans : Untouched(scan[o], scan'[o])
                 /\ \A t \in scan'[x].must : content'[scan[x].src][t] = content[scan[x].src][t]
        BY <1>1, <2>3, EnvironmentTouches DEF ChangeSource
    <2>4. ASSUME NEW n \in Names, NEW t \in Tables, ClassifyColumn(n, t)
          PROVE  kind' = kind /\ exists' = exists /\ scan' = scan /\ content' = content
        BY <2>4 DEF ClassifyColumn
    <2>5. scan' = scan => \A o \in Scans : Untouched(scan[o], scan'[o])
        BY DEF Untouched
    <2>6. QED
        BY <2>1, <2>2, <2>3, <2>4, <2>5
<1> SUFFICES ASSUME Running(x)', scan'[x].must # {}
             PROVE  Sole(x)' /\ Faithful(x)' /\ (scan'[x].src \in exists' => Leaves(x)')
    BY DEF Covers
<1> DEFINE q == scan[x]
           r == scan'[x]
<1>3. Untouched(q, r)
    BY <1>2
<1>4. /\ Running(x) /\ Sole(x) /\ Faithful(x) /\ (q.src \in exists => Leaves(x))
      /\ q.src \in Sources /\ Name(x) \in Names /\ q.must \subseteq Tables
    <2>1. Running(x) /\ q.must # {}
        BY <1>3 DEF Untouched, Running
    <2>2. QED
        BY <1>1, <2>1 DEF Covers, Running, Inv, RecordOK, Types, ScanRec, Name, Names
<1>5. Sole(x)'
    BY <1>2, <1>4 DEF Sole, Untouched, Running
<1>6. Faithful(x)'
    BY <1>2, <1>3, <1>4 DEF Faithful, Untouched, Of
<1>7. ASSUME q.src \in exists', NEW t \in Tables
      PROVE  owner[Name(x)] = q.src =>
                /\ owner'[Name(x)] = q.src /\ catalog'[Name(x)][t].listed = catalog[Name(x)][t].listed
                /\ catalog'[Name(x)][t].type = catalog[Name(x)][t].type
    <2>1. CASE UNCHANGED <<owner, catalog>>
        BY <2>1
    <2>2. ASSUME NEW d \in Sources, DeleteSource(d)
          PROVE  owner[Name(x)] = q.src => owner'[Name(x)] = owner[Name(x)]
                                           /\ catalog'[Name(x)] = catalog[Name(x)]
        <3>1. d # q.src
            BY <1>1, <1>7, <2>2, DeleteFacts
        <3>2. QED
            BY <1>1, <1>4, <2>2, <3>1, DeleteFacts
    <2>3. CASE \E n \in Names, u \in Tables : ClassifyColumn(n, u)
        BY <1>4, <2>3, ClassifyKeepsRows
    <2>4. QED
        BY <2>1, <2>2, <2>3 DEF vars, ChangeSource
<1>8. ASSUME r.src \in exists' PROVE Leaves(x)'
    <2> SUFFICES ASSUME r.pc \in Working, NEW t \in r.must,
                        ~(t \in r.todo \/ t \in r.here)
                 PROVE  Covered(x, t)'
        BY DEF Leaves
    <2>1. /\ t \in q.must /\ t \in Tables /\ r.types = q.types
          /\ q.src = r.src /\ Name(x)' = Name(x)
        BY <1>3, <1>4 DEF Untouched, Name
    <2>2. Covered(x, t)
        BY <1>2, <1>3, <1>4, <1>8, <2>1 DEF Leaves, Untouched
    <2>3. content'[q.src][t] = content[q.src][t]
        BY <1>2
    <2>4. QED
        BY <1>7, <1>8, <2>1, <2>2, <2>3 DEF Covered
<1>9. QED
    BY <1>5, <1>6, <1>8

LEMMA StepCovers ==
    ASSUME Inv, LandedInv, CoversInv, [Next]_vars
    PROVE  CoversInv'
<1> SUFFICES ASSUME NEW x \in Scans PROVE Covers(x)'
    BY DEF CoversInv
<1>1. ASSUME NEW s \in Scans, Scanning(s) PROVE Covers(x)'
    <2>1. CASE x = s
        BY <1>1, <2>1, OwnStepCovers
    <2>2. CASE x # s
        BY <1>1, <2>2, OthersCover
    <2>3. QED
        BY <2>1, <2>2
<1>2. QED
    BY <1>1, EnvironmentCovers DEF Next

LEMMA InitCovers == Init => CoversInv
BY DEF Init, CoversInv, Covers, Running, Idle

\* A scan completes with its last commit.
Completion ==
    \A s \in Scans :
        Running(s) /\ scan'[s].pc = "completed" =>
            \A t \in scan[s].must :
                catalog'[Name(s)][t].listed
                /\ catalog'[Name(s)][t].type = content[scan[s].src][t]

LEMMA CompletionStep ==
    ASSUME Inv, LandedInv, CoversInv, [Next]_vars
    PROVE  Completion
<1> SUFFICES ASSUME NEW s \in Scans, Running(s), scan'[s].pc = "completed",
                    NEW t \in scan[s].must
             PROVE  /\ catalog'[Name(s)][t].listed
                    /\ catalog'[Name(s)][t].type = content[scan[s].src][t]
    BY DEF Completion
<1>1. Types /\ scan[s] \in ScanRec /\ Covers(s) /\ scan[s].pc # "completed"
    BY DEF Inv, Types, CoversInv, Running
<1>2. Finish(s)
    <2>1. ASSUME NEW o \in Scans, Scanning(o) PROVE o = s
        <3>1. CASE o # s
            BY <1>1, <2>1, <3>1, OthersUntouched DEF Untouched
        <3>2. QED
            BY <3>1
    <2>2. ~UNCHANGED scan /\ ~\E d \in Sources : ChangeSource(d)
        BY <1>1, EnvironmentTouches DEF Untouched
    <2>3. Scanning(s)
        BY <2>1, <2>2 DEF Next, vars, DeleteSource, ClassifyColumn
    <2>4. ~\E d \in Sources : Start(s, d)
        BY <1>1, StartShape
    <2>5. Finish(s) \/ Fail(s) \/ Break(s)
        <3>1. ~(FindDb(s) \/ InsertDb(s) \/ List(s) \/ BeginSchema(s) \/ Checkpoint(s))
            BY <1>1, FindShape, ListShape, CommitShape
        <3>2. ~(\/ \E x \in Schemas : EnterSchema(s, x)
                \/ \E u \in Tables : EnterTable(s, u) \/ WriteColumns(s, u)
                \/ SwallowError(s))
            BY WorkShape DEF Works
        <3>3. QED
            BY <2>3, <2>4, <3>1, <3>2 DEF Scanning
    <2>6. ~Fail(s) /\ ~Break(s)
        BY <1>1, Alone DEF Fail, Break, Idle
    <2>7. QED
        BY <2>5, <2>6
<1>3. /\ scan[s].src \in exists /\ Commit(s) /\ Through(s)
      /\ scan[s].pc \in Rooting /\ scan[s].pc \in Working
    BY <1>2 DEF Finish, Through, Rooting, Working
<1>4. Faithful(s) /\ Leaves(s) /\ t \in Tables
    BY <1>1, <1>3 DEF Covers, ScanRec
<1>5. Covered(s, t) /\ content[scan[s].src][t] # 0
    BY <1>3, <1>4 DEF Leaves, Faithful, Through
<1>6. QED
    BY <1>3, <1>4, <1>5, CommitCovers

\* A completed scan has left no gap: every table that it could list and read,
\* and that stayed the same while it was the only scan of its source, is in
\* the catalog with its type.
THEOREM CompletedScansCover == Spec => CompletedCovers
<1>1. Inv /\ LandedInv /\ CoversInv /\ [Next]_vars => Completion
    BY CompletionStep
<1>2. Inv /\ LandedInv /\ CoversInv /\ [Next]_vars => Inv' /\ LandedInv' /\ CoversInv'
    BY StepInv, StepLands, StepCovers
<1>3. QED
    BY <1>1, <1>2, InitInv, InitLands, InitCovers, PTL DEF Spec, CompletedCovers, Completion

-----------------------------------------------------------------------------
LEMMA StepContents ==
    ASSUME Inv, exists \subseteq Sources, \A d \in Sources : content[d] \in Contents[d], [Next]_vars
    PROVE  exists' \subseteq Sources /\ \A d \in Sources : content'[d] \in Contents[d]
<1>1. ASSUME NEW s \in Scans, Scanning(s) PROVE UNCHANGED <<exists, content>>
    BY <1>1, SurroundingsKept
<1>2. ASSUME NEW d \in Sources, ChangeSource(d)
      PROVE  exists' = exists /\ \A e \in Sources : content'[e] \in Contents[e]
    BY <1>2 DEF ChangeSource, Inv, Types
<1>3. ASSUME NEW d \in Sources, DeleteSource(d) PROVE exists' \subseteq exists /\ content' = content
    BY <1>3 DEF DeleteSource
<1>4. QED
    BY <1>1, <1>2, <1>3 DEF Next, vars, ClassifyColumn

\* The catalog and the scans have their types; a scan commits before it has
\* written more than CommitEvery tables.
THEOREM TypeCorrect == Spec => []TypeOK
<1> DEFINE Rest == exists \subseteq Sources /\ \A d \in Sources : content[d] \in Contents[d]
<1>1. Init => Rest
    BY DEF Init
<1>2. Inv /\ Rest /\ [Next]_vars => Rest'
    BY StepContents
<1>3. Inv /\ Paced /\ Rest => TypeOK
    <2> SUFFICES ASSUME Inv, Paced, Rest PROVE TypeOK
        OBVIOUS
    <2>1. /\ owner \in [Names -> Sources \cup {NoSource}]
          /\ catalog \in [Names -> [Tables -> EntryRec]]
          /\ scan \in [Scans -> ScanRec]
        BY DEF Inv, Types
    <2>2. ASSUME NEW s \in Scans
          PROVE  scan[s].since \in 0..CommitEvery
        BY ConstantFacts DEF Paced
    <2> DEFINE Rec == [pc: {"idle", "find", "insert", "list", "work", "schema",
                            "checkpoint", "completed"},
                       src: Sources \cup {NoSource}, root: Sources \cup {NoSource},
                       todo: SUBSET Tables, here: SUBSET Tables, seen: [Tables -> Nat],
                       since: 0..CommitEvery, db: BOOLEAN, rows: SUBSET Tables,
                       types: [Tables -> Nat], lost: BOOLEAN, must: SUBSET Tables]
    <2>3. ASSUME NEW s \in Scans PROVE scan[s] \in Rec
        BY <2>1, <2>2 DEF ScanRec, Unrooted, Rooting
    <2>4. scan \in [Scans -> Rec]
        BY <2>1, <2>3
    <2>5. QED
        BY <2>1, <2>4 DEF TypeOK, EntryRec
<1> HIDE DEF Rest
<1>4. QED
    BY <1>1, <1>2, <1>3, InitInv, StepInv, InitPaced, StepPaced, PTL DEF Spec
=============================================================================
