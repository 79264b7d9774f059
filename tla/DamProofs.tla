------------------------------ MODULE DamProofs ------------------------------
(***************************************************************************)
(* Proofs about the two collectors of database activity.  First DamPoller, *)
(* for any number of sources and events, any row limit, and all times that *)
(* satisfy TimingAssumption; then DamAgent, for any numbers of process     *)
(* numbers, sessions, request handlers, attempts and stored events, and    *)
(* whatever the policies.  The two share nothing.                          *)
(***************************************************************************)
EXTENDS DamPoller, DamAgent, TLAPS

Poll == [pc : {"idle", "next", "query", "ingest"}, todo : SUBSET Source,
         src : Source \cup {None}, since : Int, got : SUBSET Event,
         due : Int, asked : Int]

Types ==
  /\ trail \in [Event -> [src : Source \cup {None}, at : Int]]
  /\ over \subseteq Event
  /\ wm \in [Source -> Int \cup {None}]
  /\ recorded \in [Event -> Nat]
  /\ poll \in Poll
  /\ pending \in [rows : SUBSET Event, wm : [Source -> Int \cup {None}]]
  /\ missed \subseteq Event
  /\ torn \in [Source -> Nat]
  /\ now \in Nat
  /\ poll.pc \in {"query", "ingest"} => poll.src \in Source
  /\ poll.pc = "idle" => pending = Nothing
  /\ \A e \in Event : trail[e] = NoEvent \/ trail[e].src \in Source

(* A source is at work in the poll.                                        *)
Working(s) == poll.pc \in {"query", "ingest"} /\ poll.src = s

(* The times of a poll: it is over before the next one is due, and Slow at *)
(* most passes between the query of a source and its commit.               *)
Times ==
  /\ poll.pc # "idle" => now < poll.due + Interval
  /\ poll.due <= now
  /\ poll.pc = "ingest" => poll.asked <= now /\ now <= poll.asked + Slow
  /\ \A e \in Event : trail[e].src # None => trail[e].at <= now
  /\ \A s \in Source : wm[s] # None => wm[s] <= now
  /\ \A s \in Source : pending.wm[s] # None => pending.wm[s] <= now

(* The window of the source at work starts where its watermark says.       *)
Window ==
  poll.pc \in {"query", "ingest"} =>
    /\ pending.wm[poll.src] # None
    /\ wm[poll.src] # None => poll.since = wm[poll.src] - Overlap
    /\ wm[poll.src] = None => poll.since = pending.wm[poll.src] - Overlap
    /\ poll.pc = "ingest" => poll.since <= poll.asked - Overlap

(* What the queries of the source at work account for: every event old     *)
(* enough to show up was read, was counted as missed or is over.           *)
Asked ==
  poll.pc = "ingest" =>
    \A e \in Event : trail[e].src = poll.src /\ trail[e].at < poll.asked - Delay =>
      /\ After(e, poll.since) => e \in poll.got \cup missed \cup over
      /\ ~After(e, poll.since) /\ wm[poll.src] = None => e \in missed

(* A first watermark that waits for a commit leaves only missed events     *)
(* behind it.                                                              *)
FirstWatermark ==
  \A s \in Source, e \in Event :
    /\ pending.wm[s] # None /\ wm[s] = None /\ ~Working(s)
    /\ trail[e].src = s /\ ~After(e, pending.wm[s] - Overlap)
    => e \in missed

GapInv == Types /\ Times /\ Window /\ Asked /\ FirstWatermark /\ GapsOnlyFromQueries

(* What was read is of the source at work, and inside its window.          *)
Read ==
  poll.pc = "ingest" =>
    \A e \in poll.got : trail[e].src = poll.src /\ After(e, poll.since)

(* A source has nothing pending before its turn.                           *)
OncePerPoll ==
  /\ \A s \in Source : Working(s) => s \notin poll.todo
  /\ \A s \in Source : pending.wm[s] # None => s \notin poll.todo
  /\ \A e \in pending.rows : trail[e].src \notin poll.todo /\ ~Working(trail[e].src)

(* The watermarks of the sources still to do are those of earlier polls.   *)
Lags ==
  \A s \in Source : wm[s] # None =>
    /\ wm[s] < poll.due + Interval
    /\ poll.pc # "idle" /\ (s \in poll.todo \/ Working(s)) => wm[s] < poll.due

(* When the poll that set the watermark was due, or a later time.          *)
SetBy(s) == IF wm[s] >= poll.due THEN poll.due ELSE poll.due - Interval

(* How often the watermark allows an event to be recorded: once by the     *)
(* poll that set it, if the event came after that poll was due; twice      *)
(* while it is in the overlap.                                             *)
Allowed(e) ==
  LET s == trail[e].src
  IN  IF wm[s] = None \/ trail[e].at > wm[s] THEN 0
      ELSE IF ~After(e, wm[s] - Overlap) THEN 3
      ELSE IF trail[e].at >= SetBy(s) THEN 1 ELSE 2

Copies(e) == recorded[e] + IF e \in pending.rows THEN 1 ELSE 0

Counted ==
  \A e \in Event :
    /\ trail[e].src = None => Copies(e) = 0
    /\ trail[e].src # None => Copies(e) <= Allowed(e) + torn[trail[e].src]

CountInv == Types /\ Times /\ Window /\ Read /\ OncePerPoll /\ Lags /\ Counted

LEMMA ConstantFacts ==
  /\ Overlap \in Nat /\ FirstWindow \in Nat /\ Interval \in Nat /\ Slow \in Nat /\ Delay \in Nat
  /\ MaxTime \in Nat
  /\ Slow + Delay < Overlap /\ Overlap <= Interval /\ Live \subseteq Source
  /\ None \notin Source /\ None \notin Int
BY TimingAssumption

LEMMA NothingType == Nothing \in [rows : SUBSET Event, wm : [Source -> Int \cup {None}]]
BY DEF Nothing

LEMMA IdleType == Idle \in Poll /\ \A t \in Int : [Idle EXCEPT !.due = t] \in Poll
BY ConstantFacts DEF Idle, Poll

LEMMA InitTypes == Init => Types
BY NothingType, IdleType DEF Init, Types, NoEvent, Idle

LEMMA WatermarkType == ASSUME Types, NEW s \in Source PROVE Watermark(s) \in Int
BY ConstantFacts DEF Types, Watermark

(* One lemma for each change to the fields of a poll.                      *)
LEMMA FieldTypes ==
  ASSUME NEW p \in Poll
  PROVE  /\ \A pc \in {"idle", "next", "query", "ingest"} : [p EXCEPT !.pc = pc] \in Poll
         /\ \A todo \in SUBSET Source : [p EXCEPT !.todo = todo] \in Poll
         /\ \A src \in Source \cup {None} : [p EXCEPT !.src = src] \in Poll
         /\ \A i \in Int : [p EXCEPT !.since = i] \in Poll
         /\ \A i \in Int : [p EXCEPT !.due = i] \in Poll
         /\ \A i \in Int : [p EXCEPT !.asked = i] \in Poll
         /\ \A got \in SUBSET Event : [p EXCEPT !.got = got] \in Poll
BY DEF Poll

(* The source at work has been queried.                                    *)
Queried(got) == [poll EXCEPT !.pc = "ingest", !.got = got, !.asked = now]

LEMMA QueriedType ==
  ASSUME Types, NEW got \in SUBSET Event
  PROVE  Queried(got) \in Poll
<1> DEFINE a == [poll EXCEPT !.pc = "ingest"]
           b == [a EXCEPT !.got = got]
           c == [b EXCEPT !.asked = now]
<1>1. a \in Poll
  BY FieldTypes DEF Types
<1>2. b \in Poll
  BY <1>1, FieldTypes
<1>3. now \in Int
  BY DEF Types
<1>4. c \in Poll
  BY <1>2, <1>3, FieldTypes
<1>5. QED
  BY <1>4 DEF Queried

(* The source at work is done with.                                        *)
Next1 == [poll EXCEPT !.pc = "next", !.src = None, !.since = 0, !.got = {}, !.asked = 0]

LEMMA NextType == Types => Next1 \in Poll
<1> SUFFICES ASSUME Types PROVE Next1 \in Poll
  OBVIOUS
<1> DEFINE a == [poll EXCEPT !.pc = "next"]
           b == [a EXCEPT !.src = None]
           c == [b EXCEPT !.since = 0]
           d == [c EXCEPT !.got = {}]
           e == [d EXCEPT !.asked = 0]
<1>0. 0 \in Int
  OBVIOUS
<1>1. a \in Poll
  BY FieldTypes DEF Types
<1>2. b \in Poll
  BY <1>1, FieldTypes
<1> HIDE DEF b
<1>3. c \in Poll
  BY <1>0, <1>2, FieldTypes
<1>4. d \in Poll
  BY <1>3, FieldTypes
<1> HIDE DEF d
<1>5. e \in Poll
  BY <1>0, <1>4, FieldTypes
<1> USE DEF b, d
<1>6. QED
  BY <1>5 DEF Next1

LEMMA StepTypes == Types /\ [Next]_vars => Types'
<1> SUFFICES ASSUME Types, [Next]_vars PROVE Types'
  OBVIOUS
<1>0. poll \in Poll /\ now \in Nat
  BY DEF Types
<1>1. CASE Start
  <2>1. poll' \in Poll
    <3>1. PICK t \in (now - Interval + 1)..now :
            poll' = [poll EXCEPT !.pc = "next", !.todo = Source, !.due = t]
      BY <1>1 DEF Start
    <3>a. now - Interval + 1 \in Int /\ now \in Int
      BY <1>0, ConstantFacts
    <3>b. t \in Int
      BY <3>a
    <3>2. [poll EXCEPT !.pc = "next"] \in Poll /\ t \in Int
      BY <1>0, <3>b, FieldTypes
    <3>3. [[poll EXCEPT !.pc = "next"] EXCEPT !.todo = Source] \in Poll
      BY <3>2, FieldTypes
    <3>4. [[[poll EXCEPT !.pc = "next"] EXCEPT !.todo = Source] EXCEPT !.due = t] \in Poll
      BY <3>2, <3>3, FieldTypes
    <3>5. QED
      BY <3>1, <3>4
  <2>2. poll'.pc = "next"
    BY <1>0, <1>1 DEF Start, Poll
  <2>3. QED
    BY <1>1, <2>1, <2>2 DEF Start, Types
<1>2. ASSUME NEW s \in Source, Open(s) PROVE Types'
  <2>1. Watermark(s) \in Int /\ Since(s) \in Int
    BY WatermarkType, ConstantFacts DEF Since
  <2>2. poll' \in Poll /\ poll'.pc = "query" /\ poll'.src = s
    BY <1>0, <1>2, <2>1 DEF Open, Poll
  <2>3. pending' \in [rows : SUBSET Event, wm : [Source -> Int \cup {None}]]
    BY <1>2, <2>1 DEF Open, Types
  <2>4. QED
    BY <1>2, <2>2, <2>3 DEF Open, Types
<1>3. ASSUME NEW s \in Source, Skip(s) PROVE Types'
  <2>1. poll' \in Poll /\ poll'.pc = "next"
    BY <1>0, <1>3 DEF Skip, Poll
  <2>2. QED
    BY <1>3, <2>1 DEF Skip, Types
<1>4. CASE Query
  <2>1. PICK got \in SUBSET InWindow :
          /\ poll' = [poll EXCEPT !.pc = "ingest", !.got = got, !.asked = now]
          /\ missed' = missed \cup (InWindow \ got) \cup BeforeFirst
    BY <1>4 DEF Query
  <2>2. got \subseteq Event /\ InWindow \subseteq Event /\ BeforeFirst \subseteq Event
    BY DEF InWindow, BeforeFirst
  <2>3. poll' \in Poll /\ poll'.src = poll.src /\ poll'.pc = "ingest"
    <3>1. poll' = Queried(got) /\ poll' \in Poll
      BY <2>1, <2>2, QueriedType DEF Queried
    <3>2. QED
      BY <1>0, <3>1 DEF Queried, Poll
  <2>4. missed' \subseteq Event
    BY <2>1, <2>2 DEF Types
  <2>5. QED
    BY <1>4, <2>3, <2>4 DEF Query, Types
<1>5. CASE QueryFails
  <2>1. InWindow \subseteq Event /\ BeforeFirst \subseteq Event
    BY DEF InWindow, BeforeFirst
  <2>2. poll' \in Poll /\ poll'.src = poll.src /\ poll'.pc = "ingest"
    <3>1. poll' = Queried({}) /\ poll' \in Poll
      BY <1>5, QueriedType DEF QueryFails, Queried
    <3>2. QED
      BY <1>0, <3>1 DEF Queried, Poll
  <2>3. QED
    BY <1>5, <2>1, <2>2 DEF QueryFails, Types
<1>6. CASE Ingest
  <2>1. poll' \in Poll /\ poll'.pc = "next"
    BY <1>0, <1>6, NextType DEF Ingest, Next1, Poll
  <2>2. recorded' \in [Event -> Nat]
    BY <1>6 DEF Ingest, Recorded, Types
  <2>3. wm' \in [Source -> Int \cup {None}]
    BY <1>6 DEF Ingest, Merged, NewWatermark, Types
  <2>4. QED
    BY <1>6, <2>1, <2>2, <2>3, NothingType DEF Ingest, Types
<1>7. CASE IngestFails
  <2>1. poll' \in Poll /\ poll'.pc = "next"
    BY <1>0, <1>7, NextType DEF IngestFails, Next1, Poll
  <2>2. pending' \in [rows : SUBSET Event, wm : [Source -> Int \cup {None}]]
    BY <1>0, <1>7 DEF IngestFails, Types, Poll
  <2>3. torn' \in [Source -> Nat]
    BY <1>7 DEF IngestFails, Types
  <2>4. QED
    BY <1>7, <2>1, <2>2, <2>3 DEF IngestFails, Types
<1>8. CASE End
  <2>1. poll' \in Poll /\ poll'.pc = "idle"
    BY <1>0, <1>8, IdleType DEF End, Idle, Poll
  <2>2. QED
    BY <1>8, <2>1, NothingType DEF End, Types
<1>9. ASSUME NEW e \in Event, NEW s \in Source, Occur(e, s) PROVE Types'
  BY <1>9, ConstantFacts DEF Occur, Types
<1>10. CASE Tick
  BY <1>10 DEF Tick, Types
<1>11. ASSUME NEW e \in Event, Ends(e) PROVE Types'
  BY <1>11 DEF Ends, Types
<1>12. CASE UNCHANGED vars
  BY <1>12 DEF vars, Types
<1>13. QED
  BY <1>1, <1>2, <1>3, <1>4, <1>5, <1>6, <1>7, <1>8, <1>9, <1>10, <1>11, <1>12 DEF Next

(* Every variable has its type, and nothing that is not committed outlives *)
(* the task.                                                               *)
THEOREM TypeCorrect == Spec => []TypeOK
<1>1. Types => TypeOK
  <2> SUFFICES ASSUME Types PROVE TypeOK
    OBVIOUS
  <2>1. ASSUME NEW e \in Event PROVE trail[e] = NoEvent \/ (trail[e].src \in Source /\ trail[e].at \in Int)
    BY DEF Types
  <2>2. QED
    BY <2>1 DEF Types, TypeOK, Poll
<1>2. QED
  BY <1>1, InitTypes, StepTypes, PTL DEF Spec
-----------------------------------------------------------------------------
(* What each action does to the fields of the poll.                        *)
LEMMA StartEffect ==
  ASSUME Types, Start
  PROVE  /\ poll.pc = "idle" /\ poll'.pc = "next" /\ poll'.todo = Source /\ poll' \in Poll
         /\ poll'.due <= now /\ now < poll'.due + Interval /\ poll'.due >= poll.due + Interval
         /\ UNCHANGED <<trail, over, wm, recorded, pending, missed, torn, now>>
<1>1. poll \in Poll
  BY DEF Types
<1>2. poll' \in Poll
  BY StepTypes DEF Types, Next
<1>3. PICK t \in (now - Interval + 1)..now :
        /\ t >= poll.due + Interval
        /\ poll' = [poll EXCEPT !.pc = "next", !.todo = Source, !.due = t]
  BY DEF Start
<1>4. poll'.pc = "next" /\ poll'.todo = Source /\ poll'.due = t
  BY <1>1, <1>3 DEF Poll
<1>5. now - Interval + 1 <= t /\ t <= now /\ t \in Int /\ now \in Int /\ Interval \in Int
  BY <1>3, ConstantFacts DEF Types
<1>6. QED
  BY <1>2, <1>3, <1>4, <1>5 DEF Start

LEMMA OpenEffect ==
  ASSUME Types, NEW s \in Source, Open(s)
  PROVE  /\ poll.pc = "next" /\ s \in poll.todo /\ poll'.pc = "query" /\ poll'.src = s
         /\ poll'.todo = poll.todo \ {s} /\ poll'.since = Watermark(s) - Overlap
         /\ poll'.due = poll.due /\ Watermark(s) \in Int
         /\ pending'.wm[s] = Watermark(s) /\ pending'.rows = pending.rows
         /\ \A t \in Source : t # s => pending'.wm[t] = pending.wm[t]
         /\ UNCHANGED <<trail, over, wm, recorded, missed, torn, now>>
<1>1. poll \in Poll
  BY DEF Types
<1>2. Watermark(s) \in Int
  BY WatermarkType
<1>3. pending'.wm[s] = Watermark(s) /\ pending'.rows = pending.rows
  BY <1>2 DEF Open, Types
<1>4. \A t \in Source : t # s => pending'.wm[t] = pending.wm[t]
  BY DEF Open, Types
<1>5. QED
  BY <1>1, <1>2, <1>3, <1>4 DEF Open, Poll, Since

LEMMA SkipEffect ==
  ASSUME Types, NEW s \in Source, Skip(s)
  PROVE  /\ poll.pc = "next" /\ poll'.pc = "next" /\ poll'.todo \subseteq poll.todo
         /\ poll'.due = poll.due
         /\ UNCHANGED <<trail, over, wm, recorded, pending, missed, torn, now>>
<1>1. poll \in Poll
  BY DEF Types
<1>2. QED
  BY <1>1 DEF Skip, Poll

LEMMA AskEffect ==
  ASSUME Types, Query \/ QueryFails
  PROVE  /\ poll.pc = "query" /\ poll'.pc = "ingest" /\ poll'.got \subseteq InWindow
         /\ missed' = missed \cup (InWindow \ poll'.got) \cup BeforeFirst
         /\ poll'.src = poll.src /\ poll'.since = poll.since /\ poll'.asked = now
         /\ poll'.todo = poll.todo /\ poll'.due = poll.due
         /\ UNCHANGED <<trail, over, wm, recorded, pending, torn, now>>
<1>1. PICK got \in SUBSET InWindow :
        poll' = Queried(got) /\ missed' = missed \cup (InWindow \ got) \cup BeforeFirst
  <2>1. CASE Query
    BY <2>1 DEF Query, Queried
  <2>2. CASE QueryFails
    <3>1. poll' = Queried({}) /\ missed' = missed \cup (InWindow \ {}) \cup BeforeFirst
      BY <2>2 DEF QueryFails, Queried
    <3>2. QED
      BY <3>1
  <2>3. QED
    BY <2>1, <2>2
<1>2. poll \in Poll
  BY DEF Types
<1>3. /\ poll'.pc = "ingest" /\ poll'.got = got /\ poll'.src = poll.src /\ poll'.since = poll.since
      /\ poll'.asked = now /\ poll'.todo = poll.todo /\ poll'.due = poll.due
  BY <1>1, <1>2 DEF Queried, Poll
<1>4. QED
  BY <1>1, <1>3 DEF Query, QueryFails

LEMMA DoneEffect ==
  ASSUME Types, Ingest \/ IngestFails
  PROVE  /\ poll.pc = "ingest" /\ poll.src \in Source /\ poll'.pc = "next" /\ poll'.src = None
         /\ poll'.todo = poll.todo /\ poll'.due = poll.due
         /\ UNCHANGED <<trail, over, missed, now>>
<1>1. poll \in Poll /\ poll' = Next1
  BY DEF Types, Ingest, IngestFails, Next1
<1>2. QED
  BY <1>1 DEF Next1, Poll, Ingest, IngestFails, Types

LEMMA IngestEffect ==
  ASSUME Types, Ingest
  PROVE  /\ \A e \in Event : recorded'[e] = recorded[e] + IF e \in pending.rows \cup poll.got THEN 1 ELSE 0
         /\ wm'[poll.src] = now
         /\ \A s \in Source : s # poll.src =>
              wm'[s] = IF pending.wm[s] # None /\ wm[s] = None THEN pending.wm[s] ELSE wm[s]
         /\ pending'.rows = {} /\ \A s \in Source : pending'.wm[s] = None
         /\ UNCHANGED torn
<1>1. poll.src \in Source
  BY DoneEffect
<1>2. QED
  BY <1>1 DEF Ingest, Recorded, Merged, NewWatermark, Nothing

LEMMA IngestFailsEffect ==
  ASSUME Types, IngestFails
  PROVE  /\ \A s \in Source : pending'.wm[s] = pending.wm[s]
         /\ pending'.rows \subseteq pending.rows \cup poll.got
         /\ torn'[poll.src] = torn[poll.src] + 1
         /\ \A s \in Source : s # poll.src => torn'[s] = torn[s]
         /\ UNCHANGED <<wm, recorded>>
<1>1. poll.src \in Source /\ poll \in Poll
  BY DoneEffect DEF Types
<1>2. QED
  BY <1>1 DEF IngestFails, Types, Poll

LEMMA EndEffect ==
  ASSUME Types, End
  PROVE  /\ poll.pc # "idle" /\ poll'.pc = "idle" /\ poll'.todo = {} /\ poll'.due = poll.due
         /\ pending'.rows = {} /\ \A s \in Source : pending'.wm[s] = None
         /\ UNCHANGED <<trail, over, wm, recorded, missed, torn, now>>
<1>1. QED
  BY DEF End, Idle, Nothing

(* An event that is new to the trail is later than any window that has     *)
(* been asked for.                                                         *)
LEMMA OccurEffect ==
  ASSUME Types, NEW e \in Event, NEW s \in Source, Occur(e, s)
  PROVE  /\ trail[e].src = None /\ trail'[e].src = s /\ trail'[e].at \in Int
         /\ now - Delay <= trail'[e].at /\ trail'[e].at <= now
         /\ \A f \in Event : f # e => trail'[f] = trail[f]
         /\ UNCHANGED <<over, wm, recorded, poll, pending, missed, torn, now>>
BY ConstantFacts DEF Occur, Types, NoEvent

LEMMA TickEffect ==
  ASSUME Types, Tick
  PROVE  /\ now' = now + 1
         /\ poll.pc = "ingest" => now < poll.asked + Slow
         /\ poll.pc # "idle" => now + 1 < poll.due + Interval
         /\ UNCHANGED <<trail, over, wm, recorded, poll, pending, missed, torn>>
BY DEF Tick

LEMMA EndsEffect ==
  ASSUME Types, NEW e \in Event, Ends(e)
  PROVE  /\ over \subseteq over'
         /\ UNCHANGED <<trail, wm, recorded, poll, pending, missed, torn, now>>
BY DEF Ends

(* The types of the numbers, for the prover.                               *)
LEMMA Numbers ==
  ASSUME Types
  PROVE  /\ now \in Nat /\ poll.due \in Int /\ poll.asked \in Int /\ poll.since \in Int
         /\ \A e \in Event : trail[e].at \in Int /\ trail[e].src \in Source \cup {None}
         /\ \A s \in Source : wm[s] \in Int \cup {None} /\ pending.wm[s] \in Int \cup {None}
         /\ pending.rows \subseteq Event /\ poll.got \subseteq Event
         /\ poll.todo \subseteq Source
BY DEF Types, Poll

-----------------------------------------------------------------------------
LEMMA InitTimes == Init => Times
BY ConstantFacts DEF Init, Times, Idle, NoEvent, Nothing

LEMMA StepTimes == Types /\ Times /\ [Next]_vars => Times'
<1> SUFFICES ASSUME Types, Times, [Next]_vars PROVE Times'
  OBVIOUS
<1>0. Types'
  BY StepTypes
<1>1. CASE Start
  BY <1>1, StartEffect, Numbers, ConstantFacts DEF Times
<1>2. ASSUME NEW s \in Source, Open(s) PROVE Times'
  <2>1. Watermark(s) <= now
    BY Numbers, ConstantFacts DEF Watermark, Times
  <2>2. \A t \in Source : pending'.wm[t] # None => pending'.wm[t] <= now
    BY <1>2, <2>1, OpenEffect DEF Times
  <2>3. QED
    BY <1>2, <2>2, OpenEffect, Numbers DEF Times
<1>3. ASSUME NEW s \in Source, Skip(s) PROVE Times'
  BY <1>3, SkipEffect DEF Times
<1>4. CASE Query \/ QueryFails
  BY <1>4, AskEffect, Numbers, ConstantFacts DEF Times
<1>5. CASE Ingest
  <2>1. \A s \in Source : wm'[s] # None => wm'[s] <= now
    BY <1>5, IngestEffect, DoneEffect, Numbers DEF Times
  <2>2. QED
    BY <1>5, <2>1, IngestEffect, DoneEffect DEF Times
<1>6. CASE IngestFails
  BY <1>6, IngestFailsEffect, DoneEffect DEF Times
<1>7. CASE End
  BY <1>7, EndEffect DEF Times
<1>8. ASSUME NEW e \in Event, NEW s \in Source, Occur(e, s) PROVE Times'
  <2>1. \A f \in Event : trail'[f].src # None => trail'[f].at <= now
    BY <1>8, OccurEffect DEF Times
  <2>2. QED
    BY <1>8, <2>1, OccurEffect DEF Times
<1>9. CASE Tick
  BY <1>9, TickEffect, Numbers, ConstantFacts DEF Times
<1>10. ASSUME NEW g \in Event, Ends(g)
      PROVE  Times'
  BY <1>10, EndsEffect DEF Times
<1>11. CASE UNCHANGED vars
  BY <1>11 DEF vars, Times
<1>12. QED
  BY <1>1, <1>2, <1>3, <1>4, <1>5, <1>6, <1>7, <1>8, <1>9, <1>10, <1>11 DEF Next

LEMMA InitWindow == Init => Window /\ Asked /\ Read
BY DEF Init, Window, Asked, Read, Idle

LEMMA StepWindow == Types /\ Times /\ Window /\ [Next]_vars => Window'
<1> SUFFICES ASSUME Types, Times, Window, [Next]_vars PROVE Window'
  OBVIOUS
<1>1. CASE Start
  BY <1>1, StartEffect DEF Window
<1>2. ASSUME NEW s \in Source, Open(s) PROVE Window'
  <2>1. Watermark(s) \in Int /\ (wm[s] # None => Watermark(s) = wm[s])
    BY WatermarkType DEF Watermark
  <2>2. QED
    BY <1>2, <2>1, OpenEffect, ConstantFacts DEF Window
<1>3. ASSUME NEW s \in Source, Skip(s) PROVE Window'
  BY <1>3, SkipEffect DEF Window
<1>4. CASE Query \/ QueryFails
  <2>1. poll.since <= now - Overlap
    <3>1. poll.pc = "query" /\ poll.src \in Source
      BY <1>4, AskEffect DEF Types
    <3>2. wm[poll.src] # None => poll.since = wm[poll.src] - Overlap /\ wm[poll.src] <= now
      BY <3>1 DEF Window, Times
    <3>3. wm[poll.src] = None => poll.since = pending.wm[poll.src] - Overlap /\ pending.wm[poll.src] <= now
      BY <3>1 DEF Window, Times
    <3>4. wm[poll.src] \in Int \cup {None} /\ pending.wm[poll.src] \in Int \cup {None} /\ pending.wm[poll.src] # None
      BY <3>1, Numbers DEF Window
    <3>5. QED
      BY <3>2, <3>3, <3>4, Numbers, ConstantFacts
  <2>2. QED
    BY <1>4, <2>1, AskEffect DEF Window
<1>5. CASE Ingest \/ IngestFails
  BY <1>5, DoneEffect DEF Window
<1>6. CASE End
  BY <1>6, EndEffect DEF Window
<1>7. ASSUME NEW e \in Event, NEW s \in Source, Occur(e, s) PROVE Window'
  BY <1>7, OccurEffect DEF Window
<1>8. CASE Tick
  BY <1>8, TickEffect DEF Window
<1>9. ASSUME NEW g \in Event, Ends(g)
      PROVE  Window'
  BY <1>9, EndsEffect DEF Window
<1>10. CASE UNCHANGED vars
  BY <1>10 DEF vars, Window
<1>11. QED
  BY <1>1, <1>2, <1>3, <1>4, <1>5, <1>6, <1>7, <1>8, <1>9, <1>10 DEF Next

LEMMA StepAsked == Types /\ Times /\ Window /\ Asked /\ [Next]_vars => Asked'
<1> SUFFICES ASSUME Types, Times, Window, Asked, [Next]_vars PROVE Asked'
  OBVIOUS
<1>1. CASE Start
  BY <1>1, StartEffect DEF Asked, After
<1>2. ASSUME NEW s \in Source, Open(s) \/ Skip(s) PROVE Asked'
  BY <1>2, OpenEffect, SkipEffect DEF Asked, After
<1>3. CASE Query \/ QueryFails
  <2> SUFFICES ASSUME NEW e \in Event, trail'[e].src = poll'.src
               PROVE  /\ After(e, poll.since)' => e \in poll'.got \cup missed' \cup over'
                      /\ ~After(e, poll.since)' /\ wm'[poll'.src] = None => e \in missed'
    BY DEF Asked, After
  <2>1. trail[e].src = poll.src /\ trail' = trail /\ wm' = wm /\ over' = over /\ poll'.since = poll.since
    BY <1>3, AskEffect
  <2>2. After(e, poll.since) => e \in InWindow \cup over
    BY <2>1 DEF InWindow
  <2>3. ~After(e, poll.since) /\ wm[poll.src] = None => e \in BeforeFirst
    BY <2>1 DEF BeforeFirst
  <2>4. After(e, poll.since)' <=> After(e, poll.since)
    BY <2>1 DEF After
  <2>5. QED
    BY <1>3, <2>1, <2>2, <2>3, <2>4, AskEffect
<1>4. CASE Ingest \/ IngestFails
  BY <1>4, DoneEffect DEF Asked, After
<1>5. CASE End
  BY <1>5, EndEffect DEF Asked, After
<1>6. ASSUME NEW f \in Event, NEW s \in Source, Occur(f, s) PROVE Asked'
  <2> SUFFICES ASSUME poll.pc = "ingest",
                      NEW e \in Event, trail'[e].src = poll.src, trail'[e].at < poll.asked - Delay
               PROVE  /\ After(e, poll.since)' => e \in poll.got \cup missed \cup over
                      /\ ~After(e, poll.since)' /\ wm[poll.src] = None => e \in missed
    BY <1>6, OccurEffect DEF Asked, After
  <2>1. e # f
    BY <1>6, OccurEffect, Numbers, ConstantFacts DEF Times
  <2>2. QED
    BY <1>6, <2>1, OccurEffect DEF Asked, After
<1>7. CASE Tick
  BY <1>7, TickEffect DEF Asked, After
<1>8. ASSUME NEW g \in Event, Ends(g)
      PROVE  Asked'
  BY <1>8, EndsEffect DEF Asked, After
<1>9. CASE UNCHANGED vars
  BY <1>9 DEF vars, Asked, After
<1>10. QED
  BY <1>1, <1>2, <1>3, <1>4, <1>5, <1>6, <1>7, <1>8, <1>9 DEF Next

LEMMA StepFirstWatermark ==
  Types /\ Times /\ Window /\ Asked /\ FirstWatermark /\ [Next]_vars => FirstWatermark'
<1> SUFFICES ASSUME Types, Times, Window, Asked, FirstWatermark, [Next]_vars,
                    NEW s \in Source, NEW e \in Event,
                    pending'.wm[s] # None, wm'[s] = None, ~Working(s)',
                    trail'[e].src = s, ~After(e, pending.wm[s] - Overlap)'
             PROVE  e \in missed'
  BY DEF FirstWatermark, Working
<1>1. CASE Start
  BY <1>1, StartEffect DEF FirstWatermark, Working, After
<1>2. ASSUME NEW t \in Source, Open(t) PROVE e \in missed'
  <2>1. t # s /\ pending'.wm[s] = pending.wm[s]
    BY <1>2, OpenEffect DEF Working
  <2>2. QED
    BY <1>2, <2>1, OpenEffect DEF FirstWatermark, Working, After
<1>3. ASSUME NEW t \in Source, Skip(t) PROVE e \in missed'
  BY <1>3, SkipEffect DEF FirstWatermark, Working, After
<1>4. CASE Query \/ QueryFails
  BY <1>4, AskEffect DEF FirstWatermark, Working, After
<1>5. CASE Ingest
  BY <1>5, IngestEffect
<1>6. CASE IngestFails
  <2>1. /\ poll.pc = "ingest" /\ pending.wm[s] # None /\ wm[s] = None
        /\ trail[e].src = s /\ ~After(e, pending.wm[s] - Overlap) /\ missed' = missed
    BY <1>6, DoneEffect, IngestFailsEffect DEF After
  <2>2. CASE poll.src = s
    <3>1. poll.since = pending.wm[s] - Overlap /\ poll.since <= poll.asked - Overlap
      BY <2>1, <2>2 DEF Window
    <3>2. ~After(e, poll.since) /\ trail[e].at < poll.asked - Delay
      BY <2>1, <3>1, Numbers, ConstantFacts DEF After
    <3>3. QED
      BY <2>1, <2>2, <3>2 DEF Asked
  <2>3. CASE poll.src # s
    BY <2>1, <2>3 DEF FirstWatermark, Working, After
  <2>4. QED
    BY <2>2, <2>3
<1>7. CASE End
  BY <1>7, EndEffect
<1>8. ASSUME NEW f \in Event, NEW t \in Source, Occur(f, t) PROVE e \in missed'
  <2>1. pending.wm[s] # None /\ pending.wm[s] <= now /\ pending' = pending
    BY <1>8, OccurEffect DEF Times
  <2>2. e # f
    BY <1>8, <2>1, OccurEffect, Numbers, ConstantFacts DEF After
  <2>3. QED
    BY <1>8, <2>1, <2>2, OccurEffect DEF FirstWatermark, Working, After
<1>9. CASE Tick
  BY <1>9, TickEffect DEF FirstWatermark, Working, After
<1>10. ASSUME NEW g \in Event, Ends(g)
      PROVE  e \in missed'
  BY <1>10, EndsEffect DEF FirstWatermark, Working, After
<1>11. CASE UNCHANGED vars
  BY <1>11 DEF vars, FirstWatermark, Working, After
<1>12. QED
  BY <1>1, <1>2, <1>3, <1>4, <1>5, <1>6, <1>7, <1>8, <1>9, <1>10, <1>11 DEF Next

LEMMA StepGaps == GapInv /\ [Next]_vars => GapsOnlyFromQueries'
<1> SUFFICES ASSUME GapInv, [Next]_vars, NEW e \in Event, Passed(e)', recorded'[e] = 0
             PROVE  e \in missed' \cup over'
  BY DEF GapsOnlyFromQueries
<1>0. /\ Types /\ Times /\ Window /\ Asked /\ FirstWatermark
      /\ Passed(e) /\ recorded[e] = 0 => e \in missed \cup over
      /\ recorded[e] \in Nat
  BY DEF GapInv, GapsOnlyFromQueries, Types
<1>1. CASE Start
  BY <1>0, <1>1, StartEffect DEF Passed, After
<1>2. ASSUME NEW s \in Source, Open(s) \/ Skip(s) PROVE e \in missed' \cup over'
  BY <1>0, <1>2, OpenEffect, SkipEffect DEF Passed, After
<1>3. CASE Query \/ QueryFails
  BY <1>0, <1>3, AskEffect DEF Passed, After
<1>4. CASE Ingest
  <2> DEFINE s == trail[e].src
  <2>1. /\ s \in Source /\ wm'[s] # None /\ ~After(e, wm'[s] - Overlap)
        /\ poll.pc = "ingest" /\ missed' = missed /\ over' = over
    BY <1>0, <1>4, DoneEffect, Numbers DEF Passed, After
  <2>2. recorded[e] = 0 /\ e \notin pending.rows \cup poll.got
    BY <1>0, <1>4, IngestEffect
  <2>3. CASE s = poll.src
    <3>1. wm'[s] = now /\ now <= poll.asked + Slow
      BY <1>0, <1>4, <2>1, <2>3, IngestEffect DEF Times
    <3>2. trail[e].at < poll.asked - Delay
      BY <1>0, <2>1, <3>1, Numbers, ConstantFacts DEF After
    <3>3. CASE After(e, poll.since)
      BY <1>0, <2>1, <2>2, <2>3, <3>2, <3>3 DEF Asked
    <3>4. CASE ~After(e, poll.since) /\ wm[s] = None
      BY <1>0, <2>1, <2>3, <3>2, <3>4 DEF Asked
    <3>5. CASE ~After(e, poll.since) /\ wm[s] # None
      <4>1. poll.since = wm[s] - Overlap
        BY <1>0, <2>1, <2>3, <3>5 DEF Window
      <4>2. s # None
        BY <2>1, ConstantFacts
      <4>3. QED
        BY <1>0, <2>1, <2>2, <3>5, <4>1, <4>2 DEF Passed, After
    <3>6. QED
      BY <1>0, <3>3, <3>4, <3>5, Numbers
  <2>4. CASE s # poll.src
    <3>1. wm'[s] = IF pending.wm[s] # None /\ wm[s] = None THEN pending.wm[s] ELSE wm[s]
      BY <1>0, <1>4, <2>1, <2>4, IngestEffect
    <3>2. CASE pending.wm[s] # None /\ wm[s] = None
      BY <1>0, <2>1, <2>4, <3>1, <3>2 DEF FirstWatermark, Working
    <3>3. CASE ~(pending.wm[s] # None /\ wm[s] = None)
      <4>1. wm[s] # None /\ ~After(e, wm[s] - Overlap) /\ s # None
        BY <2>1, <3>1, <3>3, ConstantFacts
      <4>2. QED
        BY <1>0, <2>1, <2>2, <4>1 DEF Passed, After
    <3>4. QED
      BY <3>2, <3>3
  <2>5. QED
    BY <2>3, <2>4
<1>5. CASE IngestFails
  BY <1>0, <1>5, DoneEffect, IngestFailsEffect DEF Passed, After
<1>6. CASE End
  BY <1>0, <1>6, EndEffect DEF Passed, After
<1>7. ASSUME NEW f \in Event, NEW s \in Source, Occur(f, s) PROVE e \in missed' \cup over'
  <2>1. e # f
    <3> SUFFICES ASSUME e = f PROVE FALSE
      OBVIOUS
    <3>0. trail'[f].at \in Int /\ wm[s] \in Int \cup {None} /\ trail'[f].src = s /\ wm' = wm
      BY <1>0, <1>7, OccurEffect, Numbers
    <3>1. wm[s] # None /\ trail'[f].at <= wm[s] - Overlap
      BY <1>0, <1>7, <3>0, ConstantFacts DEF Passed, After
    <3>2. wm[s] <= now /\ now - Delay <= trail'[f].at /\ trail'[f].at \in Int
      BY <1>0, <1>7, <3>1, OccurEffect DEF Times
    <3>3. wm[s] \in Int /\ now \in Nat
      BY <1>0, <3>1, Numbers
    <3>4. QED
      BY <3>1, <3>2, <3>3, ConstantFacts
  <2>2. QED
    BY <1>0, <1>7, <2>1, OccurEffect DEF Passed, After
<1>8. CASE Tick
  BY <1>0, <1>8, TickEffect DEF Passed, After
<1>9. ASSUME NEW g \in Event, Ends(g)
      PROVE  e \in missed' \cup over'
  BY <1>9, EndsEffect, <1>0 DEF Passed, After
<1>10. CASE UNCHANGED vars
  BY <1>0, <1>10 DEF vars, Passed, After
<1>11. QED
  BY <1>1, <1>2, <1>3, <1>4, <1>5, <1>6, <1>7, <1>8, <1>9, <1>10 DEF Next

(* An event the watermark has passed and nobody recorded is one a query    *)
(* missed: failed sources, slow ingestion, late events and dead workers    *)
(* lose none.                                                              *)
THEOREM GapsAreFromQueries == Spec => []GapsOnlyFromQueries
<1>1. Init => GapInv
  <2> SUFFICES ASSUME Init PROVE GapInv
    OBVIOUS
  <2>1. FirstWatermark
    BY DEF Init, FirstWatermark, Nothing
  <2>2. GapsOnlyFromQueries
    BY DEF Init, GapsOnlyFromQueries, Passed, NoEvent
  <2>3. QED
    BY <2>1, <2>2, InitTypes, InitTimes, InitWindow DEF GapInv
<1>2. GapInv /\ [Next]_vars => GapInv'
  BY StepTypes, StepTimes, StepWindow, StepAsked, StepFirstWatermark, StepGaps DEF GapInv
<1>3. GapInv => GapsOnlyFromQueries
  BY DEF GapInv
<1>4. QED
  BY <1>1, <1>2, <1>3, PTL DEF Spec

-----------------------------------------------------------------------------
LEMMA StepRead == Types /\ Read /\ [Next]_vars => Read'
<1> SUFFICES ASSUME Types, Read, [Next]_vars PROVE Read'
  OBVIOUS
<1>1. CASE Start
  BY <1>1, StartEffect DEF Read, After
<1>2. ASSUME NEW s \in Source, Open(s) \/ Skip(s) PROVE Read'
  BY <1>2, OpenEffect, SkipEffect DEF Read, After
<1>3. CASE Query \/ QueryFails
  BY <1>3, AskEffect DEF Read, InWindow, After
<1>4. CASE Ingest \/ IngestFails
  BY <1>4, DoneEffect DEF Read, After
<1>5. CASE End
  BY <1>5, EndEffect DEF Read, After
<1>6. ASSUME NEW f \in Event, NEW s \in Source, Occur(f, s) PROVE Read'
  <2> SUFFICES ASSUME poll.pc = "ingest", NEW e \in poll.got
               PROVE  trail'[e].src = poll.src /\ After(e, poll.since)'
    BY <1>6, OccurEffect DEF Read, After
  <2>1. trail[e].src = poll.src /\ After(e, poll.since) /\ poll.src \in Source /\ e \in Event
    BY Numbers DEF Read, Types
  <2>2. e # f
    BY <1>6, <2>1, OccurEffect, ConstantFacts
  <2>3. QED
    BY <1>6, <2>1, <2>2, OccurEffect DEF After
<1>7. CASE Tick
  BY <1>7, TickEffect DEF Read, After
<1>8. ASSUME NEW g \in Event, Ends(g)
      PROVE  Read'
  BY <1>8, EndsEffect DEF Read, After
<1>9. CASE UNCHANGED vars
  BY <1>9 DEF vars, Read, After
<1>10. QED
  BY <1>1, <1>2, <1>3, <1>4, <1>5, <1>6, <1>7, <1>8, <1>9 DEF Next

LEMMA StepOncePerPoll == Types /\ Read /\ OncePerPoll /\ Counted /\ [Next]_vars => OncePerPoll'
<1> SUFFICES ASSUME Types, Read, OncePerPoll, Counted, [Next]_vars PROVE OncePerPoll'
  OBVIOUS
<1>1. CASE Start
  <2>1. pending'.rows = {} /\ \A s \in Source : pending'.wm[s] = None
    BY <1>1, StartEffect DEF Types, Nothing
  <2>2. QED
    BY <1>1, <2>1, StartEffect DEF OncePerPoll, Working
<1>2. ASSUME NEW s \in Source, Open(s) PROVE OncePerPoll'
  BY <1>2, OpenEffect DEF OncePerPoll, Working
<1>3. ASSUME NEW s \in Source, Skip(s) PROVE OncePerPoll'
  BY <1>3, SkipEffect DEF OncePerPoll, Working
<1>4. CASE Query \/ QueryFails
  BY <1>4, AskEffect DEF OncePerPoll, Working
<1>5. CASE Ingest
  BY <1>5, DoneEffect, IngestEffect DEF OncePerPoll, Working
<1>6. CASE IngestFails
  <2>1. \A e \in poll.got : trail[e].src \notin poll.todo
    BY <1>6, DoneEffect DEF OncePerPoll, Working, Read
  <2>2. QED
    BY <1>6, <2>1, DoneEffect, IngestFailsEffect DEF OncePerPoll, Working
<1>7. CASE End
  BY <1>7, EndEffect DEF OncePerPoll, Working
<1>8. ASSUME NEW f \in Event, NEW s \in Source, Occur(f, s) PROVE OncePerPoll'
  <2>1. f \notin pending.rows
    <3>1. Copies(f) = 0 /\ recorded[f] \in Nat
      BY <1>8, OccurEffect DEF Counted, Types
    <3>2. QED
      BY <3>1 DEF Copies
  <2>2. QED
    BY <1>8, <2>1, OccurEffect, Numbers DEF OncePerPoll, Working
<1>9. CASE Tick
  BY <1>9, TickEffect DEF OncePerPoll, Working
<1>10. ASSUME NEW g \in Event, Ends(g)
      PROVE  OncePerPoll'
  BY <1>10, EndsEffect DEF OncePerPoll, Working
<1>11. CASE UNCHANGED vars
  BY <1>11 DEF vars, OncePerPoll, Working
<1>12. QED
  BY <1>1, <1>2, <1>3, <1>4, <1>5, <1>6, <1>7, <1>8, <1>9, <1>10, <1>11 DEF Next

LEMMA StepLags == Types /\ Times /\ OncePerPoll /\ Lags /\ [Next]_vars => Lags'
<1> SUFFICES ASSUME Types, Times, OncePerPoll, Lags, [Next]_vars,
                    NEW s \in Source, wm'[s] # None
             PROVE  /\ wm'[s] < poll'.due + Interval
                    /\ poll'.pc # "idle" /\ (s \in poll'.todo \/ Working(s)') => wm'[s] < poll'.due
  BY DEF Lags
<1>1. CASE Start
  <2>1. poll'.due \in Int
    BY <1>1, StartEffect DEF Poll
  <2>2. QED
    BY <1>1, <2>1, StartEffect, Numbers, ConstantFacts DEF Lags
<1>2. ASSUME NEW t \in Source, Open(t) PROVE Lags'
  BY <1>2, OpenEffect DEF Lags, Working
<1>3. ASSUME NEW t \in Source, Skip(t) PROVE Lags'
  BY <1>3, SkipEffect DEF Lags, Working
<1>4. CASE Query \/ QueryFails
  BY <1>4, AskEffect DEF Lags, Working
<1>5. CASE Ingest
  <2>1. poll.pc = "ingest" /\ now < poll.due + Interval
    BY <1>5, DoneEffect DEF Times
  <2>2. ~Working(s)' /\ poll'.todo = poll.todo /\ poll'.due = poll.due
    BY <1>5, DoneEffect DEF Working
  <2>3. CASE s = poll.src
    BY <1>5, <2>1, <2>2, <2>3, IngestEffect DEF OncePerPoll, Working
  <2>4. CASE s # poll.src /\ pending.wm[s] # None /\ wm[s] = None
    <3>1. wm'[s] = pending.wm[s] /\ pending.wm[s] <= now /\ s \notin poll.todo
      BY <1>5, <2>4, IngestEffect DEF Times, OncePerPoll
    <3>2. pending.wm[s] \in Int
      BY <2>4, Numbers
    <3>3. QED
      BY <2>1, <2>2, <3>1, <3>2, Numbers, ConstantFacts
  <2>5. CASE s # poll.src /\ ~(pending.wm[s] # None /\ wm[s] = None)
    <3>1. wm'[s] = wm[s]
      BY <1>5, <2>5, IngestEffect
    <3>2. QED
      BY <2>1, <2>2, <3>1 DEF Lags
  <2>6. QED
    BY <2>3, <2>4, <2>5
<1>6. CASE IngestFails
  BY <1>6, DoneEffect, IngestFailsEffect DEF Lags, Working
<1>7. CASE End
  BY <1>7, EndEffect DEF Lags
<1>8. ASSUME NEW f \in Event, NEW t \in Source, Occur(f, t) PROVE Lags'
  BY <1>8, OccurEffect DEF Lags, Working
<1>9. CASE Tick
  BY <1>9, TickEffect DEF Lags, Working
<1>10. ASSUME NEW g \in Event, Ends(g)
      PROVE  Lags'
  BY <1>10, EndsEffect DEF Lags, Working
<1>11. CASE UNCHANGED vars
  BY <1>11 DEF vars, Lags, Working
<1>12. QED
  BY <1>1, <1>2, <1>3, <1>4, <1>5, <1>6, <1>7, <1>8, <1>9, <1>10, <1>11 DEF Next, Lags

(* The copies of an event never outrun what its watermark allows.          *)
LEMMA StepCounted == CountInv /\ [Next]_vars => Counted'
<1> SUFFICES ASSUME CountInv, [Next]_vars, NEW e \in Event
             PROVE  /\ trail'[e].src = None => Copies(e)' = 0
                    /\ trail'[e].src # None => Copies(e)' <= Allowed(e)' + torn'[trail'[e].src]
  BY DEF Counted
<1> DEFINE s == trail[e].src
<1>0. /\ Types /\ Times /\ Window /\ Read /\ OncePerPoll /\ Lags /\ Counted
      /\ recorded[e] \in Nat /\ s \in Source \cup {None}
      /\ trail[e].at \in Int /\ now \in Nat
      /\ s = None => Copies(e) = 0
      /\ s # None => Copies(e) <= Allowed(e) + torn[s]
      /\ s # None => torn[s] \in Nat
  BY Numbers DEF CountInv, Counted, Types
<1>a. ASSUME UNCHANGED <<trail, wm, recorded, torn>>, poll'.due = poll.due,
             pending'.rows \subseteq pending.rows
      PROVE  /\ trail'[e].src = None => Copies(e)' = 0
             /\ trail'[e].src # None => Copies(e)' <= Allowed(e)' + torn'[trail'[e].src]
  <2>1. Copies(e)' <= Copies(e) /\ Copies(e) \in Nat /\ Copies(e)' \in Nat
    BY <1>0, <1>a DEF Copies
  <2>2. s # None => Allowed(e)' = Allowed(e) /\ Allowed(e) \in Nat
    BY <1>0, <1>a DEF Allowed, SetBy, After
  <2>3. QED
    BY <1>0, <1>a, <2>1, <2>2
<1>1. CASE Start
  <2>1. Copies(e)' = Copies(e) /\ Copies(e) \in Nat /\ UNCHANGED <<trail, wm, torn>>
    BY <1>0, <1>1, StartEffect DEF Copies
  <2>2. CASE s = None
    BY <1>0, <2>1, <2>2
  <2>3. CASE s # None
    <3>1. wm[s] # None => wm[s] < poll.due + Interval
      BY <1>0, <2>3 DEF Lags
    <3>2. /\ poll'.due >= poll.due + Interval /\ poll'.due \in Int /\ poll.due \in Int
          /\ wm[s] \in Int \cup {None} /\ Interval \in Nat /\ s \in Source
      BY <1>0, <1>1, <2>3, StartEffect, Numbers, ConstantFacts DEF Poll
    <3>3. wm[s] # None => SetBy(s) <= SetBy(s)' /\ SetBy(s) \in Int /\ SetBy(s)' \in Int
      BY <2>1, <3>1, <3>2, ConstantFacts DEF SetBy
    <3>4. After(e, wm[s] - Overlap)' <=> After(e, wm[s] - Overlap)
      BY <2>1 DEF After
    <3>5. Allowed(e) <= Allowed(e)' /\ Allowed(e) \in Nat /\ Allowed(e)' \in Nat
      BY <1>0, <2>1, <3>2, <3>3, <3>4 DEF Allowed
    <3>6. QED
      BY <1>0, <2>1, <2>3, <3>5
  <2>4. QED
    BY <2>2, <2>3
<1>2. ASSUME NEW t \in Source, Open(t) \/ Skip(t)
      PROVE  /\ UNCHANGED <<trail, wm, recorded, torn>> /\ poll'.due = poll.due
             /\ pending'.rows \subseteq pending.rows
  BY <1>0, <1>2, OpenEffect, SkipEffect
<1>3. CASE Query \/ QueryFails
  BY <1>0, <1>3, <1>a, AskEffect
<1>4. CASE Ingest
  <2>1. /\ trail' = trail /\ torn' = torn /\ pending'.rows = {} /\ poll.pc = "ingest" /\ poll.src \in Source
        /\ poll'.due = poll.due
    BY <1>0, <1>4, DoneEffect, IngestEffect
  <2>2. Copies(e)' = recorded[e] + IF e \in pending.rows \cup poll.got THEN 1 ELSE 0
    BY <1>0, <1>4, <2>1, IngestEffect DEF Copies
  <2>3. CASE s = None
    <3>1. e \notin poll.got /\ e \notin pending.rows /\ recorded[e] = 0
      BY <1>0, <2>1, <2>3, ConstantFacts DEF Read, Copies
    <3>2. QED
      BY <2>1, <2>2, <2>3, <3>1
  <2>4. CASE s # None /\ s # poll.src
    <3>1. e \notin poll.got
      BY <1>0, <2>1, <2>4 DEF Read
    <3>2. Copies(e)' = Copies(e)
      BY <2>2, <3>1 DEF Copies
    <3>3. wm'[s] = IF pending.wm[s] # None /\ wm[s] = None THEN pending.wm[s] ELSE wm[s]
      BY <1>0, <1>4, <2>4, IngestEffect
    <3>4. wm[s] \in Int \cup {None} /\ pending.wm[s] \in Int \cup {None}
      BY <1>0, <2>4, Numbers
    <3>5. Allowed(e) <= Allowed(e)' /\ Allowed(e) \in Nat /\ Allowed(e)' \in Nat
      <4>1. CASE wm'[s] = wm[s]
        BY <1>0, <2>1, <4>1 DEF Allowed, SetBy, After
      <4>2. CASE wm'[s] # wm[s]
        BY <1>0, <2>1, <3>3, <4>2 DEF Allowed
      <4>3. QED
        BY <4>1, <4>2
    <3>6. Copies(e) \in Nat
      BY <1>0 DEF Copies
    <3>7. QED
      BY <1>0, <2>1, <2>4, <3>2, <3>5, <3>6
  <2>5. CASE s # None /\ s = poll.src
    <3>1. wm'[s] = now /\ now >= poll.due /\ poll.due \in Int /\ trail[e].at <= now
      BY <1>0, <1>4, <2>5, IngestEffect, Numbers DEF Times
    <3>2. e \notin pending.rows
      BY <1>0, <2>1, <2>5 DEF OncePerPoll, Working
    <3>3. Copies(e) = recorded[e]
      BY <1>0, <3>2 DEF Copies
    <3>4. wm[s] \in Int \cup {None} /\ None \notin Int
      BY <1>0, <2>5, Numbers, ConstantFacts
    <3>5. wm[s] # None => wm[s] < poll.due /\ wm[s] <= now
      BY <1>0, <2>1, <2>5 DEF Lags, Working, Times
    <3>a. After(e, wm[s] - Overlap)' <=> After(e, now - Overlap)
      BY <2>1, <3>1 DEF After
    <3>6. Allowed(e)' = IF ~After(e, now - Overlap) THEN 3 ELSE IF trail[e].at >= poll.due THEN 1 ELSE 2
      BY <1>0, <2>1, <3>1, <3>4, <3>a DEF Allowed, SetBy
    <3>b. /\ Overlap \in Nat /\ Interval \in Nat /\ Overlap <= Interval
          /\ trail[e].at < now - Overlap => ~After(e, now - Overlap)
          /\ ~After(e, now - Overlap) => trail[e].at <= now - Overlap
      BY <1>0, ConstantFacts DEF After
    <3>7. CASE e \in poll.got
      <4>1. After(e, poll.since) /\ (wm[s] # None => poll.since = wm[s] - Overlap)
        BY <1>0, <2>1, <2>5, <3>7 DEF Read, Window
      <4>2. \/ Allowed(e) = 0
            \/ Allowed(e) = 1 /\ wm[s] # None /\ trail[e].at <= wm[s]
            \/ Allowed(e) = 2 /\ wm[s] # None /\ trail[e].at <= wm[s] /\ trail[e].at < poll.due - Interval
        BY <1>0, <2>5, <3>1, <3>4, <3>5, <4>1, Numbers, ConstantFacts DEF Allowed, SetBy
      <4>3. Allowed(e)' >= Allowed(e) + 1
        BY <1>0, <3>1, <3>4, <3>5, <3>6, <3>b, <4>2
      <4>4. Allowed(e)' \in Nat /\ Allowed(e) \in Nat
        BY <3>6, <4>2
      <4>5. Copies(e)' = recorded[e] + 1
        BY <2>2, <3>7
      <4>6. QED
        BY <1>0, <2>1, <2>5, <3>3, <4>3, <4>4, <4>5
    <3>8. CASE e \notin poll.got
      <4>1. Copies(e)' = recorded[e]
        BY <1>0, <2>2, <3>2, <3>8
      <4>2. Allowed(e) \in Nat /\ Allowed(e)' \in Nat
        BY <3>6 DEF Allowed
      <4>3. ASSUME Allowed(e) <= 1 PROVE Allowed(e) <= Allowed(e)'
        BY <3>6, <4>2, <4>3
      <4>4. ASSUME Allowed(e) = 2 PROVE Allowed(e) <= Allowed(e)'
        <5>1. wm[s] # None /\ trail[e].at < poll.due - Interval
          BY <1>0, <3>1, <3>4, <3>5, <4>4, ConstantFacts DEF Allowed, SetBy
        <5>2. QED
          BY <1>0, <3>1, <3>6, <3>b, <4>4, <5>1
      <4>5. ASSUME Allowed(e) = 3 PROVE Allowed(e) <= Allowed(e)'
        <5>1. wm[s] # None /\ ~After(e, wm[s] - Overlap)
          BY <4>5 DEF Allowed
        <5>2. ~After(e, now - Overlap)
          BY <1>0, <3>4, <3>5, <5>1, ConstantFacts DEF After
        <5>3. QED
          BY <3>6, <4>5, <5>2
      <4>6. Allowed(e) \in 0..3
        BY DEF Allowed
      <4>7. Allowed(e) <= Allowed(e)'
        BY <4>2, <4>3, <4>4, <4>5, <4>6
      <4>8. QED
        BY <1>0, <2>1, <2>5, <3>3, <4>1, <4>2, <4>7
    <3>9. QED
      BY <3>7, <3>8
  <2>6. QED
    BY <2>3, <2>4, <2>5
<1>5. CASE IngestFails
  <2>1. /\ trail' = trail /\ wm' = wm /\ recorded' = recorded /\ poll.pc = "ingest" /\ poll.src \in Source
        /\ pending'.rows \subseteq pending.rows \cup poll.got /\ poll'.due = poll.due
    BY <1>0, <1>5, DoneEffect, IngestFailsEffect
  <2>2. CASE e \in pending'.rows /\ e \notin pending.rows
    <3>1. s = poll.src /\ s # None
      BY <1>0, <2>1, <2>2, ConstantFacts DEF Read
    <3>2. torn'[s] = torn[s] + 1
      BY <1>0, <1>5, <3>1, IngestFailsEffect
    <3>3. Copies(e)' = Copies(e) + 1 /\ Copies(e) \in Nat
      BY <1>0, <2>1, <2>2 DEF Copies
    <3>4. Allowed(e)' = Allowed(e) /\ Allowed(e) \in Nat
      BY <2>1 DEF Allowed, SetBy, After
    <3>5. QED
      BY <1>0, <2>1, <3>1, <3>2, <3>3, <3>4
  <2>3. CASE ~(e \in pending'.rows /\ e \notin pending.rows)
    <3>1. Copies(e)' <= Copies(e) /\ Copies(e)' \in Nat /\ Copies(e) \in Nat
      BY <1>0, <2>1, <2>3 DEF Copies
    <3>2. s # None => torn'[s] >= torn[s] /\ torn'[s] \in Nat
      BY <1>0, <1>5, IngestFailsEffect
    <3>3. Allowed(e)' = Allowed(e) /\ Allowed(e) \in Nat
      BY <2>1 DEF Allowed, SetBy, After
    <3>4. QED
      BY <1>0, <2>1, <3>1, <3>2, <3>3
  <2>4. QED
    BY <2>2, <2>3
<1>6. CASE End
  BY <1>0, <1>6, <1>a, EndEffect
<1>7. ASSUME NEW f \in Event, NEW t \in Source, Occur(f, t)
      PROVE  /\ trail'[e].src = None => Copies(e)' = 0
             /\ trail'[e].src # None => Copies(e)' <= Allowed(e)' + torn'[trail'[e].src]
  <2>1. Copies(e)' = Copies(e) /\ torn' = torn /\ wm' = wm /\ poll' = poll
    BY <1>0, <1>7, OccurEffect DEF Copies
  <2>2. CASE e = f
    <3>1. Copies(e) = 0 /\ trail'[e].src = t /\ t # None
      BY <1>0, <1>7, <2>2, OccurEffect, ConstantFacts
    <3>2. Allowed(e)' \in Nat /\ torn[t] \in Nat
      BY <1>0 DEF Allowed, Types
    <3>3. QED
      BY <2>1, <3>1, <3>2
  <2>3. CASE e # f
    <3>1. trail'[e] = trail[e]
      BY <1>0, <1>7, <2>3, OccurEffect
    <3>2. Allowed(e)' = Allowed(e)
      BY <2>1, <3>1 DEF Allowed, SetBy, After
    <3>3. QED
      BY <1>0, <2>1, <3>1, <3>2
  <2>4. QED
    BY <2>2, <2>3
<1>8. CASE Tick
  BY <1>0, <1>8, <1>a, TickEffect
<1>9. ASSUME NEW g \in Event, Ends(g)
      PROVE  /\ UNCHANGED <<trail, wm, recorded, torn>> /\ poll'.due = poll.due
             /\ pending'.rows \subseteq pending.rows
  BY <1>9, EndsEffect, <1>0
<1>10. CASE UNCHANGED vars
  BY <1>10, <1>a DEF vars
<1>11. QED
  BY <1>1, <1>2, <1>3, <1>4, <1>5, <1>6, <1>7, <1>8, <1>9, <1>10, <1>a DEF Next

(* The overlap records an event three times at most, and once more for     *)
(* each poll that failed among the events of its source.                   *)
THEOREM DuplicatesAreBounded == Spec => []AtMostThrice
<1>1. Init => CountInv
  <2> SUFFICES ASSUME Init PROVE CountInv
    OBVIOUS
  <2>1. OncePerPoll
    BY DEF Init, OncePerPoll, Working, Idle, Nothing
  <2>2. Lags
    BY DEF Init, Lags
  <2>3. Counted
    BY DEF Init, Counted, Copies, NoEvent, Nothing
  <2>4. QED
    BY <2>1, <2>2, <2>3, InitTypes, InitTimes, InitWindow DEF CountInv
<1>2. CountInv /\ [Next]_vars => CountInv'
  BY StepTypes, StepTimes, StepWindow, StepRead, StepOncePerPoll, StepLags, StepCounted DEF CountInv
<1>3. CountInv => AtMostThrice
  <2> SUFFICES ASSUME CountInv, NEW e \in Event, trail[e].src # None
               PROVE  recorded[e] <= 3 + torn[trail[e].src]
    BY DEF AtMostThrice
  <2>1. Types /\ Counted /\ recorded[e] \in Nat /\ trail[e].src \in Source
    BY Numbers DEF CountInv, Types
  <2>2. torn[trail[e].src] \in Nat
    BY <2>1 DEF Types
  <2>3. Allowed(e) \in 0..3 /\ recorded[e] <= Copies(e) /\ Copies(e) \in Nat
    BY <2>1 DEF Allowed, Copies
  <2>4. Copies(e) <= Allowed(e) + torn[trail[e].src]
    BY <2>1 DEF Counted
  <2>5. QED
    BY <2>1, <2>2, <2>3, <2>4
<1>4. QED
  BY <1>1, <1>2, <1>3, PTL DEF Spec

-----------------------------------------------------------------------------
(* DamAgent                                                                *)

AgentRec == [pc: {"idle", "check", "post", "wait"}, policy: Policy,
             todo: SUBSET [pid: Pids, sid: Sids],
             report: Reports \cup {Nil}, attempt: 0..MaxAttempts]
EventRec == [id: 1..MaxEvents, pid: Pids, sid: Sids, old: BOOLEAN,
             blocked: BOOLEAN, auto: BOOLEAN, late: BOOLEAN, hit: Sids \cup {Nil}]

\* A session has one process number, and numbers of sessions are not reused.
Numbered ==
    /\ born \in 0..MaxSessions /\ sess \in [Pids -> Sids \cup {Nil}]
    /\ \A p \in Pids : sess[p] # Nil => sess[p] <= born
    /\ \A p, q \in Pids : sess[p] # Nil /\ sess[p] = sess[q] => p = q

\* The session is over, or still has the process number it was seen with; a
\* session that has taken the number over came later.
Held(x) ==
    /\ x.sid <= born /\ \A p \in Pids : sess[p] = x.sid => p = x.pid
    /\ sess[x.pid] # Nil => sess[x.pid] >= x.sid

\* What the agent has on its hands.
AgentOK ==
    /\ agent \in AgentRec
    /\ \A x \in agent.todo : Held(x)
    /\ agent.pc \in {"post", "wait"} => agent.report # Nil
    /\ agent.report # Nil => (agent.report.blocked => Ordered(agent.report))

\* A request in the hands of the server: what it says of a blocked session is
\* true, and while the agent waits for it, what was stored of its process
\* number since it was looked for comes from requests that were given up.
RequestOK(r) ==
    /\ r.blocked => Ordered(r)
    /\ r.live => \A e \in events : e.pid = r.pid /\ Recent(e) => e.late
HandlersOK ==
    /\ handlers \in [Slots -> Requests \cup {Nil}]
    /\ \A h \in Slots : handlers[h] # Nil => RequestOK(handlers[h])
    /\ \A g, h \in Slots :
           (handlers[g] # Nil /\ handlers[h] # Nil) /\ handlers[g].live /\ handlers[h].live => g = h
Waiting == agent.pc = "wait" <=> \E h \in Slots : handlers[h] # Nil /\ handlers[h].live

RowOK == row \in [key: {"agent's", "rotated", "deleted"}, policy: Policy]
EventsOK == events \subseteq EventRec /\ BlockedTruthful /\ DuplicatesOnlyAfterTimeout

AgentInv == Numbered /\ AgentOK /\ HandlersOK /\ Waiting /\ RowOK /\ EventsOK

LEMMA AgentFacts ==
    /\ ClientOf \in [Sids -> [user: Users, ip: IPs \cup {NoIP}]]
    /\ CliPolicy \in Policy /\ DefaultPolicy \in Policy /\ Policies \subseteq Policy
    /\ MaxSessions \in Nat /\ MaxAttempts \in Nat /\ MaxAttempts > 0 /\ MaxEvents \in Nat
    /\ Nil \notin Nat /\ Nil \notin Reports /\ Nil \notin Requests
BY DamAgentAssumption

LEMMA StartedType == Started \in AgentRec
<1>1. 0 \in 0..MaxAttempts
    BY AgentFacts
<1>2. QED
    BY <1>1, AgentFacts DEF Started, AgentRec

LEMMA InitAgent == AgentInit => AgentInv
<1> SUFFICES ASSUME AgentInit PROVE AgentInv
    OBVIOUS
<1>1. Numbered
    BY AgentFacts DEF AgentInit, Numbered
<1>2. AgentOK
    BY StartedType DEF AgentInit, AgentOK, Started
<1>3. HandlersOK /\ Waiting
    BY DEF AgentInit, HandlersOK, Waiting, Started
<1>4. RowOK /\ EventsOK
    BY AgentFacts DEF AgentInit, RowOK, EventsOK, Registered, BlockedTruthful, DuplicatesOnlyAfterTimeout
<1>5. QED
    BY <1>1, <1>2, <1>3, <1>4 DEF AgentInv

-----------------------------------------------------------------------------
\* What ends stays over, and a session never moves to another number.
SessionsGoOn ==
    /\ Numbered'
    /\ \A sid \in Sids : Gone(sid) => Gone(sid)'
    /\ \A x \in [pid: Pids, sid: Sids] : Held(x) => Held(x)'

LEMMA ConnectGoesOn ==
    ASSUME Numbered, NEW p \in Pids, Connect(p)
    PROVE  SessionsGoOn
<1>1. /\ born \in Nat /\ born' = born + 1 /\ born' \in Sids /\ MaxSessions \in Nat
      /\ sess' = [sess EXCEPT ![p] = born']
    BY AgentFacts DEF Numbered, Connect, Sids
<1>2. sess'[p] = born' /\ \A q \in Pids : q # p => sess'[q] = sess[q]
    BY <1>1 DEF Numbered
<1>3. \A q \in Pids : sess[q] # Nil => sess[q] \in Sids /\ sess[q] <= born /\ sess[q] # born'
    BY <1>1 DEF Numbered, Sids
<1>4. Numbered'
    <2>1. born' \in 0..MaxSessions /\ sess' \in [Pids -> Sids \cup {Nil}]
        BY <1>1 DEF Numbered, Sids
    <2>2. \A q \in Pids : sess'[q] # Nil => sess'[q] <= born'
        BY <1>1, <1>2, <1>3 DEF Sids
    <2>3. \A q, u \in Pids : sess'[q] # Nil /\ sess'[q] = sess'[u] => q = u
        BY <1>1, <1>2, <1>3, AgentFacts DEF Numbered
    <2>4. QED
        BY <2>1, <2>2, <2>3 DEF Numbered
<1>5. ASSUME NEW sid \in Sids, sid <= born PROVE sid <= born' /\ sid # born'
    BY <1>1, <1>5
<1>6. QED
    BY <1>2, <1>4, <1>5 DEF SessionsGoOn, Gone, Held

LEMMA EndGoesOn ==
    ASSUME Numbered, NEW p \in Pids, sess' = [sess EXCEPT ![p] = Nil], UNCHANGED born
    PROVE  SessionsGoOn
<1>1. sess'[p] = Nil /\ \A q \in Pids : q # p => sess'[q] = sess[q]
    BY DEF Numbered
<1>2. Numbered'
    BY <1>1 DEF Numbered
<1>3. \A sid \in Sids : sid # Nil
    BY AgentFacts DEF Sids
<1>4. QED
    BY <1>1, <1>2, <1>3 DEF SessionsGoOn, Gone, Held

LEMMA StillGoesOn ==
    ASSUME Numbered, UNCHANGED database
    PROVE  SessionsGoOn
BY DEF Numbered, SessionsGoOn, Gone, Held, database

\* What was true of sessions stays true.
LEMMA HandsGoOn ==
    ASSUME AgentOK, SessionsGoOn, NEW a \in AgentRec,
           a.todo \subseteq agent.todo, a.report \in {Nil, agent.report},
           a.pc \in {"post", "wait"} => a.report # Nil, agent' = a
    PROVE  AgentOK'
<1>1. \A x \in agent.todo : x \in [pid: Pids, sid: Sids] /\ Held(x)
    BY DEF AgentOK, AgentRec
<1>2. \A x \in a.todo : Held(x)'
    BY <1>1 DEF SessionsGoOn
<1>3. ASSUME a.report # Nil, a.report.blocked PROVE Ordered(a.report)'
    <2>1. agent.report \in Reports /\ a.report = agent.report
        BY <1>3 DEF AgentOK, AgentRec
    <2>2. agent.report.sid \in Sids /\ Ordered(agent.report)
        BY <1>3, <2>1 DEF AgentOK, Reports
    <2>3. QED
        BY <1>3, <2>1, <2>2 DEF SessionsGoOn, Ordered
<1>4. QED
    BY <1>2, <1>3 DEF AgentOK

LEMMA AgentStays ==
    ASSUME AgentOK, SessionsGoOn, UNCHANGED agent
    PROVE  AgentOK'
<1>1. agent \in AgentRec /\ (agent.pc \in {"post", "wait"} => agent.report # Nil)
    BY DEF AgentOK
<1>2. QED
    BY <1>1, HandsGoOn

\* Requests that end, or that are given up.
LEMMA RequestsGoOn ==
    ASSUME HandlersOK, SessionsGoOn, events' \subseteq events,
           handlers' \in [Slots -> Requests \cup {Nil}],
           \A h \in Slots : handlers'[h] # Nil =>
               /\ handlers[h] # Nil
               /\ handlers'[h].blocked = handlers[h].blocked
               /\ handlers'[h].sid = handlers[h].sid /\ handlers'[h].pid = handlers[h].pid
               /\ handlers'[h].hit = handlers[h].hit
               /\ handlers'[h].live => handlers[h].live
    PROVE  HandlersOK'
<1>1. ASSUME NEW h \in Slots, handlers'[h] # Nil PROVE RequestOK(handlers[h])'
    <2>1. handlers[h] # Nil /\ handlers[h] \in Requests /\ RequestOK(handlers[h])
        BY <1>1 DEF HandlersOK
    <2>2. handlers[h].sid \in Sids
        BY <2>1 DEF Requests
    <2>3. QED
        BY <1>1, <2>1, <2>2 DEF RequestOK, SessionsGoOn, Recent, Ordered
<1>2. QED
    BY <1>1 DEF HandlersOK

LEMMA HandlersStay ==
    ASSUME HandlersOK, SessionsGoOn, events' \subseteq events, UNCHANGED handlers
    PROVE  HandlersOK'
BY RequestsGoOn DEF HandlersOK

LEMMA EventsGoOn ==
    ASSUME EventsOK, SessionsGoOn, events' \subseteq events
    PROVE  EventsOK'
<1>1. \A e \in events : e.sid \in Sids
    BY DEF EventsOK, EventRec
<1>2. QED
    BY <1>1 DEF EventsOK, BlockedTruthful, DuplicatesOnlyAfterTimeout, SessionsGoOn, Recent, Ordered

-----------------------------------------------------------------------------
\* The steps of the agent that leave the server alone.

LEMMA AgentMoves ==
    ASSUME AgentInv, NEW a \in AgentRec, agent' = a,
           a.todo \subseteq agent.todo, a.report \in {Nil, agent.report},
           a.pc \in {"post", "wait"} => a.report # Nil,
           a.pc = "wait" <=> agent.pc = "wait",
           UNCHANGED <<database, row, handlers, events>>
    PROVE  AgentInv'
<1>1. SessionsGoOn
    BY StillGoesOn DEF AgentInv
<1>2. AgentOK' /\ HandlersOK' /\ EventsOK'
    BY <1>1, HandsGoOn, HandlersStay, EventsGoOn DEF AgentInv
<1>3. Waiting' /\ RowOK'
    BY DEF AgentInv, Waiting, RowOK
<1>4. QED
    BY <1>1, <1>2, <1>3 DEF AgentInv, SessionsGoOn

\* What a failed attempt and an answer make of the agent.
LEMMA NextSessionType ==
    ASSUME agent \in AgentRec
    PROVE  /\ NextSession \in AgentRec /\ NextSession.todo \subseteq agent.todo
           /\ NextSession.report = Nil /\ NextSession.pc \in {"idle", "check"}
<1>1. 0 \in 0..MaxAttempts
    BY AgentFacts
<1>2. QED
    BY <1>1 DEF NextSession, AtRest, AgentRec

LEMMA FailAttemptType ==
    ASSUME agent \in AgentRec, agent.report # Nil, FailAttempt
    PROVE  /\ agent' \in AgentRec /\ agent'.todo \subseteq agent.todo
           /\ agent'.report \in {Nil, agent.report}
           /\ agent'.pc \in {"idle", "check", "post"}
           /\ agent'.pc = "post" => agent'.report # Nil
<1>1. CASE agent.attempt < MaxAttempts
    <2>1. agent' = Retry /\ agent.attempt + 1 \in 0..MaxAttempts
        BY <1>1, AgentFacts DEF FailAttempt, AgentRec
    <2>2. QED
        BY <2>1 DEF Retry, AgentRec
<1>2. CASE ~(agent.attempt < MaxAttempts)
    BY <1>2, NextSessionType DEF FailAttempt
<1>3. QED
    BY <1>1, <1>2

LEMMA PollKeeps == AgentInv /\ PollConfig => AgentInv'
<1> SUFFICES ASSUME AgentInv, PollConfig PROVE AgentInv'
    OBVIOUS
<1>1. agent \in AgentRec /\ row.policy \in Policy /\ agent.pc = "idle"
    BY DEF AgentInv, AgentOK, RowOK, PollConfig
<1> DEFINE a == Adopt(row.policy)
<1>2. a \in AgentRec /\ a.todo = agent.todo /\ a.report = agent.report /\ a.pc = "idle"
    BY <1>1 DEF Adopt, AgentRec
<1>3. QED
    BY <1>1, <1>2, AgentMoves DEF PollConfig

LEMMA StartCheckKeeps == AgentInv /\ StartCheck => AgentInv'
<1> SUFFICES ASSUME AgentInv, StartCheck PROVE AgentInv'
    OBVIOUS
<1>1. PICK handled \in SUBSET {p \in Pids : sess[p] # Nil} :
          agent' = [agent EXCEPT !.pc = "check", !.todo = {[pid |-> p, sid |-> sess[p]] : p \in handled}]
    BY DEF StartCheck, Listings
<1> DEFINE todo == {[pid |-> p, sid |-> sess[p]] : p \in handled}
<1>2. \A x \in todo : x \in [pid: Pids, sid: Sids] /\ Held(x)
    BY AgentFacts DEF AgentInv, Numbered, Held, Sids
<1>3. agent \in AgentRec /\ agent.pc = "idle"
    BY DEF StartCheck, AgentInv, AgentOK
<1> HIDE DEF todo
<1>4. agent' = [agent EXCEPT !.pc = "check", !.todo = todo]
    BY <1>1 DEF todo
<1>5. /\ agent' \in AgentRec /\ agent'.todo = todo /\ agent'.report = agent.report
      /\ agent'.pc = "check"
    BY <1>2, <1>3, <1>4 DEF AgentRec
<1>6. SessionsGoOn /\ UNCHANGED <<sess, born>>
    BY StillGoesOn DEF AgentInv, StartCheck, database
<1>7. AgentOK'
    BY <1>2, <1>5, <1>6 DEF AgentOK, AgentInv, Held, Ordered, Gone
<1>8. HandlersOK' /\ EventsOK' /\ Numbered'
    BY <1>6, HandlersStay, EventsGoOn DEF AgentInv, StartCheck, SessionsGoOn
<1>9. Waiting' /\ RowOK'
    BY <1>3, <1>5 DEF AgentInv, Waiting, RowOK, StartCheck
<1>10. QED
    BY <1>7, <1>8, <1>9 DEF AgentInv

\* The record of an agent that posts a report, field by field.
Posting(a, rest, r) == [a EXCEPT !.pc = "post", !.attempt = 1, !.todo = rest, !.report = r]
LEMMA PostingType ==
    ASSUME NEW a \in AgentRec, NEW rest \in SUBSET a.todo, NEW r \in Reports
    PROVE  /\ Posting(a, rest, r) \in AgentRec /\ Posting(a, rest, r).pc = "post"
           /\ Posting(a, rest, r).report = r /\ Posting(a, rest, r).todo = rest
<1>1. rest \in SUBSET [pid: Pids, sid: Sids] /\ a.policy \in Policy
    BY DEF AgentRec
<1>2. 1 \in 0..MaxAttempts /\ r \in Reports \cup {Nil}
    BY AgentFacts
<1>3. Posting(a, rest, r) \in AgentRec
    BY <1>1, <1>2 DEF AgentRec, Posting
<1>4. /\ Posting(a, rest, r).pc = "post" /\ Posting(a, rest, r).report = r
      /\ Posting(a, rest, r).todo = rest
    BY DEF AgentRec, Posting
<1>5. QED
    BY <1>3, <1>4

\* The agent takes a session up: what it says of it is so.
LEMMA ReportingKeeps ==
    ASSUME AgentInv, SessionsGoOn, NEW s \in agent.todo, NEW blocked \in BOOLEAN,
           NEW hit \in Sids \cup {Nil},
           agent.pc = "check", agent' = Reporting(s, blocked, hit),
           blocked => hit = s.sid \/ (Gone(s.sid)' /\ (hit = Nil \/ hit > s.sid)), UNCHANGED <<row, handlers, events>>
    PROVE  AgentInv'
<1>1. agent \in AgentRec /\ s \in [pid: Pids, sid: Sids] /\ 1 \in 0..MaxAttempts
    BY AgentFacts DEF AgentInv, AgentOK, AgentRec
<1> DEFINE r == [pid |-> s.pid, sid |-> s.sid, blocked |-> blocked, hit |-> hit]
<1>2. r \in Reports /\ r # Nil /\ r.sid = s.sid /\ r.blocked = blocked /\ r.hit = hit
    BY <1>1, AgentFacts DEF Reports
<1> HIDE DEF r
<1>3. /\ agent' \in AgentRec /\ agent'.pc = "post" /\ agent'.report = r
      /\ agent'.todo \subseteq agent.todo
    <2>1. agent' = Posting(agent, agent.todo \ {s}, r)
        BY DEF Reporting, Posting, r
    <2>2. agent.todo \ {s} \in SUBSET agent.todo
        OBVIOUS
    <2>3. QED
        BY <1>1, <1>2, <2>1, <2>2, PostingType
<1>4. AgentOK'
    <2>1. \A x \in agent.todo : x \in [pid: Pids, sid: Sids] /\ Held(x)
        BY DEF AgentInv, AgentOK, AgentRec
    <2>2. \A x \in agent'.todo : Held(x)'
        BY <1>3, <2>1 DEF SessionsGoOn
    <2>3. QED
        BY <1>2, <1>3, <2>2 DEF AgentOK, Ordered
<1>5. HandlersOK' /\ EventsOK' /\ Numbered'
    BY HandlersStay, EventsGoOn DEF AgentInv, SessionsGoOn
<1>6. Waiting' /\ RowOK'
    BY <1>3 DEF AgentInv, Waiting, RowOK
<1>7. QED
    BY <1>4, <1>5, <1>6 DEF AgentInv

LEMMA JudgeKeeps == AgentInv /\ Judge => AgentInv'
<1> SUFFICES ASSUME AgentInv, NEW s \in agent.todo, Detect(s) \/ Terminate(s) PROVE AgentInv'
    BY DEF Judge
<1>1. SessionsGoOn /\ UNCHANGED <<sess, born, row, handlers, events>>
    BY StillGoesOn DEF Detect, Terminate, AgentInv, database
<1>2. CASE Detect(s)
    BY <1>1, <1>2, ReportingKeeps DEF Detect
<1>3. CASE Terminate(s)
    <2>1. s \in [pid: Pids, sid: Sids] /\ Held(s) /\ s.pid \in Pids
        BY DEF AgentInv, AgentOK, AgentRec
    <2>2. sess[s.pid] \in Sids \cup {Nil} /\ \A x \in Sids : x \in Nat /\ x # Nil
        BY <2>1, AgentFacts DEF AgentInv, Numbered, Sids
    <2>3. sess[s.pid] # s.sid => Gone(s.sid)' /\ (sess[s.pid] = Nil \/ sess[s.pid] > s.sid)
        BY <1>1, <2>1, <2>2 DEF Held, Gone
    <2>4. QED
        BY <1>1, <1>3, <2>2, <2>3, ReportingKeeps DEF Terminate
<1>4. QED
    BY <1>2, <1>3

LEMMA PostKeeps ==
    ASSUME AgentInv, agent.pc = "post", FailAttempt \/ agent' = NextSession,
           UNCHANGED <<database, row, handlers, events>>
    PROVE  AgentInv'
<1>1. agent \in AgentRec /\ agent.report # Nil
    BY DEF AgentInv, AgentOK
<1>2. /\ agent' \in AgentRec /\ agent'.todo \subseteq agent.todo
      /\ agent'.report \in {Nil, agent.report}
      /\ agent'.pc \in {"idle", "check", "post"}
      /\ agent'.pc = "post" => agent'.report # Nil
    BY <1>1, FailAttemptType, NextSessionType
<1>3. QED
    BY <1>2, AgentMoves

-----------------------------------------------------------------------------
\* The requests.

LEMMA ReceivedKeeps ==
    ASSUME AgentInv, NEW h \in Slots, PostReceived(h)
    PROVE  AgentInv'
<1>1. /\ agent \in AgentRec /\ agent.report \in Reports /\ agent.pc = "post"
      /\ agent.report.blocked => Ordered(agent.report)
    BY DEF AgentInv, AgentOK, AgentRec, PostReceived
<1> DEFINE r == [pid |-> agent.report.pid, sid |-> agent.report.sid, live |-> TRUE,
                 blocked |-> agent.report.blocked, auto |-> AutoBlocked(agent.report),
                 hit |-> agent.report.hit]
<1>2. /\ r \in Requests /\ r.live /\ r.pid = agent.report.pid
      /\ r.sid = agent.report.sid /\ r.blocked = agent.report.blocked /\ r.hit = agent.report.hit
    BY <1>1 DEF Requests, Reports, AutoBlocked
<1>3. handlers' = [handlers EXCEPT ![h] = r]
    BY DEF PostReceived
<1> HIDE DEF r
<1>4. RequestOK(r)
    BY <1>1, <1>2 DEF RequestOK, PostReceived, Duplicate, Ordered
<1>5. /\ agent' = [agent EXCEPT !.pc = "wait"] /\ UNCHANGED <<sess, born, row, events>>
    BY DEF PostReceived, database
<1>6. handlers'[h] = r /\ r # Nil /\ \A g \in Slots : g # h => handlers'[g] = handlers[g]
    BY <1>2, <1>3, AgentFacts DEF AgentInv, HandlersOK
<1>7. \A g \in Slots : handlers[g] # Nil => ~handlers[g].live
    BY <1>1 DEF AgentInv, Waiting
<1>8. HandlersOK'
    <2>1. handlers' \in [Slots -> Requests \cup {Nil}]
        BY <1>2, <1>3 DEF AgentInv, HandlersOK
    <2>2. \A g \in Slots : handlers'[g] # Nil => RequestOK(handlers'[g])
        BY <1>4, <1>6 DEF AgentInv, HandlersOK
    <2>3. \A g \in Slots : handlers'[g] # Nil => RequestOK(handlers[g])'
        BY <1>5, <2>2 DEF RequestOK, Ordered, Gone, Recent
    <2>4. QED
        BY <1>6, <1>7, <2>1, <2>3 DEF HandlersOK
<1>9. agent' \in AgentRec /\ agent'.todo = agent.todo /\ agent'.report = agent.report /\ agent'.pc = "wait"
    BY <1>1, <1>5 DEF AgentRec
<1>10. Waiting'
    BY <1>2, <1>6, <1>9 DEF Waiting
<1>11. SessionsGoOn
    BY <1>5, StillGoesOn DEF AgentInv, database
<1>12. AgentOK' /\ EventsOK'
    BY <1>1, <1>5, <1>9, <1>11, AgentFacts, HandsGoOn, EventsGoOn DEF AgentInv
<1>13. QED
    BY <1>5, <1>8, <1>10, <1>11, <1>12 DEF AgentInv, SessionsGoOn, RowOK

\* Nobody waits for the requests any more.
GivenUp == handlers' = [h \in Slots |->
               IF handlers[h] = Nil THEN Nil ELSE [handlers[h] EXCEPT !.live = FALSE]]

LEMMA GivenUpFacts ==
    ASSUME HandlersOK, GivenUp
    PROVE  /\ handlers' \in [Slots -> Requests \cup {Nil}]
           /\ \A h \in Slots : handlers'[h] # Nil =>
                 /\ handlers[h] # Nil /\ ~handlers'[h].live
                 /\ handlers'[h].blocked = handlers[h].blocked
                 /\ handlers'[h].sid = handlers[h].sid /\ handlers'[h].pid = handlers[h].pid
                 /\ handlers'[h].hit = handlers[h].hit
<1>1. ASSUME NEW h \in Slots, handlers[h] # Nil
      PROVE  /\ handlers'[h] \in Requests /\ ~handlers'[h].live
             /\ handlers'[h].blocked = handlers[h].blocked
             /\ handlers'[h].sid = handlers[h].sid /\ handlers'[h].pid = handlers[h].pid
             /\ handlers'[h].hit = handlers[h].hit
    <2>1. handlers[h] \in Requests /\ handlers'[h] = [handlers[h] EXCEPT !.live = FALSE]
        BY <1>1 DEF HandlersOK, GivenUp
    <2>2. QED
        BY <2>1 DEF Requests
<1>2. \A h \in Slots : handlers[h] = Nil => handlers'[h] = Nil
    BY DEF GivenUp
<1>3. DOMAIN handlers' = Slots /\ handlers' = [h \in Slots |-> handlers'[h]]
    BY DEF GivenUp
<1>4. QED
    BY <1>1, <1>2, <1>3

LEMMA GivenUpKeeps ==
    ASSUME AgentInv, GivenUp, AgentOK', RowOK', agent'.pc # "wait", UNCHANGED <<database, events>>
    PROVE  AgentInv'
<1>1. SessionsGoOn
    BY StillGoesOn DEF AgentInv
<1>2. HandlersOK' /\ EventsOK'
    BY <1>1, GivenUpFacts, RequestsGoOn, EventsGoOn DEF AgentInv
<1>3. Waiting'
    BY GivenUpFacts DEF AgentInv, Waiting
<1>4. QED
    BY <1>1, <1>2, <1>3 DEF AgentInv, SessionsGoOn

LEMMA GiveUpKeeps == AgentInv /\ GiveUpWaiting => AgentInv'
<1> SUFFICES ASSUME AgentInv, GiveUpWaiting PROVE AgentInv'
    OBVIOUS
<1>1. agent \in AgentRec /\ agent.report # Nil
    BY DEF AgentInv, AgentOK, GiveUpWaiting
<1>2. /\ agent' \in AgentRec /\ agent'.todo \subseteq agent.todo
      /\ agent'.report \in {Nil, agent.report}
      /\ agent'.pc \in {"idle", "check", "post"}
      /\ agent'.pc = "post" => agent'.report # Nil
    BY <1>1, FailAttemptType DEF GiveUpWaiting
<1>3. SessionsGoOn
    BY StillGoesOn DEF AgentInv, GiveUpWaiting
<1>4. AgentOK'
    BY <1>2, <1>3, HandsGoOn DEF AgentInv
<1>5. GivenUp /\ RowOK' /\ UNCHANGED <<database, events>>
    BY DEF GiveUpWaiting, GivenUp, AgentInv, RowOK
<1>6. QED
    BY <1>2, <1>4, <1>5, GivenUpKeeps

LEMMA RestartKeeps == AgentInv /\ Restart => AgentInv'
<1> SUFFICES ASSUME AgentInv, Restart PROVE AgentInv'
    OBVIOUS
<1>1. AgentOK' /\ agent'.pc # "wait"
    BY StartedType DEF Restart, AgentOK, Started
<1>2. RowOK'
    BY DEF Restart, AgentInv, RowOK
<1>3. GivenUp /\ UNCHANGED <<database, events>>
    BY DEF Restart, GivenUp
<1>4. QED
    BY <1>1, <1>2, <1>3, GivenUpKeeps

\* A request ends: whoever waits for it goes on.
LEMMA RequestEnds ==
    ASSUME AgentInv, NEW h \in Slots, handlers[h] # Nil,
           handlers' = [handlers EXCEPT ![h] = Nil],
           IF handlers[h].live THEN agent' = NextSession \/ FailAttempt ELSE UNCHANGED agent,
           UNCHANGED database
    PROVE  AgentOK' /\ Waiting' /\ SessionsGoOn
<1>1. SessionsGoOn
    BY StillGoesOn DEF AgentInv
<1>2. handlers'[h] = Nil /\ \A g \in Slots : g # h => handlers'[g] = handlers[g]
    BY DEF AgentInv, HandlersOK
<1>3. CASE handlers[h].live
    <2>1. agent \in AgentRec /\ agent.report # Nil /\ agent.pc = "wait"
        BY <1>3 DEF AgentInv, AgentOK, Waiting
    <2>2. /\ agent' \in AgentRec /\ agent'.todo \subseteq agent.todo
          /\ agent'.report \in {Nil, agent.report}
          /\ agent'.pc \in {"idle", "check", "post"}
          /\ agent'.pc = "post" => agent'.report # Nil
        BY <1>3, <2>1, FailAttemptType, NextSessionType
    <2>3. AgentOK'
        BY <1>1, <2>2, HandsGoOn DEF AgentInv
    <2>4. \A g \in Slots : handlers'[g] # Nil => ~handlers'[g].live
        BY <1>2, <1>3 DEF AgentInv, HandlersOK
    <2>5. QED
        BY <1>1, <2>2, <2>3, <2>4 DEF Waiting
<1>4. CASE ~handlers[h].live
    <2>1. AgentOK'
        BY <1>1, <1>4, AgentStays DEF AgentInv
    <2>2. QED
        BY <1>1, <1>2, <1>4, <2>1 DEF AgentInv, Waiting
<1>5. QED
    BY <1>3, <1>4

LEMMA RecordKeeps ==
    ASSUME AgentInv, NEW h \in Slots, Record(h)
    PROVE  AgentInv'
<1> DEFINE q == handlers[h]
<1>1. /\ q \in Requests /\ RequestOK(q) /\ handlers[h] # Nil
      /\ handlers' = [handlers EXCEPT ![h] = Nil] /\ UNCHANGED <<sess, born, row>>
      /\ IF q.live THEN agent' = NextSession ELSE UNCHANGED agent
    BY DEF AgentInv, HandlersOK, Record, database, Delivered
<1>2. AgentOK' /\ Waiting' /\ SessionsGoOn
    BY <1>1, RequestEnds DEF database
<1>3. PICK n \in Unused : events' = events \cup {[
          id |-> n, pid |-> q.pid, sid |-> q.sid, old |-> FALSE,
          blocked |-> q.blocked \/ q.auto, auto |-> q.auto, hit |-> q.hit, late |-> ~q.live]}
    BY DEF Record
<1> DEFINE e == [id |-> n, pid |-> q.pid, sid |-> q.sid, old |-> FALSE,
                 blocked |-> q.blocked \/ q.auto, auto |-> q.auto, hit |-> q.hit, late |-> ~q.live]
<1>4. /\ e \in EventRec /\ e.pid = q.pid /\ e.sid = q.sid /\ e.late = ~q.live
      /\ e.blocked = (q.blocked \/ q.auto) /\ e.auto = q.auto /\ e.hit = q.hit
    BY <1>1 DEF EventRec, Requests, Unused
<1> HIDE DEF e
<1>5. events' = events \cup {e}
    BY <1>3 DEF e
<1>6. EventsOK'
    <2>1. events' \subseteq EventRec
        BY <1>4, <1>5 DEF AgentInv, EventsOK
    <2>2. BlockedTruthful'
        BY <1>1, <1>4, <1>5 DEF AgentInv, EventsOK, BlockedTruthful, RequestOK, Ordered, Gone
    <2>3. \A f \in events : f.pid = e.pid /\ Recent(f) => f.late \/ e.late
        BY <1>1, <1>4 DEF RequestOK
    <2>4. DuplicatesOnlyAfterTimeout'
        BY <1>5, <2>3 DEF AgentInv, EventsOK, DuplicatesOnlyAfterTimeout, Recent
    <2>5. QED
        BY <2>1, <2>2, <2>4 DEF EventsOK
<1>7. HandlersOK'
    <2>1. /\ handlers' \in [Slots -> Requests \cup {Nil}] /\ handlers'[h] = Nil
          /\ \A g \in Slots : g # h => handlers'[g] = handlers[g]
        BY <1>1 DEF AgentInv, HandlersOK
    <2>2. ASSUME NEW g \in Slots, handlers'[g] # Nil PROVE RequestOK(handlers[g])'
        <3>1. g # h /\ handlers'[g] = handlers[g] /\ RequestOK(handlers[g])
            BY <2>1, <2>2 DEF AgentInv, HandlersOK
        <3>2. handlers[g].live => e.late
            BY <1>1, <1>4, <2>1, <2>2, <3>1 DEF AgentInv, HandlersOK
        <3>3. QED
            BY <1>1, <1>5, <3>1, <3>2 DEF RequestOK, Ordered, Gone, Recent
    <2>3. QED
        BY <2>1, <2>2 DEF AgentInv, HandlersOK
<1>8. QED
    BY <1>1, <1>2, <1>6, <1>7 DEF AgentInv, SessionsGoOn, RowOK

LEMMA RecordFailsKeeps ==
    ASSUME AgentInv, NEW h \in Slots, RecordFails(h)
    PROVE  AgentInv'
<1>1. /\ handlers[h] # Nil /\ handlers' = [handlers EXCEPT ![h] = Nil]
      /\ UNCHANGED <<database, row, events>>
      /\ IF handlers[h].live THEN FailAttempt ELSE UNCHANGED agent
    BY DEF RecordFails
<1>2. AgentOK' /\ Waiting' /\ SessionsGoOn
    BY <1>1, RequestEnds
<1>3. /\ handlers' \in [Slots -> Requests \cup {Nil}]
      /\ \A g \in Slots : handlers'[g] # Nil => handlers'[g] = handlers[g]
    BY <1>1 DEF AgentInv, HandlersOK
<1>4. HandlersOK' /\ EventsOK'
    BY <1>1, <1>2, <1>3, RequestsGoOn, EventsGoOn DEF AgentInv
<1>5. QED
    BY <1>1, <1>2, <1>4 DEF AgentInv, SessionsGoOn, RowOK

-----------------------------------------------------------------------------
\* The clients, the administrator and the clock.

LEMMA EnvironmentKeeps == AgentInv /\ Environment => AgentInv'
<1> SUFFICES ASSUME AgentInv, Environment PROVE AgentInv'
    OBVIOUS
<1>1. ASSUME NEW p \in Pids, Connect(p) \/ Disconnect(p) PROVE AgentInv'
    <2>1. SessionsGoOn /\ UNCHANGED <<row, agent, handlers, events>>
        BY <1>1, ConnectGoesOn, EndGoesOn DEF AgentInv, Connect, Disconnect
    <2>2. AgentOK' /\ HandlersOK' /\ EventsOK'
        BY <2>1, AgentStays, HandlersStay, EventsGoOn DEF AgentInv
    <2>3. QED
        BY <2>1, <2>2 DEF AgentInv, SessionsGoOn, Waiting, RowOK
<1>2. CASE PatchConfig \/ RotateKey \/ DeleteAgent
    <2>1. RowOK'
        BY <1>2, AgentFacts DEF AgentInv, RowOK, PatchConfig, RotateKey, DeleteAgent
    <2>2. SessionsGoOn /\ UNCHANGED <<agent, handlers, events>>
        BY <1>2, StillGoesOn DEF AgentInv, PatchConfig, RotateKey, DeleteAgent
    <2>3. AgentOK' /\ HandlersOK' /\ EventsOK'
        BY <2>2, AgentStays, HandlersStay, EventsGoOn DEF AgentInv
    <2>4. QED
        BY <2>1, <2>2, <2>3 DEF AgentInv, SessionsGoOn, Waiting
<1>3. CASE ClearAcknowledged
    <2>1. SessionsGoOn /\ events' \subseteq events /\ UNCHANGED <<row, agent, handlers>>
        BY <1>3, StillGoesOn DEF AgentInv, ClearAcknowledged
    <2>2. AgentOK' /\ HandlersOK' /\ EventsOK'
        BY <2>1, AgentStays, HandlersStay, EventsGoOn DEF AgentInv
    <2>3. QED
        BY <2>1, <2>2 DEF AgentInv, SessionsGoOn, Waiting, RowOK
<1>4. CASE WindowPasses
    <2>1. /\ SessionsGoOn /\ UNCHANGED <<sess, born, row, agent, handlers>>
          /\ events' = {[e EXCEPT !.old = TRUE] : e \in events}
          /\ \A h \in Slots : handlers[h] = Nil
        BY <1>4, StillGoesOn DEF AgentInv, WindowPasses, database
    <2>2. ASSUME NEW e \in events
          PROVE  LET f == [e EXCEPT !.old = TRUE]
                 IN  /\ f \in EventRec /\ f.old /\ f.blocked = e.blocked
                     /\ f.auto = e.auto /\ f.sid = e.sid /\ f.hit = e.hit
        BY DEF AgentInv, EventsOK, EventRec
    <2>3. \A f \in events' : f \in EventRec /\ f.old
        BY <2>1, <2>2
    <2>4. ASSUME NEW f \in events', f.blocked PROVE f.auto \/ Ordered(f)'
        <3>1. PICK e \in events : f = [e EXCEPT !.old = TRUE]
            BY <2>1
        <3>2. f.blocked = e.blocked /\ f.auto = e.auto /\ f.sid = e.sid /\ f.hit = e.hit
            BY <2>2, <3>1
        <3>3. e.auto \/ Ordered(e)
            BY <2>4, <3>2 DEF AgentInv, EventsOK, BlockedTruthful
        <3>4. QED
            BY <2>1, <3>2, <3>3 DEF Ordered, Gone
    <2>5. EventsOK'
        BY <2>3, <2>4 DEF EventsOK, BlockedTruthful, DuplicatesOnlyAfterTimeout, Recent
    <2>6. AgentOK' /\ HandlersOK'
        BY <2>1, AgentStays DEF AgentInv, HandlersOK
    <2>7. QED
        BY <2>1, <2>5, <2>6 DEF AgentInv, SessionsGoOn, Waiting, RowOK
<1>5. CASE Restart
    BY <1>5, RestartKeeps
<1>6. QED
    BY <1>1, <1>2, <1>3, <1>4, <1>5 DEF Environment

LEMMA StepAgent == AgentInv /\ [AgentNext]_agentVars => AgentInv'
<1> SUFFICES ASSUME AgentInv, [AgentNext]_agentVars PROVE AgentInv'
    OBVIOUS
<1>1. CASE Post
    <2>1. CASE PostFails \/ PostRefused \/ PostDuplicate
        BY <2>1, PostKeeps DEF PostFails, PostRefused, PostDuplicate, Delivered
    <2>2. QED
        BY <1>1, <2>1, GiveUpKeeps, ReceivedKeeps DEF Post
<1>2. CASE \E h \in Slots : Handle(h)
    BY <1>2, RecordKeeps, RecordFailsKeeps DEF Handle
<1>3. CASE UNCHANGED agentVars
    <2>1. SessionsGoOn /\ UNCHANGED <<row, agent, handlers, events>>
        BY <1>3, StillGoesOn DEF AgentInv, agentVars, database
    <2>2. AgentOK' /\ HandlersOK' /\ EventsOK'
        BY <2>1, AgentStays, HandlersStay, EventsGoOn DEF AgentInv
    <2>3. QED
        BY <2>1, <2>2 DEF AgentInv, SessionsGoOn, Waiting, RowOK
<1>4. QED
    BY <1>1, <1>2, <1>3, EnvironmentKeeps, PollKeeps, StartCheckKeeps, JudgeKeeps DEF AgentNext

LEMMA AgentInvariance == AgentSpec => []AgentInv
BY InitAgent, StepAgent, PTL DEF AgentSpec

(* Every variable of DamAgent keeps its type, and the agent waits exactly  *)
(* while one request of its own is being handled (post, receive_activity). *)
THEOREM AgentTypeCorrect == AgentSpec => []AgentTypeOK
<1>1. AgentInv => AgentTypeOK
    BY DEF AgentInv, Numbered, AgentOK, HandlersOK, Waiting, RowOK, EventsOK, AgentTypeOK, AgentRec, EventRec
<1>2. QED
    BY <1>1, AgentInvariance, PTL

(* A stored event that says "blocked" names a session that an order to end *)
(* reached, or that was over before another took its process number,       *)
(* unless the threshold set the flag (runCheck and receive_activity).      *)
THEOREM BlockedIsTruthful == AgentSpec => []BlockedTruthful
<1>1. AgentInv => BlockedTruthful
    BY DEF AgentInv, EventsOK
<1>2. QED
    BY <1>1, AgentInvariance, PTL

(* Of two recent events of a process number one comes from a request that  *)
(* the agent had given up (the look before the insert in receive_activity).*)
THEOREM DuplicatesComeLate == AgentSpec => []DuplicatesOnlyAfterTimeout
<1>1. AgentInv => DuplicatesOnlyAfterTimeout
    BY DEF AgentInv, EventsOK
<1>2. QED
    BY <1>1, AgentInvariance, PTL
=============================================================================
