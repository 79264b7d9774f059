------------------------------ MODULE DamPoller -----------------------------
(***************************************************************************)
(* The Celery task that polls the data sources for the statements run on   *)
(* them (app/services/dam_native_poller.py) and keeps, in a watermark per  *)
(* source, how far it has read.                                            *)
(*                                                                         *)
(* Only Oracle keeps an audit trail.  PostgreSQL, SQL Server, MySQL and    *)
(* MariaDB list the statements of their live sessions: one that is over    *)
(* is listed no more, whatever the window.                                 *)
(*                                                                         *)
(* One session runs the whole poll.  It is committed after each source and *)
(* never rolled back: what a source that fails has flushed is committed    *)
(* with the next one.  The sources are external; an event may show up in   *)
(* one up to Delay ticks after its timestamp.                              *)
(***************************************************************************)
EXTENDS Integers, FiniteSets

CONSTANTS
  Source, Event,
  Live,         \* sources that list live sessions and keep no trail
  None,
  Overlap,      \* the 30 s subtracted from the watermark
  FirstWindow,  \* the 5 minutes a new watermark goes back
  Limit,        \* FETCH FIRST 1000 ROWS ONLY, LIMIT 500
  Interval,     \* DAM_POLL_INTERVAL_SECONDS
  Slow,         \* longest time from the query of a source to its commit
  Delay,        \* longest time before an event shows up in its source
  MaxTime       \* bound on the clock

(* One source takes less than the overlap, which is no longer than the     *)
(* interval.  Tick adds that a poll is over before the next one is due; the *)
(* code checks neither.                                                    *)
ASSUME TimingAssumption ==
  /\ {Overlap, FirstWindow, Interval, Slow, Delay, MaxTime} \subseteq Nat
  /\ Limit \in Nat \ {0}
  /\ Slow + Delay < Overlap
  /\ Overlap <= Interval
  /\ Live \subseteq Source
  /\ None \notin Source \cup Int

VARIABLES
  trail,     \* the statements run so far: source and timestamp of each
  over,      \* statements of live sessions that are listed no more
  wm,        \* committed watermarks: last_polled_at by source
  recorded,  \* how many DBActivity rows each event has, committed
  poll,      \* where the task stands, and what it has read
  pending,   \* flushed and not committed: rows by event, watermarks
  missed,    \* history: events a query should have returned and did not
  torn,      \* history: polls of each source that failed among its events
  now

vars == <<trail, over, wm, recorded, poll, pending, missed, torn, now>>

NoEvent == [src |-> None, at |-> 0]

(* The clock begins anywhere in an interval of the beat.                   *)
Idle == [pc |-> "idle", todo |-> {}, src |-> None, since |-> 0, got |-> {},
         due |-> -2 * Interval, asked |-> 0]

Nothing == [rows |-> {}, wm |-> [s \in Source |-> None]]

Init ==
  /\ trail = [e \in Event |-> NoEvent]
  /\ over = {}
  /\ wm = [s \in Source |-> None]
  /\ recorded = [e \in Event |-> 0]
  /\ poll = Idle
  /\ pending = Nothing
  /\ missed = {}
  /\ torn = [s \in Source |-> 0]
  /\ now = 0

-----------------------------------------------------------------------------
(* Celery beat makes a poll due every Interval, and a worker takes it up   *)
(* before the next one is due.                                             *)
StartEveryTick ==
  /\ poll.pc = "idle"
  /\ \E due \in (now - Interval + 1)..now :
       /\ due > poll.due
       /\ poll' = [poll EXCEPT !.pc = "next", !.todo = Source, !.due = due]
  /\ UNCHANGED <<trail, over, wm, recorded, pending, missed, torn, now>>
Start ==
  /\ poll.pc = "idle"
  /\ \E due \in (now - Interval + 1)..now :
       /\ due >= poll.due + Interval
       /\ poll' = [poll EXCEPT !.pc = "next", !.todo = Source, !.due = due]
  /\ UNCHANGED <<trail, over, wm, recorded, pending, missed, torn, now>>

(* The watermark the session sees: its own flushed row or the committed    *)
(* one; a source without gets one that is five minutes old.                *)
Watermark(s) == IF wm[s] # None THEN wm[s] ELSE now - FirstWindow

SinceNoOverlap(s) == Watermark(s)
Since(s) == Watermark(s) - Overlap

(* The next source; its configuration or its vault secret may be missing,  *)
(* and then it is skipped.                                                 *)
Open(s) ==
  /\ poll.pc = "next"
  /\ s \in poll.todo
  /\ poll' = [poll EXCEPT !.pc = "query", !.src = s, !.todo = @ \ {s}, !.since = Since(s)]
  /\ pending' = [pending EXCEPT !.wm[s] = Watermark(s)]
  /\ UNCHANGED <<trail, over, wm, recorded, missed, torn, now>>

Skip(s) ==
  /\ poll.pc = "next"
  /\ s \in poll.todo
  /\ poll' = [poll EXCEPT !.todo = @ \ {s}]
  /\ UNCHANGED <<trail, over, wm, recorded, pending, missed, torn, now>>

(* A trail is asked for what is later than a time, live sessions for what  *)
(* has started since.                                                      *)
After(e, t) == trail[e].at > t \/ (trail[e].src \in Live /\ trail[e].at = t)

(* What there is to return; a trail forgets nothing.                       *)
InWindow == {e \in Event \ over : trail[e].src = poll.src /\ After(e, poll.since)}

(* A trail returns the oldest rows first.  The limit on live sessions is   *)
(* in no order, and counts rows the code drops later: of no known verb, or *)
(* on MySQL older than the window.  It can cut off any.                    *)
Oldest(S) ==
  {e \in S : Cardinality({f \in S : trail[f].at < trail[e].at}) < Limit}

Fetched(got) ==
  /\ Cardinality(got) <= Limit
  /\ poll.src \notin Live =>
       /\ got \subseteq Oldest(InWindow)
       /\ Cardinality(InWindow) <= Limit => got = InWindow
       /\ Cardinality(InWindow) > Limit => Cardinality(got) = Limit

(* Events no window reaches back to, because the source is new.            *)
BeforeFirst == {e \in Event : /\ wm[poll.src] = None
                              /\ trail[e].src = poll.src /\ ~After(e, poll.since)}

Query ==
  /\ poll.pc = "query"
  /\ \E got \in SUBSET InWindow :
       /\ Fetched(got)
       /\ poll' = [poll EXCEPT !.pc = "ingest", !.got = got, !.asked = now]
       /\ missed' = missed \cup (InWindow \ got) \cup BeforeFirst
  /\ UNCHANGED <<trail, over, wm, recorded, pending, torn, now>>

(* _poll_source swallows every exception: no events, and the poll goes on. *)
QueryFails ==
  /\ poll.pc = "query"
  /\ poll' = [poll EXCEPT !.pc = "ingest", !.got = {}, !.asked = now]
  /\ missed' = missed \cup InWindow \cup BeforeFirst
  /\ UNCHANGED <<trail, over, wm, recorded, pending, torn, now>>

(* Every event is flushed as a row, the watermark set to the current time, *)
(* and everything pending committed.                                       *)
NewWatermark == now

Recorded(S) == [e \in Event |-> recorded[e] + IF e \in S THEN 1 ELSE 0]

Merged(w) == [s \in Source |-> IF s = poll.src THEN w
                               ELSE IF pending.wm[s] # None /\ wm[s] = None THEN pending.wm[s]
                               ELSE wm[s]]

Ingest ==
  /\ poll.pc = "ingest"
  /\ recorded' = Recorded(pending.rows \cup poll.got)
  /\ wm' = Merged(NewWatermark)
  /\ poll' = [poll EXCEPT !.pc = "next", !.src = None, !.since = 0, !.got = {}, !.asked = 0]
  /\ pending' = Nothing
  /\ UNCHANGED <<trail, over, missed, torn, now>>

(* An event cannot be turned into a row: the source is given up, the rows  *)
(* before it stay flushed.                                                 *)
IngestFails ==
  /\ poll.pc = "ingest"
  /\ \E kept \in SUBSET poll.got :
       /\ kept # poll.got
       /\ pending' = [pending EXCEPT !.rows = @ \cup kept]
  /\ torn' = [torn EXCEPT ![poll.src] = @ + 1]
  /\ poll' = [poll EXCEPT !.pc = "next", !.src = None, !.since = 0, !.got = {}, !.asked = 0]
  /\ UNCHANGED <<trail, over, wm, recorded, missed, now>>

(* The task ends - all sources done, the session broken by the database,   *)
(* or the worker dead - and what is not committed is gone.                 *)
End ==
  /\ poll.pc # "idle"
  /\ poll' = [Idle EXCEPT !.due = poll.due]
  /\ pending' = Nothing
  /\ UNCHANGED <<trail, over, wm, recorded, missed, torn, now>>

(* Somebody runs a statement on a data source.                             *)
Occur(e, s) ==
  /\ trail[e] = NoEvent
  /\ \E t \in (now - Delay)..now : trail' = [trail EXCEPT ![e] = [src |-> s, at |-> t]]
  /\ UNCHANGED <<over, wm, recorded, poll, pending, missed, torn, now>>

(* A statement of a live session ends, and is listed no more.              *)
Ends(e) ==
  /\ trail[e].src \in Live
  /\ over' = over \cup {e}
  /\ UNCHANGED <<trail, wm, recorded, poll, pending, missed, torn, now>>

Tick ==
  /\ now < MaxTime
  /\ poll.pc = "ingest" => now < poll.asked + Slow
  /\ poll.pc # "idle" => now + 1 < poll.due + Interval
  /\ now' = now + 1
  /\ UNCHANGED <<trail, over, wm, recorded, poll, pending, missed, torn>>

Next ==
  \/ Start \/ Query \/ QueryFails \/ Ingest \/ IngestFails \/ End
  \/ \E s \in Source : Open(s) \/ Skip(s)
  \/ \E e \in Event, s \in Source : Occur(e, s)
  \/ \E e \in Event : Ends(e)
  \/ Tick

Spec == Init /\ [][Next]_vars
-----------------------------------------------------------------------------
(* Properties                                                              *)

(* Every variable has its type, and nothing uncommitted outlives the task  *)
(* that flushed it (SessionLocal is closed in poll_all_sources).           *)
TypeOK ==
  /\ \A e \in Event : trail[e] = NoEvent \/ (trail[e].src \in Source /\ trail[e].at \in Int)
  /\ \A s \in Source : wm[s] \in Int \cup {None} /\ pending.wm[s] \in Int \cup {None}
  /\ over \subseteq Event
  /\ recorded \in [Event -> Nat]
  /\ poll.pc \in {"idle", "next", "query", "ingest"}
  /\ poll.src \in Source \cup {None} /\ poll.todo \subseteq Source
  /\ poll.got \subseteq Event /\ pending.rows \subseteq Event /\ missed \subseteq Event
  /\ torn \in [Source -> Nat]
  /\ now \in Nat
  /\ poll.pc = "idle" => pending = Nothing

(* An event the watermark, less the overlap, has passed: no later poll     *)
(* will look for it.                                                       *)
Passed(e) ==
  LET s == trail[e].src
  IN  s # None /\ wm[s] # None /\ ~After(e, wm[s] - Overlap)

(* "30s overlap to avoid gaps": an event that is passed is recorded.       *)
NoGaps == \A e \in Event : Passed(e) => recorded[e] > 0

(* A source that lists live sessions loses the statements that end before  *)
(* they are recorded.  All other gaps are those a query made: by failing,  *)
(* by its row limit, or by not going back before the first watermark.      *)
(* Slow ingestion, events that show up late, sources that fail and polls   *)
(* that die make none, for a trail or for a statement that goes on.        *)
GapsOnlyFromQueries ==
  \A e \in Event : Passed(e) /\ recorded[e] = 0 => e \in missed \cup over

(* The overlap makes duplicates, and nothing removes them: two for each    *)
(* event at most, though the overlap is shorter than the interval - polls  *)
(* that start late come closer than that - and one more for each poll that *)
(* failed among the source's events.                                       *)
AtMostThrice ==
  \A e \in Event : trail[e].src # None => recorded[e] <= 3 + torn[trail[e].src]
=============================================================================
