----------------------------- MODULE PolicyCache ----------------------------
(***************************************************************************)
(* PolicyEngine.decide (app/services/policy_engine.py) for one table and   *)
(* one role, the Redis cache of its decisions                              *)
(* (app/services/policy_cache.py), and the handlers of app/api/policies.py *)
(* that edit the rules and invalidate the cache.                           *)
(*                                                                         *)
(* A decision is represented by what it was computed from: the rule, the   *)
(* source whose scanned columns it covers, and the request whose user's    *)
(* attributes are in its row filters.  The edits of rules are numbered; a  *)
(* rule is named by the edit that wrote it, 1 for those there at first.    *)
(***************************************************************************)
EXTENDS Naturals

CONSTANTS
  Reader,         \* calls of decide (a query has one for each of its tables)
  Editor,         \* POST, PATCH and DELETE requests on /policies
  Source,         \* data sources that have a table of this name
  None,
  TTL,            \* _POLICY_TTL, in clock ticks
  Lag,            \* longest time a call of decide takes, in clock ticks
  MaxTime,        \* bound on the clock
  OpenUntil,      \* when the allowed hours of a scheduled rule end
  RoleExempt,     \* is the role exempt from schedules (exempt_roles)?
  AdminRole,      \* is it "admin"?
  MaskingSettings,\* values masking.global_masking_enabled takes in the settings
  UnclassifiedPolicies,  \* values DEFAULT_UNCLASSIFIED_POLICY is deployed with
  RuleKinds       \* the rules written: with or without row filters, a schedule

ASSUME ConstantsAssumption ==
  /\ None \notin Reader \cup Source
  /\ TTL \in Nat \ {0} /\ Lag \in Nat /\ MaxTime \in Nat /\ OpenUntil \in Nat
  /\ RoleExempt \in BOOLEAN /\ AdminRole \in BOOLEAN /\ MaskingSettings \subseteq BOOLEAN
  /\ UnclassifiedPolicies \subseteq {"deny", "allow"}
  /\ RuleKinds \subseteq [filtered: BOOLEAN, scheduled: BOOLEAN]

VARIABLES
  rules,    \* policy_rules: the rule on the table itself and the one on "*"
  scanned,  \* the sources whose table has scanned columns
  cache,    \* Redis: the entries dg:policy:{tenant}:{table}[::no_rf]:{role}
  redisUp,  \* does Redis answer?
  req,      \* what each call asks for, has read and has computed
  pc,       \* where each call and each edit stands
  edits,    \* history: number of committed edits
  cleaned,  \* history: the newest edit whose invalidation has completed
  log,      \* history: the rules that applied at some moment of each tick
  now       \* wall clock

vars == <<rules, scanned, cache, redisUp, req, pc, edits, cleaned, log, now>>

Resource == {"table", "*"}
Mode == {"no_rf", "auto"}

Rule == [edit: Nat, filtered: BOOLEAN, scheduled: BOOLEAN]
NoRule == [edit |-> 0, filtered |-> FALSE, scheduled |-> FALSE]
Kinds(n) ==
  {[edit |-> n, filtered |-> k.filtered, scheduled |-> k.scheduled] : k \in RuleKinds}

(* seen: the edits committed when its inputs were read; stored: those      *)
(* invalidated when it went into the cache.                                *)
Decision == [rule: Rule, source: Source, user: Reader \cup {None},
             seen: Nat, stored: Nat, read: Nat, checked: Nat]

NoDecision == [source |-> None]

Entry == [decision: Decision, expires: Nat]
NoEntry == [expires |-> 0]

Call == [source: Source, rule: Rule, seen: Nat, clean: Nat, at: Nat,
         decision: Decision \cup {NoDecision}, done: Nat]

NoCall == [source |-> None]

(* The most specific matching rule: exact before wildcard.                 *)
Applicable(rs) == IF rs["table"] # NoRule THEN rs["table"] ELSE rs["*"]

Init ==
  /\ rules \in [Resource -> {NoRule} \cup Kinds(1)]
  /\ scanned \in SUBSET Source
  /\ cache = [m \in Mode |-> NoEntry]
  /\ redisUp \in BOOLEAN
  /\ req = [p \in Reader |-> NoCall]
  /\ pc = [p \in Reader \cup Editor |-> "new"]
  /\ edits = 1
  /\ cleaned = 0
  /\ log = [t \in 0..MaxTime |-> IF t = 0 THEN {Applicable(rules)} ELSE {}]
  /\ now = 0

-----------------------------------------------------------------------------
(* PolicyEngine.decide                                                     *)

(* The rules, the columns and the settings are read from the database.     *)
Opened(s) ==
  [source |-> s, rule |-> Applicable(rules), seen |-> edits, clean |-> cleaned, at |-> now,
   decision |-> NoDecision, done |-> now]

Read(p, s) ==
  /\ pc[p] = "new"
  /\ TRUE \in MaskingSettings \/ ~AdminRole
  /\ req' = [req EXCEPT ![p] = Opened(s)]
  /\ pc' = [pc EXCEPT ![p] = "look"]
  /\ UNCHANGED <<rules, scanned, cache, redisUp, edits, cleaned, log, now>>

(* Masking is off and the role is admin: allowed, no restriction at all.   *)
Bypass(p, s) ==
  /\ pc[p] = "new"
  /\ FALSE \in MaskingSettings /\ AdminRole
  /\ req' = [req EXCEPT ![p] = [Opened(s) EXCEPT !.decision =
       [rule |-> NoRule, source |-> s, user |-> None,
        seen |-> edits, stored |-> cleaned, read |-> now, checked |-> now]]]
  /\ pc' = [pc EXCEPT ![p] = "bypassed"]
  /\ UNCHANGED <<rules, scanned, cache, redisUp, edits, cleaned, log, now>>

(* A table of a department denies the users of the others before anything  *)
(* is looked up in the cache.                                              *)
DepartmentDenies(p, s) ==
  /\ pc[p] = "new"
  /\ s \in scanned
  /\ pc' = [pc EXCEPT ![p] = "denied"]
  /\ UNCHANGED <<rules, scanned, cache, redisUp, req, edits, cleaned, log, now>>

HasRule(p) == req[p].rule # NoRule

(* The entry this call may use: none below a rule with row filters.        *)
ModeOf(p) == IF HasRule(p) THEN "no_rf" ELSE "auto"

CachableAlways(p) == TRUE
Cachable(p) == ~req[p].rule.filtered

Live(m) == cache[m] # NoEntry /\ cache[m].expires > now

Hit(p) == redisUp /\ Live(ModeOf(p)) /\ Cachable(p)

(* _from_rule substitutes the user's attributes in the row filters.        *)
Computed(p) ==
  [rule |-> req[p].rule, source |-> req[p].source,
   user |-> IF req[p].rule.filtered THEN p ELSE None,
   seen |-> req[p].seen, stored |-> cleaned, read |-> req[p].at, checked |-> now]

Answered(p, d) == [req[p] EXCEPT !.decision = d, !.done = now]

AnswerFromCache(p) ==
  /\ pc[p] = "look"
  /\ HasRule(p) \/ req[p].source \in scanned
  /\ Hit(p)
  /\ req' = [req EXCEPT ![p] = Answered(p, cache[ModeOf(p)].decision)]
  /\ pc' = [pc EXCEPT ![p] = "answered"]
  /\ UNCHANGED <<rules, scanned, cache, redisUp, edits, cleaned, log, now>>

(* The schedule of a rule is checked when the decision is computed.        *)
ScheduleAllowsUnchecked(p) == TRUE
ScheduleAllows(p) == req[p].rule.scheduled /\ ~RoleExempt => now < OpenUntil

Compute(p) ==
  /\ pc[p] = "look"
  /\ HasRule(p) \/ req[p].source \in scanned
  /\ ~Hit(p)
  /\ ScheduleAllows(p)
  /\ req' = [req EXCEPT ![p] = Answered(p, Computed(p))]
  /\ pc' = [pc EXCEPT ![p] = IF Cachable(p) THEN "store" ELSE "answered"]
  /\ UNCHANGED <<rules, scanned, cache, redisUp, edits, cleaned, log, now>>

(* No rule and no scan: denied, or allowed where the deployment says so;   *)
(* neither is cached.                                                      *)
Unclassified(p) ==
  /\ pc[p] = "look"
  /\ ~HasRule(p) /\ req[p].source \notin scanned
  /\ \/ /\ "deny" \in UnclassifiedPolicies
        /\ pc' = [pc EXCEPT ![p] = "denied"]
        /\ UNCHANGED req
     \/ /\ "allow" \in UnclassifiedPolicies
        /\ pc' = [pc EXCEPT ![p] = "answered"]
        /\ req' = [req EXCEPT ![p] = Answered(p, Computed(p))]
  /\ UNCHANGED <<rules, scanned, cache, redisUp, edits, cleaned, log, now>>

(* PermissionError outside the schedule.                                   *)
Refuse(p) ==
  /\ pc[p] = "look"
  /\ HasRule(p)
  /\ ~Hit(p)
  /\ ~ScheduleAllows(p)
  /\ pc' = [pc EXCEPT ![p] = "denied"]
  /\ UNCHANGED <<rules, scanned, cache, redisUp, req, edits, cleaned, log, now>>

(* set_cached_policy: SETEX, or nothing when Redis fails.                  *)
LifetimePlusOne(p) == now + TTL + 1
Lifetime(p) == now + TTL

Store(p) ==
  /\ pc[p] = "store"
  /\ cache' = IF redisUp
                THEN [cache EXCEPT ![ModeOf(p)] =
                        [decision |-> [req[p].decision EXCEPT !.stored = cleaned],
                         expires |-> Lifetime(p)]]
                ELSE cache
  /\ pc' = [pc EXCEPT ![p] = "answered"]
  /\ req' = [req EXCEPT ![p].done = now]
  /\ UNCHANGED <<rules, scanned, redisUp, edits, cleaned, log, now>>

-----------------------------------------------------------------------------
(* POST, PATCH, DELETE /policies                                           *)

Logged(rs) == [log EXCEPT ![now] = @ \cup {Applicable(rs)}]

(* A create finds no rule on the resource, an update finds one; the rule   *)
(* is committed, the audit record after it.                                *)
CommitEdit(e, k) ==
  /\ pc[e] = "new"
  /\ \E r \in Kinds(edits + 1) : rules' = [rules EXCEPT ![k] = r]
  /\ edits' = edits + 1
  /\ log' = Logged(rules')
  /\ pc' = [pc EXCEPT ![e] = "committed"]
  /\ UNCHANGED <<scanned, cache, redisUp, req, cleaned, now>>

(* invalidate_policy_cache: the pattern of either resource matches every   *)
(* key of the table.  Errors of Redis are swallowed.                       *)
SweptAutoOnly == [cache EXCEPT !["auto"] = NoEntry]
Swept == [m \in Mode |-> NoEntry]

Invalidate(e) ==
  /\ pc[e] = "committed"
  /\ IF redisUp THEN cache' = Swept /\ cleaned' = edits
                ELSE UNCHANGED <<cache, cleaned>>
  /\ pc' = [pc EXCEPT ![e] = "returned"]
  /\ UNCHANGED <<rules, scanned, redisUp, req, edits, log, now>>

(* A delete commits and returns: it invalidates nothing.                   *)
CommitDelete(e, k) ==
  /\ pc[e] = "new"
  /\ rules[k] # NoRule
  /\ rules' = [rules EXCEPT ![k] = NoRule]
  /\ edits' = edits + 1
  /\ log' = Logged(rules')
  /\ pc' = [pc EXCEPT ![e] = "returned"]
  /\ UNCHANGED <<scanned, cache, redisUp, req, cleaned, now>>

(* The commit of the audit record fails, or the worker dies: the rule is   *)
(* changed and nothing is invalidated.                                     *)
EditCrash(e) ==
  /\ pc[e] = "committed"
  /\ pc' = [pc EXCEPT ![e] = "crashed"]
  /\ UNCHANGED <<rules, scanned, cache, redisUp, req, edits, cleaned, log, now>>

-----------------------------------------------------------------------------
(* A scan finds the columns of a source's table.                           *)
Scan(s) ==
  /\ s \notin scanned
  /\ scanned' = scanned \cup {s}
  /\ UNCHANGED <<rules, cache, redisUp, req, pc, edits, cleaned, log, now>>

(* Redis goes away and comes back with its unexpired entries.              *)
RedisToggles ==
  /\ redisUp' = ~redisUp
  /\ UNCHANGED <<rules, scanned, cache, req, pc, edits, cleaned, log, now>>

(* A call of decide is answered within Lag ticks of its reads.             *)
Tick ==
  /\ now < MaxTime
  /\ \A p \in Reader : pc[p] \in {"look", "store"} => now < req[p].at + Lag
  /\ now' = now + 1
  /\ log' = [log EXCEPT ![now + 1] = {Applicable(rules)}]
  /\ UNCHANGED <<rules, scanned, cache, redisUp, req, pc, edits, cleaned>>

Decide(p) ==
  \/ \E s \in Source : Read(p, s) \/ Bypass(p, s) \/ DepartmentDenies(p, s)
  \/ AnswerFromCache(p)
  \/ Compute(p)
  \/ Unclassified(p)
  \/ Refuse(p)
  \/ Store(p)

Edit(e) ==
  \/ \E k \in Resource : CommitEdit(e, k) \/ CommitDelete(e, k)
  \/ Invalidate(e)
  \/ EditCrash(e)

Next ==
  \/ \E p \in Reader : Decide(p)
  \/ \E e \in Editor : Edit(e)
  \/ \E s \in Source : Scan(s)
  \/ RedisToggles
  \/ Tick

Spec == Init /\ [][Next]_vars

-----------------------------------------------------------------------------
(* Properties                                                              *)

Label == {"new", "look", "bypassed", "store", "answered", "denied",
          "committed", "returned", "crashed"}

(* The call has a decision to give back, restrictions lifted or not.       *)
Decided(p) == pc[p] \in {"store", "answered"}
Given(p) == Decided(p) \/ pc[p] = "bypassed"

(* Every variable has its type; a call that was given a decision has one.  *)
TypeOK ==
  /\ rules \in [Resource -> Rule]
  /\ scanned \subseteq Source
  /\ cache \in [Mode -> Entry \cup {NoEntry}]
  /\ redisUp \in BOOLEAN
  /\ req \in [Reader -> Call \cup {NoCall}]
  /\ pc \in [Reader \cup Editor -> Label]
  /\ edits \in Nat /\ cleaned \in Nat /\ now \in 0..MaxTime
  /\ log \in [0..MaxTime -> SUBSET Rule]
  /\ \A p \in Reader : Given(p) => req[p] \in Call /\ req[p].decision \in Decision

(* Whatever edits, lost invalidations, Redis outages and overtaken fills   *)
(* happen, the rule a decision rests on was in force less than TTL + Lag   *)
(* ticks before the decision is given.                                     *)
StaleBounded ==
  \A p \in Reader : Decided(p) =>
    \E t \in 0..MaxTime : /\ req[p].done < t + TTL + Lag
                         /\ req[p].decision.rule \in log[t]

FiltersResolvedFor(p) ==
  LET d == req[p].decision
  IN  /\ req[p].rule.filtered => d.rule = req[p].rule /\ d.user = p
      /\ ~req[p].rule.filtered => d.user = None

(* Row filters hold the attributes of one user, and all users of a role    *)
(* share a cache entry.  A call that finds a rule with row filters gets    *)
(* that rule's, with its own user's attributes; no call gets those of      *)
(* another (the test for row filters before set_cached_policy).            *)
OwnRowFilters == \A p \in Reader : Decided(p) => FiltersResolvedFor(p)

(* A call that began after an edit was invalidated gets a decision older   *)
(* than the edit only if a call overtaken by the edit put it in the cache  *)
(* after the invalidation: invalidation itself leaves nothing behind.      *)
StaleOnlyByRace ==
  \A p \in Reader : Decided(p) =>
    LET d == req[p].decision
    IN  d.seen < req[p].clean => d.stored >= req[p].clean

(* A schedule that has ended is enforced after TTL + Lag ticks at most.    *)
ScheduleOverrunBounded ==
  \A p \in Reader : Decided(p) /\ req[p].decision.rule.scheduled /\ ~RoleExempt =>
    req[p].done < OpenUntil + TTL + Lag

(* The columns a decision covers are those of the source that was asked    *)
(* for ("to avoid cross-source collisions").                               *)
DecisionForOwnSource ==
  \A p \in Reader : Decided(p) => req[p].decision.source = req[p].source

-----------------------------------------------------------------------------
(* The inductive invariant.                                                *)

(* A decision was computed from a rule in force when it was read, its      *)
(* schedule checked at most Lag ticks later.                               *)
Grounded(d) ==
  /\ d.read <= now /\ d.rule \in log[d.read]
  /\ d.rule.filtered <=> d.user # None
  /\ d.checked >= d.read /\ d.checked <= d.read + Lag
  /\ d.rule.scheduled /\ ~RoleExempt => d.checked < OpenUntil
  /\ d.stored <= cleaned

EntrySound(m) ==
  cache[m] # NoEntry =>
    LET d == cache[m].decision
    IN  /\ Grounded(d)
        /\ ~d.rule.filtered
        /\ cache[m].expires <= d.read + Lag + TTL
        /\ d.stored = cleaned

CallSound(p) ==
  /\ pc[p] \in {"look", "bypassed", "store", "answered"} =>
       /\ req[p] \in Call
       /\ req[p].at <= now /\ req[p].rule \in log[req[p].at]
       /\ req[p].clean <= cleaned
  /\ pc[p] \in {"look", "store"} => now <= req[p].at + Lag
  /\ pc[p] = "bypassed" => AdminRole /\ FALSE \in MaskingSettings

DecisionSound(p) ==
  Decided(p) =>
    LET d == req[p].decision
    IN  /\ Grounded(d)
        /\ req[p].done <= now /\ req[p].done < d.read + TTL + Lag
        /\ FiltersResolvedFor(p)
        /\ d.seen < req[p].clean => d.stored >= req[p].clean
        /\ pc[p] = "store" => d.read = req[p].at /\ ~req[p].rule.filtered

(* Together with the bounds on the log: everything the properties say of   *)
(* the decisions, stated of the cache and of the calls under way too.      *)
Inv ==
  /\ TypeOK
  /\ Applicable(rules) \in log[now]
  /\ cleaned <= edits
  /\ \A m \in Mode : EntrySound(m)
  /\ \A p \in Reader : CallSound(p) /\ DecisionSound(p)
=============================================================================
