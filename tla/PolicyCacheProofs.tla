-------------------------- MODULE PolicyCacheProofs -------------------------
(***************************************************************************)
(* Proofs about PolicyCache, for any number of calls, edits and sources,   *)
(* any lifetime of an entry and any bound on the duration of a call.       *)
(***************************************************************************)
EXTENDS PolicyCache, TLAPS

LEMMA ConstantFacts ==
  /\ \A p \in Reader : p # None /\ p \in Reader \cup Editor
  /\ Editor \subseteq Reader \cup Editor
  /\ TTL \in Nat /\ TTL > 0 /\ Lag \in Nat /\ MaxTime \in Nat /\ OpenUntil \in Nat
BY ConstantsAssumption

(* The rules an edit may write.                                            *)
LEMMA KindsAreRules == NoRule \in Rule /\ \A n \in Nat : Kinds(n) \subseteq Rule
BY ConstantsAssumption DEF Kinds, NoRule, Rule

LEMMA ApplicableIsRule == ASSUME NEW rs \in [Resource -> Rule] PROVE Applicable(rs) \in Rule
BY DEF Applicable, Resource

(* An entry that is not empty holds a decision.                            *)
LEMMA EntryFacts ==
  ASSUME TypeOK, NEW m \in Mode, cache[m] # NoEntry
  PROVE  cache[m] \in Entry /\ cache[m].decision \in Decision /\ cache[m].expires \in Nat
BY DEF TypeOK, Entry

-----------------------------------------------------------------------------
(* Types                                                                   *)

LEMMA InitType == Init => TypeOK
<1> SUFFICES ASSUME Init PROVE TypeOK
  OBVIOUS
<1>1. rules \in [Resource -> Rule]
  <2>1. Kinds(1) \subseteq Rule /\ NoRule \in Rule
    BY KindsAreRules
  <2>2. QED
    BY <2>1 DEF Init
<1>2. Applicable(rules) \in Rule
  BY <1>1, ApplicableIsRule
<1>3. log \in [0..MaxTime -> SUBSET Rule] /\ now \in 0..MaxTime
  BY <1>2, ConstantFacts DEF Init
<1>4. cache \in [Mode -> Entry \cup {NoEntry}] /\ req \in [Reader -> Call \cup {NoCall}]
  BY DEF Init
<1>5. pc \in [Reader \cup Editor -> Label] /\ \A p \in Reader : ~Given(p)
  BY ConstantFacts DEF Init, Label, Given, Decided
<1>6. QED
  BY <1>1, <1>3, <1>4, <1>5 DEF Init, TypeOK

(* What a call reads is a rule, and it has no decision yet.                *)
LEMMA OpenedIsCall ==
  ASSUME TypeOK, NEW s \in Source
  PROVE  /\ Opened(s) \in Call
         /\ \A d \in Decision : [Opened(s) EXCEPT !.decision = d] \in Call
BY ApplicableIsRule, ConstantFacts DEF TypeOK, Opened, Call

LEMMA ComputedIsDecision ==
  ASSUME TypeOK, NEW p \in Reader, req[p] \in Call
  PROVE  Computed(p) \in Decision
BY ConstantFacts DEF TypeOK, Computed, Call, Decision

(* A call that has looked at the rules has them in its record.             *)
LEMMA TypeStep == Inv /\ [Next]_vars => TypeOK'
<1> SUFFICES ASSUME Inv, [Next]_vars PROVE TypeOK'
  OBVIOUS
<1>0. TypeOK /\ now \in Nat
  BY DEF Inv, TypeOK
<1>c. \A p \in Reader : pc[p] \in {"look", "bypassed", "store", "answered"} => req[p] \in Call
  BY DEF Inv, CallSound
<1>d. \A p \in Reader : Given(p) => req[p].decision \in Decision
  BY <1>0 DEF TypeOK
<1> USE ConstantFacts
<1>1. ASSUME NEW p \in Reader, NEW s \in Source, Read(p, s) PROVE TypeOK'
  BY <1>0, <1>1, OpenedIsCall DEF Read, TypeOK, Label, Given, Decided
<1>2. ASSUME NEW p \in Reader, NEW s \in Source, Bypass(p, s) PROVE TypeOK'
  <2> DEFINE d == [rule |-> NoRule, source |-> s, user |-> None, seen |-> edits,
                   stored |-> cleaned, read |-> now, checked |-> now]
  <2>1. d \in Decision
    BY <1>0 DEF Decision, NoRule, Rule, TypeOK
  <2>2. [Opened(s) EXCEPT !.decision = d] \in Call /\ [Opened(s) EXCEPT !.decision = d].decision = d
    BY <1>0, <2>1, OpenedIsCall DEF Opened
  <2>3. QED
    BY <1>0, <1>2, <2>1, <2>2 DEF Bypass, TypeOK, Label, Given, Decided
<1>3. ASSUME NEW p \in Reader, NEW s \in Source, DepartmentDenies(p, s) PROVE TypeOK'
  BY <1>0, <1>3 DEF DepartmentDenies, TypeOK, Label, Given, Decided
<1>4. ASSUME NEW p \in Reader, AnswerFromCache(p) PROVE TypeOK'
  <2>1. req[p] \in Call /\ ModeOf(p) \in Mode /\ cache[ModeOf(p)] # NoEntry
    BY <1>4, <1>c DEF AnswerFromCache, Hit, Live, ModeOf, Mode
  <2>2. cache[ModeOf(p)].decision \in Decision
    BY <1>0, <2>1, EntryFacts
  <2>3. req'[p] \in Call /\ req'[p].decision \in Decision
    BY <1>0, <1>4, <2>1, <2>2 DEF AnswerFromCache, Answered, Call, TypeOK
  <2>4. QED
    BY <1>0, <1>4, <2>3 DEF AnswerFromCache, TypeOK, Label, Given, Decided
<1>5. ASSUME NEW p \in Reader, Compute(p) PROVE TypeOK'
  <2>1. req[p] \in Call /\ Computed(p) \in Decision
    BY <1>0, <1>5, <1>c, ComputedIsDecision DEF Compute
  <2>2. req'[p] \in Call /\ req'[p].decision \in Decision
    BY <1>0, <1>5, <2>1 DEF Compute, Answered, Call, TypeOK
  <2>3. QED
    BY <1>0, <1>5, <2>2 DEF Compute, TypeOK, Label, Given, Decided
<1>6. ASSUME NEW p \in Reader, Refuse(p) \/ Unclassified(p) PROVE TypeOK'
  <2>1. CASE pc' = [pc EXCEPT ![p] = "denied"] /\ req' = req
    BY <1>0, <1>6, <2>1 DEF Refuse, Unclassified, TypeOK, Label, Given, Decided
  <2>2. CASE pc' = [pc EXCEPT ![p] = "answered"] /\ req' = [req EXCEPT ![p] = Answered(p, Computed(p))]
    <3>1. req[p] \in Call /\ Computed(p) \in Decision
      BY <1>0, <1>6, <1>c, ComputedIsDecision DEF Refuse, Unclassified
    <3>2. req'[p] \in Call /\ req'[p].decision \in Decision
      BY <1>0, <2>2, <3>1 DEF Answered, Call, TypeOK
    <3>3. QED
      BY <1>0, <1>6, <2>2, <3>2 DEF Refuse, Unclassified, TypeOK, Label, Given, Decided
  <2>3. QED
    BY <1>6, <2>1, <2>2 DEF Refuse, Unclassified
<1>7. ASSUME NEW p \in Reader, Store(p) PROVE TypeOK'
  <2>1. req[p] \in Call /\ req[p].decision \in Decision
    BY <1>7, <1>c, <1>d DEF Store, Given, Decided
  <2>2. req'[p] \in Call /\ req'[p].decision \in Decision
    BY <1>0, <1>7, <2>1 DEF Store, Call, TypeOK
  <2>3. [decision |-> [req[p].decision EXCEPT !.stored = cleaned], expires |-> Lifetime(p)] \in Entry
    <3>1. [req[p].decision EXCEPT !.stored = cleaned] \in Decision
      BY <1>0, <2>1 DEF Decision, TypeOK
    <3>2. Lifetime(p) \in Nat
      BY <1>0 DEF Lifetime
    <3>3. QED
      BY <3>1, <3>2 DEF Entry
  <2>4. cache' \in [Mode -> Entry \cup {NoEntry}]
    BY <1>0, <1>7, <2>3 DEF Store, TypeOK
  <2>5. QED
    BY <1>0, <1>7, <2>2, <2>4 DEF Store, TypeOK, Label, Given, Decided
<1>8. ASSUME NEW e \in Editor, NEW k \in Resource, CommitEdit(e, k) \/ CommitDelete(e, k)
      PROVE  TypeOK'
  <2>1. rules' \in [Resource -> Rule] /\ edits' \in Nat
    <3>1. edits \in Nat /\ NoRule \in Rule /\ Kinds(edits + 1) \subseteq Rule
      BY <1>0, KindsAreRules DEF TypeOK
    <3>2. QED
      BY <1>0, <1>8, <3>1 DEF CommitEdit, CommitDelete, TypeOK
  <2>2. Applicable(rules') \in Rule
    BY <2>1, ApplicableIsRule
  <2>3. log' \in [0..MaxTime -> SUBSET Rule]
    BY <1>0, <1>8, <2>2 DEF CommitEdit, CommitDelete, Logged, TypeOK
  <2>4. QED
    BY <1>0, <1>8, <2>1, <2>3 DEF CommitEdit, CommitDelete, TypeOK, Label, Given, Decided
<1>9. ASSUME NEW e \in Editor, Invalidate(e) PROVE TypeOK'
  BY <1>0, <1>9 DEF Invalidate, Swept, TypeOK, Label, Given, Decided
<1>10. ASSUME NEW e \in Editor, EditCrash(e) PROVE TypeOK'
  BY <1>0, <1>10 DEF EditCrash, TypeOK, Label, Given, Decided
<1>11. ASSUME NEW s \in Source, Scan(s) PROVE TypeOK'
  BY <1>0, <1>11 DEF Scan, TypeOK, Given, Decided
<1>12. CASE RedisToggles
  BY <1>0, <1>12 DEF RedisToggles, TypeOK, Given, Decided
<1>13. CASE Tick
  BY <1>0, <1>13, ApplicableIsRule DEF Tick, TypeOK, Given, Decided
<1>14. CASE UNCHANGED vars
  BY <1>0, <1>14 DEF vars, TypeOK, Given, Decided
<1>15. QED
  BY <1>1, <1>2, <1>3, <1>4, <1>5, <1>6, <1>7, <1>8, <1>9, <1>10, <1>11, <1>12, <1>13, <1>14
     DEF Next, Decide, Edit

-----------------------------------------------------------------------------
(* What a step leaves true                                                 *)

(* The clock, the cleaning and the rules of a tick that has begun only     *)
(* grow.                                                                   *)
LEMMA Growth ==
  ASSUME Inv, [Next]_vars
  PROVE  /\ now <= now' /\ cleaned <= cleaned'
         /\ \A t \in 0..MaxTime : t <= now => log[t] \subseteq log'[t]
<1> USE ConstantFacts DEF Inv, TypeOK
<1>1. ASSUME NEW p \in Reader, Decide(p) PROVE now' = now /\ cleaned' = cleaned /\ log' = log
  BY <1>1 DEF Decide, Read, Bypass, DepartmentDenies, AnswerFromCache, Compute,
         Unclassified, Refuse, Store
<1>2. ASSUME NEW e \in Editor, NEW k \in Resource, CommitEdit(e, k) \/ CommitDelete(e, k)
      PROVE  /\ now' = now /\ cleaned' = cleaned
             /\ \A t \in 0..MaxTime : log[t] \subseteq log'[t]
  BY <1>2 DEF CommitEdit, CommitDelete, Logged
<1>3. ASSUME NEW e \in Editor, Invalidate(e)
      PROVE  now' = now /\ cleaned <= cleaned' /\ log' = log
  BY <1>3 DEF Invalidate
<1>4. ASSUME NEW e \in Editor, EditCrash(e) PROVE now' = now /\ cleaned' = cleaned /\ log' = log
  BY <1>4 DEF EditCrash
<1>5. ASSUME (\E s \in Source : Scan(s)) \/ RedisToggles \/ UNCHANGED vars
      PROVE  now' = now /\ cleaned' = cleaned /\ log' = log
  BY <1>5 DEF Scan, RedisToggles, vars
<1>6. CASE Tick
  BY <1>6 DEF Tick
<1>7. QED
  BY <1>1, <1>2, <1>3, <1>4, <1>5, <1>6 DEF Next, Edit

(* A decision once grounded remains so.                                    *)
LEMMA GroundedStable ==
  ASSUME Inv, [Next]_vars, TypeOK', NEW d \in Decision, Grounded(d)
  PROVE  Grounded(d)'
<1>1. /\ now \in 0..MaxTime /\ now' \in 0..MaxTime /\ cleaned \in Nat /\ cleaned' \in Nat
      /\ d.read \in Nat /\ d.stored \in Nat
  BY DEF Inv, TypeOK, Decision
<1>2. d.read \in 0..MaxTime
  BY <1>1, ConstantFacts DEF Grounded
<1>3. QED
  BY <1>1, <1>2, Growth, ConstantFacts DEF Grounded

(* An entry that a step leaves alone, with nothing cleaned, stays sound.   *)
LEMMA EntryKept ==
  ASSUME Inv, [Next]_vars, TypeOK', NEW m \in Mode, cache'[m] = cache[m], cleaned' = cleaned
  PROVE  EntrySound(m)'
<1> SUFFICES ASSUME cache'[m] # NoEntry PROVE EntrySound(m)'
  BY DEF EntrySound
<1>1. EntrySound(m) /\ cache[m].decision \in Decision
  BY EntryFacts DEF Inv
<1>2. PICK d \in Decision : d = cache[m].decision
  BY <1>1
<1>3. Grounded(d) /\ Grounded(d)'
  BY <1>1, <1>2, GroundedStable DEF EntrySound, Grounded
<1>4. QED
  BY <1>1, <1>2, <1>3 DEF EntrySound, Grounded

(* A call that a step leaves alone stays sound; a tick must leave it time. *)
LEMMA CallKept ==
  ASSUME Inv, [Next]_vars, TypeOK', NEW p \in Reader, req'[p] = req[p], pc'[p] = pc[p],
         pc[p] \in {"look", "store"} => now' <= req[p].at + Lag
  PROVE  CallSound(p)' /\ DecisionSound(p)'
<1>0. /\ now \in 0..MaxTime /\ now' \in 0..MaxTime /\ cleaned \in Nat /\ cleaned' \in Nat
      /\ CallSound(p) /\ DecisionSound(p)
  BY DEF Inv, TypeOK
<1>1. CallSound(p)'
  <2>1. CASE pc[p] \in {"look", "bypassed", "store", "answered"}
    <3>1. /\ req[p] \in Call /\ req[p].at \in Nat /\ req[p].clean \in Nat /\ req[p].at <= now
          /\ req[p].rule \in log[req[p].at] /\ req[p].clean <= cleaned
      BY <1>0, <2>1 DEF CallSound, Call
    <3>2. req[p].at \in 0..MaxTime
      BY <1>0, <3>1, ConstantFacts
    <3>3. req[p].rule \in log'[req[p].at]
      BY <3>1, <3>2, Growth
    <3>4. req[p].at <= now' /\ req[p].clean <= cleaned'
      BY <1>0, <3>1, Growth
    <3>5. QED
      BY <1>0, <3>1, <3>3, <3>4 DEF CallSound
  <2>2. CASE pc[p] \notin {"look", "bypassed", "store", "answered"}
    BY <2>2 DEF CallSound
  <2>3. QED
    BY <2>1, <2>2
<1>2. DecisionSound(p)'
  <2> SUFFICES ASSUME Decided(p)' PROVE DecisionSound(p)'
    BY DEF DecisionSound
  <2>1. Decided(p) /\ req[p] \in Call /\ req[p].decision \in Decision
    BY DEF Decided, Given, Inv, TypeOK
  <2>2. PICK d \in Decision : d = req[p].decision
    BY <2>1
  <2>3. Grounded(d)'
    BY <1>0, <2>1, <2>2, GroundedStable DEF DecisionSound, Grounded
  <2>4. now <= now' /\ req[p].done \in Nat
    BY <2>1, Growth DEF Call
  <2>5. QED
    BY <1>0, <2>1, <2>2, <2>3, <2>4 DEF DecisionSound, Grounded, FiltersResolvedFor
<1>3. QED
  BY <1>1, <1>2

-----------------------------------------------------------------------------
(* The inductive invariant                                                 *)

LEMMA InitInv == Init => Inv
<1> SUFFICES ASSUME Init PROVE Inv
  OBVIOUS
<1>1. TypeOK
  BY InitType
<1>2. Applicable(rules) \in log[now] /\ cleaned <= edits
  BY ConstantFacts DEF Init
<1>3. \A m \in Mode : EntrySound(m)
  BY DEF Init, EntrySound
<1>4. \A p \in Reader : CallSound(p) /\ DecisionSound(p)
  BY ConstantFacts DEF Init, CallSound, DecisionSound, Decided
<1>5. QED
  BY <1>1, <1>2, <1>3, <1>4 DEF Inv

(* The rules of the current tick are logged, and none is cleaned before    *)
(* its edit.                                                               *)
LEMMA LogStep ==
  ASSUME Inv, [Next]_vars
  PROVE  (Applicable(rules) \in log[now])' /\ cleaned' <= edits'
<1> USE ConstantFacts DEF Inv, TypeOK, Applicable
<1>1. ASSUME NEW p \in Reader, Decide(p)
      PROVE  rules' = rules /\ now' = now /\ cleaned' = cleaned /\ log' = log /\ edits' = edits
  BY <1>1 DEF Decide, Read, Bypass, DepartmentDenies, AnswerFromCache, Compute,
         Unclassified, Refuse, Store
<1>2. ASSUME NEW e \in Editor, NEW k \in Resource, CommitEdit(e, k) \/ CommitDelete(e, k)
      PROVE  (Applicable(rules) \in log[now])' /\ cleaned' <= edits'
  BY <1>2 DEF CommitEdit, CommitDelete, Logged
<1>3. ASSUME NEW e \in Editor, Invalidate(e)
      PROVE  (Applicable(rules) \in log[now])' /\ cleaned' <= edits'
  BY <1>3 DEF Invalidate
<1>4. ASSUME NEW e \in Editor, EditCrash(e)
      PROVE  (Applicable(rules) \in log[now])' /\ cleaned' <= edits'
  BY <1>4 DEF EditCrash
<1>5. ASSUME (\E s \in Source : Scan(s)) \/ RedisToggles \/ UNCHANGED vars
      PROVE  (Applicable(rules) \in log[now])' /\ cleaned' <= edits'
  BY <1>5 DEF Scan, RedisToggles, vars
<1>6. CASE Tick
  BY <1>6 DEF Tick
<1>7. QED
  BY <1>1, <1>2, <1>3, <1>4, <1>5, <1>6 DEF Next, Edit

(* A call that begins reads the rules of the moment.                       *)
LEMMA OpenStep ==
  ASSUME Inv, [Next]_vars, TypeOK', NEW p \in Reader, NEW s \in Source,
         Read(p, s) \/ Bypass(p, s)
  PROVE  CallSound(p)' /\ DecisionSound(p)'
<1>0. /\ now \in Nat /\ cleaned \in Nat /\ Lag \in Nat /\ Applicable(rules) \in log[now]
      /\ req \in [Reader -> Call \cup {NoCall}] /\ pc \in [Reader \cup Editor -> Label]
      /\ p \in Reader \cup Editor
  BY ConstantFacts DEF Inv, TypeOK
<1>1. /\ req'[p].at = now /\ req'[p].rule = Applicable(rules) /\ req'[p].clean = cleaned
      /\ log' = log /\ now' = now /\ cleaned' = cleaned /\ pc'[p] \in {"look", "bypassed"}
      /\ pc'[p] = "bypassed" => AdminRole /\ FALSE \in MaskingSettings
  <2>1. CASE Read(p, s)
    <3>1. req'[p] = Opened(s) /\ pc'[p] = "look"
      BY <1>0, <2>1 DEF Read
    <3>2. /\ Opened(s).at = now /\ Opened(s).rule = Applicable(rules)
          /\ Opened(s).clean = cleaned
      BY DEF Opened
    <3>3. log' = log /\ now' = now /\ cleaned' = cleaned
      BY <2>1 DEF Read
    <3>4. QED
      BY <3>1, <3>2, <3>3
  <2>2. CASE Bypass(p, s)
    <3> DEFINE d == [rule |-> NoRule, source |-> s, user |-> None, seen |-> edits,
                     stored |-> cleaned, read |-> now, checked |-> now]
    <3>1. /\ req'[p] = [Opened(s) EXCEPT !.decision = d]
          /\ pc'[p] = "bypassed" /\ AdminRole /\ FALSE \in MaskingSettings
      BY <1>0, <2>2 DEF Bypass
    <3> HIDE DEF d
    <3>2. /\ [Opened(s) EXCEPT !.decision = d].at = now
          /\ [Opened(s) EXCEPT !.decision = d].rule = Applicable(rules)
          /\ [Opened(s) EXCEPT !.decision = d].clean = cleaned
      BY DEF Opened
    <3>3. log' = log /\ now' = now /\ cleaned' = cleaned
      BY <2>2 DEF Bypass
    <3>4. QED
      BY <3>1, <3>2, <3>3
  <2>3. QED
    BY <2>1, <2>2
<1>2. req'[p] \in Call
  <2>1. \A d \in Decision : Opened(s) \in Call /\ [Opened(s) EXCEPT !.decision = d] \in Call
    BY OpenedIsCall DEF Inv
  <2>2. CASE Read(p, s)
    <3>1. Opened(s) \in Call
      BY ApplicableIsRule, OpenedIsCall DEF Inv
    <3>2. QED
      BY <1>0, <2>2, <3>1 DEF Read
  <2>3. CASE Bypass(p, s)
    BY <1>1, <2>3, <1>0 DEF Bypass, Given, TypeOK
  <2>4. QED
    BY <2>2, <2>3
<1>3. QED
  <2>1. DecisionSound(p)'
    BY <1>1 DEF DecisionSound, Decided
  <2>2. /\ (req[p].at <= now /\ req[p].rule \in log[req[p].at] /\ req[p].clean <= cleaned)'
        /\ (now <= req[p].at + Lag)'
    BY <1>0, <1>1
  <2>3. CallSound(p)'
    BY <1>1, <1>2, <2>2 DEF CallSound
  <2>4. QED
    BY <2>1, <2>3

(* A hit gives what the entry holds, before it expires.                    *)
LEMMA HitStep ==
  ASSUME Inv, [Next]_vars, TypeOK', NEW p \in Reader, AnswerFromCache(p)
  PROVE  CallSound(p)' /\ DecisionSound(p)'
<1> DEFINE m == ModeOf(p)
<1>0. /\ now \in Nat /\ cleaned \in Nat /\ CallSound(p)
      /\ p \in Reader \cup Editor /\ TTL \in Nat /\ Lag \in Nat
      /\ pc \in [Reader \cup Editor -> Label] /\ req \in [Reader -> Call \cup {NoCall}]
  BY ConstantFacts DEF Inv, TypeOK
<1>1. m \in Mode /\ cache[m] # NoEntry /\ now < cache[m].expires /\ ~req[p].rule.filtered
  BY DEF AnswerFromCache, Hit, Live, Cachable, ModeOf, Mode, NoEntry, Inv, TypeOK, Entry
<1>2. cache[m] \in Entry /\ cache[m].expires \in Nat /\ cache[m].decision \in Decision
  BY <1>1, EntryFacts DEF Inv
<1>3. PICK d \in Decision : d = cache[m].decision
  BY <1>2
<1>4. EntrySound(m)
  BY <1>1 DEF Inv
<1>5. /\ Grounded(d) /\ ~d.rule.filtered /\ cache[m].expires <= d.read + Lag + TTL
      /\ d.stored = cleaned /\ d.read \in Nat /\ d.rule \in Rule
  BY <1>1, <1>3, <1>4 DEF EntrySound, Grounded, Decision
<1>6. req[p] \in Call /\ req[p].clean \in Nat /\ req[p].at \in Nat
      /\ req[p].at <= now /\ req[p].rule \in log[req[p].at] /\ req[p].clean <= cleaned
  BY <1>0 DEF CallSound, AnswerFromCache, Call
<1>7. /\ req'[p] = [req[p] EXCEPT !.decision = d, !.done = now] /\ pc'[p] = "answered"
      /\ log' = log /\ now' = now /\ cleaned' = cleaned
  BY <1>0, <1>3 DEF AnswerFromCache, Answered
<1>8. /\ req'[p].decision = d /\ req'[p].done = now /\ req'[p].rule = req[p].rule
      /\ req'[p].clean = req[p].clean /\ req'[p].at = req[p].at /\ req'[p] \in Call
  BY <1>0, <1>6, <1>7 DEF Call
<1>9. CallSound(p)'
  BY <1>6, <1>7, <1>8 DEF CallSound
<1>10. d.user = None
  BY <1>5 DEF Grounded
<1>11. now < d.read + TTL + Lag
  BY <1>0, <1>1, <1>2, <1>5
<1>12. Grounded(d)'
  BY <1>5, <1>7 DEF Grounded
<1>13. FiltersResolvedFor(p)'
  BY <1>1, <1>8, <1>10 DEF FiltersResolvedFor
<1>14. DecisionSound(p)'
  BY <1>0, <1>5, <1>6, <1>7, <1>8, <1>11, <1>12, <1>13 DEF DecisionSound, Grounded
<1>15. QED
  BY <1>9, <1>14

(* A computed decision rests on the rule that was read, Lag ticks ago at   *)
(* most.                                                                   *)
LEMMA ComputeStep ==
  ASSUME Inv, [Next]_vars, TypeOK', NEW p \in Reader,
         Compute(p) \/ (Unclassified(p) /\ pc'[p] # "denied")
  PROVE  CallSound(p)' /\ DecisionSound(p)'
<1>0. /\ now \in Nat /\ cleaned \in Nat /\ CallSound(p)
      /\ p \in Reader \cup Editor /\ TTL \in Nat /\ TTL > 0 /\ Lag \in Nat /\ p # None
      /\ OpenUntil \in Nat
      /\ pc \in [Reader \cup Editor -> Label] /\ req \in [Reader -> Call \cup {NoCall}]
  BY ConstantFacts DEF Inv, TypeOK
<1>1. /\ req[p] \in Call /\ req[p].clean \in Nat /\ req[p].at \in Nat /\ req[p].rule \in Rule
      /\ req[p].at <= now /\ req[p].rule \in log[req[p].at] /\ req[p].clean <= cleaned
      /\ now <= req[p].at + Lag
  BY <1>0 DEF CallSound, Compute, Unclassified, Call
<1>2. PICK d \in Decision : d = Computed(p)
  BY <1>1, ComputedIsDecision DEF Inv
<1>3. /\ d.rule = req[p].rule /\ d.user = IF req[p].rule.filtered THEN p ELSE None
      /\ d.read = req[p].at /\ d.stored = cleaned /\ d.checked = now
  BY <1>2 DEF Computed
<1>4. /\ req'[p] = [req[p] EXCEPT !.decision = d, !.done = now]
      /\ pc'[p] \in {"store", "answered"} /\ (pc'[p] = "store" => ~req[p].rule.filtered)
      /\ log' = log /\ now' = now /\ cleaned' = cleaned
  BY <1>0, <1>2 DEF Compute, Unclassified, Answered, Cachable
<1>5. /\ req'[p].decision = d /\ req'[p].done = now /\ req'[p].rule = req[p].rule
      /\ req'[p].clean = req[p].clean /\ req'[p].at = req[p].at /\ req'[p] \in Call
  BY <1>0, <1>1, <1>2, <1>4 DEF Call
<1>6. CallSound(p)'
  BY <1>1, <1>4, <1>5 DEF CallSound
<1>7. Grounded(d)
  <2>1. d.rule.scheduled /\ ~RoleExempt => now < OpenUntil
    BY <1>3 DEF Compute, Unclassified, ScheduleAllows, HasRule, NoRule
  <2>2. QED
    BY <1>0, <1>1, <1>3, <2>1 DEF Grounded
<1>8. Grounded(d)'
  BY <1>4, <1>7 DEF Grounded
<1>9. FiltersResolvedFor(p)'
  BY <1>3, <1>5 DEF FiltersResolvedFor
<1>10. DecisionSound(p)'
  BY <1>0, <1>1, <1>3, <1>4, <1>5, <1>8, <1>9 DEF DecisionSound, Grounded
<1>11. QED
  BY <1>6, <1>10

(* What goes into the cache was computed from a rule without row filters   *)
(* read Lag ticks ago at most, and lives TTL ticks from now.               *)
LEMMA StoreStep ==
  ASSUME Inv, [Next]_vars, TypeOK', NEW p \in Reader, Store(p)
  PROVE  /\ CallSound(p)' /\ DecisionSound(p)'
         /\ \A m \in Mode : EntrySound(m)' \/ cache'[m] = cache[m]
<1>0. /\ now \in Nat /\ cleaned \in Nat /\ CallSound(p) /\ DecisionSound(p)
      /\ p \in Reader \cup Editor /\ TTL \in Nat /\ TTL > 0 /\ Lag \in Nat
      /\ pc \in [Reader \cup Editor -> Label] /\ req \in [Reader -> Call \cup {NoCall}]
  BY ConstantFacts DEF Inv, TypeOK
<1>1. /\ req[p] \in Call /\ req[p].clean \in Nat /\ req[p].at \in Nat
      /\ req[p].at <= now /\ req[p].rule \in log[req[p].at] /\ req[p].clean <= cleaned
      /\ now <= req[p].at + Lag /\ req[p].decision \in Decision
  BY <1>0 DEF CallSound, Store, Call, Given, Decided, Inv, TypeOK
<1>2. PICK d \in Decision : d = req[p].decision
  BY <1>1
<1>3. /\ Grounded(d) /\ d.read = req[p].at /\ ~req[p].rule.filtered
      /\ FiltersResolvedFor(p) /\ (d.seen < req[p].clean => d.stored >= req[p].clean)
  BY <1>0, <1>2 DEF DecisionSound, Decided, Store, Grounded
<1>4. ~d.rule.filtered /\ d.user = None
  BY <1>2, <1>3 DEF FiltersResolvedFor, Grounded, Decision, Rule
<1>5. /\ req'[p] = [req[p] EXCEPT !.done = now] /\ pc'[p] = "answered"
      /\ log' = log /\ now' = now /\ cleaned' = cleaned
  BY <1>0 DEF Store
<1>6. /\ req'[p].decision = d /\ req'[p].done = now /\ req'[p].rule = req[p].rule
      /\ req'[p].clean = req[p].clean /\ req'[p].at = req[p].at /\ req'[p] \in Call
  BY <1>0, <1>1, <1>2, <1>5 DEF Call
<1>7. CallSound(p)'
  BY <1>1, <1>5, <1>6 DEF CallSound
<1>8. Grounded(d)'
  BY <1>3, <1>5 DEF Grounded
<1>9. FiltersResolvedFor(p)'
  BY <1>2, <1>3, <1>6 DEF FiltersResolvedFor
<1>10. DecisionSound(p)'
  BY <1>0, <1>1, <1>3, <1>5, <1>6, <1>8, <1>9 DEF DecisionSound, Grounded
<1>11. ASSUME NEW m \in Mode, cache'[m] # cache[m] PROVE EntrySound(m)'
  <2>1. redisUp /\ m = ModeOf(p)
    BY <1>11 DEF Store, Inv, TypeOK
  <2>2. [d EXCEPT !.stored = cleaned] \in Decision
    BY <1>0 DEF Decision
  <2>3. PICK x \in Decision : x = [d EXCEPT !.stored = cleaned]
    BY <2>2
  <2>4. cache'[m] = [decision |-> x, expires |-> now + TTL]
    BY <1>2, <2>1, <2>3 DEF Store, Lifetime, Inv, TypeOK
  <2>5. /\ x.rule = d.rule /\ x.user = d.user /\ x.read = d.read
        /\ x.checked = d.checked /\ x.stored = cleaned
    BY <2>3 DEF Decision
  <2>6. Grounded(x)'
    BY <1>0, <1>3, <1>5, <2>5 DEF Grounded
  <2>7. cache'[m].decision = x /\ cache'[m].expires = now + TTL
    BY <2>4
  <2>8. now + TTL <= x.read + Lag + TTL
    BY <1>0, <1>1, <1>3, <2>5
  <2>9. QED
    BY <1>4, <1>5, <2>5, <2>6, <2>7, <2>8 DEF EntrySound, Grounded
<1>12. QED
  BY <1>7, <1>10, <1>11

(* The invariant is inductive.                                             *)
LEMMA InvStep == Inv /\ [Next]_vars => Inv'
<1> SUFFICES ASSUME Inv, [Next]_vars PROVE Inv'
  OBVIOUS
<1>0. TypeOK /\ TypeOK' /\ (Applicable(rules) \in log[now])' /\ cleaned' <= edits'
  BY TypeStep, LogStep DEF Inv
<1> DEFINE Sound == /\ \A m \in Mode : EntrySound(m)'
                    /\ \A p \in Reader : CallSound(p)' /\ DecisionSound(p)'
<1>1. Sound => Inv'
  BY <1>0 DEF Inv
<1>2. ASSUME NEW q \in Reader, pc[q] \in {"look", "store"}
      PROVE  req[q].at \in Nat /\ now <= req[q].at + Lag
  <2>1. CallSound(q)
    BY DEF Inv
  <2>2. req[q] \in Call
    BY <1>2, <2>1 DEF CallSound
  <2>3. QED
    BY <1>2, <2>1, <2>2 DEF CallSound, Call
<1>3. ASSUME cache' = cache, cleaned' = cleaned PROVE \A m \in Mode : EntrySound(m)'
  BY <1>0, <1>3, EntryKept
<1>4. ASSUME NEW p \in Reader, now' = now, req' = [req EXCEPT ![p] = req'[p]],
             pc' = [pc EXCEPT ![p] = pc'[p]], CallSound(p)' /\ DecisionSound(p)'
      PROVE  \A q \in Reader : CallSound(q)' /\ DecisionSound(q)'
  <2> TAKE q \in Reader
  <2>1. CASE q # p
    BY <1>0, <1>2, <1>4, <2>1, CallKept, ConstantFacts DEF TypeOK
  <2>2. QED
    BY <1>4, <2>1
<1>5. ASSUME now' = now, req' = req, \A q \in Reader : pc'[q] = pc[q]
      PROVE  \A q \in Reader : CallSound(q)' /\ DecisionSound(q)'
  BY <1>0, <1>2, <1>5, CallKept
<1>6. ASSUME NEW p \in Reader, NEW s \in Source, Read(p, s) \/ Bypass(p, s) PROVE Sound
  <2>1. CallSound(p)' /\ DecisionSound(p)'
    BY <1>0, <1>6, OpenStep
  <2>2. /\ cache' = cache /\ cleaned' = cleaned /\ now' = now
        /\ req' = [req EXCEPT ![p] = req'[p]] /\ pc' = [pc EXCEPT ![p] = pc'[p]]
    BY <1>0, <1>6, ConstantFacts DEF Read, Bypass, TypeOK
  <2>3. QED
    BY <2>1, <2>2, <1>3, <1>4
<1>7. ASSUME NEW p \in Reader, (\E s \in Source : DepartmentDenies(p, s)) \/ Refuse(p)
                               \/ (Unclassified(p) /\ pc'[p] = "denied")
      PROVE  Sound
  <2>1. CallSound(p)' /\ DecisionSound(p)'
    <3>1. pc'[p] = "denied"
      BY <1>0, <1>7, ConstantFacts DEF DepartmentDenies, Refuse, Unclassified, TypeOK
    <3>2. QED
      BY <3>1 DEF CallSound, DecisionSound, Decided
  <2>2. /\ cache' = cache /\ cleaned' = cleaned /\ now' = now
        /\ req' = [req EXCEPT ![p] = req'[p]] /\ pc' = [pc EXCEPT ![p] = pc'[p]]
    BY <1>0, <1>7, ConstantFacts DEF DepartmentDenies, Refuse, Unclassified, TypeOK
  <2>3. QED
    BY <2>1, <2>2, <1>3, <1>4
<1>8. ASSUME NEW p \in Reader, AnswerFromCache(p) \/ Compute(p)
                               \/ (Unclassified(p) /\ pc'[p] # "denied")
      PROVE  Sound
  <2>1. CallSound(p)' /\ DecisionSound(p)'
    BY <1>0, <1>8, HitStep, ComputeStep
  <2>2. /\ cache' = cache /\ cleaned' = cleaned /\ now' = now
        /\ req' = [req EXCEPT ![p] = req'[p]] /\ pc' = [pc EXCEPT ![p] = pc'[p]]
    BY <1>0, <1>8, ConstantFacts DEF AnswerFromCache, Compute, Unclassified, TypeOK
  <2>3. QED
    BY <2>1, <2>2, <1>3, <1>4
<1>9. ASSUME NEW p \in Reader, Store(p) PROVE Sound
  <2>1. /\ CallSound(p)' /\ DecisionSound(p)'
        /\ \A m \in Mode : EntrySound(m)' \/ cache'[m] = cache[m]
    BY <1>0, <1>9, StoreStep
  <2>2. cleaned' = cleaned /\ now' = now
    BY <1>9 DEF Store
  <2>3. req' = [req EXCEPT ![p] = req'[p]] /\ pc' = [pc EXCEPT ![p] = pc'[p]]
    <3>1. req' = [req EXCEPT ![p] = [req[p] EXCEPT !.done = now]]
      BY <1>9 DEF Store
    <3>2. QED
      BY <1>0, <1>9, <3>1, ConstantFacts DEF Store, TypeOK
  <2>4. \A m \in Mode : EntrySound(m)'
    BY <1>0, <2>1, <2>2, EntryKept
  <2>5. QED
    BY <2>1, <2>2, <2>3, <2>4, <1>4
<1>10. ASSUME NEW e \in Editor, NEW k \in Resource, CommitEdit(e, k) \/ CommitDelete(e, k)
       PROVE  Sound
  <2>1. cache' = cache /\ cleaned' = cleaned /\ now' = now /\ req' = req
    BY <1>10 DEF CommitEdit, CommitDelete
  <2>2. /\ pc[e] = "new" /\ pc'[e] \in {"committed", "returned"}
        /\ \A q \in Reader : q # e => pc'[q] = pc[q]
    BY <1>0, <1>10, ConstantFacts DEF CommitEdit, CommitDelete, TypeOK
  <2>3. \A q \in Reader : CallSound(q)' /\ DecisionSound(q)'
    <3> TAKE q \in Reader
    <3>1. CASE q = e
      BY <2>2, <3>1 DEF CallSound, DecisionSound, Decided
    <3>2. CASE q # e
      BY <1>0, <1>2, <2>1, <2>2, <3>2, CallKept
    <3>3. QED
      BY <3>1, <3>2
  <2>4. QED
    BY <2>1, <2>3, <1>3
<1>11. ASSUME NEW e \in Editor, Invalidate(e) \/ EditCrash(e) PROVE Sound
  <2>1. /\ now' = now /\ req' = req /\ pc'[e] \in {"returned", "crashed"}
        /\ \A q \in Reader : q # e => pc'[q] = pc[q]
    BY <1>0, <1>11, ConstantFacts DEF Invalidate, EditCrash, TypeOK
  <2>2. \A q \in Reader : CallSound(q)' /\ DecisionSound(q)'
    <3> TAKE q \in Reader
    <3>1. CASE q = e
      BY <2>1, <3>1 DEF CallSound, DecisionSound, Decided
    <3>2. CASE q # e
      BY <1>0, <1>2, <2>1, <3>2, CallKept
    <3>3. QED
      BY <3>1, <3>2
  <2>3. CASE cache' = cache /\ cleaned' = cleaned
    BY <2>2, <2>3, <1>3
  <2>4. CASE cache' = Swept
    BY <2>2, <2>4 DEF EntrySound, Swept
  <2>5. QED
    BY <1>11, <2>3, <2>4 DEF Invalidate, EditCrash
<1>12. ASSUME (\E s \in Source : Scan(s)) \/ RedisToggles \/ UNCHANGED vars PROVE Sound
  <2>1. cache' = cache /\ cleaned' = cleaned /\ now' = now /\ req' = req /\ pc' = pc
    BY <1>12 DEF Scan, RedisToggles, vars
  <2>2. QED
    BY <2>1, <1>3, <1>5
<1>13. ASSUME Tick PROVE Sound
  <2>1. cache' = cache /\ cleaned' = cleaned /\ req' = req /\ pc' = pc /\ now' = now + 1
    BY <1>13 DEF Tick
  <2>2. ASSUME NEW q \in Reader, pc[q] \in {"look", "store"} PROVE now' <= req[q].at + Lag
    <3>1. now < req[q].at + Lag
      BY <1>13, <2>2 DEF Tick
    <3>2. now \in Nat
      BY <1>0, ConstantFacts DEF TypeOK
    <3>3. QED
      BY <1>2, <2>1, <2>2, <3>1, <3>2, ConstantFacts
  <2>3. \A q \in Reader : CallSound(q)' /\ DecisionSound(q)'
    BY <1>0, <2>1, <2>2, CallKept
  <2>4. \A m \in Mode : EntrySound(m)'
    BY <2>1, <1>3
  <2>5. QED
    BY <2>3, <2>4
<1> HIDE DEF Sound
<1>14. Sound
  BY <1>6, <1>7, <1>8, <1>9, <1>10, <1>11, <1>12, <1>13 DEF Next, Decide, Edit
<1>15. QED
  BY <1>1, <1>14

-----------------------------------------------------------------------------
(* The theorems                                                            *)

(* The inductive invariant holds in every reachable state of decide, the   *)
(* cache and the handlers that edit rules.                                 *)
THEOREM Invariance == Spec => []Inv
<1>1. Init => Inv
  BY InitInv
<1>2. Inv /\ [Next]_vars => Inv'
  BY InvStep
<1>3. QED
  BY <1>1, <1>2, PTL DEF Spec

(* A decision given by decide rests on a rule that was in force less than  *)
(* the lifetime of a cache entry and the duration of one call before,      *)
(* whatever invalidations are lost, skipped or overtaken.                  *)
THEOREM StalenessBound == Spec => []StaleBounded
<1>1. Inv => StaleBounded
  <2> SUFFICES ASSUME Inv, NEW p \in Reader, Decided(p)
      PROVE  \E t \in 0..MaxTime : /\ req[p].done < t + TTL + Lag
                                  /\ req[p].decision.rule \in log[t]
    BY DEF StaleBounded
  <2>1. PICK d \in Decision : d = req[p].decision
    BY DEF Inv, TypeOK, Given
  <2>2. DecisionSound(p)
    BY DEF Inv
  <2>3. /\ d.read <= now /\ d.rule \in log[d.read] /\ req[p].done < d.read + TTL + Lag
        /\ d.read \in Nat /\ now \in 0..MaxTime
    BY <2>1, <2>2 DEF DecisionSound, Grounded, Decision, Inv, TypeOK
  <2>4. d.read \in 0..MaxTime
    BY <2>3, ConstantFacts
  <2>5. QED
    BY <2>1, <2>3, <2>4
<1>2. QED
  BY <1>1, Invariance, PTL

(* No call is given row filters with the attributes of another user from   *)
(* the cache entry their role shares.                                      *)
THEOREM FiltersAreOwn == Spec => []OwnRowFilters
<1>1. Inv => OwnRowFilters
  BY DEF Inv, DecisionSound, OwnRowFilters
<1>2. QED
  BY <1>1, Invariance, PTL

(* Invalidation leaves nothing stale behind: only a fill that was under    *)
(* way does.                                                               *)
THEOREM StaleOnlyOvertaken == Spec => []StaleOnlyByRace
<1>1. Inv => StaleOnlyByRace
  BY DEF Inv, DecisionSound, StaleOnlyByRace
<1>2. QED
  BY <1>1, Invariance, PTL

(* A rule whose allowed hours are over is not applied for longer than an   *)
(* entry lives and a call takes.                                           *)
THEOREM OverrunBound == Spec => []ScheduleOverrunBounded
<1>1. Inv => ScheduleOverrunBounded
  <2> SUFFICES ASSUME Inv, NEW p \in Reader, Decided(p),
                      req[p].decision.rule.scheduled /\ ~RoleExempt
      PROVE  req[p].done < OpenUntil + TTL + Lag
    BY DEF ScheduleOverrunBounded
  <2>1. PICK d \in Decision : d = req[p].decision
    BY DEF Inv, TypeOK, Given
  <2>2. DecisionSound(p) /\ req[p] \in Call
    BY DEF Inv, TypeOK, Given
  <2>3. /\ d.checked < OpenUntil /\ d.checked >= d.read /\ req[p].done < d.read + TTL + Lag
        /\ d.read \in Nat /\ d.checked \in Nat /\ req[p].done \in Nat
    BY <2>1, <2>2 DEF DecisionSound, Grounded, Decision, Call
  <2>4. QED
    BY <2>3, ConstantFacts
<1>2. QED
  BY <1>1, Invariance, PTL
=============================================================================
