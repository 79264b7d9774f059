------------------------------ MODULE DamAgent ------------------------------
(* The monitoring agent beside a database (backend/agent) and the two sides *)
(* of the server it talks to: its registration with the policy it polls     *)
(* (app/api/agents.py) and the events it reports (app/api/security.py).     *)
(* The agent is one goroutine: a check lists the sessions once, judges them *)
(* by the policy it holds, and for each violation tells the session to end  *)
(* (block mode) and reports it before it looks at the next one.  Sessions   *)
(* come, go and reuse process numbers meanwhile.  A report is posted up to  *)
(* MaxAttempts times; a request the agent gave up on may still be handled.  *)
EXTENDS Integers, FiniteSets

CONSTANTS
    Pids,           \* process numbers of the monitored server
    ClientOf,       \* session -> the record [user, ip] of its client
    LocalPostgres,  \* the client that is always authorized
    Users, IPs,     \* users and addresses a policy may name
    NoIP,           \* no address: the client is on a local socket
    Ops,            \* kinds of statements
    CliPolicy,      \* the policy of the command line
    DefaultPolicy,  \* the policy of a new registration
    Policies,       \* the policies a PATCH may result in
    Slots,          \* request handlers of the API server: 1..n
    Nil,
    Threshold,      \* events of an address that make the next one blocked
    MaxAttempts,    \* attempts of one post
    MaxSessions, MaxEvents \* bounds

Policy == [ips: SUBSET IPs, users: SUBSET Users,
           ops: SUBSET Ops, block: BOOLEAN, alert: BOOLEAN]

\* hit is history: the session that an order to end reached, if any.
Sids == 1..MaxSessions
Reports == [pid: Pids, sid: Sids, blocked: BOOLEAN, hit: Sids \cup {Nil}]
Requests == [pid: Pids, sid: Sids, live: BOOLEAN, blocked: BOOLEAN, auto: BOOLEAN,
             hit: Sids \cup {Nil}]

ASSUME DamAgentAssumption ==
    /\ ClientOf \in [Sids -> [user: Users, ip: IPs \cup {NoIP}]]
    /\ CliPolicy \in Policy /\ DefaultPolicy \in Policy /\ Policies \subseteq Policy
    /\ {Threshold, MaxAttempts, MaxSessions, MaxEvents} \subseteq Nat
    /\ Nil \notin Nat \cup Reports \cup Requests /\ MaxAttempts > 0

VARIABLES
    sess,      \* process number -> the session that has it, or Nil; a session
               \* runs one statement after another, so a listing may show any
    born,      \* sessions opened so far
    row,       \* the agent's registration; key: is it the one the agent has?
    agent,     \* the agent process
    handlers,  \* slot -> the request it handles, or Nil
    events     \* security_events: rows with the number each was given
agentVars == <<sess, born, row, agent, handlers, events>>
database == <<sess, born>>

----------------------------------------------------------------------------
\* The judgement of one session (main.go).

IsUserAllowed(user, users) == users = {} \/ user \in users
IsIPAllowed(ip, ips) == ips = {} \/ (ip # NoIP /\ ip \in ips)
Authorized(c, p) ==
    \/ IsUserAllowed(c.user, p.users) /\ IsIPAllowed(c.ip, p.ips)
    \/ c = LocalPostgres
IsBlockedOp(op, p) == op \in p.ops

\* A clean session is passed over; with alerts on bypass switched off so is
\* an unauthorized one, before it could be terminated.
Handled(c, op, p) ==
    /\ ~Authorized(c, p) \/ IsBlockedOp(op, p)
    /\ p.alert \/ Authorized(c, p)

----------------------------------------------------------------------------
\* The rows the server reads.

Recent(e) == ~e.old
DuplicateOfKill(ev) == \E e \in events : Recent(e) /\ e.pid = ev.pid /\ e.blocked
Duplicate(ev) == \E e \in events : Recent(e) /\ e.pid = ev.pid
SameIP(x, y) == ClientOf[x.sid].ip = ClientOf[y.sid].ip
AutoBlocked(ev) ==
    /\ ClientOf[ev.sid].ip # NoIP
    /\ Cardinality({e \in events : Recent(e) /\ SameIP(e, ev)}) >= Threshold
Unused == {n \in 1..MaxEvents : \A e \in events : e.id # n}
KeyAccepted == row.key = "agent's"
Deleted == row.key = "deleted"

Registered == [key |-> "agent's", policy |-> DefaultPolicy]
Started ==
    [pc |-> "idle", policy |-> CliPolicy, todo |-> {},
     report |-> Nil, attempt |-> 0]
AtRest(a) == [a EXCEPT !.pc = "idle", !.todo = {}, !.report = Nil, !.attempt = 0]

AgentInit ==
    /\ sess = [p \in Pids |-> Nil] /\ born = 0
    /\ row = Registered
    /\ agent = Started
    /\ handlers = [h \in Slots |-> Nil]
    /\ events = {}

----------------------------------------------------------------------------
\* The monitored database.

Connect(p) ==
    /\ sess[p] = Nil /\ born < MaxSessions
    /\ born' = born + 1
    /\ sess' = [sess EXCEPT ![p] = born']
    /\ UNCHANGED <<row, agent, handlers, events>>

\* A session ends: its client leaves, or it comes to act on an order to end.
Disconnect(p) ==
    /\ sess[p] # Nil
    /\ sess' = [sess EXCEPT ![p] = Nil]
    /\ UNCHANGED <<born, row, agent, handlers, events>>

----------------------------------------------------------------------------
\* The administrator.

PatchConfig ==
    /\ ~Deleted
    /\ \E p \in Policies : row' = [row EXCEPT !.policy = p]
    /\ UNCHANGED <<database, agent, handlers, events>>

RotateKey ==
    /\ ~Deleted
    /\ row' = [row EXCEPT !.key = "rotated"]
    /\ UNCHANGED <<database, agent, handlers, events>>

\* The foreign key of security_events refuses the delete while events exist.
DeleteAgent ==
    /\ ~Deleted
    /\ events = {}
    /\ row' = [row EXCEPT !.key = "deleted"]
    /\ UNCHANGED <<database, agent, handlers, events>>

\* Deletes the events that users have acknowledged by then.
ClearAcknowledged ==
    /\ \E acknowledged \in SUBSET events :
           acknowledged # {} /\ events' = events \ acknowledged
    /\ UNCHANGED <<database, row, agent, handlers>>
----------------------------------------------------------------------------
\* The agent.

Adopt(p) == [agent EXCEPT !.policy = p]

\* A poll that fails, or is refused because the key is not known any more,
\* leaves the policy as it is (and is not a step here).
PollConfig ==
    /\ agent.pc = "idle" /\ KeyAccepted
    /\ agent' = Adopt(row.policy)
    /\ UNCHANGED <<database, row, handlers, events>>

\* The list may lack sessions: an error is ignored and what was read before it
\* is checked; some monitors list active sessions only.
Listings == SUBSET {p \in Pids : sess[p] # Nil}

StartCheck ==
    /\ agent.pc = "idle"
    /\ \E seen \in Listings, op \in [Pids -> Ops] :
           LET handled == {p \in seen : Handled(ClientOf[sess[p]], op[p], agent.policy)}
           IN  /\ handled # {}
               /\ agent' = [agent EXCEPT !.pc = "check",
                     !.todo = {[pid |-> p, sid |-> sess[p]] : p \in handled}]
    /\ UNCHANGED <<database, row, handlers, events>>

Reporting(s, blocked, hit) ==
    [agent EXCEPT !.pc = "post", !.attempt = 1, !.todo = @ \ {s},
                  !.report = [pid |-> s.pid, sid |-> s.sid, blocked |-> blocked, hit |-> hit]]

\* Without block mode, or when Terminate fails, the session is reported only.
DetectAsBlocked(s) ==
    /\ agent.pc = "check" /\ s \in agent.todo
    /\ agent' = Reporting(s, agent.policy.block, Nil)
    /\ UNCHANGED <<database, row, handlers, events>>
Detect(s) ==
    /\ agent.pc = "check" /\ s \in agent.todo
    /\ agent' = Reporting(s, FALSE, Nil)
    /\ UNCHANGED <<database, row, handlers, events>>

\* Terminate orders whatever has the process number now to end.  That nobody
\* has it is an error or, on PostgreSQL, a result nobody looks at; whether and
\* when the order is carried out nobody asks.
Terminate(s) ==
    /\ agent.pc = "check" /\ s \in agent.todo /\ agent.policy.block
    /\ agent' = Reporting(s, TRUE, sess[s.pid])
    /\ UNCHANGED <<database, row, handlers, events>>

\* On to the next session of the check, or back to the tickers.
NextSession ==
    IF agent.todo = {} THEN AtRest(agent)
    ELSE [agent EXCEPT !.pc = "check", !.report = Nil, !.attempt = 0]

Delivered == NextSession
Retry == [agent EXCEPT !.pc = "post", !.attempt = @ + 1]

\* A network error or a 5xx: post again, or give the event up.
FailAttemptForever == agent' = [agent EXCEPT !.pc = "post"]
FailAttempt ==
    IF agent.attempt < MaxAttempts
    THEN agent' = Retry
    ELSE agent' = NextSession

PostFails ==
    /\ agent.pc = "post"
    /\ FailAttempt
    /\ UNCHANGED <<database, row, handlers, events>>

PostRefused ==
    /\ agent.pc = "post" /\ ~KeyAccepted
    /\ agent' = NextSession
    /\ UNCHANGED <<database, row, handlers, events>>

\* receive_activity looks for an event of that process number first ...
PostDuplicate ==
    /\ agent.pc = "post" /\ KeyAccepted /\ Duplicate(agent.report)
    /\ \/ agent' = Delivered
       \/ FailAttempt                \* the answer is lost
    /\ UNCHANGED <<database, row, handlers, events>>

\* ... and counts those of the address, before it inserts.
PostReceived(h) ==
    /\ agent.pc = "post" /\ KeyAccepted /\ ~Duplicate(agent.report)
    /\ handlers[h] = Nil /\ \A g \in Slots : handlers[g] = Nil => h <= g
    /\ Cardinality(events) + Cardinality({g \in Slots : handlers[g] # Nil}) < MaxEvents
    /\ handlers' = [handlers EXCEPT ![h] = [
          pid |-> agent.report.pid, sid |-> agent.report.sid, live |-> TRUE,
          blocked |-> agent.report.blocked, auto |-> AutoBlocked(agent.report),
          hit |-> agent.report.hit]]
    /\ agent' = [agent EXCEPT !.pc = "wait"]
    /\ UNCHANGED <<database, row, events>>

\* The client's ten seconds are over, or the connection breaks.
GiveUpWaiting ==
    /\ agent.pc = "wait"
    /\ FailAttempt
    /\ handlers' = [h \in Slots |->
          IF handlers[h] = Nil THEN Nil ELSE [handlers[h] EXCEPT !.live = FALSE]]
    /\ UNCHANGED <<database, row, events>>

\* The insert; the alert that follows it changes no state.
Record(h) ==
    /\ handlers[h] # Nil /\ ~Deleted
    /\ \E n \in Unused :
           /\ \A m \in Unused : n <= m
           /\ events' = events \cup {[
                 id |-> n, pid |-> handlers[h].pid, sid |-> handlers[h].sid, old |-> FALSE,
                 blocked |-> handlers[h].blocked \/ handlers[h].auto,
                 auto |-> handlers[h].auto, hit |-> handlers[h].hit,
                 late |-> ~handlers[h].live]}
    /\ handlers' = [handlers EXCEPT ![h] = Nil]
    /\ IF handlers[h].live THEN agent' = Delivered ELSE UNCHANGED agent
    /\ UNCHANGED <<database, row>>

\* The registration was deleted under the handler: the insert fails.
RecordFails(h) ==
    /\ handlers[h] # Nil /\ Deleted
    /\ handlers' = [handlers EXCEPT ![h] = Nil]
    /\ IF handlers[h].live THEN FailAttempt ELSE UNCHANGED agent
    /\ UNCHANGED <<database, row, events>>

\* The process dies and starts again with the flags of its command line, and
\* with the new key if the administrator brought it one.
Restart ==
    /\ agent' = Started
    /\ \/ UNCHANGED row
       \/ row.key = "rotated" /\ row' = [row EXCEPT !.key = "agent's"]
    /\ handlers' = [h \in Slots |->
          IF handlers[h] = Nil THEN Nil ELSE [handlers[h] EXCEPT !.live = FALSE]]
    /\ UNCHANGED <<database, events>>

\* The five minutes of deduplication and threshold pass.  A check and the
\* requests it makes end within them: a post is given up after seconds.
WindowPasses ==
    /\ agent.pc = "idle" /\ \A h \in Slots : handlers[h] = Nil
    /\ events' = {[e EXCEPT !.old = TRUE] : e \in events}
    /\ UNCHANGED <<database, row, agent, handlers>>

Environment ==
    \/ \E p \in Pids : Connect(p) \/ Disconnect(p)
    \/ PatchConfig \/ RotateKey \/ DeleteAgent
    \/ ClearAcknowledged
    \/ Restart
    \/ WindowPasses
Judge == \E s \in agent.todo : Detect(s) \/ Terminate(s)
Post == PostFails \/ PostRefused \/ PostDuplicate \/ GiveUpWaiting
    \/ \E h \in Slots : PostReceived(h)
Handle(h) == Record(h) \/ RecordFails(h)

AgentNext == Environment \/ PollConfig \/ StartCheck \/ Judge \/ Post \/ \E h \in Slots : Handle(h)
AgentSpec == AgentInit /\ [][AgentNext]_agentVars

\* The agent's loop runs and its posts end by their time limits; the tickers
\* are served in random order, so a poll that can succeed again and again
\* does succeed some time.
Fairness == WF_agentVars(Judge) /\ WF_agentVars(Post) /\ SF_agentVars(PollConfig)
FairSpec == AgentSpec /\ Fairness

----------------------------------------------------------------------------
\* Every variable has its type; a request the agent waits for is being
\* handled, and at most one is.
AgentTypeOK ==
    /\ sess \in [Pids -> Sids \cup {Nil}]
    /\ born \in 0..MaxSessions
    /\ row \in [key: {"agent's", "rotated", "deleted"}, policy: Policy]
    /\ agent \in [pc: {"idle", "check", "post", "wait"}, policy: Policy,
                  todo: SUBSET [pid: Pids, sid: Sids],
                  report: Reports \cup {Nil}, attempt: 0..MaxAttempts]
    /\ handlers \in [Slots -> Requests \cup {Nil}]
    /\ events \subseteq [id: 1..MaxEvents, pid: Pids, sid: Sids, old: BOOLEAN,
                         blocked: BOOLEAN, auto: BOOLEAN, late: BOOLEAN, hit: Sids \cup {Nil}]
    /\ agent.pc = "wait" <=> \E h \in Slots : handlers[h] # Nil /\ handlers[h].live
    /\ \A g, h \in Slots :
           (handlers[g] # Nil /\ handlers[h] # Nil) /\ handlers[g].live /\ handlers[h].live => g = h

Gone(sid) == sid <= born /\ \A p \in Pids : sess[p] # sid
Ordered(x) == x.hit = x.sid \/ (Gone(x.sid) /\ (x.hit = Nil \/ x.hit > x.sid))

\* An event that says "blocked" means that an order to end went out for the
\* session it names, and that the order reached it or found it over: the other
\* session it may have reached then has come later.  Where the threshold set
\* the flag it means nothing of the kind.
BlockedTruthful ==
    \A e \in events : e.blocked /\ ~e.auto => Ordered(e)

\* "The agent's Block Mode terminates sessions it judges unauthorized": an
\* order to end reaches the session that was judged, or none.
OnlyJudgedTerminated == \A e \in events : e.hit \in {e.sid, Nil}

\* Two events of one process number within the window appear only when the
\* agent had given up waiting for the request of one of them.
DuplicatesOnlyAfterTimeout ==
    \A e, f \in events :
        e.id # f.id /\ e.pid = f.pid /\ Recent(e) /\ Recent(f) => e.late \/ f.late

\* While its key stays accepted the agent keeps coming back to the policy of
\* the server, whatever posts, restarts and checks come in between: a PATCH is
\* adopted some time, and a restart does not leave the command line in force.
AdoptsPolicy == <>[]KeyAccepted => []<>(agent.policy = row.policy)
=============================================================================
