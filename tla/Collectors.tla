----------------------------- MODULE Collectors -----------------------------
(***************************************************************************)
(* The three programs that collect quotes and how they use storage.py:     *)
(*   quote    quoting.execute: one run, one cycle per market               *)
(*   monitor  monitor.execute: one run of a campaign, one cycle per due    *)
(*            opportunity, resumed by the next process after a stop        *)
(*   refresh  the quote stage of dashboard.run_job: one run per batch      *)
(* Every database write is an action of CollectorStore; this module adds   *)
(* which one a program performs next, from what it read and remembers.     *)
(*                                                                         *)
(* A process may be killed, lose its connection, see a statement fail or   *)
(* raise for a reason of its own between any two of its steps.             *)
(***************************************************************************)
EXTENDS CollectorStore, Integers

CONSTANTS
    Kinds,         \* which of the three programs are launched
    Provider, Valuation,
    MaxAttempts,   \* QuoteConfig.max_retries + 1
    SourcesOf,     \* providers applicable() to a ticker
    Unresolved,    \* tickers the instrument catalog does not list
    BatchSize,     \* dashboard.BATCH_SIZE
    Opens,         \* times at which a market is polled (the exchange calendar)
    Duration,      \* QuoteConfig.campaign_duration_days
    Poll,          \* QuoteConfig.poll_interval_seconds
    MaxTime        \* bound: the clock stops here

ASSUME KindAssumption == Kinds \subseteq {"quote", "monitor", "refresh"}
ASSUME SlotAssumption ==
    /\ MaxAttempts \in Nat \ {0}
    /\ Slot = Provider \X (1..MaxAttempts)
    /\ Valuation \in Provider
    /\ SourcesOf \in [Ticker -> SUBSET Provider]
    /\ \A t \in Ticker : Valuation \in SourcesOf[t]
    /\ Unresolved \subseteq Ticker
    /\ BatchSize \in Nat \ {0}
ASSUME SlotNone == None \notin Ticker \X Provider \X (1..MaxAttempts)
ASSUME TimeNone == None \notin 0..MaxTime
ASSUME TimeAssumption ==
    /\ MaxTime \in Nat /\ Duration \in Nat \ {0} /\ Poll \in Nat \ {0}
    /\ Opens \in [Market -> SUBSET (0..MaxTime)]
    /\ Opportunity = Campaign \X Market \X (0..MaxTime)
ASSUME RowAssumption == {} \notin {Campaign, Run, Cycle, Attempt}

VARIABLES
    clock,
    span,          \* campaigns.planned_start and .input_hash; planned_end follows
    startedAt,     \* runs.started_at
    endedAt,       \* runs.ended_at, which recovery leaves NULL
    pc,            \* where each process is
    task           \* what it remembers

cvars == <<vars, clock, span, startedAt, endedAt, pc, task>>

Time == 0..MaxTime

Place == {"off", "opened", "locked", "recovered", "planned", "run", "cycle", "attempt",
          "retry", "late", "stopping", "ending", "done", "closing"}

\* stop: stop_event; held: the input; rest: holdings of later batches; markets:
\* of later cycles; left: the opportunities loaded; todo: the (ticker, provider)
\* pairs run_cycle has still to visit; doing: the pair and attempt number in hand;
\* chosen: selected_quotes.
NoChoice == [t \in {} |-> None]
NoTask == [kind |-> None, stop |-> FALSE, started |-> 0, held |-> {}, rest |-> {},
           campaign |-> None, run |-> None, markets |-> {}, left |-> {}, cycle |-> None,
           todo |-> {}, doing |-> None, attempt |-> None, chosen |-> NoChoice]

\* uuid4(): an identity never used before; which one makes no difference.  (A
\* row that exists when none is free: the write that names it is then refused.)
AnyOf(free, all) == CHOOSE i \in (IF free = {} THEN all ELSE free) : TRUE
New(table)  == AnyOf({i \in DOMAIN table : table[i].status = "absent"}, DOMAIN table)
NewCampaign == AnyOf({p \in Campaign : campaigns[p] = "absent"}, Campaign)

WorkPlace == {"run", "cycle", "attempt", "retry", "late", "stopping", "ending"}
Working(c) == pc[c] \in WorkPlace

MarketsOf(S) == {MarketOf[t] : t \in S}
ScheduledAt(o) == o[3]
PlannedEnd(p) == span[p].start + Duration
Claimed(o) == \E k \in Cycle : cycles[k].opportunity = o

\* Bound: a process takes the lock only while the tables have room for all the
\* rows one run of it can need, so that no process is ever short of an identity.
Spare(table) == Cardinality({i \in DOMAIN table : table[i].status = "absent"})
VisitsPerCycle == Cardinality(UNION {{t} \X SourcesOf[t] : t \in Ticker})
RunsNeeded(kind) == IF kind = "refresh" THEN Cardinality(Ticker) ELSE 1
CyclesNeeded(kind) ==
    IF kind = "monitor" THEN Cardinality(UNION {{m} \X Opens[m] : m \in Market})
                        ELSE Cardinality(Ticker)
AttemptsNeeded(kind) == MaxAttempts *
    (IF kind = "monitor" THEN CyclesNeeded(kind) * VisitsPerCycle ELSE VisitsPerCycle)
RoomFor(kind) ==
    /\ Spare(runs) >= RunsNeeded(kind)
    /\ Spare(cycles) >= CyclesNeeded(kind)
    /\ Spare(attempts) >= AttemptsNeeded(kind)
    /\ kind = "monitor" => \E p \in Campaign : campaigns[p] = "absent"

-----------------------------------------------------------------------------
CInit ==
    /\ Init
    /\ clock = 0
    /\ span = [p \in Campaign |-> [start |-> 0, held |-> {}]]
    /\ startedAt = [r \in Run |-> 0]
    /\ endedAt = [r \in Run |-> None]
    /\ pc = [c \in Client |-> "off"]
    /\ task = [c \in Client |-> NoTask]

\* A storage call that failed leaves a session its caller can only close, and
\* what a process that is closing its session remembers is of no more use.
Goto(c, place, memory) ==
    LET to == IF failed'[c] THEN "closing" ELSE place
    IN /\ pc' = [pc EXCEPT ![c] = to]
       /\ task' = [task EXCEPT ![c] = IF to \in {"closing", "off"} THEN NoTask ELSE memory]

Columns == <<clock, span, startedAt, endedAt>>

-----------------------------------------------------------------------------
(* A process starts, and ends *)

\* execute() reads the input and the time, then opens the session.  The time
\* is older than the lock: other processes may run between the two.  A refresh
\* refuses holdings the catalog does not list (resolve).  Bound: the clock must
\* be able to reach the end of a campaign.
Launch(c) ==
    /\ pc[c] = "off"
    /\ Connect(c)
    /\ \E kind \in Kinds, held \in (SUBSET Ticker) \ {{}} :
          /\ kind = "monitor" => clock + Duration <= MaxTime
          /\ kind = "refresh" => held \cap Unresolved = {}
          /\ Goto(c, "opened", [NoTask EXCEPT !.kind = kind, !.held = held, !.rest = held,
                                              !.started = clock])
    /\ UNCHANGED Columns

\* acquire_lock
TakeLock(c) ==
    /\ pc[c] = "opened"
    /\ RoomFor(task[c].kind)
    /\ AcquireLock(c)
    /\ Goto(c, "locked", task[c])
    /\ UNCHANGED Columns

\* acquire_lock: another collector works on this schema; the process gives up.
Refused(c) ==
    /\ pc[c] = "opened"
    /\ lock # None \/ ~RoomFor(task[c].kind)
    /\ UNCHANGED <<vars, Columns>>
    /\ Goto(c, "closing", NoTask)

\* with Storage(...): the block is left, normally or by an exception.
Leave(c) ==
    /\ pc[c] = "closing"
    /\ Exit(c)
    /\ pc' = [pc EXCEPT ![c] = "off"]
    /\ UNCHANGED task
    /\ UNCHANGED Columns

\* A statement fails.  Every handler asks Storage.failed first and writes nothing.
StatementFails(c) ==
    /\ pc[c] \notin {"off", "closing"}
    /\ RollBack(c)
    /\ Goto(c, "closing", NoTask)
    /\ UNCHANGED Columns

\* Mutant: run_cycle has no handler of its own.
UnwindToRun(c) ==
    CASE pc[c] \in {"run", "cycle", "attempt", "retry"} -> "ending"
      [] OTHER -> "closing"

\* An exception that is not the database's (configuration, disk, a provider
\* adapter): run_cycle stops its cycle, and the monitor then interrupts its run;
\* the other two leave their run to the next collector's recovery.
Unwind(c) ==
    CASE pc[c] \in {"cycle", "attempt", "retry"} -> "stopping"
      [] pc[c] = "run" /\ task[c].kind = "monitor" -> "ending"
      [] OTHER -> "closing"

Raise(c) ==
    /\ pc[c] \notin {"off", "late", "stopping", "ending", "done", "closing"}
    /\ UNCHANGED <<vars, Columns>>
    /\ Goto(c, Unwind(c), task[c])

\* SIGTERM or SIGINT sets the monitor's stop_event.
StopRequested(c) ==
    /\ task[c].kind = "monitor" /\ ~task[c].stop
    /\ task' = [task EXCEPT ![c].stop = TRUE]
    /\ UNCHANGED <<vars, Columns, pc>>

LoseConnection(c) ==
    /\ ConnectionLost(c)
    /\ UNCHANGED <<Columns, pc, task>>

Killed(c) ==
    /\ Crash(c)
    /\ pc' = [pc EXCEPT ![c] = "off"]
    /\ task' = [task EXCEPT ![c] = NoTask]
    /\ UNCHANGED Columns

-----------------------------------------------------------------------------
(* Before the run *)

\* Mutant: a collector starts without a recovery.
RecoverNothing(c) ==
    /\ pc[c] = "locked"
    /\ UNCHANGED <<vars, Columns>>
    /\ Goto(c, "recovered", task[c])

\* recover_incomplete, under the lock and before a run of one's own.
Recover(c) ==
    /\ pc[c] = "locked"
    /\ RecoverIncomplete(c)
    /\ Goto(c, "recovered", task[c])
    /\ UNCHANGED Columns

\* find_matching_campaign: same input, and the launch time in its period.
Matches(p, c) ==
    /\ campaigns[p] = "running"
    /\ span[p].held = task[c].held
    /\ span[p].start <= task[c].started /\ task[c].started < PlannedEnd(p)

\* The sole match, or the one named by --campaign-id.
ResumeCampaign(c) ==
    /\ pc[c] = "recovered" /\ task[c].kind = "monitor"
    /\ Usable(c)
    /\ UNCHANGED <<vars, Columns>>
    /\ \E p \in Campaign : /\ Matches(p, c)
                           /\ Goto(c, "planned", [task[c] EXCEPT !.campaign = p])

NewSchedule(c, p) ==
    [o \in {x \in Opportunity :
              /\ x[1] = p /\ x[2] \in MarketsOf(task[c].held) /\ ScheduledAt(x) \in Opens[x[2]]
              /\ task[c].started <= ScheduledAt(x)
              /\ ScheduledAt(x) < task[c].started + Duration}
        |-> o[2]]

BeginCampaign(c) ==
    /\ pc[c] = "recovered" /\ task[c].kind = "monitor"
    /\ \A p \in Campaign : ~Matches(p, c)
    /\ LET p == NewCampaign IN
          /\ CreateCampaign(c, p, NewSchedule(c, p))
          /\ span' = [span EXCEPT ![p] = [start |-> task[c].started, held |-> task[c].held]]
          /\ Goto(c, "planned", [task[c] EXCEPT !.campaign = p])
    /\ UNCHANGED <<clock, startedAt, endedAt>>

\* Mutant: an opportunity at the very launch time is left out.
UnclaimedLater(c) ==
    {o \in Opportunity : /\ plan[o].campaign = task[c].campaign
                         /\ ScheduledAt(o) > task[c].started
                         /\ ~Claimed(o)}

\* scheduled_cycles: loaded once, from the launch time on, and unclaimed.
Unclaimed(c) ==
    {o \in Opportunity : /\ plan[o].campaign = task[c].campaign
                         /\ ScheduledAt(o) >= task[c].started
                         /\ ~Claimed(o)}

\* The first StartRun of a quote, of a monitor, or the next batch of a refresh,
\* least recently quoted first (any order here).
Batches(c) ==
    IF task[c].kind = "refresh"
      THEN {b \in SUBSET task[c].rest :
              \/ Cardinality(b) = BatchSize
              \/ b = task[c].rest /\ b # {} /\ Cardinality(b) < BatchSize}
      ELSE {task[c].held}

BeginRun(c) ==
    /\ IF task[c].kind = "monitor" THEN pc[c] = "planned" ELSE pc[c] = "recovered"
    /\ LET r == New(runs) IN
         \E held \in Batches(c) :
          /\ StartRun(c, r, task[c].campaign, held)
          /\ startedAt' = [startedAt EXCEPT ![r] = clock]
          /\ Goto(c, "run", [task[c] EXCEPT
                !.run = r, !.rest = @ \ held,
                !.markets = IF task[c].kind = "monitor" THEN {} ELSE MarketsOf(held),
                !.left = IF task[c].kind = "monitor" THEN Unclaimed(c) ELSE {}])
    /\ UNCHANGED <<clock, span, endedAt>>

-----------------------------------------------------------------------------
(* run_cycle and collect *)

\* Mutant: an unresolved holding is left out.
VisitsResolved(run, m) ==
    UNION {{t} \X SourcesOf[t] : t \in {h \in runs[run].held \ Unresolved : MarketOf[h] = m}}

\* The pairs run_cycle visits; an unresolved holding is only recorded once.
Visits(run, m) ==
    LET group == {t \in runs[run].held : MarketOf[t] = m}
    IN UNION {{t} \X (IF t \in Unresolved THEN {Valuation} ELSE SourcesOf[t]) : t \in group}

EnterCycle(c, m, o, place, memory) ==
    LET k == New(cycles) IN
    /\ StartCycle(c, k, task[c].run, m, o)
    /\ Goto(c, place, [memory EXCEPT
          !.cycle = k, !.todo = IF place = "late" THEN {} ELSE Visits(task[c].run, m)])
    /\ UNCHANGED Columns

\* quote and refresh: QuoteRunner.run, one cycle per market.
BeginMarket(c) ==
    /\ pc[c] = "run" /\ task[c].kind # "monitor"
    /\ \E m \in task[c].markets :
          EnterCycle(c, m, None, "cycle", [task[c] EXCEPT !.markets = @ \ {m}])

\* Mutant: the opportunities are loaded in any order.
AnyLeft(c) == task[c].left

\* monitor: the earliest opportunity left, once it is due.
Earliest(c) == {o \in task[c].left :
                  \A x \in task[c].left : ScheduledAt(o) <= ScheduledAt(x)}

BeginOpportunity(c) ==
    /\ pc[c] = "run" /\ task[c].kind = "monitor" /\ ~task[c].stop
    /\ \E o \in Earliest(c) :
          /\ clock >= ScheduledAt(o)
          /\ EnterCycle(c, o[2], o,
                        IF clock - ScheduledAt(o) >= Poll THEN "late" ELSE "cycle",
                        [task[c] EXCEPT !.left = @ \ {o}])

\* scheduler_lag: the opportunity is claimed by a cycle that is skipped at once.
SkipLate(c) ==
    /\ pc[c] = "late"
    /\ StopCycle(c, task[c].cycle, "skipped")
    /\ Goto(c, "run", [task[c] EXCEPT !.cycle = None])
    /\ UNCHANGED Columns

\* The valuation source is asked about every holding before any other source.
Ready(c) == LET first == {v \in task[c].todo : v[2] = Valuation}
            IN IF first # {} THEN first ELSE task[c].todo

BeginAttempt(c) ==
    /\ \/ pc[c] = "cycle" /\ ~task[c].stop
       \/ pc[c] = "retry"
    /\ \E v \in IF pc[c] = "cycle" THEN Ready(c) ELSE {task[c].doing} :
          LET a == New(attempts)
              number == IF pc[c] = "cycle" THEN 1 ELSE task[c].doing[3] + 1
          IN /\ StartAttempt(c, a, task[c].cycle, v[1], <<v[2], number>>)
             /\ Goto(c, "attempt", [task[c] EXCEPT
                   !.todo = @ \ {<<v[1], v[2]>>}, !.attempt = a, !.doing = <<v[1], v[2], number>>])
    /\ UNCHANGED Columns

\* run_cycle looks at stop_requested before each pair it has still to come to,
\* also before a comparison source that turns out not to apply.
NoticeStop(c) ==
    /\ pc[c] = "cycle" /\ task[c].stop
    /\ task[c].todo # {} \/ Provider # {Valuation}
    /\ UNCHANGED <<vars, Columns>>
    /\ Goto(c, "stopping", task[c])

\* Mutant: a quote of any source may be reused.
CachedOfAnySource(t) == {a \in Attempt : quotes[a] = "usable" /\ attempts[a].ticker = t}

\* choose_cache: a usable stored quote of the valuation source for the holding.
Cached(t) == {a \in Attempt : /\ quotes[a] = "usable"
                              /\ attempts[a].ticker = t /\ attempts[a].slot[1] = Valuation}

\* What the finished visit adds to selected_quotes: a new quote as it is, else
\* a cached one (whether today's calendar still accepts it is not modelled), else
\* nothing.  An unresolved holding takes nothing.
Selected(c, result) ==
    LET t == task[c].doing[1]
        extended(a) == [x \in DOMAIN task[c].chosen \cup {t} |->
                           IF x = t THEN a ELSE task[c].chosen[x]]
    IN IF task[c].doing[2] # Valuation \/ t \in Unresolved THEN {task[c].chosen}
       ELSE IF result \in {"usable", "unusable"} THEN {extended(task[c].attempt)}
       ELSE {task[c].chosen} \cup {extended(a) : a \in Cached(t)}

Results(c) ==
    IF task[c].doing[1] \in Unresolved THEN {"failure"}
    ELSE {"usable", "unusable", "failure"} \cup (IF task[c].stop THEN {"interrupted"} ELSE {})

\* A stop request is looked at after each visit, but not after the record of an
\* unresolved holding.
AfterVisit(c) ==
    IF task[c].stop /\ task[c].doing[1] \notin Unresolved THEN "stopping" ELSE "cycle"

\* collect: a failure may be retried; a quote, an interrupted attempt, the last
\* attempt or the cycle's deadline ends the visit.
EndAttempt(c) ==
    /\ pc[c] = "attempt"
    /\ \E result \in Results(c) :
          /\ FinishAttempt(c, task[c].attempt, result)
          /\ \/ \E chosen \in Selected(c, result) :
                   Goto(c, AfterVisit(c), [task[c] EXCEPT !.attempt = None, !.doing = None,
                                                          !.chosen = chosen])
             \/ /\ result = "failure" /\ task[c].doing[1] \notin Unresolved
                /\ task[c].doing[3] < MaxAttempts
                /\ Goto(c, "retry", [task[c] EXCEPT !.attempt = None])
    /\ UNCHANGED Columns

\* finish_cycle, when every pair was visited.
EndCycle(c) ==
    /\ pc[c] = "cycle" /\ task[c].todo = {}
    /\ FinishCycle(c, task[c].cycle, task[c].chosen)
    /\ Goto(c, "run", [task[c] EXCEPT !.cycle = None, !.chosen = NoChoice])
    /\ UNCHANGED Columns

\* run_cycle's exception handler.
AbandonCycle(c) ==
    /\ pc[c] = "stopping"
    /\ StopCycle(c, task[c].cycle, "interrupted")
    /\ Goto(c, IF task[c].kind = "monitor" THEN "ending" ELSE "closing",
            [task[c] EXCEPT !.cycle = None, !.todo = {}, !.doing = None,
                            !.attempt = None, !.chosen = NoChoice])
    /\ UNCHANGED Columns

-----------------------------------------------------------------------------
(* After the cycles *)

\* finish_run and interrupt_run write the time.
EndedNow(c) ==
    /\ endedAt' = [endedAt EXCEPT ![task[c].run] = clock]
    /\ UNCHANGED <<clock, span, startedAt>>

\* finish_run by quote and refresh: the refresh goes on with its next batch.
EndRunOfMarkets(c) ==
    /\ pc[c] = "run" /\ task[c].kind # "monitor" /\ task[c].markets = {}
    /\ FinishRun(c, task[c].run)
    /\ Goto(c, IF task[c].kind = "refresh" /\ task[c].rest # {} THEN "recovered" ELSE "closing",
            [task[c] EXCEPT !.run = None])
    /\ EndedNow(c)

\* The refresh's deadline has no room for another batch.
CutShort(c) ==
    /\ pc[c] = "recovered" /\ task[c].kind = "refresh"
    /\ UNCHANGED <<vars, Columns>>
    /\ Goto(c, "closing", NoTask)

\* The monitor has no opportunity left and the planned end is reached.
EndRunOfCampaign(c) ==
    /\ pc[c] = "run" /\ task[c].kind = "monitor" /\ ~task[c].stop
    /\ task[c].left = {} /\ clock >= PlannedEnd(task[c].campaign)
    /\ FinishRun(c, task[c].run)
    /\ Goto(c, "done", [task[c] EXCEPT !.run = None])
    /\ EndedNow(c)

EndCampaign(c) ==
    /\ pc[c] = "done"
    /\ FinishCampaign(c, task[c].campaign)
    /\ Goto(c, "closing", NoTask)
    /\ UNCHANGED Columns

\* Mutant: the wait for the next opportunity does not look at the stop request.
AbandonRunByException(c) ==
    /\ pc[c] = "ending"
    /\ InterruptRun(c, task[c].run)
    /\ Goto(c, "closing", NoTask)
    /\ EndedNow(c)

\* interrupt_run by the monitor: a stop noticed while waiting, or an exception.
AbandonRun(c) ==
    /\ \/ pc[c] = "run" /\ task[c].kind = "monitor" /\ task[c].stop
       \/ pc[c] = "ending"
    /\ InterruptRun(c, task[c].run)
    /\ Goto(c, "closing", NoTask)
    /\ EndedNow(c)

-----------------------------------------------------------------------------
\* What a running program does when it is left alone.
Progress(c) ==
    \/ TakeLock(c) \/ Refused(c) \/ Leave(c) \/ Recover(c)
    \/ ResumeCampaign(c) \/ BeginCampaign(c) \/ BeginRun(c)
    \/ BeginMarket(c) \/ BeginOpportunity(c) \/ SkipLate(c)
    \/ BeginAttempt(c) \/ NoticeStop(c) \/ EndAttempt(c) \/ EndCycle(c)
    \/ AbandonCycle(c) \/ EndRunOfMarkets(c) \/ EndRunOfCampaign(c)
    \/ EndCampaign(c) \/ AbandonRun(c)

Disturbance(c) ==
    \/ Launch(c) \/ StatementFails(c) \/ Raise(c) \/ CutShort(c)
    \/ StopRequested(c) \/ LoseConnection(c) \/ Killed(c)

Tick ==
    /\ clock < MaxTime
    /\ clock' = clock + 1
    /\ UNCHANGED <<vars, span, startedAt, endedAt, pc, task>>

ServerEnds == SessionEnds /\ UNCHANGED <<Columns, pc, task>>

CNext == Tick \/ ServerEnds \/ \E c \in Client : Progress(c) \/ Disturbance(c)

CSpec == CInit /\ [][CNext]_cvars

\* Time passes, the server notices a dead peer, a program keeps running, and a
\* call on a broken connection ends in an error (connect and statement timeouts).
Fairness ==
    /\ WF_cvars(Tick)
    /\ WF_cvars(ServerEnds)
    /\ \A c \in Client : /\ WF_cvars(Progress(c))
                         /\ WF_cvars(conn[c] = "dead" /\ StatementFails(c))

FairCSpec == CSpec /\ Fairness
-----------------------------------------------------------------------------
(* Properties *)

\* The types of what this module adds, and what a process has in hand where.
TaskRow ==
    [kind : Kinds \cup {None}, stop : BOOLEAN, started : Time, held : SUBSET Ticker,
     rest : SUBSET Ticker, campaign : Campaign \cup {None}, run : Run \cup {None},
     markets : SUBSET Market, left : SUBSET Opportunity, cycle : Cycle \cup {None},
     todo : SUBSET (Ticker \X Provider),
     doing : (Ticker \X Provider \X (1..MaxAttempts)) \cup {None},
     attempt : Attempt \cup {None}, chosen : Selections]

InHand(place, m) ==
    /\ place \notin {"off", "closing"} => m.held # {}
    /\ place \in WorkPlace => m.run \in Run
    /\ IF place \in {"cycle", "attempt", "retry", "late", "stopping"}
         THEN m.cycle \in Cycle ELSE m.cycle = None
    /\ place = "attempt" => m.attempt \in Attempt
    /\ place \notin {"attempt", "stopping"} => m.attempt = None
    /\ place \in {"attempt", "retry"} => m.doing # None
    /\ place = "retry" => m.doing[3] < MaxAttempts
    /\ place \in {"planned", "done"} => m.campaign \in Campaign
    /\ place \in WorkPlace /\ m.kind = "monitor" => m.campaign \in Campaign

CTypeOK ==
    /\ clock \in Time
    /\ span \in [Campaign -> [start : Time, held : SUBSET Ticker]]
    /\ startedAt \in [Run -> Time]
    /\ endedAt \in [Run -> Time \cup {None}]
    /\ pc \in [Client -> Place]
    /\ task \in [Client -> TaskRow]
    /\ \A c \in Client : InHand(pc[c], task[c])

\* At most one run of the schema is running, whatever processes were killed: a
\* collector recovers what it finds before it starts a run, and a refresh starts
\* its next batch only after the last one ended.
OneRunningRun ==
    \A q, r \in Run : runs[q].status = "running" /\ runs[r].status = "running" => q = r

\* A collector that can still write finds its own rows as it left them: no
\* other process recovers, ends or stops the run, the cycle or the attempt it
\* is working on.
OwnWorkIsUntouched ==
    \A c \in Client : CanWrite(c) /\ Working(c) =>
        /\ runs[task[c].run].status = "running"
        /\ task[c].cycle # None => /\ cycles[task[c].cycle].status = "running"
                                   /\ cycles[task[c].cycle].run = task[c].run
        /\ task[c].attempt # None => attempts[task[c].attempt].status = "started"

\* A valuation rests on the valuation source's quote for that very holding, and
\* on the cycle's own quote whenever the cycle obtained one: a cached quote never
\* displaces it, and a comparison source never values a holding.
FreshBeatsCache ==
    \A k \in Cycle, t \in Ticker : cycles[k].status = "completed" /\ t \in Group(k) =>
        /\ valuations[k][t] # None =>
              /\ attempts[valuations[k][t]].ticker = t
              /\ attempts[valuations[k][t]].slot[1] = Valuation
        /\ \A a \in Attempt :
              /\ attempts[a].cycle = k /\ attempts[a].ticker = t
              /\ attempts[a].slot[1] = Valuation /\ attempts[a].status = "success"
              => valuations[k][t] = a

\* The numbers of a cycle's attempts at one (ticker, provider) pair.
Numbers(k, v) ==
    {attempts[a].slot[2] : a \in {b \in Attempt : /\ attempts[b].cycle = k
                                               /\ attempts[b].ticker = v[1]
                                               /\ attempts[b].slot[1] = v[2]}}

\* A completed cycle asked the valuation source about every holding of its group,
\* and every comparison source that applies: nothing is valued from the cache
\* without a new attempt, and retries are numbered without gaps.
EveryHoldingWasAsked ==
    \A k \in Cycle : cycles[k].status = "completed" =>
        \A t \in Group(k) : \A s \in (IF t \in Unresolved THEN {Valuation} ELSE SourcesOf[t]) :
            \E n \in 1..MaxAttempts : Numbers(k, <<t, s>>) = 1..n

\* A run of a campaign that completed missed nothing: each opportunity planned
\* at or after its start has been claimed, by it or by an earlier run, and none of
\* those cycles is still open.
CompletedRunMissedNothing ==
    \A r \in Run : runs[r].status = "completed" /\ runs[r].campaign # None =>
        /\ clock >= PlannedEnd(runs[r].campaign)
        /\ \A o \in Opportunity :
              plan[o].campaign = runs[r].campaign /\ ScheduledAt(o) >= startedAt[r]
                => \E k \in Cycle : /\ cycles[k].opportunity = o
                                    /\ cycles[k].status # "running"

\* A monitor takes the opportunities of its campaign in order and passes none over,
\* also when a long cycle or a late start leaves several due at once: before each
\* one that a cycle of a run has, every opportunity planned since that run began
\* has a cycle, of this or an earlier run, and that cycle has ended.
NonePassedOver ==
    \A k \in Cycle, x \in Opportunity :
        LET o == cycles[k].opportunity
            r == cycles[k].run
        IN /\ o # None /\ runs[r].campaign # None /\ plan[x].campaign = runs[r].campaign
           /\ startedAt[r] <= ScheduledAt(x) /\ ScheduledAt(x) < ScheduledAt(o)
           => \E j \in Cycle : cycles[j].opportunity = x /\ cycles[j].status # "running"

-----------------------------------------------------------------------------
\* find_matching_campaign returns "the sole active campaign with the same immutable
\* inputs": no two running campaigns with one input are in period together.
SoleActiveCampaign ==
    \A p, q \in Campaign :
        /\ campaigns[p] = "running" /\ campaigns[q] = "running"
        /\ span[p].held = span[q].held
        /\ \A x \in {p, q} : span[x].start <= clock /\ clock < PlannedEnd(x)
        => p = q

\* Every collector ends, and the advisory lock always comes free again, also
\* when its owner was killed or cut off.
CollectorEnds == \A c \in Client : pc[c] # "off" ~> pc[c] = "off"
LockComesFree == lock # None ~> lock = None

=============================================================================
