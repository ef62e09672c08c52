--------------------------- MODULE CollectorStore ---------------------------
(***************************************************************************)
(* storage.py: the collection tables of one PostgreSQL schema and the      *)
(* sessions that write them.  Every client (the `quote` and `monitor`      *)
(* commands, the dashboard's refresh, the administrator's tools) writes    *)
(* through class Storage, one transaction per method, after taking one     *)
(* session-level advisory lock.                                            *)
(*                                                                         *)
(* This module is the most general caller: a client that holds the lock    *)
(* may call any method on any row in any order.  What holds here is what   *)
(* storage.py and the schema guarantee by themselves, whatever their       *)
(* callers do; Collectors.tla adds the callers' control.                   *)
(*                                                                         *)
(* A transaction is one step, since no other session writes these tables   *)
(* while the lock is held.  Its outcome is threefold: committed and        *)
(* acknowledged, committed with the acknowledgement lost (transaction()    *)
(* then reports "the result may be unknown"), or rolled back.              *)
(***************************************************************************)
EXTENDS FiniteSets

CONSTANTS
    Client,        \* processes that open Storage sessions
    Campaign, Opportunity, Run, Cycle, Attempt,   \* row identities (UUIDs)
    Ticker, Market,
    Slot,          \* (provider, attempt number) pairs of one cycle and ticker
    MarketOf,      \* the market of a ticker, from its format
    None           \* SQL NULL, and "nobody"

ASSUME MarketAssumption == MarketOf \in [Ticker -> Market]
ASSUME NoneAssumption ==
    /\ None \notin Client \cup Campaign \cup Opportunity \cup Run \cup Cycle
                  \cup Attempt \cup Ticker \cup Market \cup {"orphan", "no row"}
    /\ "orphan" \notin Client
    /\ "no row" \notin Attempt

VARIABLES
    conn,          \* Storage.conn: "none", "live", or "dead" (broken, not closed)
    failed,        \* Storage.failed
    locked,        \* Storage.locked, the client's own belief
    lock,          \* the server's side: the session that owns the advisory lock
    campaigns, plan, runs, cycles, attempts, quotes, valuations

session == <<conn, failed, locked, lock>>
tables  == <<campaigns, plan, runs, cycles, attempts, quotes, valuations>>
vars    == <<session, tables>>

Orphan == "orphan"   \* a server session whose client is gone, lock still held
NoRow  == "no row"

CampaignStatus == {"absent", "running", "completed"}
RunStatus      == {"absent", "running", "completed", "interrupted"}
CycleStatus    == {"absent", "running", "completed", "interrupted", "skipped"}
AttemptStatus  == {"absent", "started", "success", "failure", "interrupted"}

\* What a stored quote is worth to its own holding: value_holding either prices
\* it or gives a reason not to (currency, clock, price kind, session).
QuoteKind == {"none", "usable", "unusable"}

\* Which timestamp closed a row: ended_at/completed_at, or recovered_at.
Stamp == {"open", "closed", "recovered"}

RunRow      == [status : RunStatus, campaign : Campaign \cup {None},
                held : SUBSET Ticker, stamp : Stamp]
CycleRow    == [status : CycleStatus, run : Run \cup {None}, market : Market \cup {None},
                opportunity : Opportunity \cup {None}, stamp : Stamp]
AttemptRow  == [status : AttemptStatus, cycle : Cycle \cup {None},
                ticker : Ticker \cup {None}, slot : Slot \cup {None}, stamp : Stamp]
PlanRow     == [campaign : Campaign \cup {None}, market : Market \cup {None}]

NoRun     == [status |-> "absent", campaign |-> None, held |-> {}, stamp |-> "open"]
NoCycle   == [status |-> "absent", run |-> None, market |-> None,
              opportunity |-> None, stamp |-> "open"]
NoAttempt == [status |-> "absent", cycle |-> None, ticker |-> None,
              slot |-> None, stamp |-> "open"]
NoPlan    == [campaign |-> None, market |-> None]

\* The holdings a cycle covers: those of its run in its market.
Group(k) == {t \in runs[cycles[k].run].held : MarketOf[t] = cycles[k].market}

-----------------------------------------------------------------------------
Init ==
    /\ conn = [c \in Client |-> "none"]
    /\ failed = [c \in Client |-> FALSE]
    /\ locked = [c \in Client |-> FALSE]
    /\ lock = None
    /\ campaigns = [p \in Campaign |-> "absent"]
    /\ plan = [o \in Opportunity |-> NoPlan]
    /\ runs = [r \in Run |-> NoRun]
    /\ cycles = [k \in Cycle |-> NoCycle]
    /\ attempts = [a \in Attempt |-> NoAttempt]
    /\ quotes = [a \in Attempt |-> "none"]
    /\ valuations = [k \in Cycle |-> [t \in Ticker |-> NoRow]]

-----------------------------------------------------------------------------
(* Sessions *)

Usable(c) == conn[c] = "live" /\ ~failed[c]

\* __enter__: a Storage object is opened once; a later use is a new object.
Connect(c) ==
    /\ conn[c] = "none"
    /\ conn' = [conn EXCEPT ![c] = "live"]
    /\ failed' = [failed EXCEPT ![c] = FALSE]
    /\ locked' = [locked EXCEPT ![c] = FALSE]
    /\ UNCHANGED <<lock, tables>>

\* Mutant: the result of pg_try_advisory_lock is ignored.
AcquireLockUnchecked(c) ==
    /\ Usable(c) /\ ~locked[c]
    /\ lock' = IF lock = None THEN c ELSE lock
    /\ locked' = [locked EXCEPT ![c] = TRUE]
    /\ UNCHANGED <<conn, failed, tables>>

\* acquire_lock: pg_try_advisory_lock never waits.  When the reply is lost the
\* server session owns the lock although the client never learns of it.
AcquireLock(c) ==
    /\ Usable(c) /\ ~locked[c] /\ lock = None
    /\ lock' = c
    /\ \/ locked' = [locked EXCEPT ![c] = TRUE] /\ UNCHANGED failed
       \/ failed' = [failed EXCEPT ![c] = TRUE] /\ UNCHANGED locked
    /\ UNCHANGED <<conn, tables>>

\* Any statement may fail: the transaction is rolled back, the session is
\* marked failed and refuses every later transaction.
RollBack(c) ==
    /\ conn[c] # "none" /\ ~failed[c]
    /\ failed' = [failed EXCEPT ![c] = TRUE]
    /\ UNCHANGED <<conn, locked, lock, tables>>

\* Mutant: the session outlives its Storage block, as in a pool of connections.
ExitKeepsSession(c) ==
    /\ conn[c] # "none"
    /\ conn' = [conn EXCEPT ![c] = "none"]
    /\ locked' = [locked EXCEPT ![c] = FALSE]
    /\ UNCHANGED <<failed, lock, tables>>

\* __exit__: closing the connection ends the server session and its locks.  A
\* connection that is already broken has no session of the client's to end.
Exit(c) ==
    /\ conn[c] # "none"
    /\ conn' = [conn EXCEPT ![c] = "none"]
    /\ locked' = [locked EXCEPT ![c] = FALSE]
    /\ lock' = IF lock = c THEN None ELSE lock
    /\ UNCHANGED <<failed, tables>>

\* The network or the client process dies; the server has not noticed yet.
ConnectionLost(c) ==
    /\ conn[c] = "live"
    /\ conn' = [conn EXCEPT ![c] = "dead"]
    /\ lock' = IF lock = c THEN Orphan ELSE lock
    /\ UNCHANGED <<failed, locked, tables>>

\* The process is killed: its Storage object is gone, the server's session is not.
Crash(c) ==
    /\ conn[c] # "none"
    /\ conn' = [conn EXCEPT ![c] = "none"]
    /\ locked' = [locked EXCEPT ![c] = FALSE]
    /\ lock' = IF lock = c THEN Orphan ELSE lock
    /\ UNCHANGED <<failed, tables>>

\* The server ends the session of a client that is gone.
SessionEnds ==
    /\ lock = Orphan
    /\ lock' = None
    /\ UNCHANGED <<conn, failed, locked, tables>>

-----------------------------------------------------------------------------
(* Writer transactions *)

\* transaction(writer=True) lets the body run.
CanWrite(c) == Usable(c) /\ locked[c]

\* The body's writes are committed; the acknowledgement arrives or is lost.
Commit(c) ==
    /\ CanWrite(c)
    /\ failed' \in {failed, [failed EXCEPT ![c] = TRUE]}
    /\ UNCHANGED <<conn, locked, lock>>

\* create_campaign: the snapshot and its whole schedule in one transaction.
CreateCampaign(c, p, schedule) ==
    /\ campaigns[p] = "absent"
    /\ \A o \in DOMAIN schedule : plan[o] = NoPlan
    /\ Commit(c)
    /\ campaigns' = [campaigns EXCEPT ![p] = "running"]
    /\ plan' = [o \in Opportunity |-> IF o \in DOMAIN schedule
                                        THEN [campaign |-> p, market |-> schedule[o]]
                                        ELSE plan[o]]
    /\ UNCHANGED <<runs, cycles, attempts, quotes, valuations>>

\* start_run: the run and its holdings, linked to a campaign that is running.
StartRun(c, r, p, held) ==
    /\ runs[r].status = "absent"
    /\ p # None => campaigns[p] = "running"
    /\ Commit(c)
    /\ runs' = [runs EXCEPT ![r] = [status |-> "running", campaign |-> p,
                                    held |-> held, stamp |-> "open"]]
    /\ UNCHANGED <<campaigns, plan, cycles, attempts, quotes, valuations>>

\* Mutant: cycles.scheduled_cycle_id is not UNIQUE.
StartCycleTwice(c, k, r, m, o) ==
    /\ cycles[k].status = "absent"
    /\ runs[r].status = "running"
    /\ o # None => /\ plan[o] # NoPlan
                   /\ plan[o] = [campaign |-> runs[r].campaign, market |-> m]
    /\ Commit(c)
    /\ cycles' = [cycles EXCEPT ![k] = [status |-> "running", run |-> r, market |-> m,
                                        opportunity |-> o, stamp |-> "open"]]
    /\ UNCHANGED <<campaigns, plan, runs, attempts, quotes, valuations>>

\* start_cycle: a scheduled cycle must be of the run's campaign and market and
\* unclaimed (cycles.scheduled_cycle_id is UNIQUE).
StartCycle(c, k, r, m, o) ==
    /\ cycles[k].status = "absent"
    /\ runs[r].status = "running"
    /\ o # None => /\ plan[o] # NoPlan
                   /\ plan[o] = [campaign |-> runs[r].campaign, market |-> m]
                   /\ \A j \in Cycle : cycles[j].opportunity # o
    /\ Commit(c)
    /\ cycles' = [cycles EXCEPT ![k] = [status |-> "running", run |-> r, market |-> m,
                                        opportunity |-> o, stamp |-> "open"]]
    /\ UNCHANGED <<campaigns, plan, runs, attempts, quotes, valuations>>

\* start_attempt: the ticker is a holding of the cycle's run and market, and
\* (cycle, provider, instrument, attempt number) is UNIQUE.
StartAttempt(c, a, k, t, s) ==
    /\ attempts[a].status = "absent"
    /\ cycles[k].status = "running"
    /\ runs[cycles[k].run].status = "running"
    /\ t \in Group(k)
    /\ \A b \in Attempt : ~(attempts[b].cycle = k /\ attempts[b].ticker = t
                              /\ attempts[b].slot = s)
    /\ Commit(c)
    /\ attempts' = [attempts EXCEPT ![a] = [status |-> "started", cycle |-> k, ticker |-> t,
                                            slot |-> s, stamp |-> "open"]]
    /\ UNCHANGED <<campaigns, plan, runs, cycles, quotes, valuations>>

\* Mutants: the result is stored as it is; a quote that is found unusable fails
\* its attempt after it was stored.
OutcomeAsGiven(result) == result
OutcomeByUse(result) == CASE result = "usable" -> "success"
                          [] result = "unusable" -> "failure"
                          [] OTHER -> result

\* finish_attempt: a success stores its quote in the same transaction; a quote
\* with an impossible price becomes a failure (invalid_payload) without one.
Outcome(result) == IF result \in {"usable", "unusable"} THEN "success" ELSE result

FinishAttempt(c, a, result) ==
    /\ attempts[a].status = "started"
    /\ cycles[attempts[a].cycle].status = "running"
    /\ runs[cycles[attempts[a].cycle].run].status = "running"
    /\ Commit(c)
    /\ attempts' = [attempts EXCEPT ![a].status = Outcome(result), ![a].stamp = "closed"]
    /\ quotes' = IF result \in {"usable", "unusable"}
                   THEN [quotes EXCEPT ![a] = result] ELSE quotes
    /\ UNCHANGED <<campaigns, plan, runs, cycles, valuations>>

\* Mutants: the selected quotes are not looked up; only selected holdings are valued.
FinishCycleUnchecked(c, k, selected) ==
    /\ cycles[k].status = "running"
    /\ runs[cycles[k].run].status = "running"
    /\ \A a \in Attempt : attempts[a].cycle = k => attempts[a].status # "started"
    /\ Group(k) # {}
    /\ DOMAIN selected \subseteq Group(k)
    /\ Commit(c)
    /\ valuations' = [valuations EXCEPT ![k] =
            [t \in Ticker |-> IF t \notin Group(k) THEN NoRow
                              ELSE IF t \in DOMAIN selected THEN selected[t] ELSE None]]
    /\ cycles' = [cycles EXCEPT ![k].status = "completed", ![k].stamp = "closed"]
    /\ UNCHANGED <<campaigns, plan, runs, attempts, quotes>>

FinishCyclePartly(c, k, selected) ==
    /\ cycles[k].status = "running"
    /\ runs[cycles[k].run].status = "running"
    /\ \A a \in Attempt : attempts[a].cycle = k => attempts[a].status # "started"
    /\ Group(k) # {}
    /\ DOMAIN selected \subseteq Group(k)
    /\ \A t \in DOMAIN selected : selected[t] # None => quotes[selected[t]] # "none"
    /\ Commit(c)
    /\ valuations' = [valuations EXCEPT ![k] =
            [t \in Ticker |-> IF t \in DOMAIN selected THEN selected[t] ELSE NoRow]]
    /\ cycles' = [cycles EXCEPT ![k].status = "completed", ![k].stamp = "closed"]
    /\ UNCHANGED <<campaigns, plan, runs, attempts, quotes>>

\* finish_cycle: one valuation per holding of the group, from any stored quote
\* the caller selects for it (of this cycle, or cached from an earlier one).
FinishCycle(c, k, selected) ==
    /\ cycles[k].status = "running"
    /\ runs[cycles[k].run].status = "running"
    /\ \A a \in Attempt : attempts[a].cycle = k => attempts[a].status # "started"
    /\ Group(k) # {}
    /\ DOMAIN selected \subseteq Group(k)
    /\ \A t \in DOMAIN selected : selected[t] # None => quotes[selected[t]] # "none"
    /\ Commit(c)
    /\ valuations' = [valuations EXCEPT ![k] =
            [t \in Ticker |-> IF t \notin Group(k) THEN NoRow
                              ELSE IF t \in DOMAIN selected THEN selected[t] ELSE None]]
    /\ cycles' = [cycles EXCEPT ![k].status = "completed", ![k].stamp = "closed"]
    /\ UNCHANGED <<campaigns, plan, runs, attempts, quotes>>

\* stop_cycle: the cycle's open attempts end with it.
StopCycle(c, k, status) ==
    /\ cycles[k].status = "running"
    /\ runs[cycles[k].run].status = "running"
    /\ Commit(c)
    /\ attempts' = [a \in Attempt |->
            IF attempts[a].cycle = k /\ attempts[a].status = "started"
              THEN [attempts[a] EXCEPT !.status = "interrupted", !.stamp = "closed"]
              ELSE attempts[a]]
    /\ cycles' = [cycles EXCEPT ![k].status = status, ![k].stamp = "closed"]
    /\ UNCHANGED <<campaigns, plan, runs, quotes, valuations>>

\* Mutants: the run's open cycles are not looked for; nor its own status.
EndRunAtOnce(c, r, status) ==
    /\ runs[r].status = "running"
    /\ Commit(c)
    /\ runs' = [runs EXCEPT ![r].status = status, ![r].stamp = "closed"]
    /\ UNCHANGED <<campaigns, plan, cycles, attempts, quotes, valuations>>

EndRunAgain(c, r, status) ==
    /\ runs[r].status # "absent"
    /\ \A k \in Cycle : cycles[k].run = r => cycles[k].status # "running"
    /\ Commit(c)
    /\ runs' = [runs EXCEPT ![r].status = status, ![r].stamp = "closed"]
    /\ UNCHANGED <<campaigns, plan, cycles, attempts, quotes, valuations>>

\* finish_run and interrupt_run differ in the status they leave.
EndRun(c, r, status) ==
    /\ runs[r].status = "running"
    /\ \A k \in Cycle : cycles[k].run = r => cycles[k].status # "running"
    /\ Commit(c)
    /\ runs' = [runs EXCEPT ![r].status = status, ![r].stamp = "closed"]
    /\ UNCHANGED <<campaigns, plan, cycles, attempts, quotes, valuations>>

FinishRun(c, r)    == EndRun(c, r, "completed")
InterruptRun(c, r) == EndRun(c, r, "interrupted")

\* Mutant: the campaign's running runs are not looked for.
FinishCampaignAtOnce(c, p) ==
    /\ campaigns[p] = "running"
    /\ Commit(c)
    /\ campaigns' = [campaigns EXCEPT ![p] = "completed"]
    /\ UNCHANGED <<plan, runs, cycles, attempts, quotes, valuations>>

\* finish_campaign: refused while a run of the campaign is running.
FinishCampaign(c, p) ==
    /\ campaigns[p] = "running"
    /\ \A r \in Run : runs[r].campaign = p => runs[r].status # "running"
    /\ Commit(c)
    /\ campaigns' = [campaigns EXCEPT ![p] = "completed"]
    /\ UNCHANGED <<plan, runs, cycles, attempts, quotes, valuations>>

\* recover_incomplete: every open row of the schema is interrupted at once.
RecoverIncomplete(c) ==
    /\ Commit(c)
    /\ attempts' = [a \in Attempt |->
            IF attempts[a].status = "started"
              THEN [attempts[a] EXCEPT !.status = "interrupted", !.stamp = "recovered"]
              ELSE attempts[a]]
    /\ cycles' = [k \in Cycle |->
            IF cycles[k].status = "running"
              THEN [cycles[k] EXCEPT !.status = "interrupted", !.stamp = "recovered"]
              ELSE cycles[k]]
    /\ runs' = [r \in Run |->
            IF runs[r].status = "running"
              THEN [runs[r] EXCEPT !.status = "interrupted", !.stamp = "recovered"]
              ELSE runs[r]]
    /\ UNCHANGED <<campaigns, plan, quotes, valuations>>

-----------------------------------------------------------------------------
Result == {"usable", "unusable", "failure", "interrupted"}

\* A schedule for some opportunities, and a selection for some holdings.
Schedules  == UNION {[S -> Market] : S \in SUBSET Opportunity}
Selections == UNION {[S -> Attempt \cup {None}] : S \in SUBSET Ticker}

SessionStep(c) ==
    \/ Connect(c) \/ AcquireLock(c) \/ RollBack(c)
    \/ Exit(c) \/ ConnectionLost(c) \/ Crash(c)

CampaignStep(c) ==
    \E p \in Campaign :
        \/ \E schedule \in Schedules : CreateCampaign(c, p, schedule)
        \/ FinishCampaign(c, p)

RunStep(c) ==
    \E r \in Run :
        \/ \E p \in Campaign \cup {None}, held \in (SUBSET Ticker) \ {{}} : StartRun(c, r, p, held)
        \/ FinishRun(c, r)
        \/ InterruptRun(c, r)

CycleStep(c) ==
    \E k \in Cycle :
        \/ \E r \in Run, m \in Market, o \in Opportunity \cup {None} : StartCycle(c, k, r, m, o)
        \/ \E selected \in Selections : FinishCycle(c, k, selected)
        \/ \E status \in {"interrupted", "skipped"} : StopCycle(c, k, status)

AttemptStep(c) ==
    \E a \in Attempt :
        \/ \E k \in Cycle, t \in Ticker, s \in Slot : StartAttempt(c, a, k, t, s)
        \/ \E result \in Result : FinishAttempt(c, a, result)

ClientStep(c) ==
    \/ SessionStep(c) \/ CampaignStep(c) \/ RunStep(c)
    \/ CycleStep(c) \/ AttemptStep(c) \/ RecoverIncomplete(c)

Next == SessionEnds \/ \E c \in Client : ClientStep(c)

Spec == Init /\ [][Next]_vars
-----------------------------------------------------------------------------
(* Properties *)

\* Every table holds rows of its type.
TypeOK ==
    /\ conn \in [Client -> {"none", "live", "dead"}]
    /\ failed \in [Client -> BOOLEAN]
    /\ locked \in [Client -> BOOLEAN]
    /\ lock \in Client \cup {None, Orphan}
    /\ campaigns \in [Campaign -> CampaignStatus]
    /\ plan \in [Opportunity -> PlanRow]
    /\ runs \in [Run -> RunRow]
    /\ cycles \in [Cycle -> CycleRow]
    /\ attempts \in [Attempt -> AttemptRow]
    /\ quotes \in [Attempt -> QuoteKind]
    /\ valuations \in [Cycle -> [Ticker -> Attempt \cup {None, NoRow}]]

\* A client whose writer transactions would run is the one that owns the
\* server's lock: a broken connection, a lost acknowledgement, a crash or a
\* new session never leaves two sessions able to write (Storage.locked is only
\* the client's belief).
SingleWriter == \A c \in Client : CanWrite(c) => lock = c

\* Work is nested: an attempt is open only inside a running cycle, a cycle is
\* running only inside a running run, and a run of a campaign is running only
\* while the campaign is.  The guards of seven methods keep this between them.
OpenWorkIsNested ==
    /\ \A a \in Attempt : attempts[a].status = "started"
                            => cycles[attempts[a].cycle].status = "running"
    /\ \A k \in Cycle : cycles[k].status = "running"
                          => runs[cycles[k].run].status = "running"
    /\ \A r \in Run : runs[r].status = "running" /\ runs[r].campaign # None
                        => campaigns[runs[r].campaign] = "running"

\* A quote is stored exactly for the attempts that succeeded: neither a failed,
\* open or recovered attempt keeps one, nor does a success lack one.
QuoteIffSuccess ==
    \A a \in Attempt : quotes[a] # "none" <=> attempts[a].status = "success"

\* A cycle is completed exactly when each holding of its run and market has a
\* valuation row, and an unfinished, stopped or recovered cycle has none.
CompletedIffValued ==
    \A k \in Cycle :
        IF cycles[k].status = "completed"
          THEN \A t \in Ticker : valuations[k][t] # NoRow <=> t \in Group(k)
          ELSE \A t \in Ticker : valuations[k][t] = NoRow

\* A valuation rests on a quote some attempt really stored.
ValuationHasQuote ==
    \A k \in Cycle, t \in Ticker :
        valuations[k][t] \in Attempt => quotes[valuations[k][t]] # "none"

\* A planned opportunity is claimed by at most one cycle, over any restarts, and
\* by one of its own campaign and market (architecture.md section 4).
OpportunityClaimedOnce ==
    /\ \A j, k \in Cycle :
          cycles[j].opportunity = cycles[k].opportunity /\ cycles[j].opportunity # None
            => j = k
    /\ \A k \in Cycle :
          cycles[k].opportunity # None
            => plan[cycles[k].opportunity] =
                 [campaign |-> runs[cycles[k].run].campaign, market |-> cycles[k].market]

\* What recovery closes it closes together: a recovered attempt lies in a
\* recovered cycle, and a recovered cycle in a recovered run.
RecoveredTogether ==
    /\ \A a \in Attempt : attempts[a].stamp = "recovered"
                            => cycles[attempts[a].cycle].stamp = "recovered"
    /\ \A k \in Cycle : cycles[k].stamp = "recovered"
                          => runs[cycles[k].run].stamp = "recovered"

\* What one step leaves of the rows that had ended before it.
KeepsEndedRows ==
    /\ \A a \in Attempt :
          attempts[a].status \notin {"absent", "started"}
            => attempts'[a] = attempts[a] /\ quotes'[a] = quotes[a]
    /\ \A k \in Cycle :
          cycles[k].status \notin {"absent", "running"}
            => cycles'[k] = cycles[k] /\ valuations'[k] = valuations[k]
    /\ \A r \in Run : runs[r].status \notin {"absent", "running"} => runs'[r] = runs[r]
    /\ \A p \in Campaign : campaigns[p] = "completed" => campaigns'[p] = campaigns[p]
    /\ \A o \in Opportunity : plan[o] # NoPlan => plan'[o] = plan[o]

\* History is append-only: a row that has ended is never changed again, by any
\* method, any client or any recovery; its quote and valuations stay with it.
EndedRowsAreFinal == [][KeepsEndedRows]_vars

=============================================================================
