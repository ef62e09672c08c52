----------------------------- MODULE Reporting -----------------------------
(***************************************************************************)
(* reporting.py over the tables the collectors left: what the report of a  *)
(* run or of a campaign counts, at any moment and for any cut-off time     *)
(* as_of, also one in the past or behind a clock that is wrong.            *)
(*                                                                         *)
(* A report is a function of one read-only snapshot, so it is not a step   *)
(* of the system: the operators below are evaluated in every state.  The   *)
(* collectors' steps are those of Collectors.                              *)
(***************************************************************************)
EXTENDS Totals, Sequences, SequencesExt

CONSTANTS
    Regular,       \* (market, time) pairs whose window_type is "regular"
    Maintenance    \* times inside campaigns.maintenance_windows

\* What is counted can be counted: a table has finitely many rows.
ASSUME TableAssumption ==
    /\ IsFiniteSet(Campaign) /\ IsFiniteSet(Cycle) /\ IsFiniteSet(Attempt)
    /\ IsFiniteSet(Market) /\ IsFiniteSet(Ticker)

-----------------------------------------------------------------------------
(* The snapshot: read_run, read_schedule, read_campaign *)

schedule(p)   == {o \in Opportunity : plan[o].campaign = p}
RunsOf(p)     == {r \in Run : runs[r].campaign = p}
CyclesOf(R)   == {k \in Cycle : cycles[k].run \in R}
AttemptsOf(R) == {a \in Attempt : attempts[a].cycle \in CyclesOf(R)}

\* The plan LEFT JOIN the cycle that claimed it.
ClaimOf(o) == CHOOSE k \in Cycle : cycles[k].opportunity = o
RowStatus(o) == IF Claimed(o) THEN cycles[ClaimOf(o)].status ELSE "missing"

-----------------------------------------------------------------------------
(* What the rows say beyond the model *)

\* A report also reads columns that no collector decides on: how old a quote was
\* and the delay its source declares (`age`), whether an attempt reached its source
\* (`ran`) and whether a quote is in another currency (`foreign`).
Ages == {"fresh", "late_or_stale", "unknown_time"}
Readings == [age : [Attempt -> Ages], ran : SUBSET Attempt, foreign : SUBSET Attempt]

\* ratio, with a threshold in percent: a zero denominator never reads as 100%.
ratio(part, whole, percent) ==
    [numerator |-> Cardinality(part), denominator |-> Cardinality(whole),
     meets |-> IF whole = {} THEN None
               ELSE 100 * Cardinality(part) >= percent * Cardinality(whole)]

-----------------------------------------------------------------------------
(* Fetch opportunities *)

\* opportunities: one per cycle, provider and instrument, whatever its retries.
opportunities(A) == {<<attempts[a].cycle, attempts[a].slot[1], attempts[a].ticker>> : a \in A}

InGroup(a, g) == g = <<attempts[a].cycle, attempts[a].slot[1], attempts[a].ticker>>

Succeeded(A, g) == \E a \in A : InGroup(a, g) /\ attempts[a].status = "success"

\* aggregate: the counts and the two rates; latencies are left out.
aggregate(A, reading) ==
    LET ran == opportunities(A \cap reading.ran)
        first == {a \in A \cap reading.ran : attempts[a].slot[2] = 1}
    IN [opportunities |-> Cardinality(opportunities(A)),
        operations    |-> Cardinality(A),
        retries       |-> Cardinality({a \in A : attempts[a].slot[2] > 1}),
        succeeded     |-> {g \in opportunities(A) : Succeeded(A, g)},
        first_success |-> ratio({a \in first : attempts[a].status = "success"}, first, 0),
        retry_success |-> ratio({g \in ran : Succeeded(A, g)}, ran, 99)]

\* What read_run returns of the quotes: those the runs fetched, and those they
\* valued with.
QuotesRead(R) ==
    {a \in Attempt : quotes[a] # "none" /\ \E k \in CyclesOf(R) :
        attempts[a].cycle = k \/ \E t \in Ticker : valuations[k][t] = a}

\* coverage: a holding is verified by any quote of the valuation source in its
\* currency.  (A source may also call a listed holding unsupported: then it is
\* counted as unverified here.)
coverage(held, R, reading) ==
    LET asked(t) == {a \in Attempt : attempts[a].ticker = t /\ attempts[a].slot[1] = Valuation}
        verified == {t \in held : (asked(t) \cap QuotesRead(R)) \ reading.foreign # {}}
        unsupported == {t \in (held \cap Unresolved) \ verified :
                           asked(t) \cap AttemptsOf(R) # {}}
    IN [verified |-> verified, unsupported |-> unsupported,
        unverified |-> held \ (verified \cup unsupported),
        catalog_coverage |-> ratio(verified, held, 0)]

-----------------------------------------------------------------------------
(* The plan and its gaps *)

\* Mutant: an opportunity is due by the clock alone.
due_by_clock(o, asOf) == ScheduledAt(o) <= asOf

\* A claimed opportunity is due whatever the clock says.
due(o, asOf) == ScheduledAt(o) <= asOf \/ Claimed(o)

Arrived(rows, asOf) == {o \in rows : due(o, asOf)}
Gaps(rows, asOf)    == {o \in Arrived(rows, asOf) : ~Claimed(o)}

RowStatuses == (CycleStatus \ {"absent"}) \cup {"missing"}
summarize(rows) == [s \in RowStatuses |-> Cardinality({o \in rows : RowStatus(o) = s})]

schedule_coverage(rows, asOf) ==
    LET arrived == Arrived(rows, asOf)
    IN [including_maintenance |-> summarize(arrived),
        excluding_maintenance |-> summarize({o \in arrived : ScheduledAt(o) \notin Maintenance}),
        not_yet_due |-> Cardinality(rows \ arrived)]

\* downtime: the gaps of one market in the order of time; one that follows the last
\* by no more than the polling interval prolongs its window.
downtime(rows, asOf, m) ==
    LET gap(t) == \E o \in Gaps(rows, asOf) : o[2] = m /\ ScheduledAt(o) = t
        near(w, t) == w # <<>> /\ t - Last(w).last <= Poll
        windows[t \in -1..MaxTime] ==
            IF t = -1 THEN <<>>
            ELSE LET w == windows[t - 1] IN
                 CASE ~gap(t) -> w
                   [] gap(t) /\ near(w, t) ->
                        [w EXCEPT ![Len(w)] =
                               [first |-> @.first, last |-> t, count |-> @.count + 1]]
                   [] OTHER -> Append(w, [first |-> t, last |-> t, count |-> 1])
    IN windows[MaxTime]

\* Mutant: every report goes on to its cut-off time.
run_schedule_to_now(r, asOf) ==
    {o \in schedule(runs[r].campaign) :
        \/ Claimed(o) /\ cycles[ClaimOf(o)].run = r
        \/ ~Claimed(o) /\ startedAt[r] <= ScheduledAt(o) /\ ScheduledAt(o) <= asOf}

\* run_schedule: what the run claimed, and the gaps from its start to its end; a
\* run without ended_at goes on to the cut-off time.
run_schedule(r, asOf) ==
    LET end == IF endedAt[r] # None /\ endedAt[r] < asOf THEN endedAt[r] ELSE asOf
    IN {o \in schedule(runs[r].campaign) :
          \/ Claimed(o) /\ cycles[ClaimOf(o)].run = r
          \/ ~Claimed(o) /\ startedAt[r] <= ScheduledAt(o) /\ ScheduledAt(o) <= end}

-----------------------------------------------------------------------------
(* Freshness *)

\* Mutant: the index follows the valuations, so a reused quote counts again.
fetched_by_valuation(o, t) ==
    IF Claimed(o) /\ valuations[ClaimOf(o)][t] \in Attempt
      THEN {valuations[ClaimOf(o)][t]} ELSE {}

\* cycle_quote_index: the quote that the row's own cycle fetched.
fetched(o, t) ==
    {a \in Attempt : /\ Claimed(o) /\ attempts[a].cycle = ClaimOf(o) /\ attempts[a].ticker = t
                     /\ attempts[a].slot[1] = Valuation /\ quotes[a] # "none"}

\* Due regular opportunities, one per holding of the market.
freshness(rows, asOf, held, reading) ==
    LET qualified == {x \in Arrived(rows, asOf) \X held :
                         <<x[1][2], ScheduledAt(x[1])>> \in Regular /\ MarketOf[x[2]] = x[1][2]}
        outcome(s) == {x \in qualified : \E a \in fetched(x[1], x[2]) : reading.age[a] = s}
        rate == ratio(outcome("fresh"), qualified, 95)
    IN [qualified |-> Cardinality(qualified),
        fresh     |-> Cardinality(outcome("fresh")),
        late      |-> Cardinality(outcome("late_or_stale")),
        unknown   |-> Cardinality(outcome("unknown_time")),
        verdict   |-> CASE qualified = {} \/ outcome("late_or_stale") # {}
                             -> "insufficient_evidence"
                        [] qualified # {} /\ outcome("late_or_stale") = {} /\ rate.meets
                             -> "meets_proposed_threshold"
                        [] OTHER -> "below_proposed_threshold"]

-----------------------------------------------------------------------------
(* The manual check of valuations *)

\* The last completed cycle of the market.
LatestCycles(R, m) ==
    LET done == {k \in CyclesOf(R) : cycles[k].status = "completed" /\ cycles[k].market = m}
    IN {k \in done : \A j \in done :
           ScheduledAt(cycles[j].opportunity) <= ScheduledAt(cycles[k].opportunity)}

\* valuation_check: quantity x price is recomputed from the quote the valuation
\* names, and compared with the stored market_value, NULL or not.
Recomputed(k, t) == valuations[k][t] \in Attempt
StoredValue(k, t) == Priced(valuations[k][t], t)

mismatches(R) ==
    {x \in CyclesOf(R) \X Ticker :
        /\ \E m \in Market : x[1] \in LatestCycles(R, m)
        /\ x[2] \in Group(x[1])
        /\ Recomputed(x[1], x[2]) # StoredValue(x[1], x[2])}

Completenesses == {"unavailable", "partial", "degraded", "complete"}

\* The subtotals are recomputed from the stored market_values themselves, and agree.
valuation_check(R) ==
    LET checked == UNION {LatestCycles(R, m) : m \in Market}
        valued(c) == {k \in CyclesOf(R) : cycles[k].status = "completed" /\ Completeness(k) = c}
    IN [checked |-> checked,
        completeness |-> [c \in Completenesses |-> Cardinality(valued(c))],
        mismatches |-> mismatches(R),
        agrees |-> mismatches(R) = {} /\ checked # {}]

-----------------------------------------------------------------------------
(* The reports *)

\* incidents: the cycles counted from their own table, beside the plan's view of
\* them; the gaps; what was recovered or interrupted.
CycleCounts(R) ==
    [s \in CycleStatus \ {"absent"} |-> Cardinality({k \in CyclesOf(R) : cycles[k].status = s})]

incidents(R, rows, asOf) ==
    [cycles   |-> CycleCounts(R),
     downtime |-> [m \in Market |-> downtime(rows, asOf, m)],
     missing  |-> {x \in CyclesOf(R) \X Ticker : /\ cycles[x[1]].status = "completed"
                                                /\ x[2] \in Group(x[1])
                                                /\ ~StoredValue(x[1], x[2])},
     recovered   |-> {r \in R : runs[r].stamp = "recovered"},
     interrupted |-> {r \in R : runs[r].status = "interrupted"}]

\* conclusions: the two cases that rest on these sections, and what stays open.
\* (V10 and the price comparison are not modelled.)
conclusions(report) ==
    [V04 |-> CASE report.valuations.checked = {} -> "insufficient_evidence"
               [] report.valuations.checked # {} /\ report.valuations.agrees -> "met"
               [] OTHER -> "not_met",
     V09 |-> IF report.incidents.recovered \cup report.incidents.interrupted # {}
               THEN "partly_met" ELSE "insufficient_evidence",
     open |-> {s \in {"coverage", "not_yet_due", "freshness"} :
                 CASE s = "coverage"    -> report.coverage.verified # report.held
                   [] s = "not_yet_due" -> report.schedule.not_yet_due > 0
                   [] OTHER -> report.freshness.verdict = "insufficient_evidence"}]

\* The campaign's holdings are those of its first run.
campaign_holdings(p) ==
    IF RunsOf(p) = {} THEN {}
    ELSE runs[CHOOSE r \in RunsOf(p) : \A q \in RunsOf(p) : startedAt[r] <= startedAt[q]].held

\* The sections of a report over the runs R of one campaign and their share of its
\* plan.  (A run outside a campaign has no plan: its report leaves schedule and
\* freshness out and is not modelled.)
Sections(R, rows, held, asOf, reading) ==
    [held       |-> held,
     schedule   |-> schedule_coverage(rows, asOf),
     incidents  |-> incidents(R, rows, asOf),
     volume     |-> aggregate(AttemptsOf(R), reading),
     coverage   |-> coverage(held, R, reading),
     freshness  |-> freshness(rows, asOf, held, reading),
     valuations |-> valuation_check(R)]

build_campaign(p, asOf, reading) ==
    Sections(RunsOf(p), schedule(p), campaign_holdings(p), asOf, reading)

build_run(r, asOf, reading) ==
    Sections({r}, run_schedule(r, asOf), runs[r].held, asOf, reading)

-----------------------------------------------------------------------------
(* Properties *)

\* The most favourable reading.
AllFresh == [age |-> [a \in Attempt |-> "fresh"], ran |-> Attempt, foreign |-> {}]

\* What the report of a campaign counts from the plan agrees with what it counts
\* from the tables of cycles and attempts, for any cut-off time: no cycle is left
\* out of the denominators, the downtime windows hold exactly the missing
\* opportunities, further apart than the polling interval, every operation is the
\* first of its opportunity or a retry, and what a source delivered is covered.
SectionsAgree ==
    \A p \in Campaign : campaigns[p] # "absent" =>
        LET R == RunsOf(p)
            volume == aggregate(AttemptsOf(R), AllFresh)
            covered == coverage(campaign_holdings(p), R, AllFresh)
            counts == CycleCounts(R)
        IN /\ volume.operations = volume.opportunities + volume.retries
           /\ \A g \in volume.succeeded : g[2] = Valuation => g[3] \in covered.verified
           /\ \A asOf \in Time :
                 LET plan_view == schedule_coverage(schedule(p), asOf).including_maintenance
                 IN /\ \A s \in DOMAIN counts : plan_view[s] = counts[s]
                    /\ \A m \in Market : LET w == downtime(schedule(p), asOf, m) IN
                          /\ FoldSeq(LAMBDA x, n : x.count + n, 0, w)
                               = Cardinality({o \in Gaps(schedule(p), asOf) : o[2] = m})
                          /\ \A i \in 2..Len(w) : w[i].first - w[i - 1].last > Poll

\* Freshness is earned by fetching: over the campaign, the quotes it judges are as
\* many as the valuation source's successes in regular cycles, so a cached quote
\* that values a holding stays missing; and a campaign meets the threshold only if
\* such successes cover 95% of its due regular opportunities.
FreshnessIsEarned ==
    \A p \in Campaign : campaigns[p] # "absent" =>
        LET earned == {g \in aggregate(AttemptsOf(RunsOf(p)), AllFresh).succeeded :
                          LET o == cycles[g[1]].opportunity
                          IN g[2] = Valuation /\ <<o[2], ScheduledAt(o)>> \in Regular}
        IN \A asOf \in Time :
              LET f == freshness(schedule(p), asOf, campaign_holdings(p), AllFresh)
              IN /\ f.fresh + f.late + f.unknown = Cardinality(earned)
                 /\ f.verdict = "meets_proposed_threshold"
                      => 100 * Cardinality(earned) >= 95 * f.qualified

\* The sections of the report of a run that tell of its own work when it is drawn up
\* now, and how many gaps it charges the run with.
OwnWork(r) ==
    <<CycleCounts({r}), aggregate(AttemptsOf({r}), AllFresh), coverage(runs[r].held, {r}, AllFresh),
      freshness(run_schedule(r, clock), clock, runs[r].held, AllFresh).fresh,
      valuation_check({r})>>
GapsCharged(r) == Cardinality(Gaps(run_schedule(r, clock), clock))

\* Once a run has ended (not recovered), its report says the same whenever it is
\* drawn up, whatever later runs of the campaign do: its cycles, operations, quotes
\* and values stay, and it is charged with no later gap.
EndedReportIsFinal ==
    [][<<tables, clock>>' # <<tables, clock>> =>
          \A r \in Run : runs[r].stamp = "closed" /\ runs[r].campaign # None =>
             OwnWork(r)' = OwnWork(r) /\ GapsCharged(r)' <= GapsCharged(r)]_cvars

\* "V04 follows the agreement of the recomputation" (system-spec.md): a report never
\* calls the stored values wrong, and in these states nothing is wrong with them.
RecomputationAgrees ==
    LET upheld(report) == conclusions(report).V04 # "not_met"
    IN /\ \A p \in Campaign : campaigns[p] # "absent" =>
             upheld(build_campaign(p, clock, AllFresh))
       /\ \A r \in Run : runs[r].campaign # None => upheld(build_run(r, clock, AllFresh))
=============================================================================
