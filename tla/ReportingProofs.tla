--------------------------- MODULE ReportingProofs ---------------------------
(* What the totals of the page and the reports of runs and campaigns may      *)
(* claim, and that the sections of a report agree with each other, proved for *)
(* any number of processes, campaigns, tickers, markets and providers.        *)
EXTENDS Reporting, CollectorsProofs, FiniteSetTheorems, WellFoundedInduction

-----------------------------------------------------------------------------
(* The totals of the page *)

(* With or without a rate, what is shown of some holdings adds the same        *)
(* holdings on both sides or shows no total.                                   *)
LEMMA CalculateIsSound ==
    ASSUME NEW held, NEW priced, NEW rate \in BOOLEAN
    PROVE  LET v == calculate(held, priced, rate)
           IN /\ v.total # {} <=> v.status = "degraded"
              /\ v.total # {} => v.total = v.cost /\ v.missing = {}
<1> DEFINE needs_fx == ~rate /\ \E t \in held : MarketOf[t] # Home
           covered == held \cap priced
           complete == covered = held /\ ~needs_fx
           v == calculate(held, priced, rate)
<1>1. /\ v.total = IF complete THEN covered ELSE {}
      /\ v.cost = IF needs_fx THEN {} ELSE held
      /\ v.missing = held \ covered
      /\ v.status = IF covered = {} \/ needs_fx THEN "unavailable"
                    ELSE IF complete THEN "degraded" ELSE "partial"
    BY DEF calculate
<1> SUFFICES /\ v.total # {} <=> v.status = "degraded"
             /\ v.total # {} => v.total = v.cost /\ v.missing = {}
    OBVIOUS
<1> HIDE DEF v
<1>2. CASE complete /\ covered # {}
  <2>1. v.total = held /\ v.cost = held /\ v.missing = {} /\ v.status = "degraded"
      BY <1>1, <1>2
  <2> QED BY <1>2, <2>1
<1>3. CASE ~complete \/ covered = {}
  <2>1. v.total = {} /\ v.status \in {"unavailable", "partial"}
      BY <1>1, <1>3
  <2> QED BY <2>1
<1> QED BY <1>2, <1>3

(* A view shows a total exactly when it can convert and value all it shows,    *)
(* and the total is then of all it shows.                                      *)
LEMMA ViewTotal ==
    ASSUME NEW held, NEW market, NEW rate \in BOOLEAN
    PROVE  LET shown == Filtered(held, market)
           IN View(held, market, rate).total =
                IF /\ rate \/ \A t \in shown : MarketOf[t] = Home
                   /\ shown \subseteq Candidates(shown)
                  THEN shown ELSE {}
BY DEF View, calculate

(* The total of all markets and those of each market say the same.             *)
LEMMA TypesMakeTotalsWhole == TypeOK => TotalIsWhole
<1> DEFINE held == UNION {runs[r].held : r \in Run}
           all(rate) == View(held, "ALL", rate)
           views(rate) == {View(held, m, rate) : m \in MarketsOf(held)}
<1> SUFFICES ASSUME held # {}, NEW rate \in BOOLEAN
             PROVE  LET sound(v) == /\ v.total # {} <=> v.status = "degraded"
                                    /\ v.total # {} => v.total = v.cost /\ v.missing = {}
                    IN /\ sound(all(rate)) /\ \A v \in views(rate) : sound(v)
                       /\ all(rate).total # {} <=> \A v \in views(rate) : v.total # {}
                       /\ all(rate).total # {}
                            => all(rate).total = UNION {v.total : v \in views(rate)}
    BY Zenon DEF TotalIsWhole
<1> HIDE DEF held
<1> DEFINE Whole(S) == /\ rate \/ \A t \in S : MarketOf[t] = Home
                       /\ S \subseteq Candidates(S)
           Of(m) == Filtered(held, m)
<1>1. \A m : View(held, m, rate).total = IF Whole(Of(m)) THEN Of(m) ELSE {}
    BY ViewTotal
<1>2. Of("ALL") = held
    BY DEF Filtered
<1>3. \A m \in MarketsOf(held) : Of(m) # {} /\ Of(m) \subseteq held
    BY DEF Filtered, MarketsOf
<1>4. \A t \in held : \E m \in MarketsOf(held) : t \in Of(m)
    BY DEF Filtered, MarketsOf
<1>5. Whole(held) <=> \A m \in MarketsOf(held) : Whole(Of(m))
    BY <1>3, <1>4 DEF Candidates
<1> HIDE DEF Whole, Of
<1>6. \A m : LET v == View(held, m, rate)
             IN /\ v.total # {} <=> v.status = "degraded"
                /\ v.total # {} => v.total = v.cost /\ v.missing = {}
    BY CalculateIsSound DEF View
<1>7. all(rate).total # {} <=> \A v \in views(rate) : v.total # {}
    BY <1>1, <1>2, <1>3, <1>5
<1>8. ASSUME all(rate).total # {}
      PROVE  all(rate).total = UNION {v.total : v \in views(rate)}
  <2>1. all(rate).total = held /\ \A m \in MarketsOf(held) : View(held, m, rate).total = Of(m)
      BY <1>1, <1>2, <1>5, <1>8
  <2>2. held = UNION {Of(m) : m \in MarketsOf(held)}
      BY <1>3, <1>4
  <2>3. {v.total : v \in views(rate)} = {Of(m) : m \in MarketsOf(held)}
      BY <2>1
  <2> QED BY <2>1, <2>2, <2>3
<1> QED BY <1>6, <1>7, <1>8

(* Whatever quotes were stored, the page's totals are whole.                   *)
THEOREM TotalsAreWhole == CSpec => []TotalIsWhole
<1>1. StoreInv => TotalIsWhole
    BY TypesMakeTotalsWhole DEF StoreInv
<1> QED BY <1>1, BothInvariants, PTL

(* The totals of a cycle read complete only when the valuation source answered *)
(* in this very cycle about every holding.                                     *)
THEOREM CompleteTotalsAreFresh == CSpec => []CompleteMeansFresh
<1>1. StoreInv /\ VisitInv => CompleteMeansFresh
  <2> SUFFICES ASSUME StoreInv, VisitInv, NEW k \in Cycle, cycles[k].status = "completed",
                      Completeness(k) = "complete", NEW t \in Group(k)
               PROVE  \E a \in Attempt :
                          /\ attempts[a].cycle = k /\ attempts[a].status = "success"
                          /\ attempts[a].slot[1] = Valuation /\ Priced(a, t)
      BY DEF CompleteMeansFresh
  <2>1. t \in Valued(k) /\ ~Reused(k, t)
      BY DEF Completeness
  <2>2. PICK a \in Attempt : a = valuations[k][t] /\ Priced(a, t) /\ attempts[a].cycle = k
      BY <2>1 DEF Valued, Reused, Priced
  <2>3. attempts[a].status = "success"
      BY <2>2 DEF Priced, StoreInv, QuoteIffSuccess
  <2>4. t \in Ticker /\ valuations[k][t] # None
    <3>1. t \in Ticker
        BY <2>2 DEF Priced, StoreInv, TypeOK, RunRow, RowsAreLinked, Group
    <3> QED BY <2>2, <3>1, NoneAssumption
  <2>5. attempts[a].slot[1] = Valuation
      BY <2>2, <2>4 DEF VisitInv, FreshBeatsCache
  <2> QED BY <2>2, <2>3, <2>5
<1> QED BY <1>1, CyclesAreRecalled, PTL

-----------------------------------------------------------------------------
(* The report of a run that has ended *)

(* A cycle's row is new only inside a running run.                             *)
LEMMA NewCyclesAreOfRunningRuns ==
    ASSUME StoreInv, [Next]_vars, NEW k \in Cycle, cycles[k].status = "absent"
    PROVE  cycles'[k] = cycles[k] \/ runs[cycles'[k].run].status = "running"
<1>0. TypeOK
    BY DEF StoreInv
<1>1. CASE UNCHANGED cycles
    BY <1>1
<1>2. ASSUME NEW c \in Client, ClientStep(c), cycles' # cycles
      PROVE  cycles'[k] = cycles[k] \/ runs[cycles'[k].run].status = "running"
  <2>1. ASSUME NEW j \in Cycle, NEW r, NEW m, NEW o, StartCycle(c, j, r, m, o)
        PROVE  cycles'[k] = cycles[k] \/ runs[cycles'[k].run].status = "running"
      BY <1>0, <2>1 DEF StartCycle, TypeOK
  <2>2. ASSUME NEW j \in Cycle, NEW status, cycles[j].status = "running",
               cycles' = [cycles EXCEPT ![j].status = status, ![j].stamp = "closed"]
        PROVE  cycles'[k] = cycles[k]
      BY <1>0, <2>2 DEF TypeOK
  <2>3. CASE RecoverIncomplete(c)
      BY <1>0, <2>3 DEF RecoverIncomplete, TypeOK
  <2>4. CASE CycleStep(c)
      BY <2>1, <2>2, <2>4 DEF CycleStep, FinishCycle, StopCycle
  <2>5. CASE SessionStep(c) \/ CampaignStep(c) \/ RunStep(c) \/ AttemptStep(c)
      BY <1>2, <2>5 DEF SessionStep, Connect, AcquireLock, RollBack, Exit, ConnectionLost, Crash,
         tables, CampaignStep, CreateCampaign, FinishCampaign, RunStep, StartRun, FinishRun,
         InterruptRun, EndRun, AttemptStep, StartAttempt, FinishAttempt
  <2> QED BY <1>2, <2>3, <2>4, <2>5 DEF ClientStep
<1> QED BY <1>1, <1>2 DEF Next, SessionEnds, vars, tables

(* What belongs to a run that has ended stays as it is.                        *)
LEMMA EndedRunKeepsRows ==
    ASSUME StoreInv, StoreInv', [Next]_vars, NEW r \in Run,
           runs[r].status \notin {"absent", "running"}
    PROVE  /\ runs'[r] = runs[r] /\ CyclesOf({r})' = CyclesOf({r})
           /\ AttemptsOf({r})' = AttemptsOf({r})
           /\ \A k \in CyclesOf({r}) :
                 /\ cycles'[k] = cycles[k] /\ valuations'[k] = valuations[k]
                 /\ cycles[k].status \notin {"absent", "running"}
           /\ \A a \in Attempt : attempts'[a].cycle \in CyclesOf({r})
                                 \/ attempts[a].cycle \in CyclesOf({r})
                 => attempts'[a] = attempts[a] /\ quotes'[a] = quotes[a]
<1>0. KeepsNames /\ KeepsEndedRows /\ OpenWorkIsNested /\ RowsAreLinked
    BY StepKeepsNames, StepKeepsEndedRows DEF StoreInv
<1>1. runs'[r] = runs[r]
    BY <1>0 DEF KeepsEndedRows
<1>2. ASSUME NEW k \in Cycle, cycles[k].run = r
      PROVE  /\ cycles'[k] = cycles[k] /\ valuations'[k] = valuations[k]
             /\ cycles[k].status \notin {"absent", "running"}
  <2>1. cycles[k].status # "absent"
    <3>1. r # None /\ NoCycle.run = None
        BY NoneAssumption DEF NoCycle
    <3> QED BY <1>0, <1>2, <3>1 DEF RowsAreLinked
  <2>2. cycles[k].status # "running"
      BY <1>0, <1>2 DEF OpenWorkIsNested
  <2> QED BY <1>0, <2>1, <2>2 DEF KeepsEndedRows
<1>3. ASSUME NEW k \in Cycle, cycles'[k].run = r PROVE cycles[k].run = r
  <2>1. CASE cycles[k].status = "absent"
      BY <1>3, <2>1, NewCyclesAreOfRunningRuns
  <2>2. CASE cycles[k].status # "absent"
      BY <1>0, <1>3, <2>2 DEF KeepsNames
  <2> QED BY <2>1, <2>2
<1>4. CyclesOf({r})' = CyclesOf({r})
    BY <1>2, <1>3 DEF CyclesOf
<1>5. ASSUME NEW a \in Attempt, NEW k \in CyclesOf({r}), attempts'[a].cycle = k
      PROVE  attempts'[a] = attempts[a]
  <2>1. cycles[k].status # "running" /\ k \in Cycle
      BY <1>2 DEF CyclesOf
  <2> QED BY <1>0, <1>5, <2>1 DEF KeepsNames
<1>6. ASSUME NEW a \in Attempt, NEW k \in CyclesOf({r}), attempts[a].cycle = k
      PROVE  /\ attempts'[a] = attempts[a] /\ quotes'[a] = quotes[a]
  <2>1. k \in Cycle /\ cycles[k].status # "running"
      BY <1>2 DEF CyclesOf
  <2>2. attempts[a].status \notin {"absent", "started"}
    <3>1. k # None
        BY <2>1, NoneAssumption
    <3> QED BY <1>0, <1>6, <2>1, <3>1 DEF RowsAreLinked, OpenWorkIsNested, NoAttempt
  <2> QED BY <1>0, <2>2 DEF KeepsEndedRows
<1>7. AttemptsOf({r})' = AttemptsOf({r})
    BY <1>4, <1>5, <1>6 DEF AttemptsOf
<1>8. \A k \in CyclesOf({r}) : k \in Cycle /\ cycles[k].run = r
    BY DEF CyclesOf
<1> QED BY <1>1, <1>2, <1>4, <1>5, <1>6, <1>7, <1>8

(* What the report of an ended run is drawn from, its own quotes and those it  *)
(* valued with.                                                                *)
LEMMA EndedRunKeepsQuotes ==
    ASSUME StoreInv, StoreInv', [Next]_vars, NEW r \in Run,
           runs[r].status \notin {"absent", "running"}
    PROVE  /\ QuotesRead({r})' = QuotesRead({r})
           /\ \A a \in QuotesRead({r}) : attempts'[a] = attempts[a] /\ quotes'[a] = quotes[a]
<1>0. KeepsEndedRows /\ QuoteIffSuccess /\ ValuationHasQuote
    BY StepKeepsEndedRows DEF StoreInv
<1>1. ASSUME NEW a \in Attempt, quotes[a] # "none"
      PROVE  attempts'[a] = attempts[a] /\ quotes'[a] = quotes[a]
    BY <1>0, <1>1 DEF QuoteIffSuccess, KeepsEndedRows
<1>2. CyclesOf({r})' = CyclesOf({r}) /\ \A k \in CyclesOf({r}) : valuations'[k] = valuations[k]
    BY EndedRunKeepsRows
<1>3. ASSUME NEW a \in Attempt, NEW k \in CyclesOf({r}),
             quotes'[a] # "none",
             attempts'[a].cycle = k \/ \E t \in Ticker : valuations'[k][t] = a
      PROVE  quotes[a] # "none"
  <2>1. CASE attempts'[a].cycle = k
      BY <1>3, <2>1, EndedRunKeepsRows
  <2>2. CASE \E t \in Ticker : valuations'[k][t] = a
      BY <1>0, <1>2, <2>2 DEF ValuationHasQuote, CyclesOf
  <2> QED BY <1>3, <2>1, <2>2
<1>4. QuotesRead({r})' = QuotesRead({r})
  <2>1. ASSUME NEW a \in QuotesRead({r}) PROVE a \in QuotesRead({r})'
      BY <1>1, <1>2, <2>1 DEF QuotesRead
  <2>2. ASSUME NEW a \in QuotesRead({r})' PROVE a \in QuotesRead({r})
    <3>1. PICK k \in CyclesOf({r}) :
              attempts'[a].cycle = k \/ \E t \in Ticker : valuations'[k][t] = a
        BY <1>2, <2>2 DEF QuotesRead
    <3>2. a \in Attempt /\ quotes'[a] # "none"
        BY <2>2 DEF QuotesRead
    <3>3. quotes[a] # "none"
        BY <1>3, <3>1, <3>2
    <3>4. attempts[a].cycle = k \/ \E t \in Ticker : valuations[k][t] = a
        BY <1>1, <1>2, <3>1, <3>2, <3>3
    <3> QED BY <3>2, <3>3, <3>4 DEF QuotesRead
  <2> QED BY <2>1, <2>2
<1>5. \A a \in QuotesRead({r}) : a \in Attempt /\ quotes[a] # "none"
    BY DEF QuotesRead
<1> QED BY <1>1, <1>4, <1>5

(* The counts of cycles and operations.                                        *)
LEMMA CountsStay ==
    ASSUME StoreInv, StoreInv', [Next]_vars, NEW r \in Run,
           runs[r].status \notin {"absent", "running"}
    PROVE  /\ CycleCounts({r})' = CycleCounts({r})
           /\ aggregate(AttemptsOf({r}), AllFresh)' = aggregate(AttemptsOf({r}), AllFresh)
<1>1. /\ CyclesOf({r})' = CyclesOf({r}) /\ AttemptsOf({r})' = AttemptsOf({r})
      /\ \A k \in CyclesOf({r}) : cycles'[k] = cycles[k]
      /\ \A a \in AttemptsOf({r}) : attempts'[a] = attempts[a]
    BY EndedRunKeepsRows DEF AttemptsOf
<1>2. CycleCounts({r})' = CycleCounts({r})
  <2>1. \A s : {k \in CyclesOf({r}) : cycles[k].status = s}'
                 = {k \in CyclesOf({r}) : cycles[k].status = s}
      BY <1>1
  <2> QED BY <2>1, Zenon DEF CycleCounts
<1>3. aggregate(AttemptsOf({r}), AllFresh)' = aggregate(AttemptsOf({r}), AllFresh)
  <2>1. PICK A : A = AttemptsOf({r})
      OBVIOUS
  <2>2. AttemptsOf({r})' = A /\ \A a \in A : attempts'[a] = attempts[a]
      BY <1>1, <2>1
  <2>3. AllFresh.ran = Attempt /\ A \cap Attempt = A
      BY <2>1 DEF AllFresh, AttemptsOf
  <2>4. \A B : B \subseteq A => opportunities(B)' = opportunities(B)
      BY <2>2 DEF opportunities
  <2>5. \A g : Succeeded(A, g)' <=> Succeeded(A, g)
      BY <2>2 DEF Succeeded, InGroup
  <2>6. /\ {a \in A : attempts'[a].slot[2] > 1} = {a \in A : attempts[a].slot[2] > 1}
        /\ {a \in A : attempts'[a].slot[2] = 1} = {a \in A : attempts[a].slot[2] = 1}
        /\ {a \in {b \in A : attempts'[b].slot[2] = 1} : attempts'[a].status = "success"}
             = {a \in {b \in A : attempts[b].slot[2] = 1} : attempts[a].status = "success"}
      BY <2>2
  <2>7. /\ {g \in opportunities(A)' : Succeeded(A, g)'} = {g \in opportunities(A) : Succeeded(A, g)}
      BY <2>4, <2>5
  <2>8. aggregate(A, AllFresh)' = aggregate(A, AllFresh)
      BY <2>3, <2>4, <2>6, <2>7, Zenon DEF aggregate
  <2> QED BY <2>1, <2>2, <2>8
<1> QED BY <1>2, <1>3

(* An ended run's coverage of its holdings stays as it is.                    *)
LEMMA CoverageStays ==
    ASSUME StoreInv, StoreInv', [Next]_vars, NEW r \in Run,
           runs[r].status \notin {"absent", "running"}
    PROVE  coverage(runs[r].held, {r}, AllFresh)' = coverage(runs[r].held, {r}, AllFresh)
<1>1. PICK A, Q, held : A = AttemptsOf({r}) /\ Q = QuotesRead({r}) /\ held = runs[r].held
    OBVIOUS
<1>2. /\ AttemptsOf({r})' = A /\ QuotesRead({r})' = Q /\ runs'[r].held = held
      /\ A \subseteq Attempt /\ Q \subseteq Attempt
      /\ \A a \in A \cup Q : attempts'[a] = attempts[a]
    BY <1>1, EndedRunKeepsRows, EndedRunKeepsQuotes DEF AttemptsOf, QuotesRead
<1> DEFINE asked(t) == {a \in Attempt : attempts[a].ticker = t /\ attempts[a].slot[1] = Valuation}
           asked2(t) == {a \in Attempt : attempts'[a].ticker = t /\ attempts'[a].slot[1] = Valuation}
           verified == {t \in held : (asked(t) \cap Q) \ AllFresh.foreign # {}}
           verified2 == {t \in held : (asked2(t) \cap Q) \ AllFresh.foreign # {}}
           unsupported == {t \in (held \cap Unresolved) \ verified : asked(t) \cap A # {}}
           unsupported2 == {t \in (held \cap Unresolved) \ verified2 : asked2(t) \cap A # {}}
<1>3. \A t : asked(t) \cap Q = asked2(t) \cap Q /\ asked(t) \cap A = asked2(t) \cap A
    BY <1>2
<1>4. verified = verified2
    BY <1>3
<1>5. unsupported = unsupported2
    BY <1>3, <1>4
<1>6. coverage(runs[r].held, {r}, AllFresh)
        = [verified |-> verified, unsupported |-> unsupported,
           unverified |-> held \ (verified \cup unsupported),
           catalog_coverage |-> ratio(verified, held, 0)]
    BY <1>1, Zenon DEF coverage
<1>7. coverage(runs[r].held, {r}, AllFresh)'
        = [verified |-> verified2, unsupported |-> unsupported2,
           unverified |-> held \ (verified2 \cup unsupported2),
           catalog_coverage |-> ratio(verified2, held, 0)]
    BY <1>2, Zenon DEF coverage
<1> HIDE DEF verified, verified2, unsupported, unsupported2
<1> QED BY <1>4, <1>5, <1>6, <1>7

(* What a run's report prices its holdings with.                               *)
LEMMA PricesStay ==
    ASSUME StoreInv, StoreInv', [Next]_vars, NEW r \in Run,
           runs[r].status \notin {"absent", "running"}, NEW k \in CyclesOf({r})
    PROVE  /\ Group(k)' = Group(k) /\ Completeness(k)' = Completeness(k)
           /\ \A t \in Ticker : /\ StoredValue(k, t)' = StoredValue(k, t)
                                /\ Recomputed(k, t)' = Recomputed(k, t)
<1>1. /\ cycles'[k] = cycles[k] /\ valuations'[k] = valuations[k]
      /\ k \in Cycle /\ cycles[k].run = r /\ runs'[r] = runs[r]
    BY EndedRunKeepsRows DEF CyclesOf
<1>2. Group(k)' = Group(k)
    BY <1>1 DEF Group
<1>3. Group(k) \subseteq Ticker
    BY <1>1 DEF StoreInv, TypeOK, RunRow, Group
<1>4. ASSUME NEW t \in Ticker, valuations[k][t] \in Attempt
      PROVE  /\ attempts'[valuations[k][t]] = attempts[valuations[k][t]]
             /\ quotes'[valuations[k][t]] = quotes[valuations[k][t]]
  <2>1. quotes[valuations[k][t]] # "none"
      BY <1>1, <1>4 DEF StoreInv, ValuationHasQuote
  <2>2. valuations[k][t] \in QuotesRead({r})
      BY <1>4, <2>1 DEF QuotesRead
  <2> QED BY <2>2, EndedRunKeepsQuotes
<1>5. \A t \in Ticker : Priced(valuations[k][t], t)' = Priced(valuations[k][t], t)
    BY <1>1, <1>4 DEF Priced
<1>6. Valued(k)' = Valued(k)
    BY <1>2, <1>3, <1>5 DEF Valued
<1>7. \A t \in Valued(k) : Reused(k, t)' <=> Reused(k, t)
    BY <1>1, <1>3, <1>4 DEF Valued, Priced, Reused
<1>8. Completeness(k)' = Completeness(k)
    BY <1>2, <1>6, <1>7 DEF Completeness
<1> QED BY <1>1, <1>2, <1>5, <1>8 DEF StoredValue, Recomputed

(* So does the check of its valuations.                                       *)
LEMMA ValuationsStay ==
    ASSUME StoreInv, StoreInv', [Next]_vars, NEW r \in Run,
           runs[r].status \notin {"absent", "running"}
    PROVE  valuation_check({r})' = valuation_check({r})
<1>1. PICK C : C = CyclesOf({r})
    OBVIOUS
<1>2. CyclesOf({r})' = C /\ \A k \in C : cycles'[k] = cycles[k]
    BY <1>1, EndedRunKeepsRows
<1>3. \A m : LatestCycles({r}, m)' = LatestCycles({r}, m) /\ LatestCycles({r}, m) \subseteq C
  <2> TAKE m
  <2> DEFINE done == {k \in C : cycles[k].status = "completed" /\ cycles[k].market = m}
             done2 == {k \in C : cycles'[k].status = "completed" /\ cycles'[k].market = m}
  <2>1. done = done2 /\ done \subseteq C
      BY <1>2
  <2>2. LatestCycles({r}, m) =
           {k \in done : \A j \in done :
               ScheduledAt(cycles[j].opportunity) <= ScheduledAt(cycles[k].opportunity)}
      BY <1>1 DEF LatestCycles
  <2>3. LatestCycles({r}, m)' =
           {k \in done2 : \A j \in done2 :
               ScheduledAt(cycles'[j].opportunity) <= ScheduledAt(cycles'[k].opportunity)}
      BY <1>2 DEF LatestCycles
  <2> HIDE DEF done, done2
  <2> QED BY <1>2, <2>1, <2>2, <2>3
<1> DEFINE checked == UNION {LatestCycles({r}, m) : m \in Market}
<1>4. checked' = checked /\ checked \subseteq C
    BY <1>3
<1>5. \A k \in C : /\ Group(k)' = Group(k) /\ Completeness(k)' = Completeness(k)
                   /\ \A t \in Ticker : /\ StoredValue(k, t)' = StoredValue(k, t)
                                        /\ Recomputed(k, t)' = Recomputed(k, t)
    BY <1>1, PricesStay
<1>6. mismatches({r})' = mismatches({r})
  <2>1. \A x \in C \X Ticker :
            /\ x[1] \in C /\ x[2] \in Ticker
            /\ (x[2] \in Group(x[1]))' <=> x[2] \in Group(x[1])
            /\ StoredValue(x[1], x[2])' = StoredValue(x[1], x[2])
            /\ Recomputed(x[1], x[2])' = Recomputed(x[1], x[2])
      BY <1>5
  <2> QED BY <1>1, <1>2, <1>3, <2>1 DEF mismatches
<1> DEFINE valued(c) == {k \in CyclesOf({r}) : cycles[k].status = "completed" /\ Completeness(k) = c}
<1>7. \A c : valued(c)' = valued(c)
    BY <1>1, <1>2, <1>5
<1>8. valuation_check({r}) =
        [checked |-> checked, completeness |-> [c \in Completenesses |-> Cardinality(valued(c))],
         mismatches |-> mismatches({r}), agrees |-> mismatches({r}) = {} /\ checked # {}]
    BY Zenon DEF valuation_check
<1>9. valuation_check({r})' =
        [checked |-> checked', completeness |-> [c \in Completenesses |-> Cardinality(valued(c)')],
         mismatches |-> mismatches({r})',
         agrees |-> mismatches({r})' = {} /\ checked' # {}]
    BY Zenon DEF valuation_check
<1> HIDE DEF checked, valued
<1> QED BY <1>4, <1>6, <1>7, <1>8, <1>9, Zenon

(* The plan's rows an ended run is charged with.                               *)
LEMMA ClaimIsUnique ==
    ASSUME StoreInv, NEW o \in Opportunity, NEW k \in Cycle, cycles[k].opportunity = o
    PROVE  Claimed(o) /\ ClaimOf(o) = k
<1>1. o # None
    BY NoneAssumption
<1>2. \A j \in Cycle : cycles[j].opportunity = o => j = k
    BY <1>1 DEF StoreInv, OpportunityClaimedOnce
<1> QED BY <1>2 DEF Claimed, ClaimOf

(* What counts as fresh in the report of a run: its own claims, with a quote.  *)
Fetches(k, o, t) ==
    /\ cycles[k].opportunity = o
    /\ \E a \in Attempt : /\ attempts[a].cycle = k /\ attempts[a].ticker = t
                          /\ attempts[a].slot[1] = Valuation /\ quotes[a] # "none"

(* The regular opportunities at which a run itself fetched a holding's quote. *)
OwnFresh(r) ==
    {x \in Opportunity \X runs[r].held :
        /\ <<x[1][2], ScheduledAt(x[1])>> \in Regular /\ MarketOf[x[2]] = x[1][2]
        /\ \E k \in CyclesOf({r}) : Fetches(k, x[1], x[2])}

(* A run's report counts as fresh exactly those.                              *)
FreshIsOwn ==
    \A r \in Run : runs[r].campaign # None =>
        freshness(run_schedule(r, clock), clock, runs[r].held, AllFresh).fresh
          = Cardinality(OwnFresh(r))

(* It does in every state with the store's invariant.                         *)
LEMMA FreshIsItsOwn == StoreInv => FreshIsOwn
<1> SUFFICES ASSUME StoreInv, NEW r \in Run, runs[r].campaign # None
             PROVE  freshness(run_schedule(r, clock), clock, runs[r].held, AllFresh).fresh
                      = Cardinality(OwnFresh(r))
    BY DEF FreshIsOwn
<1> DEFINE held == runs[r].held
           rows == run_schedule(r, clock)
           qualified == {x \in Arrived(rows, clock) \X held :
                            <<x[1][2], ScheduledAt(x[1])>> \in Regular
                              /\ MarketOf[x[2]] = x[1][2]}
           outcome == {x \in qualified : \E a \in fetched(x[1], x[2]) : AllFresh.age[a] = "fresh"}
<1>1. freshness(rows, clock, held, AllFresh).fresh = Cardinality(outcome)
    BY Zenon DEF freshness
<1>2. \A o, t : \A a \in fetched(o, t) : a \in Attempt /\ AllFresh.age[a] = "fresh"
    BY DEF fetched, AllFresh
<1>3. ASSUME NEW o \in Opportunity, NEW t
      PROVE  o \in Arrived(rows, clock) /\ fetched(o, t) # {}
               <=> \E k \in CyclesOf({r}) : Fetches(k, o, t)
  <2>1. ASSUME o \in Arrived(rows, clock), NEW a \in fetched(o, t)
        PROVE  \E k \in CyclesOf({r}) : Fetches(k, o, t)
    <3>1. /\ a \in Attempt /\ Claimed(o) /\ attempts[a].cycle = ClaimOf(o)
          /\ attempts[a].ticker = t /\ attempts[a].slot[1] = Valuation /\ quotes[a] # "none"
        BY <2>1 DEF fetched
    <3>2. PICK k \in Cycle : cycles[k].opportunity = o
        BY <3>1 DEF Claimed
    <3>3. ClaimOf(o) = k
        BY <3>2, ClaimIsUnique
    <3>4. cycles[k].run = r
        BY <2>1, <3>1, <3>3 DEF Arrived, run_schedule
    <3>5. k \in CyclesOf({r})
        BY <3>4 DEF CyclesOf
    <3> QED BY <3>1, <3>2, <3>3, <3>5 DEF Fetches
  <2>2. ASSUME NEW k \in CyclesOf({r}), Fetches(k, o, t)
        PROVE  o \in Arrived(rows, clock) /\ fetched(o, t) # {}
    <3>1. k \in Cycle /\ cycles[k].run = r /\ cycles[k].opportunity = o
        BY <2>2 DEF CyclesOf, Fetches
    <3>2. Claimed(o) /\ ClaimOf(o) = k
        BY <3>1, ClaimIsUnique
    <3>3. o # None
        BY NoneAssumption
    <3>4. plan[o] = [campaign |-> runs[r].campaign, market |-> cycles[k].market]
        BY <3>1, <3>3 DEF StoreInv, OpportunityClaimedOnce
    <3>5. o \in Arrived(rows, clock)
        BY <3>1, <3>2, <3>4 DEF Arrived, due, run_schedule, schedule
    <3> QED BY <2>2, <3>2, <3>5 DEF Fetches, fetched
  <2> QED BY <2>1, <2>2
<1>4. Arrived(rows, clock) \subseteq Opportunity
    BY DEF Arrived, run_schedule, schedule
<1>5. outcome = OwnFresh(r)
  <2> HIDE DEF rows
  <2>1. ASSUME NEW x, x \in outcome PROVE x \in OwnFresh(r)
    <3>1. /\ x \in Arrived(rows, clock) \X held /\ fetched(x[1], x[2]) # {}
          /\ <<x[1][2], ScheduledAt(x[1])>> \in Regular /\ MarketOf[x[2]] = x[1][2]
        BY <2>1
    <3>2. x \in Opportunity \X held /\ x[1] \in Opportunity
        BY <1>4, <3>1
    <3>3. \E k \in CyclesOf({r}) : Fetches(k, x[1], x[2])
        BY <1>3, <3>1, <3>2
    <3> QED BY <3>1, <3>2, <3>3 DEF OwnFresh
  <2>2. ASSUME NEW x, x \in OwnFresh(r) PROVE x \in outcome
    <3>1. /\ x \in Opportunity \X held /\ x[1] \in Opportunity
          /\ <<x[1][2], ScheduledAt(x[1])>> \in Regular /\ MarketOf[x[2]] = x[1][2]
          /\ \E k \in CyclesOf({r}) : Fetches(k, x[1], x[2])
        BY <2>2 DEF OwnFresh
    <3>2. x[1] \in Arrived(rows, clock) /\ fetched(x[1], x[2]) # {}
        BY <1>3, <3>1
    <3>3. x \in qualified
        BY <3>1, <3>2
    <3> QED BY <1>2, <3>2, <3>3
  <2> HIDE DEF outcome
  <2> QED BY <2>1, <2>2
<1> QED BY <1>1, <1>5

(* What an ended run fetched stays as it is.                                  *)
LEMMA FetchedStays ==
    ASSUME StoreInv, StoreInv', [Next]_vars, NEW r \in Run,
           runs[r].status \notin {"absent", "running"}
    PROVE  OwnFresh(r)' = OwnFresh(r)
<1>1. PICK C, held : C = CyclesOf({r}) /\ held = runs[r].held
    OBVIOUS
<1>2. CyclesOf({r})' = C /\ runs'[r].held = held /\ \A k \in C : cycles'[k] = cycles[k]
    BY <1>1, EndedRunKeepsRows
<1>3. \A a \in Attempt : attempts'[a].cycle \in C \/ attempts[a].cycle \in C
          => attempts'[a] = attempts[a] /\ quotes'[a] = quotes[a]
    BY <1>1, EndedRunKeepsRows
<1>4. \A k \in C : \A o, t : Fetches(k, o, t)' <=> Fetches(k, o, t)
    BY <1>2, <1>3 DEF Fetches
<1>5. \A o, t : (\E k \in C : Fetches(k, o, t)') <=> \E k \in C : Fetches(k, o, t)
    BY <1>4
<1>6. OwnFresh(r) = {x \in Opportunity \X held :
           /\ <<x[1][2], ScheduledAt(x[1])>> \in Regular /\ MarketOf[x[2]] = x[1][2]
           /\ \E k \in C : Fetches(k, x[1], x[2])}
    BY <1>1 DEF OwnFresh
<1>7. OwnFresh(r)' = {x \in Opportunity \X held :
           /\ <<x[1][2], ScheduledAt(x[1])>> \in Regular /\ MarketOf[x[2]] = x[1][2]
           /\ \E k \in C : Fetches(k, x[1], x[2])'}
    BY <1>2 DEF OwnFresh, ScheduledAt
<1> QED BY <1>5, <1>6, <1>7

(* Later on an ended run is charged with no more gaps.                         *)
LEMMA FewerGaps ==
    ASSUME StoreInv, CollectorInv, CTypeOK', EndsAreRecorded, [CNext]_cvars, RunsHaveCampaigns,
           NEW r \in Run, runs[r].stamp = "closed", runs[r].campaign # None,
           endedAt'[r] = endedAt[r], runs'[r] = runs[r]
    PROVE  /\ GapsCharged(r) \in Nat /\ GapsCharged(r)' \in Nat
           /\ GapsCharged(r)' <= GapsCharged(r)
<1>0. TypeOK /\ CTypeOK /\ PlansStay /\ [Next]_vars
    BY StepKeepsPlans, StepIsStoreStep DEF StoreInv, CollectorInv
<1>1. PICK p \in Campaign : p = runs[r].campaign
    BY <1>0 DEF TypeOK, RunRow
<1>2. campaigns[p] # "absent" /\ runs[r].status # "absent"
    BY <1>1 DEF RunsHaveCampaigns, StoreInv, EndedIffStamped
<1>3. PICK end \in Time : end = endedAt[r]
    BY <1>0 DEF EndsAreRecorded, CTypeOK
<1>4. /\ end <= clock /\ end <= clock' /\ startedAt'[r] = startedAt[r]
      /\ end \in Int /\ clock \in Int /\ clock' \in Int /\ end # None
    BY <1>0, <1>2, <1>3, TimeAssumption DEF EndsAreRecorded, PlansStay, CTypeOK, Time
<1> DEFINE gaps == Gaps(run_schedule(r, clock), clock)
<1>5. \A o \in Opportunity : /\ o[3] \in Int
                             /\ plan'[o].campaign = p => plan[o].campaign = p
                             /\ Claimed(o) => Claimed(o)'
    BY <1>0, <1>2, ClaimsStay, TimeAssumption DEF PlansStay, Claimed
<1>6. gaps = {o \in Opportunity : /\ plan[o].campaign = p /\ ~Claimed(o)
                                  /\ startedAt[r] <= ScheduledAt(o) /\ ScheduledAt(o) <= end}
    BY <1>1, <1>3, <1>4, <1>5 DEF Gaps, Arrived, due, run_schedule, schedule, ScheduledAt
<1>7. gaps' = {o \in Opportunity : /\ plan'[o].campaign = p /\ ~Claimed(o)'
                                   /\ startedAt[r] <= ScheduledAt(o) /\ ScheduledAt(o) <= end}
    BY <1>1, <1>3, <1>4, <1>5 DEF Gaps, Arrived, due, run_schedule, schedule, ScheduledAt
<1>8. gaps' \subseteq gaps /\ gaps \subseteq Opportunity
    BY <1>5, <1>6, <1>7
<1>9. IsFiniteSet(Opportunity)
  <2>1. IsFiniteSet(0..MaxTime)
    <3>1. 0 \in Int /\ MaxTime \in Int
        BY TimeAssumption
    <3> QED BY <3>1, FS_Interval
  <2>2. IsFiniteSet(Campaign \X (Market \X (0..MaxTime)))
    <3>1. IsFiniteSet(Market \X (0..MaxTime))
        BY <2>1, TableAssumption, FS_Product
    <3> QED BY <3>1, TableAssumption, FS_Product
  <2> DEFINE flat == [x \in Campaign \X (Market \X (0..MaxTime)) |-> <<x[1], x[2][1], x[2][2]>>]
  <2>3. flat \in Surjection(Campaign \X (Market \X (0..MaxTime)), Opportunity)
    <3>1. flat \in [Campaign \X (Market \X (0..MaxTime)) -> Opportunity]
        BY TimeAssumption
    <3>2. ASSUME NEW o \in Opportunity
          PROVE  \E x \in Campaign \X (Market \X (0..MaxTime)) : flat[x] = o
      <4>1. /\ o[1] \in Campaign /\ o[2] \in Market /\ o[3] \in 0..MaxTime
            /\ o = <<o[1], o[2], o[3]>>
          BY TimeAssumption
      <4>2. <<o[1], <<o[2], o[3]>>>> \in Campaign \X (Market \X (0..MaxTime))
          BY <4>1
      <4>3. flat[<<o[1], <<o[2], o[3]>>>>] = o
          BY <4>1, <4>2
      <4> QED BY <4>2, <4>3
    <3> QED BY <3>1, <3>2 DEF Surjection
  <2> HIDE DEF flat
  <2> QED BY <2>2, <2>3, FS_Surjection
<1> HIDE DEF gaps
<1>10. /\ IsFiniteSet(gaps) /\ IsFiniteSet(gaps') /\ Cardinality(gaps) \in Nat
       /\ Cardinality(gaps') \in Nat /\ Cardinality(gaps') <= Cardinality(gaps)
    BY <1>8, <1>9, FS_Subset, FS_CardinalityType
<1> QED BY <1>10 DEF GapsCharged, gaps

(* Once a run has ended, its report keeps what it says of the run's own work,  *)
(* and is charged with no later gap.                                           *)
LEMMA StepKeepsReport ==
    ASSUME StoreInv, StoreInv', CollectorInv, CTypeOK', RunsHaveCampaigns, EndsAreRecorded,
           FreshIsOwn, FreshIsOwn', [CNext]_cvars,
           NEW r \in Run, runs[r].stamp = "closed", runs[r].campaign # None
    PROVE  OwnWork(r)' = OwnWork(r) /\ GapsCharged(r)' <= GapsCharged(r)
<1>0. [Next]_vars /\ PlansStay
    BY StepIsStoreStep, StepKeepsPlans DEF StoreInv, CollectorInv
<1>1. runs[r].status \notin {"absent", "running"}
    BY DEF StoreInv, EndedIffStamped
<1>2. runs'[r] = runs[r]
    BY <1>0, <1>1, EndedRunKeepsRows
<1>3. freshness(run_schedule(r, clock), clock, runs[r].held, AllFresh).fresh'
        = freshness(run_schedule(r, clock), clock, runs[r].held, AllFresh).fresh
    BY <1>0, <1>1, <1>2, FetchedStays DEF FreshIsOwn
<1>4. OwnWork(r)' = OwnWork(r)
  <2>1. /\ CycleCounts({r})' = CycleCounts({r})
        /\ aggregate(AttemptsOf({r}), AllFresh)' = aggregate(AttemptsOf({r}), AllFresh)
      BY <1>0, <1>1, CountsStay
  <2>2. coverage(runs[r].held, {r}, AllFresh)' = coverage(runs[r].held, {r}, AllFresh)
      BY <1>0, <1>1, CoverageStays
  <2>3. valuation_check({r})' = valuation_check({r})
      BY <1>0, <1>1, ValuationsStay
  <2> QED BY <1>3, <2>1, <2>2, <2>3, Zenon DEF OwnWork
<1>5. GapsCharged(r)' <= GapsCharged(r)
  <2>1. endedAt'[r] = endedAt[r]
      BY <1>0, StepRecordsEnds
  <2> QED BY <1>2, <2>1, FewerGaps
<1> QED BY <1>4, <1>5

(* The reports of the runs that have ended stay as they are.                   *)
ReportsStay ==
    <<tables, clock>>' # <<tables, clock>> =>
       \A r \in Run : runs[r].stamp = "closed" /\ runs[r].campaign # None =>
          OwnWork(r)' = OwnWork(r) /\ GapsCharged(r)' <= GapsCharged(r)

(* Every step keeps the reports of the runs that have ended.                  *)
LEMMA StepKeepsReports ==
    /\ StoreInv /\ StoreInv' /\ CollectorInv /\ CollectorInv' /\ PlanInv /\ EndsAreRecorded
    /\ FreshIsOwn /\ FreshIsOwn' /\ [CNext]_cvars
    => ReportsStay
<1> SUFFICES ASSUME StoreInv, StoreInv', CollectorInv, CollectorInv', PlanInv, EndsAreRecorded,
                    FreshIsOwn, FreshIsOwn', [CNext]_cvars
             PROVE  ReportsStay
    OBVIOUS
<1>1. \A r \in Run : runs[r].stamp = "closed" /\ runs[r].campaign # None =>
         OwnWork(r)' = OwnWork(r) /\ GapsCharged(r)' <= GapsCharged(r)
    BY StepKeepsReport DEF CollectorInv, PlanInv
<1> QED BY <1>1 DEF ReportsStay

(* The report of an ended run is final: whenever it is drawn up later, it      *)
(* counts the same cycles, operations, quotes and values, and no more gaps.    *)
THEOREM EndedReportsAreFinal == CSpec => EndedReportIsFinal
<1>1. StoreInv => FreshIsOwn
    BY FreshIsItsOwn
<1>2. CSpec => [][ReportsStay]_cvars
    BY <1>1, StepKeepsReports, BothInvariants, PlansAreKept, EndsStayRecorded, PTL DEF CSpec
<1> QED BY <1>2 DEF ReportsStay, EndedReportIsFinal

-----------------------------------------------------------------------------
(* Numbers, recursion and sums *)

(* A set of natural numbers has a least element.                               *)
LEMMA LeastNumber ==
    ASSUME NEW T, T \subseteq Nat, T # {}
    PROVE  \E t \in T : \A y \in T : t <= y
<1> DEFINE Less == {x \in Nat \X Nat : x[1] < x[2]}
<1>1. IsWellFoundedOn(Less, Nat)
    BY NatLessThanWellFounded DEF OpToRel
<1>2. PICK t \in T : \A y \in T : ~(<<y, t>> \in Less)
  <2> HIDE DEF Less
  <2> QED BY <1>1, WFMin
<1>3. \A y \in T : ~(y < t)
    BY <1>2
<1> QED BY <1>3

(* Induction for a set of natural numbers.                                     *)
LEMMA SetOfAll ==
    ASSUME NEW S, 0 \in S, \A n \in Nat : n \in S => n + 1 \in S
    PROVE  \A n \in Nat : n \in S
<1> SUFFICES ASSUME NEW n \in Nat, n \notin S PROVE FALSE
    OBVIOUS
<1> DEFINE T == {k \in Nat : k \notin S}
<1>1. PICK t \in T : \A y \in T : t <= y
  <2>1. T \subseteq Nat /\ T # {}
      OBVIOUS
  <2> HIDE DEF T
  <2> QED BY <2>1, LeastNumber
<1>2. t \in Nat /\ t # 0 /\ t - 1 \in Nat
    BY <1>1
<1>3. t - 1 \in S
    BY <1>1, <1>2
<1> QED BY <1>1, <1>2, <1>3

(* A recursion over an interval of times, and that it has a solution.          *)
Unfolds(f, N, X, base, next) ==
    /\ f \in [-1..N -> X] /\ f[-1] = base
    /\ \A t \in 0..N : f[t] = next[<<f[t - 1], t>>]

(* Such a recursion has a solution, whatever its step function is.            *)
LEMMA RecursionHasSolution ==
    ASSUME NEW N \in Nat, NEW X, NEW base \in X, NEW next \in [X \X (0..N) -> X]
    PROVE  \E f : Unfolds(f, N, X, base, next)
<1> DEFINE Solves(f, n) == /\ f \in [-1..(n - 1) -> X] /\ f[-1] = base
                           /\ \A t \in 0..(n - 1) : f[t] = next[<<f[t - 1], t>>]
           S == {n \in Nat : n <= N + 1 => \E f : Solves(f, n)}
<1>1. 0 \in S
  <2>1. Solves([t \in -1..(0 - 1) |-> base], 0)
      OBVIOUS
  <2> QED BY <2>1
<1>2. ASSUME NEW n \in Nat, n \in S PROVE n + 1 \in S
  <2>1. CASE n <= N
    <3>1. PICK f : Solves(f, n)
        BY <1>2, <2>1
    <3> DEFINE g == [t \in -1..n |-> IF t = n THEN next[<<f[n - 1], n>>] ELSE f[t]]
    <3>2. f[n - 1] \in X /\ next[<<f[n - 1], n>>] \in X
        BY <2>1, <3>1
    <3>3. g \in [-1..n -> X] /\ g[-1] = base
      <4>1. ASSUME NEW t \in -1..n PROVE g[t] \in X
        <5>1. CASE t = n
            BY <3>2, <5>1
        <5>2. CASE t # n
          <6>1. t \in -1..(n - 1)
              BY <5>2
          <6> QED BY <3>1, <5>2, <6>1
        <5> QED BY <5>1, <5>2
      <4>2. g \in [-1..n -> X]
          BY <4>1
      <4>3. g[-1] = f[-1]
          OBVIOUS
      <4> QED BY <3>1, <4>2, <4>3
    <3>4. ASSUME NEW t \in 0..n PROVE g[t] = next[<<g[t - 1], t>>]
      <4>1. g[t - 1] = f[t - 1]
          OBVIOUS
      <4>2. CASE t = n
        <5>1. g[n] = next[<<f[n - 1], n>>]
            OBVIOUS
        <5> HIDE DEF g
        <5> QED BY <4>1, <4>2, <5>1
      <4>3. CASE t # n
        <5>1. t \in 0..(n - 1) /\ t \in -1..n
            BY <4>3
        <5>2. g[t] = f[t] /\ f[t] = next[<<f[t - 1], t>>]
            BY <3>1, <4>3, <5>1
        <5> HIDE DEF g
        <5> QED BY <4>1, <5>2
      <4> QED BY <4>2, <4>3
    <3>5. n + 1 \in Nat /\ (n + 1) - 1 = n
        OBVIOUS
    <3>6. Solves(g, n + 1)
      <4> HIDE DEF g
      <4> QED BY <3>3, <3>4, <3>5
    <3> QED BY <3>5, <3>6
  <2> QED BY <1>2, <2>1
<1>3. N + 1 \in S
  <2> HIDE DEF S
  <2> QED BY <1>1, <1>2, SetOfAll
<1>4. PICK f : Solves(f, N + 1)
    BY <1>3
<1>5. Unfolds(f, N, X, base, next)
    BY <1>4 DEF Unfolds
<1> QED BY <1>5

(* What a sequence of counts adds up to.                                       *)
Counted(w) == FoldSeq(LAMBDA x, n : x.count + n, 0, w)

(* Adding up the counts of a sequence: when each counts a set of its own, and  *)
(* the sets are disjoint, the sum counts their union.                          *)
LEMMA FoldCountsUnion ==
    ASSUME NEW n \in Nat, NEW w, DOMAIN w = 1..n, NEW T,
           \A i \in 1..n : IsFiniteSet(T[i]) /\ w[i].count = Cardinality(T[i]),
           \A i, j \in 1..n : i # j => T[i] \cap T[j] = {}
    PROVE  Counted(w) = Cardinality(UNION {T[i] : i \in 1..n})
<1> DEFINE D == 1..n
           Of(s) == UNION {T[i] : i \in s}
           Sums(f) == f = [s \in SUBSET D |->
                              IF s = {} THEN 0
                              ELSE LET x == CHOOSE x \in s : TRUE IN w[x].count + f[s \ {x}]]
           sum == CHOOSE f : Sums(f)
           card == [s \in SUBSET D |-> Cardinality(Of(s))]
<1>1. Counted(w) = sum[D]
    BY DEF Counted, FoldSeq, FoldFunction, FoldFunctionOnSet, MapThenFoldSet
<1>0. \A s \in SUBSET D : IsFiniteSet(s)
  <2>1. IsFiniteSet(D)
    <3>1. 1 \in Int /\ n \in Int
        OBVIOUS
    <3> QED BY <3>1, FS_Interval, Zenon
  <2> HIDE DEF D
  <2> QED BY <2>1, FS_Subset
<1>2. Sums(card)
  <2> SUFFICES ASSUME NEW s \in SUBSET D
               PROVE  Cardinality(Of(s))
                        = IF s = {} THEN 0
                          ELSE LET x == CHOOSE x \in s : TRUE IN w[x].count + card[s \ {x}]
      OBVIOUS
  <2>1. CASE s = {}
      BY <2>1, FS_EmptySet
  <2>2. CASE s # {}
    <3>1. PICK x : x \in s /\ x = CHOOSE y \in s : TRUE
        BY <2>2
    <3>2. card[s \ {x}] = Cardinality(Of(s \ {x})) /\ w[x].count = Cardinality(T[x])
        BY <3>1
    <3>3. Of(s) = T[x] \cup Of(s \ {x}) /\ T[x] \cap Of(s \ {x}) = {}
      <4>1. \A y : y \in Of(s) <=> \E i \in s : y \in T[i]
          OBVIOUS
      <4>2. \A y : y \in Of(s \ {x}) <=> \E i \in s \ {x} : y \in T[i]
          OBVIOUS
      <4>3. s \subseteq 1..n
          OBVIOUS
      <4> HIDE DEF Of
      <4> QED BY <3>1, <4>1, <4>2, <4>3
    <3>4. IsFiniteSet(T[x]) /\ IsFiniteSet(Of(s \ {x}))
      <4> DEFINE I == s \ {x}
                 image == [i \in I |-> T[i]]
      <4>1. IsFiniteSet(I)
          BY <1>0
      <4>2. image \in Surjection(I, {T[i] : i \in I})
          BY DEF Surjection
      <4>3. IsFiniteSet({T[i] : i \in I})
        <5> HIDE DEF image, I
        <5> QED BY <4>1, <4>2, FS_Surjection
      <4>4. \A i \in s : IsFiniteSet(T[i])
          OBVIOUS
      <4> QED BY <3>1, <4>3, <4>4, FS_UNION
    <3>5. /\ Cardinality(T[x]) \in Nat /\ Cardinality(Of(s \ {x})) \in Nat
          /\ Cardinality(T[x] \cap Of(s \ {x})) = 0
        BY <3>3, <3>4, FS_CardinalityType, FS_EmptySet
    <3>6. Cardinality(Of(s)) = Cardinality(T[x]) + Cardinality(Of(s \ {x}))
      <4> DEFINE A == T[x]
                 B == Of(s \ {x})
      <4>1. Cardinality(A \cup B) = Cardinality(A) + Cardinality(B) - Cardinality(A \cap B)
        <5>1. IsFiniteSet(A) /\ IsFiniteSet(B)
            BY <3>4
        <5> HIDE DEF A, B
        <5> QED BY <5>1, FS_Union
      <4>2. A \cup B = Of(s) /\ A \cap B = T[x] \cap Of(s \ {x})
          BY <3>3
      <4>3. Cardinality(Of(s)) = Cardinality(T[x]) + Cardinality(Of(s \ {x})) - 0
        <5> HIDE DEF Of
        <5> QED BY <3>5, <4>1, <4>2
      <4> HIDE DEF Of
      <4> QED BY <3>5, <4>3
    <3> HIDE DEF card, Of
    <3> QED BY <2>2, <3>1, <3>2, <3>6
  <2> QED BY <2>1, <2>2
<1>3. Sums(sum)
  <2> HIDE DEF Sums, card
  <2>1. \E f : Sums(f)
      BY <1>2
  <2> QED BY <2>1, Zenon
<1>4. \A size \in Nat : \A s \in SUBSET D : Cardinality(s) = size => sum[s] = card[s]
  <2> DEFINE S == {size \in Nat : \A s \in SUBSET D : Cardinality(s) = size => sum[s] = card[s]}
  <2>2. 0 \in S
    <3>1. \A s \in SUBSET D : Cardinality(s) = 0 => s = {}
        BY <1>0, FS_EmptySet
    <3>2. sum[{}] = 0 /\ card[{}] = 0
        BY <1>2, <1>3
    <3> QED BY <3>1, <3>2
  <2>3. ASSUME NEW size \in Nat, size \in S PROVE size + 1 \in S
    <3> SUFFICES ASSUME NEW s \in SUBSET D, Cardinality(s) = size + 1 PROVE sum[s] = card[s]
      <4> HIDE DEF sum, card, D
      <4> QED OBVIOUS
    <3>0. Cardinality(s) = size + 1
        OBVIOUS
    <3>1. s # {}
        BY <3>0, FS_EmptySet
    <3>2. PICK x : x \in s /\ x = CHOOSE y \in s : TRUE
        BY <3>1
    <3>3. Cardinality(s \ {x}) = size /\ s \ {x} \in SUBSET D
      <4>1. IsFiniteSet(s)
          BY <1>0
      <4>2. Cardinality(s \ {x}) = Cardinality(s) - 1
          BY <3>2, <4>1, FS_RemoveElement
      <4>3. s \ {x} \in SUBSET D
          OBVIOUS
      <4> HIDE DEF D, S
      <4> QED BY <3>0, <4>2, <4>3
    <3>4. sum[s \ {x}] = card[s \ {x}]
        BY <2>3, <3>3
    <3> HIDE DEF S
    <3>5. sum[s] = w[x].count + sum[s \ {x}]
        BY <1>3, <3>1, <3>2
    <3>6. card[s] = w[x].count + card[s \ {x}]
        BY <1>2, <3>1, <3>2
    <3> QED BY <3>4, <3>5, <3>6
  <2> HIDE DEF S
  <2>4. \A size \in Nat : size \in S
      BY <2>2, <2>3, SetOfAll
  <2> QED BY <2>4 DEF S
<1>5. sum[D] = card[D]
  <2>1. Cardinality(D) \in Nat
      BY FS_Interval, FS_CardinalityType
  <2> HIDE DEF sum, card
  <2> QED BY <1>4, <2>1
<1> QED BY <1>1, <1>5

-----------------------------------------------------------------------------
(* What a campaign earned *)

(* Of some runs, one has begun no later than any other.                        *)
LEMMA FirstRun ==
    ASSUME CTypeOK, NEW R \in SUBSET Run, R # {}
    PROVE  \E r \in R : \A q \in R : startedAt[r] <= startedAt[q]
<1> DEFINE T == {startedAt[r] : r \in R}
<1>1. T \subseteq Nat /\ T # {}
    BY TimeAssumption DEF CTypeOK, Time
<1>2. PICK t \in T : \A y \in T : t <= y
  <2> HIDE DEF T
  <2> QED BY <1>1, LeastNumber
<1>3. PICK r \in R : startedAt[r] = t
    OBVIOUS
<1>4. \A q \in R : t <= startedAt[q]
    BY <1>2
<1> QED BY <1>3, <1>4

(* The holdings a campaign is judged by are its input, as each of its runs'.   *)
LEMMA CampaignHoldings ==
    ASSUME CTypeOK, RunsHoldTheInput, NEW p \in Campaign, NEW r \in RunsOf(p)
    PROVE  campaign_holdings(p) = runs[r].held
<1>1. \A q \in RunsOf(p) : runs[q].held = span[p].held
    BY NoneIsNoCampaign DEF RunsOf, RunsHoldTheInput
<1>2. PICK q : /\ q = CHOOSE x \in RunsOf(p) : \A s \in RunsOf(p) : startedAt[x] <= startedAt[s]
               /\ q \in RunsOf(p)
  <2>1. RunsOf(p) \in SUBSET Run /\ RunsOf(p) # {}
      BY DEF RunsOf
  <2> QED BY <2>1, FirstRun
<1>3. campaign_holdings(p) = runs[q].held
    BY <1>2 DEF campaign_holdings
<1> QED BY <1>1, <1>2, <1>3

(* What a campaign earned: the valuation source's successes, one per regular   *)
(* cycle and holding.                                                          *)
Earned(p) ==
    {g \in opportunities(AttemptsOf(RunsOf(p))) :
        /\ Succeeded(AttemptsOf(RunsOf(p)), g) /\ g[2] = Valuation
        /\ <<cycles[g[1]].opportunity[2], ScheduledAt(cycles[g[1]].opportunity)>> \in Regular}

(* What its report finds a quote for.                                          *)
Delivered(p, asOf) ==
    {x \in Arrived(schedule(p), asOf) \X campaign_holdings(p) :
        /\ <<x[1][2], ScheduledAt(x[1])>> \in Regular /\ MarketOf[x[2]] = x[1][2]
        /\ fetched(x[1], x[2]) # {}}

(* What a campaign earned are the quotes of its runs' successful attempts at  *)
(* the valuation source.                                                      *)
LEMMA EarnedIsSuccess ==
    ASSUME StoreInv, NEW p \in Campaign, NEW g
    PROVE  g \in Earned(p) <=>
             \E a \in Attempt : LET k == attempts[a].cycle
                                    o == cycles[k].opportunity
                                IN /\ g = <<k, Valuation, attempts[a].ticker>>
                                   /\ attempts[a].slot[1] = Valuation
                                   /\ k \in Cycle /\ cycles[k].run \in RunsOf(p)
                                   /\ quotes[a] # "none" /\ <<o[2], ScheduledAt(o)>> \in Regular
<1> DEFINE A == AttemptsOf(RunsOf(p))
           triple(a) == <<attempts[a].cycle, attempts[a].slot[1], attempts[a].ticker>>
<1>0. QuoteIffSuccess
    BY DEF StoreInv
<1>1. \A a : a \in A <=> /\ a \in Attempt /\ attempts[a].cycle \in Cycle
                        /\ cycles[attempts[a].cycle].run \in RunsOf(p)
    BY DEF AttemptsOf, CyclesOf
<1>2. g \in Earned(p) <=>
        /\ \E a \in A : g = triple(a)
        /\ \E a \in A : g = triple(a) /\ attempts[a].status = "success"
        /\ g[2] = Valuation
        /\ <<cycles[g[1]].opportunity[2], ScheduledAt(cycles[g[1]].opportunity)>> \in Regular
    BY Zenon DEF Earned, opportunities, Succeeded, InGroup
<1> HIDE DEF A
<1>3. \A a \in A : attempts[a].status = "success" <=> quotes[a] # "none"
    BY <1>0, <1>1 DEF QuoteIffSuccess
<1>4. ASSUME g \in Earned(p)
      PROVE  \E a \in A : /\ g = triple(a) /\ attempts[a].slot[1] = Valuation
                         /\ quotes[a] # "none"
                         /\ LET o == cycles[attempts[a].cycle].opportunity
                            IN <<o[2], ScheduledAt(o)>> \in Regular
  <2>1. PICK a \in A : g = triple(a) /\ attempts[a].status = "success"
      BY <1>2, <1>4
  <2>2. g[1] = attempts[a].cycle /\ g[2] = attempts[a].slot[1]
      BY <2>1
  <2> QED BY <1>2, <1>3, <1>4, <2>1, <2>2
<1>5. ASSUME NEW a \in A, g = triple(a), attempts[a].slot[1] = Valuation, quotes[a] # "none",
             LET o == cycles[attempts[a].cycle].opportunity
             IN <<o[2], ScheduledAt(o)>> \in Regular
      PROVE  g \in Earned(p)
  <2>1. g[1] = attempts[a].cycle /\ g[2] = attempts[a].slot[1]
      BY <1>5
  <2> QED BY <1>2, <1>3, <1>5, <2>1
<1> QED BY <1>1, <1>4, <1>5

(* A campaign earned finitely many.                                           *)
LEMMA EarnedIsFinite ==
    ASSUME NEW p
    PROVE  IsFiniteSet(Earned(p))
<1> DEFINE group == [a \in Attempt |-> <<attempts[a].cycle, attempts[a].slot[1],
                                           attempts[a].ticker>>]
<1>1. group \in Surjection(Attempt, opportunities(Attempt))
      BY DEF Surjection, opportunities
<1>2. IsFiniteSet(opportunities(Attempt))
  <2> HIDE DEF group
  <2> QED BY <1>1, TableAssumption, FS_Surjection
<1>3. Earned(p) \subseteq opportunities(Attempt)
      BY DEF Earned, opportunities, AttemptsOf
<1> QED BY <1>2, <1>3, FS_Subset

(* The report finds as many quotes as were earned.                             *)
LEMMA DeliveredIsEarned ==
    ASSUME StoreInv, CTypeOK, CampaignInv, NEW p \in Campaign, NEW asOf
    PROVE  Cardinality(Delivered(p, asOf)) = Cardinality(Earned(p))
<1> DEFINE place(g) == <<cycles[g[1]].opportunity, g[3]>>
<1>0. TypeOK /\ RowsAreLinked /\ OpportunityClaimedOnce /\ p # None
    BY NoneIsNoCampaign DEF StoreInv
<1>1. ASSUME NEW g \in Earned(p)
      PROVE  /\ place(g) \in Delivered(p, asOf)
             /\ cycles[g[1]].opportunity \in Opportunity /\ g[1] \in Cycle
             /\ g = <<g[1], Valuation, g[3]>>
  <2>12. PICK a \in Attempt :
             /\ g = <<attempts[a].cycle, Valuation, attempts[a].ticker>>
             /\ attempts[a].slot[1] = Valuation /\ quotes[a] # "none"
             /\ attempts[a].cycle \in Cycle /\ cycles[attempts[a].cycle].run \in RunsOf(p)
             /\ LET o == cycles[attempts[a].cycle].opportunity
                IN <<o[2], ScheduledAt(o)>> \in Regular
      BY <1>1, EarnedIsSuccess
  <2>1. PICK k, t :
             /\ k = attempts[a].cycle /\ t = attempts[a].ticker /\ k \in Cycle
             /\ g = <<k, Valuation, t>> /\ attempts[a].slot[1] = Valuation
             /\ cycles[k].run \in RunsOf(p) /\ quotes[a] # "none"
             /\ <<cycles[k].opportunity[2], ScheduledAt(cycles[k].opportunity)>> \in Regular
      BY <2>12
  <2>2. PICK r \in RunsOf(p) : r = cycles[k].run /\ r \in Run /\ runs[r].campaign = p
      BY <2>1 DEF RunsOf
  <2>3. cycles[k].status # "absent" /\ attempts[a].status # "absent"
    <3>1. NoCycle.run = None /\ r # None /\ NoAttempt.cycle = None /\ k # None
        BY <2>1, <2>2, NoneAssumption DEF NoCycle, NoAttempt
    <3> QED BY <1>0, <2>1, <2>2, <3>1 DEF RowsAreLinked
  <2>4. PICK o \in Opportunity : o = cycles[k].opportunity
    <3>1. cycles[k].opportunity # None
        BY <1>0, <2>1, <2>2, <2>3 DEF CampaignInv, CampaignCyclesAreScheduled
    <3> QED BY <1>0, <2>1, <3>1 DEF TypeOK, CycleRow
  <2>5. o # None /\ Claimed(o) /\ ClaimOf(o) = k
      BY <2>1, <2>4, NoneAssumption, ClaimIsUnique
  <2>6. plan[o].campaign = p /\ plan[o].market = cycles[k].market
    <3>1. plan[o] = [campaign |-> runs[r].campaign, market |-> cycles[k].market]
        BY <1>0, <2>1, <2>2, <2>4, <2>5 DEF OpportunityClaimedOnce
    <3> QED BY <2>2, <3>1
  <2>7. t \in runs[r].held /\ MarketOf[t] = o[2]
    <3>1. t \in Group(k)
        BY <1>0, <2>1, <2>3 DEF RowsAreLinked
    <3>2. plan[o].market = o[2]
      <4>1. plan[o] = [campaign |-> o[1], market |-> o[2]]
          BY <1>0, <2>6 DEF CampaignInv, PlansAreTheirOwn
      <4> QED BY <4>1
    <3> QED BY <2>2, <2>6, <3>1, <3>2 DEF Group
  <2>8. o \in Arrived(schedule(p), asOf) /\ t \in campaign_holdings(p)
    <3>1. t \in campaign_holdings(p)
        BY <2>2, <2>7, CampaignHoldings DEF CampaignInv
    <3> QED BY <2>5, <2>6, <3>1 DEF Arrived, schedule, due
  <2>9. a \in fetched(o, t)
      BY <2>1, <2>5 DEF fetched
  <2>10. <<o, t>> \in Delivered(p, asOf)
      BY <2>1, <2>4, <2>7, <2>8, <2>9 DEF Delivered
  <2>11. g[1] = k /\ g[3] = t
      BY <2>1
  <2> QED BY <2>1, <2>4, <2>10, <2>11
<1>2. ASSUME NEW x \in Delivered(p, asOf)
      PROVE  \E g \in Earned(p) : place(g) = x
  <2>1. PICK o, t : /\ x = <<o, t>> /\ o \in Opportunity /\ plan[o].campaign = p
                    /\ <<o[2], ScheduledAt(o)>> \in Regular /\ fetched(o, t) # {}
    <3>1. PICK o \in Arrived(schedule(p), asOf), t \in campaign_holdings(p) : x = <<o, t>>
        BY <1>2 DEF Delivered
    <3>2. o \in Opportunity /\ plan[o].campaign = p
        BY DEF Arrived, schedule
    <3>3. <<o[2], ScheduledAt(o)>> \in Regular /\ fetched(o, t) # {}
        BY <1>2, <3>1 DEF Delivered
    <3> QED BY <3>1, <3>2, <3>3
  <2>2. PICK a \in Attempt : /\ Claimed(o) /\ attempts[a].cycle = ClaimOf(o)
                              /\ attempts[a].ticker = t /\ attempts[a].slot[1] = Valuation
                              /\ quotes[a] # "none"
      BY <2>1 DEF fetched
  <2>3. PICK k \in Cycle : cycles[k].opportunity = o /\ k = ClaimOf(o)
      BY <2>1, <2>2, ClaimIsUnique DEF Claimed
  <2>4. cycles[k].run \in RunsOf(p)
    <3>1. o # None
        BY <2>1, NoneAssumption
    <3>2. cycles[k].status # "absent"
        BY <1>0, <2>3, <3>1 DEF RowsAreLinked, NoCycle
    <3>3. cycles[k].run \in Run
        BY <1>0, <3>2 DEF RowsAreLinked
    <3>4. plan[o] = [campaign |-> runs[cycles[k].run].campaign, market |-> cycles[k].market]
        BY <1>0, <2>3, <3>1 DEF OpportunityClaimedOnce
    <3> QED BY <2>1, <3>3, <3>4 DEF RunsOf
  <2>5. <<k, Valuation, t>> \in Earned(p)
    <3>1. PICK g : g = <<k, Valuation, t>>
        OBVIOUS
    <3>2. attempts[a].cycle = k /\ cycles[attempts[a].cycle].opportunity = o
        BY <2>2, <2>3
    <3>3. g = <<attempts[a].cycle, Valuation, attempts[a].ticker>>
        BY <2>2, <3>1, <3>2
    <3>4. g \in Earned(p)
        BY <2>1, <2>2, <2>4, <3>2, <3>3, EarnedIsSuccess
    <3> QED BY <3>1, <3>4
  <2>6. place(<<k, Valuation, t>>) = x
      BY <2>1, <2>3
  <2> QED BY <2>5, <2>6
<1>3. ASSUME NEW g \in Earned(p), NEW h \in Earned(p), place(g) = place(h)
      PROVE  g = h
  <2>1. g[3] = h[3] /\ cycles[g[1]].opportunity = cycles[h[1]].opportunity
      BY <1>3
  <2>2. g[1] = h[1]
    <3>1. cycles[g[1]].opportunity # None
        BY <1>1, NoneAssumption
    <3> QED BY <1>0, <1>1, <2>1, <3>1 DEF OpportunityClaimedOnce
  <2> QED BY <1>1, <2>1, <2>2
<1>4. IsFiniteSet(Earned(p))
    BY EarnedIsFinite
<1> DEFINE f == [g \in Earned(p) |-> place(g)]
<1>5. f \in Bijection(Earned(p), Delivered(p, asOf))
  <2>1. f \in [Earned(p) -> Delivered(p, asOf)]
      BY <1>1
  <2>2. f \in Injection(Earned(p), Delivered(p, asOf))
      BY <1>3, <2>1 DEF Injection, IsInjective
  <2>3. f \in Surjection(Earned(p), Delivered(p, asOf))
      BY <1>2, <2>1 DEF Surjection
  <2> QED BY <2>2, <2>3 DEF Bijection
<1> HIDE DEF f
<1> QED BY <1>4, <1>5, FS_Bijection DEF ExistsBijection

(* Freshness is earned by fetching: a campaign's report counts as many quotes  *)
(* as its valuation source delivered in regular cycles, for any cut-off time,  *)
(* and meets the threshold only by them.                                       *)
THEOREM FreshnessMustBeEarned == CSpec => []FreshnessIsEarned
<1>1. ASSUME StoreInv, CTypeOK, CampaignInv PROVE FreshnessIsEarned
  <2> SUFFICES ASSUME NEW p \in Campaign, NEW asOf \in Time
               PROVE  LET earned == {g \in aggregate(AttemptsOf(RunsOf(p)), AllFresh).succeeded :
                                        LET o == cycles[g[1]].opportunity
                                        IN g[2] = Valuation /\ <<o[2], ScheduledAt(o)>> \in Regular}
                          v == freshness(schedule(p), asOf, campaign_holdings(p), AllFresh)
                      IN /\ v.fresh + v.late + v.unknown = Cardinality(earned)
                         /\ v.verdict = "meets_proposed_threshold"
                              => 100 * Cardinality(earned) >= 95 * v.qualified
      BY DEF FreshnessIsEarned
  <2> DEFINE v == freshness(schedule(p), asOf, campaign_holdings(p), AllFresh)
             qualified == {x \in Arrived(schedule(p), asOf) \X campaign_holdings(p) :
                              <<x[1][2], ScheduledAt(x[1])>> \in Regular
                                /\ MarketOf[x[2]] = x[1][2]}
             outcome(s) == {x \in qualified :
                               \E a \in fetched(x[1], x[2]) : AllFresh.age[a] = s}
             rate == ratio(outcome("fresh"), qualified, 95)
  <2>1. /\ v.fresh = Cardinality(outcome("fresh")) /\ v.qualified = Cardinality(qualified)
        /\ v.late = Cardinality(outcome("late_or_stale"))
        /\ v.unknown = Cardinality(outcome("unknown_time"))
        /\ v.verdict = CASE qualified = {} \/ outcome("late_or_stale") # {}
                              -> "insufficient_evidence"
                         [] qualified # {} /\ outcome("late_or_stale") = {} /\ rate.meets
                              -> "meets_proposed_threshold"
                         [] OTHER -> "below_proposed_threshold"
      BY Zenon DEF freshness
  <2>2. \A o, t : \A a \in fetched(o, t) : AllFresh.age[a] = "fresh"
      BY DEF fetched, AllFresh
  <2>3. /\ outcome("fresh") = Delivered(p, asOf)
        /\ outcome("late_or_stale") = {} /\ outcome("unknown_time") = {}
      BY <2>2 DEF Delivered
  <2>4. {g \in aggregate(AttemptsOf(RunsOf(p)), AllFresh).succeeded :
            LET o == cycles[g[1]].opportunity
            IN g[2] = Valuation /\ <<o[2], ScheduledAt(o)>> \in Regular} = Earned(p)
    <3>1. aggregate(AttemptsOf(RunsOf(p)), AllFresh).succeeded
            = {g \in opportunities(AttemptsOf(RunsOf(p))) : Succeeded(AttemptsOf(RunsOf(p)), g)}
        BY Zenon DEF aggregate
    <3> QED BY <3>1 DEF Earned
  <2>5. Cardinality(Delivered(p, asOf)) = Cardinality(Earned(p))
      BY <1>1, DeliveredIsEarned
  <2>6. rate.meets = IF qualified = {} THEN None
                     ELSE 100 * Cardinality(outcome("fresh")) >= 95 * Cardinality(qualified)
      BY Zenon DEF ratio
  <2>7. Cardinality(Earned(p)) \in Nat /\ Cardinality({}) = 0
      BY EarnedIsFinite, FS_CardinalityType, FS_EmptySet
  <2> HIDE DEF v, qualified, outcome, rate
  <2>8. v.fresh + v.late + v.unknown = Cardinality(Earned(p))
      BY <2>1, <2>3, <2>5, <2>7
  <2>9. ASSUME v.verdict = "meets_proposed_threshold"
        PROVE  100 * Cardinality(Earned(p)) >= 95 * v.qualified
    <3>1. qualified # {} /\ rate.meets
        BY <2>1, <2>9
    <3>2. 100 * Cardinality(outcome("fresh")) >= 95 * Cardinality(qualified)
        BY <2>6, <3>1
    <3> QED BY <2>1, <2>3, <2>5, <3>2
  <2> QED BY <2>4, <2>8, <2>9 DEF v
<1> QED BY <1>1, BothInvariants, CampaignsAreKept, PTL DEF CollectorInv

-----------------------------------------------------------------------------
(* Gaps and downtime windows *)

(* The times of a market's gaps.                                               *)
GapTimes(rows, asOf, m) ==
    {t \in 0..MaxTime : \E o \in Gaps(rows, asOf) : o[2] = m /\ ScheduledAt(o) = t}

(* A downtime window, as the report lists it.                                 *)
Window == [first : Nat, last : Nat, count : Nat]

(* The gaps inside a window.                                                  *)
Inside(G, v) == {g \in G : v.first <= g /\ g <= v.last}

(* The windows w stand for the gaps G up to time t: each counts the gaps       *)
(* inside it, they are in order and further apart than the polling interval,   *)
(* and every gap is in one.                                                    *)
WindowsOf(G, t, w) ==
    /\ w \in Seq(Window)
    /\ \A i \in 1..Len(w) : /\ w[i].first <= w[i].last /\ w[i].last <= t
                            /\ w[i].count = Cardinality(Inside(G, w[i]))
    /\ \A i, j \in 1..Len(w) : i < j => w[j].first - w[i].last > Poll
    /\ \A g \in G : g <= t => \E i \in 1..Len(w) : g \in Inside(G, w[i])

(* What a gap at t adds to the windows before it.                              *)
Longer(v, t) == [first |-> v.first, last |-> t, count |-> v.count + 1]

(* The last window prolonged to t.                                            *)
Prolonged(w, t) == [w EXCEPT ![Len(w)] = Longer(w[Len(w)], t)]

(* A new window opened at t.                                                  *)
Opened(w, t) == Append(w, [first |-> t, last |-> t, count |-> 1])

(* The fields of a window in a sequence of them.                              *)
LEMMA WindowFields ==
    ASSUME NEW w \in Seq(Window), NEW i \in 1..Len(w)
    PROVE  /\ w[i] \in Window /\ w[i] = [first |-> w[i].first, last |-> w[i].last, count |-> w[i].count]
           /\ w[i].first \in Nat /\ w[i].last \in Nat /\ w[i].count \in Nat
<1>1. w[i] \in Window
    OBVIOUS
<1> QED BY <1>1 DEF Window

(* The times inside a window are finitely many.                               *)
LEMMA FiniteTimes ==
    ASSUME NEW G \in SUBSET (0..MaxTime), NEW v
    PROVE  IsFiniteSet(Inside(G, v)) /\ Cardinality(Inside(G, v)) \in Nat
<1>1. IsFiniteSet(0..MaxTime)
  <2>1. 0 \in Int /\ MaxTime \in Int
      BY TimeAssumption
  <2> QED BY <2>1, FS_Interval, Zenon
<1>2. IsFiniteSet(Inside(G, v))
  <2>1. Inside(G, v) \in SUBSET (0..MaxTime)
      BY DEF Inside
  <2> QED BY <1>1, <2>1, FS_Subset
<1> QED BY <1>2, FS_CardinalityType

(* Between gaps nothing happens.                                               *)
LEMMA NoGap ==
    ASSUME NEW G \in SUBSET (0..MaxTime), NEW t \in 0..MaxTime, NEW w,
           WindowsOf(G, t - 1, w), t \notin G
    PROVE  WindowsOf(G, t, w)
<1>1. t \in Nat /\ G \subseteq Nat /\ w \in Seq(Window)
    BY TimeAssumption DEF WindowsOf
<1>2. \A i \in 1..Len(w) : w[i] \in Window /\ w[i].last \in Nat
    BY <1>1, WindowFields
<1>3. \A i \in 1..Len(w) : w[i].last <= t
    BY <1>1, <1>2 DEF WindowsOf
<1>4. \A g \in G : g <= t => g <= t - 1
    BY <1>1
<1> QED BY <1>1, <1>3, <1>4 DEF WindowsOf

(* A gap soon after the last one belongs to its window.                        *)
LEMMA NearGap ==
    ASSUME NEW G \in SUBSET (0..MaxTime), NEW t \in 0..MaxTime, NEW w,
           WindowsOf(G, t - 1, w), t \in G, w # <<>>
    PROVE  WindowsOf(G, t, Prolonged(w, t))
<1> DEFINE n == Len(w)
           v == Longer(w[n], t)
           u == Prolonged(w, t)
<1>0. t \in Nat /\ G \subseteq Nat /\ Poll \in Nat
    BY TimeAssumption
<1>1. w \in Seq(Window) /\ n \in Nat /\ n >= 1 /\ n \in 1..n /\ w[n] \in Window
    BY DEF WindowsOf
<1>9. \A i \in 1..n : w[i] \in Window /\ w[i].first \in Nat /\ w[i].last \in Nat
    BY <1>1, WindowFields
<1>2. /\ v.first = w[n].first /\ v.last = t /\ v.count = w[n].count + 1
      /\ v \in Window
  <2>1. v = [first |-> w[n].first, last |-> t, count |-> w[n].count + 1]
      BY DEF Longer
  <2>2. w[n].first \in Nat /\ w[n].count \in Nat
      BY <1>1, WindowFields
  <2> HIDE DEF v
  <2> QED BY <1>0, <2>1, <2>2 DEF Window
<1>3. /\ u \in Seq(Window) /\ Len(u) = n /\ u[n] = v
      /\ \A i \in 1..n : i # n => u[i] = w[i]
  <2>1. u = [w EXCEPT ![n] = v]
      BY DEF Prolonged
  <2> HIDE DEF u, v
  <2> QED BY <1>1, <1>2, <2>1
<1>4. Inside(G, v) = Inside(G, w[n]) \cup {t} /\ t \notin Inside(G, w[n])
  <2>1. w[n].first <= w[n].last /\ w[n].last <= t - 1
      BY <1>1 DEF WindowsOf
  <2>2. t \in Inside(G, v) /\ t \notin Inside(G, w[n])
    <3>1. v.first <= t /\ t <= v.last
        BY <1>0, <1>1, <1>2, <1>9, <2>1
    <3>2. ~(t <= w[n].last)
        BY <1>0, <1>1, <1>9, <2>1
    <3> QED BY <3>1, <3>2 DEF Inside
  <2>3. ASSUME NEW g \in Inside(G, v), g # t PROVE g \in Inside(G, w[n])
    <3>1. g \in G /\ g \in 0..MaxTime /\ w[n].first <= g /\ g <= t - 1
        BY <1>2, <2>3 DEF Inside
    <3>2. PICK i \in 1..n : w[i].first <= g /\ g <= w[i].last
        BY <3>1 DEF WindowsOf, Inside
    <3>3. i = n
      <4>1. i < n => w[n].first - w[i].last > Poll
          BY <1>1 DEF WindowsOf
      <4>2. w[i] \in Window
          BY <1>1, <3>2
      <4> QED BY <1>0, <1>1, <1>9, <3>1, <3>2, <4>1
    <3> QED BY <3>1, <3>2, <3>3 DEF Inside
  <2>4. ASSUME NEW g \in Inside(G, w[n]) PROVE g \in Inside(G, v)
    <3>1. g \in G /\ g \in Nat /\ w[n].first <= g /\ g <= w[n].last
        BY <1>0 DEF Inside
    <3> QED BY <1>0, <1>1, <1>2, <1>9, <2>1, <3>1 DEF Inside
  <2> QED BY <2>2, <2>3, <2>4
<1>5. v.count = Cardinality(Inside(G, v))
  <2>1. w[n].count = Cardinality(Inside(G, w[n]))
      BY <1>1 DEF WindowsOf
  <2>2. IsFiniteSet(Inside(G, w[n]))
      BY FiniteTimes
  <2>3. Cardinality(Inside(G, w[n]) \cup {t}) = Cardinality(Inside(G, w[n])) + 1
      BY <1>4, <2>2, FS_AddElement
  <2> QED BY <1>2, <1>4, <2>1, <2>3
<1> HIDE DEF v, u
<1>6. ASSUME NEW i \in 1..n
      PROVE  /\ u[i].first <= u[i].last /\ u[i].last <= t
             /\ u[i].count = Cardinality(Inside(G, u[i]))
  <2>1. CASE i = n
    <3>1. w[n].first <= w[n].last /\ w[n].last <= t - 1
        BY <1>1 DEF WindowsOf
    <3> QED BY <1>0, <1>1, <1>2, <1>3, <1>5, <1>9, <2>1, <3>1
  <2>2. CASE i # n
    <3>1. /\ w[i].first <= w[i].last /\ w[i].last <= t - 1 /\ w[i] \in Window
          /\ w[i].count = Cardinality(Inside(G, w[i]))
        BY <1>1 DEF WindowsOf
    <3> QED BY <1>0, <1>3, <1>9, <2>2, <3>1
  <2> QED BY <2>1, <2>2
<1>7. ASSUME NEW i \in 1..n, NEW j \in 1..n, i < j PROVE u[j].first - u[i].last > Poll
  <2>1. u[i] = w[i] /\ u[j].first = w[j].first
      BY <1>1, <1>2, <1>3, <1>7
  <2> QED BY <1>7, <2>1 DEF WindowsOf
<1>8. ASSUME NEW g \in G, g <= t PROVE \E i \in 1..n : g \in Inside(G, u[i])
  <2>1. CASE g = t
      BY <1>1, <1>3, <1>4, <2>1
  <2>2. CASE g # t
    <3>1. PICK i \in 1..n : g \in Inside(G, w[i])
        BY <1>8, <2>2 DEF WindowsOf
    <3>2. g \in Inside(G, u[i])
        BY <1>1, <1>3, <1>4, <3>1
    <3> QED BY <3>2
  <2> QED BY <2>1, <2>2
<1> QED BY <1>3, <1>6, <1>7, <1>8 DEF WindowsOf, u

(* A gap after a pause, or the first one, opens a window of its own.           *)
LEMMA FarGap ==
    ASSUME NEW G \in SUBSET (0..MaxTime), NEW t \in 0..MaxTime, NEW w,
           WindowsOf(G, t - 1, w), t \in G,
           w # <<>> => t - w[Len(w)].last > Poll
    PROVE  WindowsOf(G, t, Opened(w, t))
<1> DEFINE n == Len(w)
           v == [first |-> t, last |-> t, count |-> 1]
           u == Opened(w, t)
<1>0. t \in Nat /\ G \subseteq Nat /\ Poll \in Nat
    BY TimeAssumption
<1>1. w \in Seq(Window) /\ n \in Nat /\ v \in Window
    BY <1>0 DEF WindowsOf, Window
<1>9. \A i \in 1..n : w[i] \in Window /\ w[i].first \in Nat /\ w[i].last \in Nat
    BY <1>1, WindowFields
<1>2. /\ u \in Seq(Window) /\ Len(u) = n + 1 /\ u[n + 1] = v
      /\ \A i \in 1..n : u[i] = w[i]
    BY <1>1 DEF Opened
<1>3. v.first = t /\ v.last = t /\ v.count = 1 /\ Inside(G, v) = {t}
  <2>1. v.first = t /\ v.last = t /\ v.count = 1
      OBVIOUS
  <2> HIDE DEF v
  <2>2. \A g \in G : g \in Nat /\ (g \in Inside(G, v) <=> t <= g /\ g <= t)
      BY <1>0, <2>1 DEF Inside
  <2>3. ASSUME NEW g \in Inside(G, v) PROVE g = t
    <3>1. g \in G
        BY DEF Inside
    <3> QED BY <1>0, <2>2, <3>1
  <2>4. t \in Inside(G, v)
      BY <1>0, <2>2
  <2> QED BY <2>1, <2>3, <2>4
<1>4. v.count = Cardinality(Inside(G, v))
    BY <1>3, FS_Singleton
<1> HIDE DEF v, u
<1>5. ASSUME NEW i \in 1..(n + 1)
      PROVE  /\ u[i].first <= u[i].last /\ u[i].last <= t
             /\ u[i].count = Cardinality(Inside(G, u[i]))
  <2>1. CASE i = n + 1
    <3>1. u[i] = v
        BY <1>2, <2>1
    <3>2. v.first <= v.last /\ v.last <= t
        BY <1>0, <1>3
    <3> QED BY <1>4, <3>1, <3>2, Zenon
  <2>2. CASE i # n + 1
    <3>1. i \in 1..n
        BY <1>1, <2>2
    <3>2. /\ w[i].first <= w[i].last /\ w[i].last <= t - 1 /\ w[i] \in Window
          /\ w[i].count = Cardinality(Inside(G, w[i]))
        BY <1>1, <3>1 DEF WindowsOf
    <3> QED BY <1>0, <1>2, <1>9, <3>1, <3>2
  <2> QED BY <2>1, <2>2
<1>6. ASSUME NEW i \in 1..(n + 1), NEW j \in 1..(n + 1), i < j
      PROVE  u[j].first - u[i].last > Poll
  <2>0. i \in 1..n /\ u[i] = w[i]
      BY <1>1, <1>2, <1>6
  <2>1. CASE j = n + 1
    <3>1. n \in 1..n /\ w # <<>>
        BY <1>1, <2>0
    <3>2. w[i].last <= w[n].last
      <4>1. w[n].first <= w[n].last /\ (i < n => w[n].first - w[i].last > Poll)
          BY <2>0, <3>1 DEF WindowsOf
      <4> QED BY <1>0, <1>9, <2>0, <3>1, <4>1
    <3>3. t - w[n].last > Poll
        BY <3>1
    <3> QED BY <1>0, <1>2, <1>3, <1>9, <2>0, <2>1, <3>1, <3>2, <3>3
  <2>2. CASE j # n + 1
    <3>1. j \in 1..n /\ u[j] = w[j]
        BY <1>1, <1>2, <2>2
    <3> QED BY <1>6, <2>0, <3>1 DEF WindowsOf
  <2> QED BY <2>1, <2>2
<1>7. ASSUME NEW g \in G, g <= t PROVE \E i \in 1..(n + 1) : g \in Inside(G, u[i])
  <2>1. CASE g = t
    <3>1. n + 1 \in 1..(n + 1) /\ g \in Inside(G, u[n + 1])
        BY <1>1, <1>2, <1>3, <2>1
    <3> QED BY <3>1
  <2>2. CASE g # t
    <3>1. PICK i \in 1..n : g \in Inside(G, w[i])
        BY <1>7, <2>2 DEF WindowsOf
    <3>2. i \in 1..(n + 1) /\ u[i] = w[i]
        BY <1>1, <1>2
    <3> QED BY <3>1, <3>2
  <2> QED BY <2>1, <2>2
<1> QED BY <1>2, <1>5, <1>6, <1>7 DEF WindowsOf, u

(* The windows of a market's gaps.                                             *)
LEMMA DowntimeIsWindows ==
    ASSUME NEW rows, NEW asOf, NEW m
    PROVE  WindowsOf(GapTimes(rows, asOf, m), MaxTime, downtime(rows, asOf, m))
<1> DEFINE gap(t) == \E o \in Gaps(rows, asOf) : o[2] = m /\ ScheduledAt(o) = t
           near(w, t) == w # <<>> /\ t - Last(w).last <= Poll
           body(w, t) == CASE ~gap(t) -> w
                           [] gap(t) /\ near(w, t) ->
                                [w EXCEPT ![Len(w)] =
                                    [first |-> @.first, last |-> t, count |-> @.count + 1]]
                           [] OTHER -> Append(w, [first |-> t, last |-> t, count |-> 1])
           Solves(f) == f = [t \in -1..MaxTime |-> IF t = -1 THEN <<>>
                                                  ELSE LET w == f[t - 1] IN body(w, t)]
           windows == CHOOSE f : Solves(f)
           G == GapTimes(rows, asOf, m)
<1>1. downtime(rows, asOf, m) = windows[MaxTime]
    BY DEF downtime
<1>2. ASSUME NEW w, NEW t
      PROVE  /\ ~gap(t) => body(w, t) = w
             /\ gap(t) /\ near(w, t) => body(w, t) = Prolonged(w, t)
             /\ gap(t) /\ ~near(w, t) => body(w, t) = Opened(w, t)
  <2>1. Prolonged(w, t) = [w EXCEPT ![Len(w)] =
                              [first |-> @.first, last |-> t, count |-> @.count + 1]]
      BY DEF Prolonged, Longer
  <2> HIDE DEF gap, near
  <2> QED BY <2>1 DEF Opened
<1> HIDE DEF body
<1>3. ASSUME NEW w \in Seq(Window), NEW t \in 0..MaxTime
      PROVE  body(w, t) \in Seq(Window)
  <2>1. t \in Nat
      BY TimeAssumption
  <2>2. Opened(w, t) \in Seq(Window)
      BY <2>1 DEF Opened, Window
  <2>3. CASE w # <<>>
    <3>1. Len(w) \in 1..Len(w)
        BY <2>3
    <3>2. Longer(w[Len(w)], t) \in Window
      <4>1. w[Len(w)].first \in Nat /\ w[Len(w)].count \in Nat
          BY <3>1, WindowFields
      <4> QED BY <2>1, <4>1 DEF Longer, Window
    <3>3. Prolonged(w, t) \in Seq(Window)
        BY <3>1, <3>2 DEF Prolonged
    <3> QED BY <1>2, <2>2, <3>3
  <2>4. CASE w = <<>>
      BY <1>2, <2>2, <2>4
  <2> QED BY <2>3, <2>4
<1>4. Solves(windows)
  <2> DEFINE next == [x \in Seq(Window) \X (0..MaxTime) |-> body(x[1], x[2])]
  <2>1. next \in [Seq(Window) \X (0..MaxTime) -> Seq(Window)]
      BY <1>3
  <2>2. \E f : Solves(f)
    <3>1. MaxTime \in Nat /\ <<>> \in Seq(Window)
        BY TimeAssumption
    <3>2. PICK f : Unfolds(f, MaxTime, Seq(Window), <<>>, next)
      <4> HIDE DEF next
      <4> QED BY <2>1, <3>1, RecursionHasSolution, Zenon
    <3>3. ASSUME NEW t \in 0..MaxTime PROVE f[t] = body(f[t - 1], t)
      <4>1. t - 1 \in -1..MaxTime /\ f[t - 1] \in Seq(Window)
          BY <3>1, <3>2 DEF Unfolds
      <4>2. next[<<f[t - 1], t>>] = body(f[t - 1], t)
          BY <4>1
      <4> QED BY <3>2, <4>2 DEF Unfolds
    <3>4. Solves(f)
        BY <3>1, <3>2, <3>3 DEF Unfolds
    <3> QED BY <3>4
  <2> HIDE DEF Solves
  <2> QED BY <2>2, Zenon
<1>5. windows[-1] = <<>> /\ \A t \in 0..MaxTime : windows[t] = body(windows[t - 1], t)
  <2> HIDE DEF windows
  <2> QED BY <1>4, TimeAssumption
<1> HIDE DEF windows
<1>6. G \in SUBSET (0..MaxTime) /\ \A t \in 0..MaxTime : t \in G <=> gap(t)
    BY DEF GapTimes
<1> HIDE DEF gap, G
<1> DEFINE S == {n \in Nat : n <= MaxTime + 1 => WindowsOf(G, n - 1, windows[n - 1])}
<1>7. 0 \in S
  <2>1. WindowsOf(G, -1, <<>>)
      BY <1>6, TimeAssumption DEF WindowsOf
  <2> QED BY <1>5, <2>1
<1>8. ASSUME NEW n \in Nat, n \in S PROVE n + 1 \in S
  <2>1. CASE n <= MaxTime
    <3>1. n \in 0..MaxTime /\ WindowsOf(G, n - 1, windows[n - 1])
        BY <1>8, <2>1, TimeAssumption
    <3>2. windows[n] = body(windows[n - 1], n)
        BY <1>5, <3>1
    <3>3. CASE ~gap(n)
      <4>1. WindowsOf(G, n, windows[n])
          BY <1>2, <1>6, <3>1, <3>2, <3>3, NoGap
      <4> QED BY <4>1
    <3>4. CASE gap(n) /\ near(windows[n - 1], n)
      <4>1. WindowsOf(G, n, windows[n])
          BY <1>2, <1>6, <3>1, <3>2, <3>4, NearGap
      <4> QED BY <4>1
    <3>5. CASE gap(n) /\ ~near(windows[n - 1], n)
      <4>1. windows[n - 1] # <<>> => n - windows[n - 1][Len(windows[n - 1])].last > Poll
        <5> SUFFICES ASSUME windows[n - 1] # <<>>
                     PROVE  n - windows[n - 1][Len(windows[n - 1])].last > Poll
            OBVIOUS
        <5> DEFINE w == windows[n - 1]
        <5>1. w \in Seq(Window) /\ w # <<>>
            BY <3>1 DEF WindowsOf
        <5>2. w[Len(w)].last \in Nat
          <6> HIDE DEF w
          <6>1. Len(w) \in 1..Len(w)
              BY <5>1
          <6> QED BY <5>1, <6>1, WindowFields
        <5>3. ~(n - w[Len(w)].last <= Poll)
            BY <3>5, <5>1 DEF Last
        <5> HIDE DEF w
        <5>4. n - w[Len(w)].last > Poll
            BY <5>2, <5>3, TimeAssumption
        <5> QED BY <5>4 DEF w
      <4>2. WindowsOf(G, n, windows[n])
          BY <1>2, <1>6, <3>1, <3>2, <3>5, <4>1, FarGap
      <4> QED BY <4>2
    <3> QED BY <3>3, <3>4, <3>5
  <2>2. CASE ~(n <= MaxTime)
      BY <2>2, TimeAssumption
  <2> QED BY <2>1, <2>2
<1>9. MaxTime + 1 \in S
  <2> HIDE DEF S
  <2> QED BY <1>7, <1>8, SetOfAll, TimeAssumption
<1>10. WindowsOf(G, MaxTime, windows[MaxTime])
    BY <1>9, TimeAssumption
<1> QED BY <1>1, <1>10 DEF G

-----------------------------------------------------------------------------
(* The sections of a campaign's report *)

(* An attempt of a run's cycles exists, and has its place.                     *)
LEMMA AttemptsOfAreThere ==
    ASSUME StoreInv, AttemptsAreNumbered, NEW R, NEW a \in AttemptsOf(R)
    PROVE  /\ a \in Attempt /\ attempts[a].status # "absent"
           /\ attempts[a].cycle \in Cycle /\ attempts[a].ticker \in Ticker
           /\ attempts[a].slot[1] \in Provider /\ attempts[a].slot[2] \in 1..MaxAttempts
           /\ attempts[a].slot = <<attempts[a].slot[1], attempts[a].slot[2]>>
           /\ cycles[attempts[a].cycle].run \in R
<1>1. a \in Attempt /\ attempts[a].cycle \in Cycle /\ cycles[attempts[a].cycle].run \in R
    BY DEF AttemptsOf, CyclesOf
<1>2. attempts[a].status # "absent"
  <2>1. attempts[a].cycle # None /\ NoAttempt.cycle = None
      BY <1>1, NoneAssumption DEF NoAttempt
  <2> QED BY <1>1, <2>1 DEF StoreInv, RowsAreLinked
<1>3. attempts[a].ticker \in Ticker
    BY <1>1, <1>2 DEF StoreInv, RowsAreLinked
<1>4. attempts[a].slot \in Provider \X (1..MaxAttempts)
    BY <1>1, <1>2, SlotAssumption DEF AttemptsAreNumbered
<1> QED BY <1>1, <1>2, <1>3, <1>4

(* Each opportunity to fetch has one first attempt, so the operations are the  *)
(* opportunities and the retries.                                              *)
LEMMA OperationsAddUp ==
    ASSUME StoreInv, AttemptsAreNumbered, NEW R
    PROVE  Cardinality(AttemptsOf(R))
             = Cardinality(opportunities(AttemptsOf(R)))
                 + Cardinality({a \in AttemptsOf(R) : attempts[a].slot[2] > 1})
<1> DEFINE A == AttemptsOf(R)
           First == {a \in A : attempts[a].slot[2] = 1}
           Again == {a \in A : attempts[a].slot[2] > 1}
           group(a) == <<attempts[a].cycle, attempts[a].slot[1], attempts[a].ticker>>
           f == [a \in First |-> group(a)]
<1>1. A \subseteq Attempt /\ opportunities(A) = {group(a) : a \in A}
    BY DEF AttemptsOf, opportunities
<1>2. \A a \in A : /\ attempts[a].cycle \in Cycle /\ attempts[a].ticker \in Ticker
                   /\ attempts[a].status # "absent"
                   /\ attempts[a].slot[1] \in Provider /\ attempts[a].slot[2] \in 1..MaxAttempts
                   /\ attempts[a].slot = <<attempts[a].slot[1], attempts[a].slot[2]>>
    BY AttemptsOfAreThere
<1>3. \A a \in A, b \in Attempt : attempts[b].cycle = attempts[a].cycle => b \in A
    BY DEF AttemptsOf
<1> HIDE DEF A
<1>4. A = First \cup Again /\ First \cap Again = {}
  <2>1. \A a \in A : attempts[a].slot[2] = 1 \/ attempts[a].slot[2] > 1
      BY <1>2, SlotAssumption
  <2> QED BY <2>1
<1>5. f \in Bijection(First, opportunities(A))
  <2>1. f \in [First -> opportunities(A)]
      BY <1>1
  <2>2. ASSUME NEW a \in First, NEW b \in First, f[a] = f[b] PROVE a = b
    <3>1. a \in A /\ b \in A /\ attempts[a].slot[2] = 1 /\ attempts[b].slot[2] = 1
        OBVIOUS
    <3>2. /\ attempts[a].cycle = attempts[b].cycle /\ attempts[a].slot[1] = attempts[b].slot[1]
          /\ attempts[a].ticker = attempts[b].ticker
        BY <2>2
    <3>3. attempts[a].slot = attempts[b].slot
        BY <1>2, <3>1, <3>2
    <3> QED BY <1>1, <1>2, <3>1, <3>2, <3>3 DEF AttemptsAreNumbered
  <2>3. ASSUME NEW g \in opportunities(A) PROVE \E a \in First : f[a] = g
    <3>1. PICK b \in A : g = group(b)
        BY <1>1
    <3>2. PICK k \in Cycle, t \in Ticker, s \in Provider, i \in 1..MaxAttempts :
              /\ k = attempts[b].cycle /\ t = attempts[b].ticker
              /\ s = attempts[b].slot[1] /\ i = attempts[b].slot[2]
        BY <1>2
    <3>3. PICK n \in 0..MaxAttempts : Numbers(k, <<t, s>>) = 1..n
        BY DEF AttemptsAreNumbered
    <3>4. i \in Numbers(k, <<t, s>>)
        BY <1>1, <3>2 DEF Numbers
    <3>5. 1 \in Numbers(k, <<t, s>>)
        BY <3>3, <3>4, SlotAssumption
    <3>6. PICK a \in Attempt : /\ attempts[a].slot[2] = 1 /\ attempts[a].cycle = k
                               /\ attempts[a].ticker = t /\ attempts[a].slot[1] = s
        BY <3>5 DEF Numbers
    <3>7. a \in First
        BY <1>3, <3>2, <3>6
    <3>8. f[a] = g
        BY <3>1, <3>2, <3>6, <3>7
    <3> QED BY <3>7, <3>8
  <2> HIDE DEF f, First
  <2>4. f \in Injection(First, opportunities(A))
      BY <2>1, <2>2 DEF Injection, IsInjective
  <2>5. f \in Surjection(First, opportunities(A))
      BY <2>1, <2>3 DEF Surjection
  <2> QED BY <2>4, <2>5 DEF Bijection
<1>6. IsFiniteSet(A) /\ IsFiniteSet(First) /\ IsFiniteSet(Again)
  <2>1. IsFiniteSet(A)
      BY <1>1, TableAssumption, FS_Subset
  <2> QED BY <2>1, FS_Subset
<1> HIDE DEF f, First, Again
<1>7. Cardinality(First) = Cardinality(opportunities(A))
    BY <1>5, <1>6, FS_Bijection DEF ExistsBijection
<1>8. Cardinality(A) = Cardinality(First) + Cardinality(Again)
  <2>1. Cardinality(First \cap Again) = 0
      BY <1>4, FS_EmptySet
  <2>2. Cardinality(First \cup Again)
          = Cardinality(First) + Cardinality(Again) - Cardinality(First \cap Again)
      BY <1>6, FS_Union
  <2>3. Cardinality(First) \in Nat /\ Cardinality(Again) \in Nat
      BY <1>6, FS_CardinalityType
  <2> QED BY <1>4, <2>1, <2>2, <2>3
<1> QED BY <1>7, <1>8 DEF A, Again

(* What a source delivered is covered: the holding has a quote that the        *)
(* report reads.                                                               *)
LEMMA DeliveredIsCovered ==
    ASSUME StoreInv, CTypeOK, RunsHoldTheInput, AttemptsAreNumbered, NEW p \in Campaign,
           NEW g \in opportunities(AttemptsOf(RunsOf(p))),
           Succeeded(AttemptsOf(RunsOf(p)), g), g[2] = Valuation
    PROVE  g[3] \in coverage(campaign_holdings(p), RunsOf(p), AllFresh).verified
<1> DEFINE R == RunsOf(p)
           held == campaign_holdings(p)
<1>1. PICK a \in AttemptsOf(R) : InGroup(a, g) /\ attempts[a].status = "success"
    BY DEF Succeeded
<1>2. PICK k \in Cycle, t \in Ticker : /\ k = attempts[a].cycle /\ t = attempts[a].ticker
                                       /\ attempts[a].slot[1] = Valuation /\ g[3] = t
                                       /\ a \in Attempt /\ cycles[k].run \in R
                                       /\ attempts[a].status # "absent"
    BY <1>1, AttemptsOfAreThere DEF InGroup
<1>3. t \in held
  <2>1. t \in Group(k)
      BY <1>2 DEF StoreInv, RowsAreLinked
  <2>2. t \in runs[cycles[k].run].held
      BY <2>1 DEF Group
  <2> QED BY <1>2, <2>2, CampaignHoldings
<1>4. a \in QuotesRead(R)
  <2>1. quotes[a] # "none"
      BY <1>1, <1>2 DEF StoreInv, QuoteIffSuccess
  <2> QED BY <1>2, <2>1 DEF QuotesRead, CyclesOf
<1>5. a \notin AllFresh.foreign
    BY DEF AllFresh
<1>6. coverage(held, R, AllFresh).verified =
        {x \in held : ({b \in Attempt : attempts[b].ticker = x /\ attempts[b].slot[1] = Valuation}
                         \cap QuotesRead(R)) \ AllFresh.foreign # {}}
    BY Zenon DEF coverage
<1>7. a \in ({b \in Attempt : attempts[b].ticker = t /\ attempts[b].slot[1] = Valuation}
               \cap QuotesRead(R)) \ AllFresh.foreign
    BY <1>2, <1>4, <1>5
<1> QED BY <1>2, <1>3, <1>6, <1>7

(* The plan's view of a campaign's cycles, whatever the cut-off time, counts   *)
(* them as their own table does: a cycle claims its opportunity, and a claimed *)
(* opportunity is due.                                                         *)
LEMMA PlanSeesCycles ==
    ASSUME StoreInv, CampaignInv, NEW p \in Campaign, NEW asOf,
           NEW s \in CycleStatus \ {"absent"}
    PROVE  Cardinality({o \in Arrived(schedule(p), asOf) : RowStatus(o) = s})
             = Cardinality({k \in CyclesOf(RunsOf(p)) : cycles[k].status = s})
<1> DEFINE K == {k \in CyclesOf(RunsOf(p)) : cycles[k].status = s}
           O == {o \in Arrived(schedule(p), asOf) : RowStatus(o) = s}
           f == [k \in K |-> cycles[k].opportunity]
<1>0. TypeOK /\ RowsAreLinked /\ OpportunityClaimedOnce /\ p # None
    BY NoneIsNoCampaign DEF StoreInv
<1>1. ASSUME NEW k \in K PROVE cycles[k].opportunity \in O /\ k \in Cycle
  <2>1. PICK r \in Run : /\ k \in Cycle /\ cycles[k].status = s /\ r = cycles[k].run
                         /\ runs[r].campaign = p
      BY DEF CyclesOf, RunsOf
  <2>2. PICK o \in Opportunity : o = cycles[k].opportunity
    <3>1. cycles[k].opportunity # None
        BY <1>0, <2>1 DEF CampaignInv, CampaignCyclesAreScheduled
    <3> QED BY <1>0, <2>1, <3>1 DEF TypeOK, CycleRow
  <2>3. o # None /\ Claimed(o) /\ ClaimOf(o) = k
      BY <2>1, <2>2, NoneAssumption, ClaimIsUnique
  <2>4. plan[o].campaign = p
    <3>1. plan[o] = [campaign |-> runs[r].campaign, market |-> cycles[k].market]
        BY <1>0, <2>1, <2>2, <2>3 DEF OpportunityClaimedOnce
    <3> QED BY <2>1, <3>1
  <2>5. RowStatus(o) = s
      BY <2>1, <2>3 DEF RowStatus
  <2> QED BY <2>1, <2>2, <2>3, <2>4, <2>5 DEF Arrived, schedule, due
<1>2. ASSUME NEW o \in O PROVE \E k \in K : f[k] = o
  <2>1. o \in Opportunity /\ plan[o].campaign = p /\ RowStatus(o) = s
      BY DEF Arrived, schedule
  <2>2. Claimed(o)
      BY <2>1 DEF RowStatus, CycleStatus
  <2>3. PICK k \in Cycle : cycles[k].opportunity = o /\ k = ClaimOf(o)
      BY <2>1, <2>2, ClaimIsUnique DEF Claimed
  <2>4. cycles[k].status = s
      BY <2>1, <2>2, <2>3 DEF RowStatus
  <2>5. cycles[k].run \in RunsOf(p)
    <3>1. o # None
        BY <2>1, NoneAssumption
    <3>2. cycles[k].run \in Run
        BY <1>0, <2>4 DEF RowsAreLinked
    <3>3. plan[o] = [campaign |-> runs[cycles[k].run].campaign, market |-> cycles[k].market]
        BY <1>0, <2>3, <3>1 DEF OpportunityClaimedOnce
    <3> QED BY <2>1, <3>2, <3>3 DEF RunsOf
  <2>6. k \in K
      BY <2>4, <2>5 DEF CyclesOf
  <2> QED BY <2>3, <2>6
<1>3. ASSUME NEW j \in K, NEW k \in K, f[j] = f[k] PROVE j = k
  <2>1. cycles[k].opportunity # None /\ cycles[j].opportunity = cycles[k].opportunity
      BY <1>1, <1>3, NoneAssumption DEF Arrived, schedule
  <2> QED BY <1>0, <1>1, <2>1 DEF OpportunityClaimedOnce
<1>4. f \in Bijection(K, O)
  <2>1. f \in [K -> O]
      BY <1>1
  <2> HIDE DEF f, K, O
  <2>2. f \in Injection(K, O)
      BY <1>3, <2>1 DEF Injection, IsInjective
  <2>3. f \in Surjection(K, O)
      BY <1>2, <2>1 DEF Surjection
  <2> QED BY <2>2, <2>3 DEF Bijection
<1>5. IsFiniteSet(K)
  <2>1. K \subseteq Cycle
      BY DEF CyclesOf
  <2> QED BY <2>1, TableAssumption, FS_Subset
<1> HIDE DEF f, K, O
<1>6. Cardinality(K) = Cardinality(O)
    BY <1>4, <1>5, FS_Bijection DEF ExistsBijection
<1> QED BY <1>6 DEF K, O

(* At one time a market has one opportunity of a campaign, so that its gaps    *)
(* can be counted by their times.                                              *)
LEMMA GapsAreTimes ==
    ASSUME PlansAreTheirOwn, NEW p \in Campaign, NEW asOf, NEW m
    PROVE  Cardinality({o \in Gaps(schedule(p), asOf) : o[2] = m})
             = Cardinality(GapTimes(schedule(p), asOf, m))
<1> DEFINE O == {o \in Gaps(schedule(p), asOf) : o[2] = m}
           G == GapTimes(schedule(p), asOf, m)
           f == [t \in G |-> <<p, m, t>>]
<1>1. p # None
    BY NoneIsNoCampaign
<1>2. ASSUME NEW o \in O PROVE o = <<p, m, o[3]>> /\ o[3] \in G
  <2>1. /\ o \in Gaps(schedule(p), asOf) /\ o[2] = m
        /\ o \in Opportunity /\ plan[o].campaign = p
      BY DEF Gaps, Arrived, schedule
  <2>2. o \in Campaign \X Market \X (0..MaxTime)
      BY <2>1, TimeAssumption
  <2>3. plan[o] = [campaign |-> o[1], market |-> o[2]]
      BY <1>1, <2>1 DEF PlansAreTheirOwn
  <2>4. o[1] = p
      BY <2>1, <2>3
  <2>5. o[3] \in G
      BY <2>1, <2>2 DEF GapTimes, ScheduledAt
  <2> QED BY <2>1, <2>2, <2>4, <2>5
<1>3. ASSUME NEW t \in G PROVE f[t] \in O
  <2>1. PICK o \in O : o[3] = t
      BY DEF GapTimes, ScheduledAt
  <2>2. o = <<p, m, t>>
      BY <1>2, <2>1
  <2> QED BY <2>2
<1>4. f \in Bijection(G, O)
  <2>1. f \in [G -> O]
      BY <1>3
  <2>2. \A t, u \in G : f[t] = f[u] => t = u
      OBVIOUS
  <2>3. \A o \in O : \E t \in G : f[t] = o
      BY <1>2
  <2> HIDE DEF f, O, G
  <2>4. f \in Injection(G, O)
      BY <2>1, <2>2 DEF Injection, IsInjective
  <2>5. f \in Surjection(G, O)
      BY <2>1, <2>3 DEF Surjection
  <2> QED BY <2>4, <2>5 DEF Bijection
<1>5. IsFiniteSet(G)
  <2>1. IsFiniteSet(0..MaxTime) /\ G \subseteq 0..MaxTime
      BY TimeAssumption, FS_Interval DEF GapTimes
  <2> QED BY <2>1, FS_Subset
<1> HIDE DEF f, O, G
<1>6. Cardinality(G) = Cardinality(O)
    BY <1>4, <1>5, FS_Bijection DEF ExistsBijection
<1> QED BY <1>6 DEF O, G

(* The counts of a market's windows add up to its gaps.                        *)
LEMMA DowntimeAddsUp ==
    ASSUME NEW rows, NEW asOf, NEW m, NEW w, w = downtime(rows, asOf, m)
    PROVE  /\ Counted(w) = Cardinality(GapTimes(rows, asOf, m))
           /\ \A i \in 2..Len(w) : w[i].first - w[i - 1].last > Poll
<1> DEFINE G == GapTimes(rows, asOf, m)
           n == Len(w)
           T == [i \in 1..n |-> Inside(G, w[i])]
<1>1. WindowsOf(G, MaxTime, w) /\ G \in SUBSET (0..MaxTime)
    BY DowntimeIsWindows DEF GapTimes
<1> HIDE DEF G
<1>2. w \in Seq(Window) /\ n \in Nat /\ DOMAIN w = 1..n
    BY <1>1 DEF WindowsOf
<1>3. \A i \in 1..n : w[i].first \in Nat /\ w[i].last \in Nat
    BY <1>2, WindowFields
<1>4. \A i, j \in 1..n : i < j => w[j].first - w[i].last > Poll
    BY <1>1 DEF WindowsOf
<1>5. \A i \in 1..n : /\ IsFiniteSet(Inside(G, w[i])) /\ w[i].count = Cardinality(Inside(G, w[i]))
                      /\ w[i].first <= w[i].last
    BY <1>1, FiniteTimes DEF WindowsOf
<1>6. ASSUME NEW i \in 1..n, NEW j \in 1..n, i < j
      PROVE  Inside(G, w[i]) \cap Inside(G, w[j]) = {}
  <2> SUFFICES ASSUME NEW g \in Inside(G, w[i]), g \in Inside(G, w[j]) PROVE FALSE
      OBVIOUS
  <2>1. g \in Nat /\ g <= w[i].last /\ w[j].first <= g
      BY <1>1, TimeAssumption DEF Inside
  <2>2. w[j].first - w[i].last > Poll
      BY <1>4, <1>6
  <2> QED BY <1>3, <2>1, <2>2, TimeAssumption
<1>7. \A i, j \in 1..n : i # j => T[i] \cap T[j] = {}
  <2> SUFFICES ASSUME NEW i \in 1..n, NEW j \in 1..n, i # j PROVE T[i] \cap T[j] = {}
      OBVIOUS
  <2>1. CASE i < j
      BY <1>6, <2>1
  <2>2. CASE j < i
      BY <1>6, <2>2
  <2> QED BY <1>2, <2>1, <2>2
<1>8. UNION {T[i] : i \in 1..n} = G
  <2>1. \A g \in G : \E i \in 1..n : g \in T[i]
      BY <1>1, TimeAssumption DEF WindowsOf
  <2>2. \A i \in 1..n : T[i] \subseteq G
      BY DEF Inside
  <2> HIDE DEF T, n
  <2> QED BY <2>1, <2>2
<1>9. \A i \in 1..n : IsFiniteSet(T[i]) /\ w[i].count = Cardinality(T[i])
    BY <1>5
<1>10. Counted(w) = Cardinality(UNION {T[i] : i \in 1..n})
  <2> HIDE DEF T, n
  <2> QED BY <1>2, <1>7, <1>9, FoldCountsUnion
<1>11. \A i \in 2..n : w[i].first - w[i - 1].last > Poll
  <2> SUFFICES ASSUME NEW i \in 2..n PROVE w[i].first - w[i - 1].last > Poll
      OBVIOUS
  <2>1. i - 1 \in 1..n /\ i \in 1..n /\ i - 1 < i
      BY <1>2
  <2> QED BY <1>4, <2>1
<1> HIDE DEF T
<1> QED BY <1>8, <1>10, <1>11 DEF G

(* The sections of a campaign's report agree with each other, for any cut-off  *)
(* time: the plan's view counts every cycle, the downtime windows hold exactly *)
(* the missing opportunities, every operation is a first one or a retry, and   *)
(* what a source delivered is covered.                                         *)
THEOREM SectionsMustAgree == CSpec => []SectionsAgree
<1>1. ASSUME StoreInv, CTypeOK, CampaignInv, AttemptsAreNumbered PROVE SectionsAgree
  <2> DEFINE volume(p) == aggregate(AttemptsOf(RunsOf(p)), AllFresh)
             covered(p) == coverage(campaign_holdings(p), RunsOf(p), AllFresh)
             counts(p) == CycleCounts(RunsOf(p))
             view(p, asOf) == schedule_coverage(schedule(p), asOf).including_maintenance
             w(p, asOf, m) == downtime(schedule(p), asOf, m)
  <2>1. ASSUME NEW p \in Campaign
        PROVE  volume(p).operations = volume(p).opportunities + volume(p).retries
    <3>1. /\ volume(p).operations = Cardinality(AttemptsOf(RunsOf(p)))
          /\ volume(p).opportunities = Cardinality(opportunities(AttemptsOf(RunsOf(p))))
          /\ volume(p).retries
               = Cardinality({a \in AttemptsOf(RunsOf(p)) : attempts[a].slot[2] > 1})
        BY Zenon DEF aggregate
    <3> QED BY <1>1, <3>1, OperationsAddUp
  <2>2. ASSUME NEW p \in Campaign, NEW g \in volume(p).succeeded, g[2] = Valuation
        PROVE  g[3] \in covered(p).verified
    <3>1. volume(p).succeeded = {h \in opportunities(AttemptsOf(RunsOf(p))) :
                                    Succeeded(AttemptsOf(RunsOf(p)), h)}
        BY Zenon DEF aggregate
    <3>2. g \in opportunities(AttemptsOf(RunsOf(p))) /\ Succeeded(AttemptsOf(RunsOf(p)), g)
        BY <2>2, <3>1
    <3> QED BY <1>1, <2>2, <3>2, DeliveredIsCovered DEF CampaignInv
  <2>3. ASSUME NEW p \in Campaign, NEW asOf, NEW s \in DOMAIN counts(p)
        PROVE  view(p, asOf)[s] = counts(p)[s]
    <3>1. s \in CycleStatus \ {"absent"} /\ s \in RowStatuses
        BY <2>3 DEF CycleCounts, RowStatuses
    <3>2. counts(p)[s] = Cardinality({k \in CyclesOf(RunsOf(p)) : cycles[k].status = s})
        BY <3>1 DEF CycleCounts
    <3>3. view(p, asOf) = summarize(Arrived(schedule(p), asOf))
        BY Zenon DEF schedule_coverage
    <3>4. view(p, asOf)[s] = Cardinality({o \in Arrived(schedule(p), asOf) : RowStatus(o) = s})
        BY <3>1, <3>3 DEF summarize
    <3> QED BY <1>1, <3>1, <3>2, <3>4, PlanSeesCycles
  <2>4. ASSUME NEW p \in Campaign, NEW asOf, NEW m \in Market
        PROVE  /\ FoldSeq(LAMBDA x, n : x.count + n, 0, w(p, asOf, m))
                    = Cardinality({o \in Gaps(schedule(p), asOf) : o[2] = m})
               /\ \A i \in 2..Len(w(p, asOf, m)) :
                     w(p, asOf, m)[i].first - w(p, asOf, m)[i - 1].last > Poll
    <3>1. /\ Counted(w(p, asOf, m)) = Cardinality(GapTimes(schedule(p), asOf, m))
          /\ \A i \in 2..Len(w(p, asOf, m)) :
                w(p, asOf, m)[i].first - w(p, asOf, m)[i - 1].last > Poll
        BY DowntimeAddsUp, Zenon
    <3>2. Cardinality({o \in Gaps(schedule(p), asOf) : o[2] = m})
            = Cardinality(GapTimes(schedule(p), asOf, m))
        BY <1>1, GapsAreTimes DEF CampaignInv
    <3>3. Counted(w(p, asOf, m)) = FoldSeq(LAMBDA x, n : x.count + n, 0, w(p, asOf, m))
        BY DEF Counted
    <3> HIDE DEF w
    <3> QED BY <3>1, <3>2, <3>3, Zenon
  <2> QED BY <2>1, <2>2, <2>3, <2>4, Zenon DEF SectionsAgree
<1> QED BY <1>1, BothInvariants, CampaignsAreKept, AttemptsStayNumbered, PTL DEF CollectorInv

=============================================================================
