------------------------ MODULE CollectorStoreProofs ------------------------
(* What storage.py and the schema guarantee to every caller, proved. *)
EXTENDS CollectorStore, TLAPS

-----------------------------------------------------------------------------
(* The inductive invariant, conjunct by conjunct.                             *)

(* References hold (the schema's foreign keys, and start_attempt's check that *)
(* the ticker is a holding of the cycle): a row that exists names rows that   *)
(* exist.                                                                     *)
RowsAreLinked ==
    /\ \A r \in Run : runs[r].status = "absent" => runs[r] = NoRun
    /\ \A k \in Cycle :
          IF cycles[k].status = "absent" THEN cycles[k] = NoCycle
          ELSE /\ cycles[k].run \in Run /\ cycles[k].market \in Market
               /\ runs[cycles[k].run].status # "absent"
    /\ \A a \in Attempt :
          IF attempts[a].status = "absent" THEN attempts[a] = NoAttempt
          ELSE /\ attempts[a].cycle \in Cycle /\ attempts[a].ticker \in Ticker
               /\ cycles[attempts[a].cycle].status # "absent"
               /\ attempts[a].ticker \in Group(attempts[a].cycle)

(* A row has a closing timestamp exactly when it has ended.                   *)
EndedIffStamped ==
    /\ \A a \in Attempt : attempts[a].stamp = "open"
                            <=> attempts[a].status \in {"absent", "started"}
    /\ \A k \in Cycle : cycles[k].stamp = "open"
                          <=> cycles[k].status \in {"absent", "running"}
    /\ \A r \in Run : runs[r].stamp = "open" <=> runs[r].status \in {"absent", "running"}

(* A live session that believes it has the lock has it.                       *)
BeliefIsTrue == \A c \in Client : locked[c] /\ conn[c] = "live" => lock = c

(* The inductive invariant.                                                   *)
StoreInv ==
    /\ TypeOK
    /\ BeliefIsTrue
    /\ RowsAreLinked
    /\ EndedIffStamped
    /\ OpenWorkIsNested
    /\ QuoteIffSuccess
    /\ CompletedIffValued
    /\ ValuationHasQuote
    /\ OpportunityClaimedOnce
    /\ RecoveredTogether

-----------------------------------------------------------------------------

(* The invariant holds of the empty schema.                                   *)
LEMMA InitStoreInv == Init => StoreInv
<1> SUFFICES ASSUME Init PROVE StoreInv
    OBVIOUS
<1>1. TypeOK
    BY DEF Init, TypeOK, RunRow, CycleRow, AttemptRow, PlanRow, NoRun, NoCycle, NoAttempt,
           NoPlan, CampaignStatus, RunStatus, CycleStatus, AttemptStatus, QuoteKind, Stamp,
           Orphan, NoRow
<1>2. BeliefIsTrue
    BY DEF Init, BeliefIsTrue
<1>3. RowsAreLinked /\ EndedIffStamped
    BY DEF Init, RowsAreLinked, EndedIffStamped, NoRun, NoCycle, NoAttempt
<1>4. OpenWorkIsNested /\ QuoteIffSuccess /\ CompletedIffValued /\ ValuationHasQuote
    BY NoneAssumption DEF Init, OpenWorkIsNested, QuoteIffSuccess, CompletedIffValued, ValuationHasQuote,
           NoRun, NoCycle, NoAttempt, NoRow
<1>5. OpportunityClaimedOnce /\ RecoveredTogether
    BY DEF Init, OpportunityClaimedOnce, RecoveredTogether, NoRun, NoCycle, NoAttempt
<1> QED BY <1>1, <1>2, <1>3, <1>4, <1>5 DEF StoreInv

(* Steps that leave the tables alone keep every invariant of the tables. *)
LEMMA TablesUnchanged ==
    ASSUME StoreInv, UNCHANGED tables
    PROVE  (RowsAreLinked /\ EndedIffStamped /\ OpenWorkIsNested /\ QuoteIffSuccess
              /\ CompletedIffValued /\ ValuationHasQuote /\ OpportunityClaimedOnce
              /\ RecoveredTogether)'
<1> USE DEF StoreInv, tables
<1>1. RowsAreLinked'          BY DEF RowsAreLinked, Group
<1>2. EndedIffStamped'        BY DEF EndedIffStamped
<1>3. OpenWorkIsNested'       BY DEF OpenWorkIsNested
<1>4. QuoteIffSuccess'        BY DEF QuoteIffSuccess
<1>5. CompletedIffValued'     BY DEF CompletedIffValued, Group
<1>6. ValuationHasQuote'      BY DEF ValuationHasQuote
<1>7. OpportunityClaimedOnce' BY DEF OpportunityClaimedOnce
<1>8. RecoveredTogether'      BY DEF RecoveredTogether
<1> QED BY <1>1, <1>2, <1>3, <1>4, <1>5, <1>6, <1>7, <1>8

(* A session step changes no table, so only the session conjuncts matter. *)
LEMMA SessionStepInv ==
    ASSUME StoreInv, NEW c \in Client, SessionStep(c)
    PROVE  StoreInv'
<1>1. UNCHANGED tables
    BY DEF SessionStep, Connect, AcquireLock, RollBack, Exit, ConnectionLost, Crash
<1>2. TypeOK'
    BY <1>1 DEF StoreInv, TypeOK, tables, Usable, Orphan, SessionStep, Connect, AcquireLock,
                RollBack, Exit, ConnectionLost, Crash
<1>3. BeliefIsTrue'
  <2> USE DEF StoreInv, TypeOK, BeliefIsTrue, Orphan
  <2>1. CASE Connect(c)        BY <2>1 DEF Connect
  <2>2. CASE AcquireLock(c)    BY <2>2, NoneAssumption DEF AcquireLock, Usable
  <2>3. CASE RollBack(c)       BY <2>3 DEF RollBack
  <2>4. CASE Exit(c)           BY <2>4 DEF Exit
  <2>5. CASE ConnectionLost(c) BY <2>5 DEF ConnectionLost
  <2>6. CASE Crash(c)          BY <2>6 DEF Crash
  <2> QED BY <2>1, <2>2, <2>3, <2>4, <2>5, <2>6 DEF SessionStep
<1> QED BY <1>1, <1>2, <1>3, TablesUnchanged DEF StoreInv

(* The end of a session on the server keeps the invariant.                    *)
LEMMA SessionEndsInv ==
    ASSUME StoreInv, SessionEnds
    PROVE  StoreInv'
<1>1. UNCHANGED tables
    BY DEF SessionEnds
<1>2. TypeOK' /\ BeliefIsTrue'
    BY <1>1, NoneAssumption DEF StoreInv, TypeOK, BeliefIsTrue, tables, Orphan, SessionEnds
<1> QED BY <1>1, <1>2, TablesUnchanged DEF StoreInv

(* What the row types say of single fields. *)
LEMMA RowTypes ==
    ASSUME TypeOK
    PROVE  /\ \A r \in Run : /\ runs[r].status \in RunStatus
                              /\ runs[r].campaign \in Campaign \cup {None}
                              /\ runs[r].held \in SUBSET Ticker
           /\ \A k \in Cycle : /\ cycles[k].status \in CycleStatus
                                /\ cycles[k].run \in Run \cup {None}
                                /\ cycles[k].market \in Market \cup {None}
                                /\ cycles[k].opportunity \in Opportunity \cup {None}
           /\ \A a \in Attempt : /\ attempts[a].status \in AttemptStatus
                                  /\ attempts[a].cycle \in Cycle \cup {None}
                                  /\ attempts[a].ticker \in Ticker \cup {None}
<1>1. \A r \in Run : runs[r] \in RunRow
    BY DEF TypeOK
<1>2. \A k \in Cycle : cycles[k] \in CycleRow
    BY DEF TypeOK
<1>3. \A a \in Attempt : attempts[a] \in AttemptRow
    BY DEF TypeOK
<1>4. \A r \in Run : /\ runs[r].status \in RunStatus
                     /\ runs[r].campaign \in Campaign \cup {None}
                     /\ runs[r].held \in SUBSET Ticker
    BY <1>1 DEF RunRow
<1>5. \A k \in Cycle : /\ cycles[k].status \in CycleStatus
                       /\ cycles[k].run \in Run \cup {None}
                       /\ cycles[k].market \in Market \cup {None}
                       /\ cycles[k].opportunity \in Opportunity \cup {None}
    BY <1>2 DEF CycleRow
<1>6. \A a \in Attempt : /\ attempts[a].status \in AttemptStatus
                         /\ attempts[a].cycle \in Cycle \cup {None}
                         /\ attempts[a].ticker \in Ticker \cup {None}
    BY <1>3 DEF AttemptRow
<1> QED BY <1>4, <1>5, <1>6

(* A commit may lose its acknowledgement; the session's lock stays its own. *)
LEMMA CommitSession ==
    ASSUME StoreInv, NEW c \in Client, Commit(c)
    PROVE  /\ conn' \in [Client -> {"none", "live", "dead"}]
           /\ failed' \in [Client -> BOOLEAN]
           /\ locked' \in [Client -> BOOLEAN]
           /\ lock' \in Client \cup {None, Orphan}
           /\ BeliefIsTrue'
BY DEF StoreInv, TypeOK, BeliefIsTrue, Commit

(* A new campaign and its schedule touch no existing row. *)
LEMMA CreateCampaignInv ==
    ASSUME StoreInv, NEW c \in Client, NEW p \in Campaign, NEW schedule \in Schedules,
           CreateCampaign(c, p, schedule)
    PROVE  StoreInv'
<1>1. TypeOK'
  <2> PICK S \in SUBSET Opportunity : schedule \in [S -> Market]
      BY DEF Schedules
  <2> QED BY CommitSession DEF StoreInv, TypeOK, CreateCampaign, CampaignStatus, PlanRow
<1>2. BeliefIsTrue'
    BY CommitSession DEF CreateCampaign
<1> USE DEF StoreInv, CreateCampaign
<1>3. RowsAreLinked'
    BY DEF RowsAreLinked, Group
<1>4. EndedIffStamped'
    BY DEF EndedIffStamped
<1>5. OpenWorkIsNested'
    BY DEF OpenWorkIsNested, TypeOK
<1>6. QuoteIffSuccess'
    BY DEF QuoteIffSuccess
<1>7. CompletedIffValued'
    BY DEF CompletedIffValued, Group
<1>8. ValuationHasQuote'
    BY DEF ValuationHasQuote
<1>9. OpportunityClaimedOnce'
  <2>1. \A k \in Cycle : cycles[k].opportunity # None
                            => plan'[cycles[k].opportunity] = plan[cycles[k].opportunity]
    <3> SUFFICES ASSUME NEW k \in Cycle, cycles[k].opportunity # None
                 PROVE  plan'[cycles[k].opportunity] = plan[cycles[k].opportunity]
        OBVIOUS
    <3>0. cycles[k].market \in Market
        BY DEF RowsAreLinked, NoCycle
    <3>1. cycles[k].market # None
        BY <3>0, NoneAssumption
    <3>2. plan[cycles[k].opportunity] = [campaign |-> runs[cycles[k].run].campaign,
                                         market |-> cycles[k].market]
        BY DEF OpportunityClaimedOnce
    <3>3. \A o \in DOMAIN schedule : plan[o].market = None
        BY DEF NoPlan
    <3>4. cycles[k].opportunity \in Opportunity
        BY RowTypes
    <3>5. cycles[k].opportunity \notin DOMAIN schedule
        BY <3>1, <3>2, <3>3
    <3> QED BY <3>4, <3>5
  <2> QED BY <2>1 DEF OpportunityClaimedOnce
<1>10. RecoveredTogether'
    BY DEF RecoveredTogether
<1> QED BY <1>1, <1>2, <1>3, <1>4, <1>5, <1>6, <1>7, <1>8, <1>9, <1>10 DEF StoreInv

(* A new run: no cycle refers to it yet. *)
LEMMA StartRunInv ==
    ASSUME StoreInv, NEW c \in Client, NEW r \in Run, NEW p \in Campaign \cup {None},
           NEW held \in SUBSET Ticker,
           StartRun(c, r, p, held)
    PROVE  StoreInv'
<1>1. TypeOK'
    BY CommitSession DEF StoreInv, TypeOK, StartRun, RunRow, RunStatus, Stamp
<1>2. BeliefIsTrue'
    BY CommitSession DEF StartRun
<1> USE DEF StoreInv, StartRun
<1>3. RowsAreLinked'
    BY DEF RowsAreLinked, TypeOK, Group
<1>4. EndedIffStamped'
    BY DEF EndedIffStamped, TypeOK
<1>5. OpenWorkIsNested'
    BY DEF OpenWorkIsNested, RowsAreLinked, TypeOK
<1>6. QuoteIffSuccess'
    BY DEF QuoteIffSuccess
<1>7. CompletedIffValued'
    BY DEF CompletedIffValued, Group, RowsAreLinked, TypeOK
<1>8. ValuationHasQuote'
    BY DEF ValuationHasQuote
<1>9. OpportunityClaimedOnce'
    BY DEF OpportunityClaimedOnce, RowsAreLinked, NoCycle, TypeOK
<1>10. RecoveredTogether'
    BY DEF RecoveredTogether, RowsAreLinked, EndedIffStamped, TypeOK
<1> QED BY <1>1, <1>2, <1>3, <1>4, <1>5, <1>6, <1>7, <1>8, <1>9, <1>10 DEF StoreInv

(* A new cycle: no attempt and no valuation refers to it yet. *)
LEMMA StartCycleInv ==
    ASSUME StoreInv, NEW c \in Client, NEW k \in Cycle, NEW r \in Run, NEW m \in Market,
           NEW o \in Opportunity \cup {None},
           StartCycle(c, k, r, m, o)
    PROVE  StoreInv'
<1>1. TypeOK'
    BY CommitSession DEF StoreInv, TypeOK, StartCycle, CycleRow, CycleStatus, Stamp
<1>2. BeliefIsTrue'
    BY CommitSession DEF StartCycle
<1> USE DEF StoreInv, StartCycle
<1>3. RowsAreLinked'
    BY DEF TypeOK, RowsAreLinked, Group
<1>4. EndedIffStamped'
    BY DEF EndedIffStamped, TypeOK
<1>5. OpenWorkIsNested'
    BY DEF OpenWorkIsNested, TypeOK, RowsAreLinked
<1>6. QuoteIffSuccess'
    BY DEF QuoteIffSuccess
<1>7. CompletedIffValued'
    BY DEF CompletedIffValued, Group, TypeOK, RowsAreLinked
<1>8. ValuationHasQuote'
    BY DEF ValuationHasQuote
<1>9. OpportunityClaimedOnce'
    BY DEF OpportunityClaimedOnce, TypeOK, RowsAreLinked
<1>10. RecoveredTogether'
    BY DEF RecoveredTogether, EndedIffStamped, TypeOK, RowsAreLinked
<1> QED BY <1>1, <1>2, <1>3, <1>4, <1>5, <1>6, <1>7, <1>8, <1>9, <1>10 DEF StoreInv

(* A new attempt in a running cycle of a running run. *)
LEMMA StartAttemptInv ==
    ASSUME StoreInv, NEW c \in Client, NEW a \in Attempt, NEW k \in Cycle, NEW t \in Ticker,
           NEW s \in Slot,
           StartAttempt(c, a, k, t, s)
    PROVE  StoreInv'
<1>1. TypeOK'
    BY CommitSession DEF StoreInv, TypeOK, StartAttempt, AttemptRow, AttemptStatus, Stamp
<1>2. BeliefIsTrue'
    BY CommitSession DEF StartAttempt
<1> USE DEF StoreInv, StartAttempt
<1>3. RowsAreLinked'
    BY DEF TypeOK, RowsAreLinked, Group
<1>4. EndedIffStamped'
    BY DEF EndedIffStamped, TypeOK
<1>5. OpenWorkIsNested'
    BY DEF OpenWorkIsNested, TypeOK
<1>6. QuoteIffSuccess'
    BY DEF QuoteIffSuccess, TypeOK
<1>7. CompletedIffValued'
    BY DEF CompletedIffValued, Group
<1>8. ValuationHasQuote'
    BY DEF ValuationHasQuote
<1>9. OpportunityClaimedOnce'
    BY DEF OpportunityClaimedOnce
<1>10. RecoveredTogether'
    BY DEF RecoveredTogether, EndedIffStamped, TypeOK, RowsAreLinked
<1> QED BY <1>1, <1>2, <1>3, <1>4, <1>5, <1>6, <1>7, <1>8, <1>9, <1>10 DEF StoreInv

(* Ending a row changes its status and its timestamp and no other field. *)
LEMMA AttemptEnds ==
    ASSUME TypeOK, NEW a \in Attempt, NEW status \in AttemptStatus,
           attempts' = [attempts EXCEPT ![a].status = status, ![a].stamp = "closed"]
    PROVE  /\ attempts' \in [Attempt -> AttemptRow]
           /\ attempts'[a].status = status /\ attempts'[a].stamp = "closed"
           /\ attempts'[a].cycle = attempts[a].cycle /\ attempts'[a].ticker = attempts[a].ticker
           /\ \A b \in Attempt \ {a} : attempts'[b] = attempts[b]
<1>1. attempts \in [Attempt -> AttemptRow]
    BY DEF TypeOK
<1> QED BY <1>1 DEF AttemptRow, Stamp

(* What ending a cycle changes, and what it leaves.                           *)
LEMMA CycleEnds ==
    ASSUME TypeOK, NEW k \in Cycle, NEW status \in CycleStatus,
           cycles' = [cycles EXCEPT ![k].status = status, ![k].stamp = "closed"]
    PROVE  /\ cycles' \in [Cycle -> CycleRow]
           /\ cycles'[k].status = status /\ cycles'[k].stamp = "closed"
           /\ \A j \in Cycle : /\ cycles'[j].run = cycles[j].run
                               /\ cycles'[j].market = cycles[j].market
                               /\ cycles'[j].opportunity = cycles[j].opportunity
           /\ \A j \in Cycle \ {k} : cycles'[j] = cycles[j]
<1>1. cycles \in [Cycle -> CycleRow]
    BY DEF TypeOK
<1> QED BY <1>1 DEF CycleRow, Stamp

(* What ending a run changes, and what it leaves.                             *)
LEMMA RunEnds ==
    ASSUME TypeOK, NEW r \in Run, NEW status \in RunStatus,
           runs' = [runs EXCEPT ![r].status = status, ![r].stamp = "closed"]
    PROVE  /\ runs' \in [Run -> RunRow]
           /\ runs'[r].status = status /\ runs'[r].stamp = "closed"
           /\ \A q \in Run : runs'[q].campaign = runs[q].campaign /\ runs'[q].held = runs[q].held
           /\ \A q \in Run \ {r} : runs'[q] = runs[q]
<1>1. runs \in [Run -> RunRow]
    BY DEF TypeOK
<1> QED BY <1>1 DEF RunRow, Stamp

(* The attempt and its quote change together. *)
LEMMA FinishAttemptInv ==
    ASSUME StoreInv, NEW c \in Client, NEW a \in Attempt, NEW result \in Result,
           FinishAttempt(c, a, result)
    PROVE  StoreInv'
<1> USE DEF StoreInv
<1>1. /\ attempts[a].status = "started" /\ Commit(c)
      /\ attempts' = [attempts EXCEPT ![a].status = Outcome(result), ![a].stamp = "closed"]
      /\ quotes' = IF result \in {"usable", "unusable"} THEN [quotes EXCEPT ![a] = result] ELSE quotes
      /\ UNCHANGED <<campaigns, plan, runs, cycles, valuations>>
    BY DEF FinishAttempt
<1>2. /\ Outcome(result) \in AttemptStatus \ {"absent", "started"}
      /\ Outcome(result) = "success" <=> result \in {"usable", "unusable"}
    BY DEF Outcome, Result, AttemptStatus
<1>3. /\ attempts' \in [Attempt -> AttemptRow]
      /\ attempts'[a].status = Outcome(result) /\ attempts'[a].stamp = "closed"
      /\ attempts'[a].cycle = attempts[a].cycle /\ attempts'[a].ticker = attempts[a].ticker
      /\ \A b \in Attempt \ {a} : attempts'[b] = attempts[b]
    BY <1>1, <1>2, AttemptEnds
<1>4. /\ quotes' \in [Attempt -> QuoteKind]
      /\ quotes'[a] # "none" <=> result \in {"usable", "unusable"}
      /\ \A b \in Attempt \ {a} : quotes'[b] = quotes[b]
    BY <1>1 DEF TypeOK, QuoteKind, QuoteIffSuccess
<1>5. TypeOK'
    BY <1>1, <1>3, <1>4, CommitSession DEF TypeOK
<1>6. BeliefIsTrue'
    BY <1>1, CommitSession
<1>7. RowsAreLinked'
    BY <1>1, <1>2, <1>3, ZenonT(40) DEF RowsAreLinked, Group
<1>8. EndedIffStamped'
    BY <1>1, <1>2, <1>3 DEF EndedIffStamped
<1>9. OpenWorkIsNested'
    BY <1>1, <1>2, <1>3 DEF OpenWorkIsNested
<1>10. QuoteIffSuccess'
    BY <1>1, <1>2, <1>3, <1>4 DEF QuoteIffSuccess
<1>11. CompletedIffValued'
    BY <1>1 DEF CompletedIffValued, Group
<1>12. ValuationHasQuote'
    BY <1>1, <1>2, <1>3, <1>4 DEF ValuationHasQuote, QuoteIffSuccess
<1>13. OpportunityClaimedOnce'
    BY <1>1 DEF OpportunityClaimedOnce
<1>14. RecoveredTogether'
    BY <1>1, <1>3 DEF RecoveredTogether
<1> QED BY <1>5, <1>6, <1>7, <1>8, <1>9, <1>10, <1>11, <1>12, <1>13, <1>14

(* Completion and its valuations are one transaction. *)
LEMMA FinishCycleInv ==
    ASSUME StoreInv, NEW c \in Client, NEW k \in Cycle, NEW selected \in Selections,
           FinishCycle(c, k, selected)
    PROVE  StoreInv'
<1> USE DEF StoreInv
<1> DEFINE Row(t) == IF t \notin Group(k) THEN NoRow
                     ELSE IF t \in DOMAIN selected THEN selected[t] ELSE None
<1>1. /\ cycles[k].status = "running" /\ runs[cycles[k].run].status = "running" /\ Commit(c)
      /\ \A a \in Attempt : attempts[a].cycle = k => attempts[a].status # "started"
      /\ \A t \in DOMAIN selected : selected[t] # None => quotes[selected[t]] # "none"
      /\ valuations' = [valuations EXCEPT ![k] = [t \in Ticker |-> Row(t)]]
      /\ cycles' = [cycles EXCEPT ![k].status = "completed", ![k].stamp = "closed"]
      /\ UNCHANGED <<campaigns, plan, runs, attempts, quotes>>
    BY DEF FinishCycle
<1>2. /\ cycles' \in [Cycle -> CycleRow]
      /\ cycles'[k].status = "completed" /\ cycles'[k].stamp = "closed"
      /\ \A j \in Cycle : /\ cycles'[j].run = cycles[j].run
                          /\ cycles'[j].market = cycles[j].market
                          /\ cycles'[j].opportunity = cycles[j].opportunity
      /\ \A j \in Cycle \ {k} : cycles'[j] = cycles[j]
    BY <1>1, CycleEnds DEF CycleStatus
<1>3. \A t \in DOMAIN selected : selected[t] \in Attempt \cup {None}
  <2> PICK S \in SUBSET Ticker : selected \in [S -> Attempt \cup {None}]
      BY DEF Selections
  <2> QED OBVIOUS
<1>4. \A t \in Ticker : Row(t) \in Attempt \cup {None, NoRow}
    BY <1>3
<1> HIDE DEF Row
<1>5. /\ valuations' \in [Cycle -> [Ticker -> Attempt \cup {None, NoRow}]]
      /\ \A t \in Ticker : valuations'[k][t] = Row(t)
      /\ \A j \in Cycle \ {k} : valuations'[j] = valuations[j]
    BY <1>1, <1>4 DEF TypeOK
<1>6. TypeOK'
    BY <1>1, <1>2, <1>5, CommitSession DEF TypeOK
<1>7. BeliefIsTrue'
    BY <1>1, CommitSession
<1>8. \A j \in Cycle : Group(j)' = Group(j)
    BY <1>1, <1>2 DEF Group
<1>9. RowsAreLinked'
    BY <1>1, <1>2, <1>8 DEF RowsAreLinked
<1>10. EndedIffStamped'
    BY <1>1, <1>2 DEF EndedIffStamped
<1>11. OpenWorkIsNested'
    BY <1>1, <1>2 DEF OpenWorkIsNested, RowsAreLinked
<1>12. QuoteIffSuccess'
    BY <1>1 DEF QuoteIffSuccess
<1>13. CompletedIffValued'
  <2>1. \A t \in Ticker : Row(t) # NoRow <=> t \in Group(k)
      BY <1>3, NoneAssumption DEF Row, NoRow
  <2> QED BY <1>2, <1>5, <1>8, <2>1 DEF CompletedIffValued
<1>14. ValuationHasQuote'
  <2>1. \A t \in Ticker : Row(t) \in Attempt => quotes[Row(t)] # "none"
      BY <1>1, NoneAssumption DEF Row, NoRow
  <2> QED BY <1>1, <1>5, <2>1 DEF ValuationHasQuote
<1>15. OpportunityClaimedOnce'
    BY <1>1, <1>2 DEF OpportunityClaimedOnce
<1>16. RecoveredTogether'
    BY <1>1, <1>2 DEF RecoveredTogether, EndedIffStamped, RowsAreLinked
<1> QED BY <1>6, <1>7, <1>9, <1>10, <1>11, <1>12, <1>13, <1>14, <1>15, <1>16

(* A stopped cycle leaves no attempt open. *)
LEMMA StopCycleInv ==
    ASSUME StoreInv, NEW c \in Client, NEW k \in Cycle,
           NEW status \in {"interrupted", "skipped"}, StopCycle(c, k, status)
    PROVE  StoreInv'
<1> USE DEF StoreInv
<1>0. /\ cycles[k].status = "running" /\ runs[cycles[k].run].status = "running" /\ Commit(c)
      /\ UNCHANGED <<campaigns, plan, runs, quotes, valuations>>
    BY DEF StopCycle
<1>1. /\ attempts' = [a \in Attempt |->
            IF attempts[a].cycle = k /\ attempts[a].status = "started"
              THEN [attempts[a] EXCEPT !.status = "interrupted", !.stamp = "closed"]
              ELSE attempts[a]]
      /\ cycles' = [cycles EXCEPT ![k].status = status, ![k].stamp = "closed"]
    BY DEF StopCycle
<1>2. /\ cycles' \in [Cycle -> CycleRow]
      /\ cycles'[k].status = status /\ cycles'[k].stamp = "closed"
      /\ \A j \in Cycle : /\ cycles'[j].run = cycles[j].run
                          /\ cycles'[j].market = cycles[j].market
                          /\ cycles'[j].opportunity = cycles[j].opportunity
      /\ \A j \in Cycle \ {k} : cycles'[j] = cycles[j]
    BY <1>1, CycleEnds DEF CycleStatus
<1>3. /\ attempts' \in [Attempt -> AttemptRow]
      /\ \A a \in Attempt : attempts'[a].cycle = attempts[a].cycle
                            /\ attempts'[a].ticker = attempts[a].ticker
      /\ \A a \in Attempt : \/ attempts'[a] = attempts[a]
                            \/ /\ attempts[a].status = "started"
                               /\ attempts'[a].status = "interrupted"
                               /\ attempts'[a].stamp = "closed"
      /\ \A a \in Attempt : attempts[a].cycle = k => attempts'[a].status # "started"
  <2> SUFFICES ASSUME NEW a \in Attempt
               PROVE  /\ attempts'[a] \in AttemptRow
                      /\ attempts'[a].cycle = attempts[a].cycle
                      /\ attempts'[a].ticker = attempts[a].ticker
                      /\ \/ attempts'[a] = attempts[a]
                         \/ /\ attempts[a].status = "started"
                            /\ attempts'[a].status = "interrupted"
                            /\ attempts'[a].stamp = "closed"
                      /\ attempts[a].cycle = k => attempts'[a].status # "started"
      BY <1>1
  <2>1. attempts[a] \in AttemptRow
      BY DEF TypeOK
  <2>2. CASE attempts[a].cycle = k /\ attempts[a].status = "started"
    <3>1. attempts'[a] = [attempts[a] EXCEPT !.status = "interrupted", !.stamp = "closed"]
        BY <1>1, <2>2
    <3> QED BY <2>1, <2>2, <3>1 DEF AttemptRow, AttemptStatus, Stamp
  <2>3. CASE ~(attempts[a].cycle = k /\ attempts[a].status = "started")
    <3>1. attempts'[a] = attempts[a]
        BY <1>1, <2>3
    <3> QED BY <2>1, <2>3, <3>1
  <2> QED BY <2>2, <2>3
<1>4. TypeOK'
    BY <1>0, <1>2, <1>3, CommitSession DEF TypeOK
<1>5. BeliefIsTrue'
    BY <1>0, CommitSession
<1>6. \A j \in Cycle : Group(j)' = Group(j)
    BY <1>0, <1>2 DEF Group
<1>7. RowsAreLinked'
  <2>1. \A r \in Run : runs'[r].status = "absent" => runs'[r] = NoRun
      BY <1>0 DEF RowsAreLinked
  <2>2. \A j \in Cycle : IF cycles'[j].status = "absent" THEN cycles'[j] = NoCycle
                         ELSE /\ cycles'[j].run \in Run /\ cycles'[j].market \in Market
                              /\ runs'[cycles'[j].run].status # "absent"
      BY <1>0, <1>2 DEF RowsAreLinked
  <2>3. \A a \in Attempt : IF attempts'[a].status = "absent" THEN attempts'[a] = NoAttempt
                           ELSE /\ attempts'[a].cycle \in Cycle /\ attempts'[a].ticker \in Ticker
                                /\ cycles'[attempts'[a].cycle].status # "absent"
                                /\ (attempts[a].ticker \in Group(attempts[a].cycle))'
    <3> SUFFICES ASSUME NEW a \in Attempt, attempts'[a].status # "absent"
                 PROVE  /\ attempts'[a].cycle \in Cycle /\ attempts'[a].ticker \in Ticker
                        /\ cycles'[attempts'[a].cycle].status # "absent"
                        /\ (attempts[a].ticker \in Group(attempts[a].cycle))'
        BY <1>3 DEF RowsAreLinked
    <3>1. attempts[a].status # "absent"
        BY <1>3
    <3> QED BY <1>2, <1>3, <1>6, <3>1 DEF RowsAreLinked
  <2> QED BY <2>1, <2>2, <2>3 DEF RowsAreLinked
<1>8. EndedIffStamped'
    BY <1>0, <1>2, <1>3 DEF EndedIffStamped
<1>9. OpenWorkIsNested'
  <2>1. \A a \in Attempt : attempts'[a].status = "started"
                           => cycles'[attempts'[a].cycle].status = "running"
      BY <1>2, <1>3 DEF OpenWorkIsNested, RowsAreLinked
  <2>2. \A j \in Cycle : cycles'[j].status = "running" => runs'[cycles'[j].run].status = "running"
      BY <1>0, <1>2 DEF OpenWorkIsNested
  <2> QED BY <1>0, <2>1, <2>2 DEF OpenWorkIsNested
<1>10. QuoteIffSuccess'
    BY <1>0, <1>3 DEF QuoteIffSuccess
<1>11. CompletedIffValued'
    BY <1>0, <1>2, <1>6 DEF CompletedIffValued
<1>12. ValuationHasQuote'
    BY <1>0 DEF ValuationHasQuote
<1>13. OpportunityClaimedOnce'
    BY <1>0, <1>2 DEF OpportunityClaimedOnce
<1>14. RecoveredTogether'
    BY <1>0, <1>2, <1>3 DEF RecoveredTogether, EndedIffStamped, RowsAreLinked
<1> QED BY <1>4, <1>5, <1>7, <1>8, <1>9, <1>10, <1>11, <1>12, <1>13, <1>14

(* A run ends only when none of its cycles is running. *)
LEMMA EndRunInv ==
    ASSUME StoreInv, NEW c \in Client, NEW r \in Run,
           NEW status \in {"completed", "interrupted"}, EndRun(c, r, status)
    PROVE  StoreInv'
<1> USE DEF StoreInv
<1>1. /\ runs[r].status = "running" /\ Commit(c)
      /\ \A k \in Cycle : cycles[k].run = r => cycles[k].status # "running"
      /\ runs' = [runs EXCEPT ![r].status = status, ![r].stamp = "closed"]
      /\ UNCHANGED <<campaigns, plan, cycles, attempts, quotes, valuations>>
    BY DEF EndRun
<1>2. /\ runs' \in [Run -> RunRow]
      /\ runs'[r].status = status /\ runs'[r].stamp = "closed"
      /\ \A q \in Run : runs'[q].campaign = runs[q].campaign /\ runs'[q].held = runs[q].held
      /\ \A q \in Run \ {r} : runs'[q] = runs[q]
    BY <1>1, RunEnds DEF RunStatus
<1>3. TypeOK'
    BY <1>1, <1>2, CommitSession DEF TypeOK
<1>4. BeliefIsTrue'
    BY <1>1, CommitSession
<1>5. \A k \in Cycle : cycles[k].status # "absent" => Group(k)' = Group(k)
    BY <1>1, <1>2 DEF Group, RowsAreLinked
<1>6. RowsAreLinked'
    BY <1>1, <1>2, <1>5 DEF RowsAreLinked
<1>7. EndedIffStamped'
    BY <1>1, <1>2 DEF EndedIffStamped
<1>8. OpenWorkIsNested'
    BY <1>1, <1>2 DEF OpenWorkIsNested, RowsAreLinked
<1>9. QuoteIffSuccess' /\ ValuationHasQuote'
    BY <1>1 DEF QuoteIffSuccess, ValuationHasQuote
<1>10. CompletedIffValued'
    BY <1>1, <1>5 DEF CompletedIffValued
<1>11. OpportunityClaimedOnce'
  <2>1. \A k \in Cycle : cycles[k].opportunity # None => cycles[k].run \in Run
      BY DEF RowsAreLinked, NoCycle
  <2>2. \A k \in Cycle : cycles[k].opportunity # None
                         => runs'[cycles[k].run].campaign = runs[cycles[k].run].campaign
      BY <1>2, <2>1
  <2> QED BY <1>1, <2>2 DEF OpportunityClaimedOnce
<1>12. RecoveredTogether'
    BY <1>1, <1>2 DEF RecoveredTogether, EndedIffStamped, RowsAreLinked
<1> QED BY <1>3, <1>4, <1>6, <1>7, <1>8, <1>9, <1>10, <1>11, <1>12

(* A campaign ends only when none of its runs is running. *)
LEMMA FinishCampaignInv ==
    ASSUME StoreInv, NEW c \in Client, NEW p \in Campaign, FinishCampaign(c, p)
    PROVE  StoreInv'
<1> USE DEF StoreInv
<1>1. /\ Commit(c)
      /\ \A r \in Run : runs[r].campaign = p => runs[r].status # "running"
      /\ campaigns' = [campaigns EXCEPT ![p] = "completed"]
      /\ UNCHANGED <<plan, runs, cycles, attempts, quotes, valuations>>
    BY DEF FinishCampaign
<1>2. TypeOK'
    BY <1>1, CommitSession DEF TypeOK, CampaignStatus
<1>3. BeliefIsTrue'
    BY <1>1, CommitSession
<1>4. RowsAreLinked' /\ EndedIffStamped'
    BY <1>1 DEF RowsAreLinked, EndedIffStamped, Group
<1>5. OpenWorkIsNested'
  <2>1. \A r \in Run : runs[r].status = "running" /\ runs[r].campaign # None
                       => campaigns'[runs[r].campaign] = campaigns[runs[r].campaign]
      BY <1>1, RowTypes DEF TypeOK
  <2> QED BY <1>1, <2>1 DEF OpenWorkIsNested
<1>6. QuoteIffSuccess' /\ ValuationHasQuote'
    BY <1>1 DEF QuoteIffSuccess, ValuationHasQuote
<1>7. CompletedIffValued'
    BY <1>1 DEF CompletedIffValued, Group
<1>8. OpportunityClaimedOnce' /\ RecoveredTogether'
    BY <1>1 DEF OpportunityClaimedOnce, RecoveredTogether
<1> QED BY <1>2, <1>3, <1>4, <1>5, <1>6, <1>7, <1>8

(* Recovery ends every open row, so nothing stays nested in it. *)
LEMMA RecoverIncompleteInv ==
    ASSUME StoreInv, NEW c \in Client, RecoverIncomplete(c)
    PROVE  StoreInv'
<1> USE DEF StoreInv
<1>1. Commit(c) /\ UNCHANGED <<campaigns, plan, quotes, valuations>>
    BY DEF RecoverIncomplete
<1>2. /\ attempts' \in [Attempt -> AttemptRow]
      /\ \A a \in Attempt :
            /\ attempts'[a].cycle = attempts[a].cycle /\ attempts'[a].ticker = attempts[a].ticker
            /\ IF attempts[a].status = "started"
                 THEN attempts'[a].status = "interrupted" /\ attempts'[a].stamp = "recovered"
                 ELSE attempts'[a] = attempts[a]
  <2>1. attempts' = [a \in Attempt |->
            IF attempts[a].status = "started"
              THEN [attempts[a] EXCEPT !.status = "interrupted", !.stamp = "recovered"]
              ELSE attempts[a]]
      BY DEF RecoverIncomplete
  <2> SUFFICES ASSUME NEW a \in Attempt
               PROVE  /\ attempts'[a] \in AttemptRow
                      /\ attempts'[a].cycle = attempts[a].cycle
                      /\ attempts'[a].ticker = attempts[a].ticker
                      /\ IF attempts[a].status = "started"
                           THEN /\ attempts'[a].status = "interrupted"
                                /\ attempts'[a].stamp = "recovered"
                           ELSE attempts'[a] = attempts[a]
      BY <2>1
  <2>2. attempts[a] \in AttemptRow
      BY DEF TypeOK
  <2>3. CASE attempts[a].status = "started"
    <3>1. attempts'[a] = [attempts[a] EXCEPT !.status = "interrupted", !.stamp = "recovered"]
        BY <2>1, <2>3
    <3> QED BY <2>2, <2>3, <3>1 DEF AttemptRow, AttemptStatus, Stamp
  <2>4. CASE attempts[a].status # "started"
    <3>1. attempts'[a] = attempts[a]
        BY <2>1, <2>4
    <3> QED BY <2>2, <2>4, <3>1
  <2> QED BY <2>3, <2>4
<1>3. /\ cycles' \in [Cycle -> CycleRow]
      /\ \A k \in Cycle :
            /\ cycles'[k].run = cycles[k].run /\ cycles'[k].market = cycles[k].market
            /\ cycles'[k].opportunity = cycles[k].opportunity
            /\ IF cycles[k].status = "running"
                 THEN cycles'[k].status = "interrupted" /\ cycles'[k].stamp = "recovered"
                 ELSE cycles'[k] = cycles[k]
  <2>1. cycles' = [k \in Cycle |->
            IF cycles[k].status = "running"
              THEN [cycles[k] EXCEPT !.status = "interrupted", !.stamp = "recovered"]
              ELSE cycles[k]]
      BY DEF RecoverIncomplete
  <2> SUFFICES ASSUME NEW k \in Cycle
               PROVE  /\ cycles'[k] \in CycleRow
                      /\ cycles'[k].run = cycles[k].run /\ cycles'[k].market = cycles[k].market
                      /\ cycles'[k].opportunity = cycles[k].opportunity
                      /\ IF cycles[k].status = "running"
                           THEN /\ cycles'[k].status = "interrupted"
                                /\ cycles'[k].stamp = "recovered"
                           ELSE cycles'[k] = cycles[k]
      BY <2>1
  <2>2. cycles[k] \in CycleRow
      BY DEF TypeOK
  <2>3. CASE cycles[k].status = "running"
    <3>1. cycles'[k] = [cycles[k] EXCEPT !.status = "interrupted", !.stamp = "recovered"]
        BY <2>1, <2>3
    <3> QED BY <2>2, <2>3, <3>1 DEF CycleRow, CycleStatus, Stamp
  <2>4. CASE cycles[k].status # "running"
    <3>1. cycles'[k] = cycles[k]
        BY <2>1, <2>4
    <3> QED BY <2>2, <2>4, <3>1
  <2> QED BY <2>3, <2>4
<1>4. /\ runs' \in [Run -> RunRow]
      /\ \A r \in Run :
            /\ runs'[r].campaign = runs[r].campaign /\ runs'[r].held = runs[r].held
            /\ IF runs[r].status = "running"
                 THEN runs'[r].status = "interrupted" /\ runs'[r].stamp = "recovered"
                 ELSE runs'[r] = runs[r]
  <2>1. runs' = [r \in Run |->
            IF runs[r].status = "running"
              THEN [runs[r] EXCEPT !.status = "interrupted", !.stamp = "recovered"]
              ELSE runs[r]]
      BY DEF RecoverIncomplete
  <2> SUFFICES ASSUME NEW r \in Run
               PROVE  /\ runs'[r] \in RunRow
                      /\ runs'[r].campaign = runs[r].campaign /\ runs'[r].held = runs[r].held
                      /\ IF runs[r].status = "running"
                           THEN /\ runs'[r].status = "interrupted"
                                /\ runs'[r].stamp = "recovered"
                           ELSE runs'[r] = runs[r]
      BY <2>1
  <2>2. runs[r] \in RunRow
      BY DEF TypeOK
  <2>3. CASE runs[r].status = "running"
    <3>1. runs'[r] = [runs[r] EXCEPT !.status = "interrupted", !.stamp = "recovered"]
        BY <2>1, <2>3
    <3> QED BY <2>2, <2>3, <3>1 DEF RunRow, RunStatus, Stamp
  <2>4. CASE runs[r].status # "running"
    <3>1. runs'[r] = runs[r]
        BY <2>1, <2>4
    <3> QED BY <2>2, <2>4, <3>1
  <2> QED BY <2>3, <2>4
<1>5. TypeOK'
    BY <1>1, <1>2, <1>3, <1>4, CommitSession DEF TypeOK
<1>6. BeliefIsTrue'
    BY <1>1, CommitSession
<1>7. \A k \in Cycle : cycles[k].status # "absent" => Group(k)' = Group(k)
    BY <1>3, <1>4 DEF Group, RowsAreLinked
<1>8. RowsAreLinked'
  <2>1. \A r \in Run : runs'[r].status = "absent" => runs'[r] = NoRun
      BY <1>4 DEF RowsAreLinked
  <2>2. \A k \in Cycle : IF cycles'[k].status = "absent" THEN cycles'[k] = NoCycle
                         ELSE /\ cycles'[k].run \in Run /\ cycles'[k].market \in Market
                              /\ runs'[cycles'[k].run].status # "absent"
      BY <1>3, <1>4 DEF RowsAreLinked
  <2>3. \A a \in Attempt : IF attempts'[a].status = "absent" THEN attempts'[a] = NoAttempt
                           ELSE /\ attempts'[a].cycle \in Cycle /\ attempts'[a].ticker \in Ticker
                                /\ cycles'[attempts'[a].cycle].status # "absent"
                                /\ (attempts[a].ticker \in Group(attempts[a].cycle))'
      BY <1>2, <1>3, <1>7 DEF RowsAreLinked
  <2> QED BY <2>1, <2>2, <2>3 DEF RowsAreLinked
<1>9. EndedIffStamped'
    BY <1>2, <1>3, <1>4 DEF EndedIffStamped
<1>10. OpenWorkIsNested'
    BY <1>2, <1>3, <1>4 DEF OpenWorkIsNested
<1>11. QuoteIffSuccess'
    BY <1>1, <1>2 DEF QuoteIffSuccess
<1>12. CompletedIffValued'
    BY <1>1, <1>3, <1>7 DEF CompletedIffValued
<1>13. ValuationHasQuote'
    BY <1>1 DEF ValuationHasQuote
<1>14. OpportunityClaimedOnce'
  <2>1. \A k \in Cycle : cycles[k].opportunity # None => cycles[k].run \in Run
      BY DEF RowsAreLinked, NoCycle
  <2>2. \A k \in Cycle : cycles[k].opportunity # None
                         => runs'[cycles[k].run].campaign = runs[cycles[k].run].campaign
      BY <1>4, <2>1
  <2>3. \A j, k \in Cycle :
            cycles'[j].opportunity = cycles'[k].opportunity /\ cycles'[j].opportunity # None
              => j = k
      BY <1>3 DEF OpportunityClaimedOnce
  <2>4. \A k \in Cycle : cycles'[k].opportunity # None =>
            plan'[cycles'[k].opportunity]
              = [campaign |-> runs'[cycles'[k].run].campaign, market |-> cycles'[k].market]
    <3> TAKE k \in Cycle
    <3> HAVE cycles'[k].opportunity # None
    <3>1. plan[cycles[k].opportunity]
            = [campaign |-> runs[cycles[k].run].campaign, market |-> cycles[k].market]
        BY <1>3 DEF OpportunityClaimedOnce
    <3>2. cycles'[k].run = cycles[k].run /\ cycles'[k].market = cycles[k].market
          /\ cycles'[k].opportunity = cycles[k].opportunity /\ plan' = plan
        BY <1>1, <1>3
    <3>3. runs'[cycles[k].run].campaign = runs[cycles[k].run].campaign
        BY <2>2, <3>2
    <3> QED BY <3>1, <3>2, <3>3
  <2> QED BY <2>3, <2>4 DEF OpportunityClaimedOnce
<1>15. RecoveredTogether'
  <2>1. \A a \in Attempt : attempts'[a].stamp = "recovered"
                           => cycles'[attempts'[a].cycle].stamp = "recovered"
    <3> SUFFICES ASSUME NEW a \in Attempt, attempts'[a].stamp = "recovered"
                 PROVE  cycles'[attempts[a].cycle].stamp = "recovered"
        BY <1>2
    <3>1. attempts[a].status # "absent" /\ attempts[a].cycle \in Cycle
        BY <1>2 DEF RowsAreLinked, EndedIffStamped
    <3>2. CASE attempts[a].status = "started"
        BY <1>3, <3>1, <3>2 DEF OpenWorkIsNested
    <3>3. CASE attempts[a].status # "started"
      <4>1. cycles[attempts[a].cycle].stamp = "recovered"
          BY <1>2, <3>3 DEF RecoveredTogether
      <4> QED BY <1>3, <3>1, <4>1
    <3> QED BY <3>2, <3>3
  <2>2. \A k \in Cycle : cycles'[k].stamp = "recovered"
                         => runs'[cycles'[k].run].stamp = "recovered"
    <3> SUFFICES ASSUME NEW k \in Cycle, cycles'[k].stamp = "recovered"
                 PROVE  runs'[cycles[k].run].stamp = "recovered"
        BY <1>3
    <3>1. cycles[k].status # "absent" /\ cycles[k].run \in Run
        BY <1>3 DEF RowsAreLinked, EndedIffStamped
    <3>2. CASE cycles[k].status = "running"
        BY <1>4, <3>1, <3>2 DEF OpenWorkIsNested
    <3>3. CASE cycles[k].status # "running"
      <4>1. runs[cycles[k].run].stamp = "recovered"
          BY <1>3, <3>3 DEF RecoveredTogether
      <4> QED BY <1>4, <3>1, <4>1
    <3> QED BY <3>2, <3>3
  <2> QED BY <2>1, <2>2 DEF RecoveredTogether
<1> QED BY <1>5, <1>6, <1>8, <1>9, <1>10, <1>11, <1>12, <1>13, <1>14, <1>15

-----------------------------------------------------------------------------

(* The invariant is inductive.                                                *)
LEMMA NextStoreInv == StoreInv /\ [Next]_vars => StoreInv'
<1> SUFFICES ASSUME StoreInv, [Next]_vars PROVE StoreInv'
    OBVIOUS
<1>1. CASE UNCHANGED vars
  <2>1. UNCHANGED <<conn, failed, locked, lock>> /\ UNCHANGED tables
      BY <1>1 DEF vars, session
  <2>2. TypeOK' /\ BeliefIsTrue'
      BY <2>1 DEF StoreInv, TypeOK, BeliefIsTrue, tables
  <2> QED BY <2>1, <2>2, TablesUnchanged DEF StoreInv
<1>2. CASE SessionEnds
    BY <1>2, SessionEndsInv
<1>3. ASSUME NEW c \in Client, ClientStep(c) PROVE StoreInv'
  <2>1. CASE SessionStep(c)
      BY <2>1, SessionStepInv
  <2>2. CASE CampaignStep(c)
      BY <2>2, CreateCampaignInv, FinishCampaignInv DEF CampaignStep
  <2>3. CASE RunStep(c)
      BY <2>3, StartRunInv, EndRunInv DEF RunStep, FinishRun, InterruptRun
  <2>4. CASE CycleStep(c)
      BY <2>4, StartCycleInv, FinishCycleInv, StopCycleInv DEF CycleStep
  <2>5. CASE AttemptStep(c)
      BY <2>5, StartAttemptInv, FinishAttemptInv DEF AttemptStep
  <2>6. CASE RecoverIncomplete(c)
      BY <2>6, RecoverIncompleteInv
  <2> QED BY <1>3, <2>1, <2>2, <2>3, <2>4, <2>5, <2>6 DEF ClientStep
<1> QED BY <1>1, <1>2, <1>3 DEF Next

(* Whatever its callers do, the store keeps its rows consistent. *)
THEOREM StoreIsConsistent == Spec => []StoreInv
<1>1. Init => StoreInv
    BY InitStoreInv
<1>2. StoreInv /\ [Next]_vars => StoreInv'
    BY NextStoreInv
<1> QED BY <1>1, <1>2, PTL DEF Spec

(* Every table holds rows of its type. *)
THEOREM StoreTypeCorrect == Spec => []TypeOK
<1>1. StoreInv => TypeOK
    BY DEF StoreInv
<1> QED BY <1>1, StoreIsConsistent, PTL

(* At most one session can write, and it is the one the server's lock names. *)
THEOREM OneWriter == Spec => []SingleWriter
<1>1. StoreInv => SingleWriter
    BY DEF StoreInv, BeliefIsTrue, SingleWriter, CanWrite, Usable
<1> QED BY <1>1, StoreIsConsistent, PTL

(* Open attempts, running cycles and running runs stay nested. *)
THEOREM WorkIsNested == Spec => []OpenWorkIsNested
<1>1. StoreInv => OpenWorkIsNested
    BY DEF StoreInv
<1> QED BY <1>1, StoreIsConsistent, PTL

(* A quote is stored exactly for an attempt that succeeded. *)
THEOREM QuotesAreOfSuccesses == Spec => []QuoteIffSuccess
<1>1. StoreInv => QuoteIffSuccess
    BY DEF StoreInv
<1> QED BY <1>1, StoreIsConsistent, PTL

(* A cycle is completed exactly when each holding of its group is valued. *)
THEOREM CompletedAreValued == Spec => []CompletedIffValued
<1>1. StoreInv => CompletedIffValued
    BY DEF StoreInv
<1> QED BY <1>1, StoreIsConsistent, PTL

(* A valuation rests on a quote that was really stored. *)
THEOREM ValuationsRestOnQuotes == Spec => []ValuationHasQuote
<1>1. StoreInv => ValuationHasQuote
    BY DEF StoreInv
<1> QED BY <1>1, StoreIsConsistent, PTL

(* No opportunity of a campaign is counted twice, whatever was restarted. *)
THEOREM ClaimedOnce == Spec => []OpportunityClaimedOnce
<1>1. StoreInv => OpportunityClaimedOnce
    BY DEF StoreInv
<1> QED BY <1>1, StoreIsConsistent, PTL

(* A recovery that closes an attempt closes its cycle and its run. *)
THEOREM RecoveryIsWhole == Spec => []RecoveredTogether
<1>1. StoreInv => RecoveredTogether
    BY DEF StoreInv
<1> QED BY <1>1, StoreIsConsistent, PTL

(* One step never touches a row that had ended: each method changes only rows
   it found running or started, or rows that did not exist. *)
LEMMA StepKeepsEndedRows == StoreInv /\ [Next]_vars => KeepsEndedRows
<1> SUFFICES ASSUME StoreInv, [Next]_vars PROVE KeepsEndedRows
    OBVIOUS
<1> USE DEF StoreInv
<1>1. ASSUME UNCHANGED tables PROVE KeepsEndedRows
    BY <1>1 DEF tables, KeepsEndedRows
<1>2. CASE UNCHANGED vars
    BY <1>1, <1>2 DEF vars
<1>3. CASE SessionEnds
    BY <1>1, <1>3 DEF SessionEnds
<1>4. ASSUME NEW c \in Client, ClientStep(c) PROVE KeepsEndedRows
  <2>1. CASE SessionStep(c)
    <3>1. UNCHANGED tables
        BY <2>1 DEF SessionStep, Connect, AcquireLock, RollBack, Exit, ConnectionLost, Crash
    <3> QED BY <1>1, <3>1
  <2>2. ASSUME NEW p \in Campaign, NEW schedule \in Schedules, CreateCampaign(c, p, schedule)
        PROVE  KeepsEndedRows
    <3>1. UNCHANGED <<runs, cycles, attempts, quotes, valuations>>
        BY <2>2 DEF CreateCampaign
    <3>2. \A q \in Campaign : campaigns[q] = "completed" => campaigns'[q] = campaigns[q]
        BY <2>2 DEF CreateCampaign, TypeOK
    <3>3. \A o \in Opportunity : plan[o] # NoPlan => plan'[o] = plan[o]
        BY <2>2 DEF CreateCampaign
    <3> QED BY <3>1, <3>2, <3>3 DEF KeepsEndedRows
  <2>3. ASSUME NEW p \in Campaign, FinishCampaign(c, p) PROVE KeepsEndedRows
    <3>1. UNCHANGED <<plan, runs, cycles, attempts, quotes, valuations>>
        BY <2>3 DEF FinishCampaign
    <3>2. \A q \in Campaign : campaigns[q] = "completed" => campaigns'[q] = campaigns[q]
        BY <2>3 DEF FinishCampaign, TypeOK
    <3> QED BY <3>1, <3>2 DEF KeepsEndedRows
  <2>4. ASSUME NEW r \in Run, NEW p \in Campaign \cup {None}, NEW held \in SUBSET Ticker,
               StartRun(c, r, p, held)
        PROVE  KeepsEndedRows
    <3>1. UNCHANGED <<campaigns, plan, cycles, attempts, quotes, valuations>>
        BY <2>4 DEF StartRun
    <3>2. \A q \in Run : runs[q].status \notin {"absent", "running"} => runs'[q] = runs[q]
        BY <2>4 DEF StartRun, TypeOK
    <3> QED BY <3>1, <3>2 DEF KeepsEndedRows
  <2>5. ASSUME NEW r \in Run, NEW status \in RunStatus, EndRun(c, r, status)
        PROVE  KeepsEndedRows
    <3>1. UNCHANGED <<campaigns, plan, cycles, attempts, quotes, valuations>>
        BY <2>5 DEF EndRun
    <3>2. \A q \in Run : runs[q].status \notin {"absent", "running"} => runs'[q] = runs[q]
        BY <2>5 DEF EndRun, TypeOK
    <3> QED BY <3>1, <3>2 DEF KeepsEndedRows
  <2>6. ASSUME NEW k \in Cycle, NEW r \in Run, NEW m \in Market,
               NEW o \in Opportunity \cup {None}, StartCycle(c, k, r, m, o)
        PROVE  KeepsEndedRows
    <3>1. UNCHANGED <<campaigns, plan, runs, attempts, quotes, valuations>>
        BY <2>6 DEF StartCycle
    <3>2. \A j \in Cycle : cycles[j].status \notin {"absent", "running"} => cycles'[j] = cycles[j]
        BY <2>6 DEF StartCycle, TypeOK
    <3> QED BY <3>1, <3>2 DEF KeepsEndedRows
  <2>7. ASSUME NEW k \in Cycle, NEW selected \in Selections, FinishCycle(c, k, selected)
        PROVE  KeepsEndedRows
    <3>1. /\ cycles[k].status = "running"
          /\ UNCHANGED <<campaigns, plan, runs, attempts, quotes>>
        BY <2>7 DEF FinishCycle
    <3>2. \A j \in Cycle \ {k} : cycles'[j] = cycles[j] /\ valuations'[j] = valuations[j]
        BY <2>7 DEF FinishCycle, TypeOK
    <3> QED BY <3>1, <3>2 DEF KeepsEndedRows
  <2>8. ASSUME NEW k \in Cycle, NEW status \in CycleStatus, StopCycle(c, k, status)
        PROVE  KeepsEndedRows
    <3>1. /\ cycles[k].status = "running"
          /\ UNCHANGED <<campaigns, plan, runs, quotes, valuations>>
        BY <2>8 DEF StopCycle
    <3>2. \A j \in Cycle \ {k} : cycles'[j] = cycles[j]
        BY <2>8 DEF StopCycle, TypeOK
    <3>3. \A a \in Attempt : attempts[a].status # "started" => attempts'[a] = attempts[a]
        BY <2>8 DEF StopCycle
    <3> QED BY <3>1, <3>2, <3>3 DEF KeepsEndedRows
  <2>9. ASSUME NEW a \in Attempt, NEW k \in Cycle, NEW t \in Ticker, NEW s \in Slot,
               StartAttempt(c, a, k, t, s)
        PROVE  KeepsEndedRows
    <3>1. UNCHANGED <<campaigns, plan, runs, cycles, quotes, valuations>>
        BY <2>9 DEF StartAttempt
    <3>2. \A b \in Attempt : attempts[b].status \notin {"absent", "started"}
                             => attempts'[b] = attempts[b]
        BY <2>9 DEF StartAttempt, TypeOK
    <3> QED BY <3>1, <3>2 DEF KeepsEndedRows
  <2>10. ASSUME NEW a \in Attempt, NEW result \in Result, FinishAttempt(c, a, result)
         PROVE  KeepsEndedRows
    <3>1. /\ attempts[a].status = "started"
          /\ UNCHANGED <<campaigns, plan, runs, cycles, valuations>>
        BY <2>10 DEF FinishAttempt
    <3>2. \A b \in Attempt \ {a} : attempts'[b] = attempts[b] /\ quotes'[b] = quotes[b]
        BY <2>10 DEF FinishAttempt, TypeOK
    <3> QED BY <3>1, <3>2 DEF KeepsEndedRows
  <2>11. CASE RecoverIncomplete(c)
    <3>1. UNCHANGED <<campaigns, plan, quotes, valuations>>
        BY <2>11 DEF RecoverIncomplete
    <3>2. \A a \in Attempt : attempts[a].status # "started" => attempts'[a] = attempts[a]
        BY <2>11 DEF RecoverIncomplete
    <3>3. \A k \in Cycle : cycles[k].status # "running" => cycles'[k] = cycles[k]
        BY <2>11 DEF RecoverIncomplete
    <3>4. \A r \in Run : runs[r].status # "running" => runs'[r] = runs[r]
        BY <2>11 DEF RecoverIncomplete
    <3> QED BY <3>1, <3>2, <3>3, <3>4 DEF KeepsEndedRows
  <2>12. CASE CampaignStep(c)
      BY <2>2, <2>3, <2>12 DEF CampaignStep
  <2>13. CASE RunStep(c)
      BY <2>4, <2>5, <2>13 DEF RunStep, FinishRun, InterruptRun, RunStatus
  <2>14. CASE CycleStep(c)
      BY <2>6, <2>7, <2>8, <2>14 DEF CycleStep, CycleStatus
  <2>15. CASE AttemptStep(c)
      BY <2>9, <2>10, <2>15 DEF AttemptStep
  <2> QED BY <1>4, <2>1, <2>11, <2>12, <2>13, <2>14, <2>15 DEF ClientStep
<1> QED BY <1>2, <1>3, <1>4 DEF Next

(* History is append-only: no method, client or recovery changes an ended row. *)
THEOREM HistoryIsFinal == Spec => EndedRowsAreFinal
<1>1. StoreInv /\ [Next]_vars => [KeepsEndedRows]_vars
    BY StepKeepsEndedRows
<1> QED BY <1>1, StoreIsConsistent, PTL DEF Spec, EndedRowsAreFinal
=============================================================================
