-------------------------- MODULE CollectorsProofs --------------------------
(* The collectors use storage.py as CollectorStore allows and keep one run at *)
(* a time; what they remember of their cycles and plans is what the tables    *)
(* say, and so they skip no source, pass no opportunity over and miss nothing:*)
(* proved for any number of processes, tickers, markets and providers.        *)
EXTENDS Collectors, CollectorStoreProofs, FiniteSetTheorems

-----------------------------------------------------------------------------
(* What is inductive of a collector: its one running run first, then what a   *)
(* process that can write remembers of its cycle (VisitInv), of its           *)
(* campaign's plan (PlanInv) and of its campaign's input (CampaignInv), each  *)
(* of which the tables say too.                                               *)

(* Nobody else's run is running while a collector works on its own, and none  *)
(* is between its recovery and its first run, or after its last.              *)
OnlyOwnRunIsRunning ==
    \A c \in Client : CanWrite(c) =>
        /\ pc[c] \in {"recovered", "planned", "done"} => \A r \in Run : runs[r].status # "running"
        /\ Working(c) => \A r \in Run : runs[r].status = "running" => r = task[c].run

(* The inductive invariant, beside the store's own.                           *)
CollectorInv == CTypeOK /\ OneRunningRun /\ OwnWorkIsUntouched /\ OnlyOwnRunIsRunning

(* The places of a process that visits the pairs of its cycle.                *)
Visiting == {"cycle", "attempt", "retry"}

(* Outside its cycles a process has nothing selected, only the monitor has a  *)
(* campaign, and no program started after now.                                *)
MemoryFits(place, m) ==
    /\ place \notin Visiting \cup {"stopping"} => DOMAIN m.chosen = {}
    /\ m.kind # "monitor" => m.campaign = None
    /\ place \notin {"off", "closing"} => m.started <= clock

(* So do the memories of all processes.                                       *)
MemoriesFit == \A c \in Client : MemoryFits(pc[c], task[c])

(* Nothing was asked yet of a pair that is still to visit, and every other    *)
(* pair of the cycle was asked without gaps, but for the one in hand.         *)
VisitsInHand(place, m) ==
    /\ \A v \in m.todo : Numbers(m.cycle, v) = {}
    /\ \A v \in Visits(m.run, cycles[m.cycle].market) \ m.todo :
          \/ place # "cycle" /\ v = <<m.doing[1], m.doing[2]>>
          \/ \E n \in 1..MaxAttempts : Numbers(m.cycle, v) = 1..n

(* The pair in hand has had its attempts so far, and none of them a quote.    *)
PairInHand(m) ==
    LET v == <<m.doing[1], m.doing[2]>> IN
    /\ v \notin m.todo
    /\ Numbers(m.cycle, v) = 1..m.doing[3]
    /\ \A a \in Attempt : attempts[a].cycle = m.cycle /\ attempts[a].ticker = v[1]
                          /\ attempts[a].slot[1] = v[2] => attempts[a].status # "success"

(* The attempt in hand is of the pair in hand.                                *)
AttemptInHand(m) ==
    /\ attempts[m.attempt].cycle = m.cycle
    /\ attempts[m.attempt].ticker = m.doing[1]
    /\ attempts[m.attempt].slot = <<m.doing[2], m.doing[3]>>

(* The quotes selected are the valuation source's for those very holdings,    *)
(* and every quote it gave in this cycle is among them.                       *)
ChoiceInHand(m) ==
    /\ \A t \in DOMAIN m.chosen :
          /\ m.chosen[t] \in Attempt /\ quotes[m.chosen[t]] # "none"
          /\ attempts[m.chosen[t]].ticker = t /\ attempts[m.chosen[t]].slot[1] = Valuation
    /\ \A a \in Attempt :
          attempts[a].cycle = m.cycle /\ attempts[a].slot[1] = Valuation
            /\ attempts[a].status = "success"
          => attempts[a].ticker \in DOMAIN m.chosen /\ m.chosen[attempts[a].ticker] = a

(* What a process in that place remembers of its cycle.                       *)
Recalls(place, m) ==
    /\ place \in Visiting => VisitsInHand(place, m) /\ ChoiceInHand(m)
    /\ place \in {"attempt", "retry"} => PairInHand(m)
    /\ place = "attempt" => AttemptInHand(m)

(* A process that can write remembers its cycle as the tables have it.        *)
CyclesRecalled == \A c \in Client : CanWrite(c) => Recalls(pc[c], task[c])

(* The inductive invariant of the visits.                                     *)
VisitInv == CyclesRecalled /\ FreshBeatsCache /\ EveryHoldingWasAsked

(* The run in hand is of the campaign in hand, and what is planned for that   *)
(* from the start of the run on is still to do, or was claimed.               *)
PlanInHand(place, m) ==
    place \in WorkPlace =>
        /\ runs[m.run].campaign = m.campaign
        /\ m.kind = "monitor" =>
              \A o \in Opportunity :
                  plan[o].campaign = m.campaign /\ ScheduledAt(o) >= startedAt[m.run]
                    => o \in m.left \/ Claimed(o)

(* A process that can write remembers its campaign's plan.                    *)
PlansInHand == \A c \in Client : CanWrite(c) => PlanInHand(pc[c], task[c])

(* A run is of a campaign that exists.                                        *)
RunsHaveCampaigns ==
    \A r \in Run : runs[r].campaign # None => campaigns[runs[r].campaign] # "absent"

(* The inductive invariant of the plans.                                      *)
PlanInv == PlansInHand /\ RunsHaveCampaigns /\ CompletedRunMissedNothing

(* A process about to run a campaign has that campaign's input.               *)
InputInHand(place, m) ==
    place = "planned" => campaigns[m.campaign] # "absent" /\ span[m.campaign].held = m.held

(* So have all of them.                                                       *)
InputsInHand == \A c \in Client : InputInHand(pc[c], task[c])

(* A run of a campaign holds the campaign's input.                            *)
RunsHoldTheInput ==
    \A r \in Run : runs[r].campaign # None => runs[r].held = span[runs[r].campaign].held

(* A cycle of a campaign has an opportunity.                                  *)
CampaignCyclesAreScheduled ==
    \A k \in Cycle : cycles[k].status # "absent" /\ runs[cycles[k].run].campaign # None
                        => cycles[k].opportunity # None

(* An opportunity is planned for its own campaign and market.                 *)
PlansAreTheirOwn ==
    \A o \in Opportunity : plan[o].campaign # None => plan[o] = [campaign |-> o[1], market |-> o[2]]

(* The inductive invariant of the campaigns.                                  *)
CampaignInv ==
    InputsInHand /\ RunsHoldTheInput /\ CampaignCyclesAreScheduled /\ PlansAreTheirOwn

-----------------------------------------------------------------------------
(* A fresh identity is one of its table's. *)
LEMMA NewRows ==
    ASSUME TypeOK
    PROVE  /\ New(runs) \in Run /\ New(cycles) \in Cycle
           /\ New(attempts) \in Attempt /\ NewCampaign \in Campaign
<1>1. DOMAIN runs = Run /\ DOMAIN cycles = Cycle /\ DOMAIN attempts = Attempt
    BY DEF TypeOK
<1>2. ASSUME NEW all, all # {}, NEW free \in SUBSET all
      PROVE  AnyOf(free, all) \in all
    BY <1>2 DEF AnyOf
<1> QED BY <1>1, <1>2, RowAssumption DEF New, NewCampaign

(* What a process has in hand is well typed. *)
LEMMA TaskFields ==
    ASSUME CTypeOK, NEW c \in Client
    PROVE  /\ task[c] \in TaskRow /\ pc[c] \in Place /\ InHand(pc[c], task[c])
           /\ task[c].held \in SUBSET Ticker /\ task[c].rest \in SUBSET Ticker
           /\ task[c].campaign \in Campaign \cup {None} /\ task[c].run \in Run \cup {None}
           /\ task[c].markets \in SUBSET Market /\ task[c].left \in SUBSET Opportunity
           /\ task[c].cycle \in Cycle \cup {None} /\ task[c].attempt \in Attempt \cup {None}
           /\ task[c].todo \in SUBSET (Ticker \X Provider)
           /\ task[c].doing \in (Ticker \X Provider \X (1..MaxAttempts)) \cup {None}
           /\ task[c].chosen \in Selections
<1>1. task[c] \in TaskRow /\ pc[c] \in Place /\ InHand(pc[c], task[c])
    BY DEF CTypeOK
<1> QED BY <1>1 DEF TaskRow

(* The empty memory is a memory, and fits a process that is not running.      *)
LEMMA NoTaskType == NoTask \in TaskRow /\ InHand("closing", NoTask) /\ InHand("off", NoTask)
<1>1. NoChoice \in [{} -> Attempt \cup {None}]
    BY DEF NoChoice
<1>2. NoChoice \in Selections
    BY <1>1 DEF Selections
<1>3. 0 \in Time
    BY TimeAssumption DEF Time
<1>4. NoTask \in TaskRow
    BY <1>2, <1>3 DEF NoTask, TaskRow
<1>5. InHand("closing", NoTask) /\ InHand("off", NoTask)
    BY DEF InHand, WorkPlace, NoTask
<1> QED BY <1>4, <1>5

(* A step to a place, with a memory that fits it, keeps the types. *)
LEMMA GotoType ==
    ASSUME CTypeOK, NEW c \in Client, NEW place \in Place, NEW memory \in TaskRow,
           Goto(c, place, memory), InHand(place, memory)
    PROVE  /\ pc' \in [Client -> Place] /\ task' \in [Client -> TaskRow]
           /\ \A d \in Client : InHand(pc'[d], task'[d])
<1> DEFINE to == IF failed'[c] THEN "closing" ELSE place
           mem == IF to \in {"closing", "off"} THEN NoTask ELSE memory
<1>1. to \in Place /\ mem \in TaskRow
    BY NoTaskType DEF Place
<1>2. InHand(to, mem)
    BY NoTaskType
<1>3. pc' = [pc EXCEPT ![c] = to] /\ task' = [task EXCEPT ![c] = mem]
    BY DEF Goto
<1>4. pc' \in [Client -> Place] /\ task' \in [Client -> TaskRow]
    BY <1>1, <1>3 DEF CTypeOK
<1>5. \A d \in Client : InHand(pc'[d], task'[d])
  <2> SUFFICES ASSUME NEW d \in Client PROVE InHand(pc'[d], task'[d])
      OBVIOUS
  <2>1. CASE d = c
    <3>1. pc'[d] = to /\ task'[d] = mem
        BY <1>3, <2>1 DEF CTypeOK
    <3> QED BY <1>2, <3>1
  <2>2. CASE d # c
    <3>1. pc'[d] = pc[d] /\ task'[d] = task[d]
        BY <1>3, <2>2 DEF CTypeOK
    <3> QED BY <3>1 DEF CTypeOK
  <2> QED BY <2>1, <2>2
<1> QED BY <1>4, <1>5

-----------------------------------------------------------------------------
(* Every step of a collector is a step of the store, or leaves it alone. *)

(* Plans and markets of holdings are of their types.                          *)
LEMMA MarketTypes ==
    ASSUME CTypeOK
    PROVE  /\ \A c \in Client, p \in Campaign : NewSchedule(c, p) \in Schedules
           /\ \A S \in SUBSET Ticker : MarketsOf(S) \in SUBSET Market
<1>1. \A S \in SUBSET Ticker : MarketsOf(S) \in SUBSET Market
    BY MarketAssumption DEF MarketsOf
<1>2. ASSUME NEW c \in Client, NEW p \in Campaign
      PROVE  NewSchedule(c, p) \in Schedules
  <2> DEFINE S == {x \in Opportunity :
              /\ x[1] = p /\ x[2] \in MarketsOf(task[c].held) /\ ScheduledAt(x) \in Opens[x[2]]
              /\ task[c].started <= ScheduledAt(x)
              /\ ScheduledAt(x) < task[c].started + Duration}
  <2>1. \A o \in S : o[2] \in Market
      BY TimeAssumption
  <2>2. NewSchedule(c, p) \in [S -> Market]
      BY <2>1 DEF NewSchedule
  <2> QED BY <2>2 DEF Schedules
<1> QED BY <1>1, <1>2

(* A batch is a non-empty part of the holdings. *)
LEMMA BatchType ==
    ASSUME CTypeOK, NEW c \in Client, pc[c] \notin {"off", "closing"}, NEW b \in Batches(c)
    PROVE  b \in SUBSET Ticker /\ b # {}
<1>1. task[c].held \in SUBSET Ticker /\ task[c].rest \in SUBSET Ticker /\ task[c].held # {}
    BY TaskFields DEF InHand
<1>2. Cardinality({}) = 0
    BY FS_EmptySet
<1> QED BY <1>1, <1>2, SlotAssumption DEF Batches

(* What a visit selects is a selection. *)
LEMMA SelectedType ==
    ASSUME CTypeOK, NEW c \in Client, pc[c] = "attempt", NEW result,
           NEW chosen \in Selected(c, result)
    PROVE  chosen \in Selections
<1> DEFINE t == task[c].doing[1]
           extended(a) == [x \in DOMAIN task[c].chosen \cup {t} |->
                              IF x = t THEN a ELSE task[c].chosen[x]]
<1>1. task[c].chosen \in Selections /\ task[c].attempt \in Attempt /\ t \in Ticker
    BY TaskFields DEF InHand
<1>2. PICK S \in SUBSET Ticker : task[c].chosen \in [S -> Attempt \cup {None}]
    BY <1>1 DEF Selections
<1>3. ASSUME NEW a \in Attempt PROVE extended(a) \in Selections
  <2>1. extended(a) \in [S \cup {t} -> Attempt \cup {None}]
      BY <1>2
  <2>2. S \cup {t} \in SUBSET Ticker
      BY <1>1, <1>2
  <2> QED BY <2>1, <2>2 DEF Selections
<1>4. \/ chosen = task[c].chosen
      \/ \E a \in Attempt : chosen = extended(a)
    BY <1>1 DEF Selected, Cached
<1> QED BY <1>1, <1>3, <1>4

(* What a program does of itself is a call of storage.py, or touches none of  *)
(* its state.                                                                 *)
LEMMA ProgressIsStoreStep ==
    ASSUME TypeOK, CTypeOK, NEW c \in Client, Progress(c)
    PROVE  ClientStep(c) \/ UNCHANGED vars
<1> USE TaskFields, NewRows
<1>1. CASE TakeLock(c)       BY <1>1 DEF TakeLock, ClientStep, SessionStep
<1>2. CASE Refused(c)        BY <1>2 DEF Refused
<1>3. CASE Leave(c)          BY <1>3 DEF Leave, ClientStep, SessionStep
<1>4. CASE Recover(c)        BY <1>4 DEF Recover, ClientStep
<1>5. CASE ResumeCampaign(c) BY <1>5 DEF ResumeCampaign
<1>6. CASE BeginCampaign(c)
    BY <1>6, MarketTypes DEF BeginCampaign, ClientStep, CampaignStep
<1>7. CASE BeginRun(c)
  <2>1. PICK held \in Batches(c) : StartRun(c, New(runs), task[c].campaign, held)
      BY <1>7 DEF BeginRun
  <2>2. held \in (SUBSET Ticker) \ {{}}
      BY <1>7, <2>1, BatchType DEF BeginRun
  <2> QED BY <2>1, <2>2 DEF ClientStep, RunStep
<1>8. CASE BeginMarket(c)
  <2>1. PICK m \in task[c].markets : StartCycle(c, New(cycles), task[c].run, m, None)
      BY <1>8 DEF BeginMarket, EnterCycle
  <2>2. task[c].run \in Run /\ m \in Market
      BY <1>8, <2>1 DEF BeginMarket, InHand, WorkPlace
  <2> QED BY <2>1, <2>2 DEF ClientStep, CycleStep
<1>9. CASE BeginOpportunity(c)
  <2>1. PICK o \in task[c].left : StartCycle(c, New(cycles), task[c].run, o[2], o)
      BY <1>9 DEF BeginOpportunity, EnterCycle, Earliest
  <2>2. task[c].run \in Run /\ o \in Opportunity
      BY <1>9, <2>1 DEF BeginOpportunity, InHand, WorkPlace
  <2>3. o[2] \in Market
      BY <2>2, TimeAssumption
  <2> QED BY <2>1, <2>2, <2>3 DEF ClientStep, CycleStep
<1>10. CASE SkipLate(c)
    BY <1>10 DEF SkipLate, InHand, ClientStep, CycleStep
<1>11. CASE BeginAttempt(c)
  <2>1. PICK v : /\ v \in IF pc[c] = "cycle" THEN Ready(c) ELSE {task[c].doing}
                 /\ StartAttempt(c, New(attempts), task[c].cycle, v[1],
                      <<v[2], IF pc[c] = "cycle" THEN 1 ELSE task[c].doing[3] + 1>>)
      BY <1>11 DEF BeginAttempt
  <2>2. task[c].cycle \in Cycle
      BY <1>11 DEF BeginAttempt, InHand
  <2>3. v[1] \in Ticker /\ v[2] \in Provider
      BY <1>11, <2>1 DEF BeginAttempt, Ready, InHand
  <2>4. (IF pc[c] = "cycle" THEN 1 ELSE task[c].doing[3] + 1) \in 1..MaxAttempts
      BY <1>11, SlotAssumption DEF BeginAttempt, InHand
  <2> QED BY <2>1, <2>2, <2>3, <2>4, SlotAssumption DEF ClientStep, AttemptStep
<1>12. CASE NoticeStop(c)    BY <1>12 DEF NoticeStop
<1>13. CASE EndAttempt(c)
  <2>1. task[c].attempt \in Attempt
      BY <1>13 DEF EndAttempt, InHand
  <2>2. PICK result \in Results(c) : FinishAttempt(c, task[c].attempt, result)
      BY <1>13 DEF EndAttempt
  <2>3. result \in Result
      BY <2>2 DEF Results, Result
  <2> QED BY <2>1, <2>2, <2>3 DEF ClientStep, AttemptStep
<1>14. CASE EndCycle(c)
    BY <1>14 DEF EndCycle, InHand, ClientStep, CycleStep
<1>15. CASE AbandonCycle(c)
    BY <1>15 DEF AbandonCycle, InHand, ClientStep, CycleStep
<1>16. CASE EndRunOfMarkets(c)
    BY <1>16 DEF EndRunOfMarkets, InHand, WorkPlace, ClientStep, RunStep
<1>17. CASE EndRunOfCampaign(c)
    BY <1>17 DEF EndRunOfCampaign, InHand, WorkPlace, ClientStep, RunStep
<1>18. CASE EndCampaign(c)
    BY <1>18 DEF EndCampaign, InHand, ClientStep, CampaignStep
<1>19. CASE AbandonRun(c)
    BY <1>19 DEF AbandonRun, InHand, WorkPlace, ClientStep, RunStep
<1> QED BY <1>1, <1>2, <1>3, <1>4, <1>5, <1>6, <1>7, <1>8, <1>9, <1>10, <1>11, <1>12, <1>13,
           <1>14, <1>15, <1>16, <1>17, <1>18, <1>19 DEF Progress

(* So is what happens to it.                                                  *)
LEMMA DisturbanceIsStoreStep ==
    ASSUME NEW c \in Client, Disturbance(c)
    PROVE  ClientStep(c) \/ UNCHANGED vars
BY DEF Disturbance, Launch, StatementFails, Raise, CutShort, StopRequested, LoseConnection,
       Killed, ClientStep, SessionStep

(* Hence every step of the collectors is a step of the store's general        *)
(* client.                                                                    *)
LEMMA StepIsStoreStep ==
    ASSUME TypeOK, CTypeOK, [CNext]_cvars
    PROVE  [Next]_vars
<1>1. CASE Tick        BY <1>1 DEF Tick
<1>2. CASE ServerEnds  BY <1>2 DEF ServerEnds, Next
<1>3. CASE UNCHANGED cvars BY <1>3 DEF cvars
<1>4. ASSUME NEW c \in Client, Progress(c) \/ Disturbance(c)
      PROVE  [Next]_vars
    BY <1>4, ProgressIsStoreStep, DisturbanceIsStoreStep DEF Next
<1> QED BY <1>1, <1>2, <1>3, <1>4 DEF CNext

-----------------------------------------------------------------------------
(* Types *)

(* The invariant holds before any program is started.                         *)
LEMMA InitCollector == CInit => CollectorInv
<1> SUFFICES ASSUME CInit PROVE CollectorInv
    OBVIOUS
<1>1. 0 \in Time
    BY TimeAssumption DEF Time
<1>2. CTypeOK
    BY <1>1, NoTaskType DEF CInit, CTypeOK, Place
<1>3. OneRunningRun /\ OwnWorkIsUntouched /\ OnlyOwnRunIsRunning
    BY DEF CInit, Init, NoRun, OneRunningRun, OwnWorkIsUntouched, OnlyOwnRunIsRunning,
           CanWrite, Usable
<1> QED BY <1>2, <1>3 DEF CollectorInv

(* The columns of campaigns and runs that the store module leaves out. *)
ColumnTypes ==
    /\ clock \in Time
    /\ span \in [Campaign -> [start : Time, held : SUBSET Ticker]]
    /\ startedAt \in [Run -> Time]
    /\ endedAt \in [Run -> Time \cup {None}]

(* The types of the columns the collectors add, when a step leaves them       *)
(* alone.                                                                     *)
LEMMA ColumnsKept ==
    ASSUME CTypeOK, UNCHANGED Columns
    PROVE  ColumnTypes'
BY DEF CTypeOK, Columns, ColumnTypes

(* Progress writes values of their types into them.                           *)
LEMMA ProgressColumns ==
    ASSUME TypeOK, CTypeOK, NEW c \in Client, Progress(c)
    PROVE  ColumnTypes'
<1>1. CASE BeginCampaign(c)
  <2>1. task[c].started \in Time /\ task[c].held \in SUBSET Ticker
      BY TaskFields DEF TaskRow
  <2>2. /\ UNCHANGED <<clock, startedAt, endedAt>>
        /\ span' = [span EXCEPT ![NewCampaign] = [start |-> task[c].started,
                                                  held |-> task[c].held]]
      BY <1>1 DEF BeginCampaign
  <2> QED BY <2>1, <2>2 DEF CTypeOK, ColumnTypes
<1>2. CASE BeginRun(c)
  <2>1. /\ UNCHANGED <<clock, span, endedAt>>
        /\ startedAt' = [startedAt EXCEPT ![New(runs)] = clock]
      BY <1>2 DEF BeginRun
  <2> QED BY <2>1 DEF CTypeOK, ColumnTypes
<1>3. CASE EndedNow(c)
  <2>1. /\ UNCHANGED <<clock, span, startedAt>>
        /\ endedAt' = [endedAt EXCEPT ![task[c].run] = clock]
      BY <1>3 DEF EndedNow
  <2> QED BY <2>1 DEF CTypeOK, ColumnTypes
<1>4. CASE ~BeginCampaign(c) /\ ~BeginRun(c) /\ ~EndedNow(c)
  <2>1. UNCHANGED Columns
      BY <1>4 DEF Progress, TakeLock, Refused, Leave, Recover, ResumeCampaign, BeginMarket,
           BeginOpportunity, EnterCycle, SkipLate, BeginAttempt, NoticeStop, EndAttempt,
           EndCycle, AbandonCycle, EndRunOfMarkets, EndRunOfCampaign, EndCampaign, AbandonRun
  <2> QED BY <2>1, ColumnsKept
<1> QED BY <1>1, <1>2, <1>3, <1>4

(* What a step leaves in the hands of the process that takes it. *)
PlacesTyped ==
    /\ pc \in [Client -> Place] /\ task \in [Client -> TaskRow]
    /\ \A d \in Client : InHand(pc[d], task[d])

(* A process that went to a place with a memory that fits it is typed.        *)
LEMMA Went ==
    ASSUME CTypeOK, NEW c \in Client, NEW place \in Place, NEW memory \in TaskRow,
           Goto(c, place, memory), InHand(place, memory)
    PROVE  PlacesTyped'
BY GotoType DEF PlacesTyped

(* A cycle is entered with what is still to visit in hand. *)
LEMMA Entered ==
    ASSUME TypeOK, CTypeOK, NEW c \in Client, NEW m, NEW o, NEW place \in {"cycle", "late"},
           NEW old \in TaskRow, EnterCycle(c, m, o, place, old), pc[c] = "run",
           old.held = task[c].held, old.run = task[c].run, old.campaign = task[c].campaign,
           old.kind = task[c].kind, old.attempt = task[c].attempt
    PROVE  PlacesTyped'
<1> DEFINE T == IF place = "late" THEN {} ELSE Visits(task[c].run, m)
           mem == [old EXCEPT !.cycle = New(cycles), !.todo = T]
<1>1. /\ task[c].run \in Run /\ task[c].held # {} /\ task[c].attempt = None
      /\ task[c].kind = "monitor" => task[c].campaign \in Campaign
    BY TaskFields DEF InHand, WorkPlace
<1>2. T \in SUBSET (Ticker \X Provider)
  <2>1. runs[task[c].run].held \in SUBSET Ticker
      BY <1>1 DEF TypeOK, RunRow
  <2>2. \A t \in Ticker : SourcesOf[t] \in SUBSET Provider
      BY SlotAssumption
  <2> QED BY <2>1, <2>2, SlotAssumption DEF Visits
<1>3. New(cycles) \in Cycle
    BY NewRows
<1>4. Goto(c, place, mem)
    BY DEF EnterCycle
<1> HIDE DEF T
<1>5. mem \in TaskRow
    BY <1>2, <1>3 DEF TaskRow
<1>6. /\ mem.held = old.held /\ mem.run = old.run /\ mem.campaign = old.campaign
      /\ mem.kind = old.kind /\ mem.cycle = New(cycles) /\ mem.attempt = old.attempt
    BY DEF TaskRow
<1> HIDE DEF mem
<1>7. InHand(place, mem)
    BY <1>1, <1>3, <1>6 DEF InHand
<1>8. place \in Place
    BY DEF Place
<1> QED BY <1>4, <1>5, <1>7, <1>8, Went

(* Progress leads to places with memories that fit them.                      *)
LEMMA ProgressPlaces ==
    ASSUME TypeOK, CTypeOK, NEW c \in Client, Progress(c)
    PROVE  PlacesTyped'
<1> USE DEF Place, InHand, WorkPlace
<1>0. /\ task[c] \in TaskRow /\ InHand(pc[c], task[c])
      /\ NoTask \in TaskRow /\ InHand("closing", NoTask)
    BY TaskFields, NoTaskType
<1>1. CASE TakeLock(c)
  <2>1. InHand("locked", task[c])
      BY <1>0, <1>1 DEF TakeLock
  <2> QED BY <1>0, <1>1, <2>1, Went DEF TakeLock
<1>2. CASE Refused(c)
    BY <1>0, <1>2, Went DEF Refused
<1>3. CASE Leave(c)
  <2>1. task' = task /\ pc' = [pc EXCEPT ![c] = "off"]
      BY <1>3 DEF Leave
  <2>2. \A d \in Client \ {c} : pc'[d] = pc[d]
      BY <2>1 DEF CTypeOK
  <2>3. pc'[c] = "off"
      BY <2>1 DEF CTypeOK
  <2>4. pc' \in [Client -> Place]
      BY <2>1 DEF CTypeOK
  <2>5. \A d \in Client \ {c} : InHand(pc'[d], task'[d])
      BY <2>1, <2>2 DEF CTypeOK
  <2>6. InHand(pc'[c], task'[c])
      BY <1>0, <1>3, <2>1, <2>3 DEF Leave
  <2> QED BY <2>1, <2>4, <2>5, <2>6 DEF CTypeOK, PlacesTyped
<1>4. CASE Recover(c)
  <2>1. InHand("recovered", task[c])
      BY <1>0, <1>4 DEF Recover
  <2> QED BY <1>0, <1>4, <2>1, Went DEF Recover
<1>5. CASE ResumeCampaign(c) \/ BeginCampaign(c)
  <2>1. PICK q \in Campaign : Goto(c, "planned", [task[c] EXCEPT !.campaign = q])
      BY <1>5, NewRows DEF ResumeCampaign, BeginCampaign
  <2>2. [task[c] EXCEPT !.campaign = q] \in TaskRow
      BY <1>0 DEF TaskRow
  <2>3. InHand("planned", [task[c] EXCEPT !.campaign = q])
      BY <1>0, <1>5 DEF ResumeCampaign, BeginCampaign, TaskRow
  <2> QED BY <2>1, <2>2, <2>3, Went
<1>7. CASE BeginRun(c)
  <2>1. PICK held \in Batches(c) :
          Goto(c, "run", [task[c] EXCEPT
                !.run = New(runs), !.rest = @ \ held,
                !.markets = IF task[c].kind = "monitor" THEN {} ELSE MarketsOf(held),
                !.left = IF task[c].kind = "monitor" THEN Unclaimed(c) ELSE {}])
      BY <1>7 DEF BeginRun
  <2> DEFINE M == IF task[c].kind = "monitor" THEN {} ELSE MarketsOf(held)
             L == IF task[c].kind = "monitor" THEN Unclaimed(c) ELSE {}
             mem == [task[c] EXCEPT !.run = New(runs), !.rest = @ \ held, !.markets = M,
                                    !.left = L]
  <2>2. New(runs) \in Run /\ held \in SUBSET Ticker
      BY <1>7, NewRows, BatchType DEF BeginRun
  <2>3. M \in SUBSET Market /\ L \in SUBSET Opportunity
      BY <2>2, MarketTypes DEF Unclaimed
  <2> HIDE DEF M, L
  <2>4. mem \in TaskRow
      BY <1>0, <2>2, <2>3, ZenonT(40) DEF TaskRow
  <2>5. /\ mem.held = task[c].held /\ mem.run = New(runs) /\ mem.campaign = task[c].campaign
        /\ mem.kind = task[c].kind /\ mem.cycle = task[c].cycle /\ mem.attempt = task[c].attempt
      BY <1>0 DEF TaskRow
  <2>6. InHand("run", mem)
      BY <1>0, <1>7, <2>2, <2>5 DEF BeginRun
  <2>7. Goto(c, "run", mem)
      BY <2>1 DEF M, L
  <2> QED BY <2>4, <2>6, <2>7, Went
<1>8. CASE BeginMarket(c)
  <2>1. PICK m \in task[c].markets :
          EnterCycle(c, m, None, "cycle", [task[c] EXCEPT !.markets = @ \ {m}])
      BY <1>8 DEF BeginMarket
  <2> DEFINE mem == [task[c] EXCEPT !.markets = @ \ {m}]
  <2>2. mem \in TaskRow
      BY <1>0 DEF TaskRow
  <2>3. /\ mem.held = task[c].held /\ mem.run = task[c].run /\ mem.campaign = task[c].campaign
        /\ mem.kind = task[c].kind /\ mem.cycle = task[c].cycle /\ mem.attempt = task[c].attempt
      BY <1>0 DEF TaskRow
  <2>4. pc[c] = "run" /\ EnterCycle(c, m, None, "cycle", mem)
      BY <1>8, <2>1 DEF BeginMarket
  <2> HIDE DEF mem
  <2> QED BY <2>2, <2>3, <2>4, Entered
<1>9. CASE BeginOpportunity(c)
  <2>1. PICK o \in Earliest(c), place \in {"cycle", "late"} :
          EnterCycle(c, o[2], o, place, [task[c] EXCEPT !.left = @ \ {o}])
      BY <1>9 DEF BeginOpportunity
  <2> DEFINE mem == [task[c] EXCEPT !.left = @ \ {o}]
  <2>2. mem \in TaskRow
      BY <1>0 DEF TaskRow
  <2>3. /\ mem.held = task[c].held /\ mem.run = task[c].run /\ mem.campaign = task[c].campaign
        /\ mem.kind = task[c].kind /\ mem.cycle = task[c].cycle /\ mem.attempt = task[c].attempt
      BY <1>0 DEF TaskRow
  <2>4. pc[c] = "run" /\ EnterCycle(c, o[2], o, place, mem)
      BY <1>9, <2>1 DEF BeginOpportunity
  <2> HIDE DEF mem
  <2> QED BY <2>2, <2>3, <2>4, Entered
<1>10. CASE SkipLate(c)
  <2> DEFINE mem == [task[c] EXCEPT !.cycle = None]
  <2>1. mem \in TaskRow
      BY <1>0 DEF TaskRow
  <2>2. InHand("run", mem)
      BY <1>0, <1>10 DEF SkipLate, TaskRow
  <2> QED BY <1>10, <2>1, <2>2, Went DEF SkipLate
<1>11. CASE BeginAttempt(c)
  <2>1. PICK v : /\ v \in IF pc[c] = "cycle" THEN Ready(c) ELSE {task[c].doing}
                 /\ Goto(c, "attempt", [task[c] EXCEPT
                      !.todo = @ \ {<<v[1], v[2]>>}, !.attempt = New(attempts),
                      !.doing = <<v[1], v[2], IF pc[c] = "cycle" THEN 1
                                                ELSE task[c].doing[3] + 1>>])
      BY <1>11 DEF BeginAttempt
  <2> DEFINE n == IF pc[c] = "cycle" THEN 1 ELSE task[c].doing[3] + 1
             D == <<v[1], v[2], n>>
             mem == [task[c] EXCEPT !.todo = @ \ {<<v[1], v[2]>>}, !.attempt = New(attempts),
                                    !.doing = D]
  <2>2. task[c].cycle \in Cycle /\ task[c].run \in Run /\ New(attempts) \in Attempt
      BY <1>0, <1>11, NewRows DEF BeginAttempt
  <2>3. v[1] \in Ticker /\ v[2] \in Provider
      BY <1>0, <1>11, <2>1, TaskFields DEF BeginAttempt, Ready
  <2>4. n \in 1..MaxAttempts
      BY <1>0, <1>11, TaskFields, SlotAssumption DEF BeginAttempt
  <2>5. D \in Ticker \X Provider \X (1..MaxAttempts)
      BY <2>3, <2>4
  <2>6. D # None
      BY <2>5, SlotNone
  <2>7. Goto(c, "attempt", mem)
      BY <2>1
  <2> HIDE DEF D
  <2>8. mem \in TaskRow
      BY <1>0, <2>2, <2>5, ZenonT(40) DEF TaskRow
  <2>9. /\ mem.held = task[c].held /\ mem.run = task[c].run /\ mem.campaign = task[c].campaign
        /\ mem.kind = task[c].kind /\ mem.cycle = task[c].cycle /\ mem.doing = D
        /\ mem.attempt = New(attempts)
      BY <1>0 DEF TaskRow
  <2>10. InHand("attempt", mem)
      BY <1>0, <1>11, <2>2, <2>6, <2>9 DEF BeginAttempt
  <2> QED BY <2>7, <2>8, <2>10, Went
<1>12. CASE NoticeStop(c)
  <2>1. InHand("stopping", task[c])
      BY <1>0, <1>12 DEF NoticeStop
  <2> QED BY <1>0, <1>12, <2>1, Went DEF NoticeStop
<1>13. CASE EndAttempt(c)
  <2>0. pc[c] = "attempt" /\ task[c].cycle \in Cycle /\ task[c].run \in Run
      BY <1>0, <1>13 DEF EndAttempt
  <2>1. CASE \E result \in Results(c) : \E chosen \in Selected(c, result) :
               Goto(c, AfterVisit(c),
                    [task[c] EXCEPT !.attempt = None, !.doing = None, !.chosen = chosen])
    <3>1. PICK chosen \in Selections :
               Goto(c, AfterVisit(c),
                    [task[c] EXCEPT !.attempt = None, !.doing = None, !.chosen = chosen])
        BY <2>0, <2>1, SelectedType
    <3> DEFINE mem == [task[c] EXCEPT !.attempt = None, !.doing = None, !.chosen = chosen]
    <3>2. mem \in TaskRow
        BY <1>0, ZenonT(40) DEF TaskRow
    <3>3. InHand("stopping", mem) /\ InHand("cycle", mem)
        BY <1>0, <2>0 DEF TaskRow
    <3> QED BY <3>1, <3>2, <3>3, Went DEF AfterVisit
  <2>2. CASE /\ Goto(c, "retry", [task[c] EXCEPT !.attempt = None])
             /\ task[c].doing[3] < MaxAttempts
    <3> DEFINE mem == [task[c] EXCEPT !.attempt = None]
    <3>1. mem \in TaskRow
        BY <1>0 DEF TaskRow
    <3>2. InHand("retry", mem)
        BY <1>0, <2>0, <2>2 DEF TaskRow
    <3> QED BY <2>2, <3>1, <3>2, Went
  <2> QED BY <1>13, <2>1, <2>2 DEF EndAttempt
<1>14. CASE EndCycle(c)
  <2> DEFINE mem == [task[c] EXCEPT !.cycle = None, !.chosen = NoChoice]
  <2>1. mem \in TaskRow
    <3>1. NoChoice \in Selections
        BY NoTaskType DEF NoTask, TaskRow
    <3> QED BY <1>0, <3>1, ZenonT(40) DEF TaskRow
  <2>2. InHand("run", mem)
      BY <1>0, <1>14 DEF EndCycle, TaskRow
  <2> QED BY <1>14, <2>1, <2>2, Went DEF EndCycle
<1>15. CASE AbandonCycle(c)
  <2> DEFINE mem == [task[c] EXCEPT !.cycle = None, !.todo = {}, !.doing = None,
                                    !.attempt = None, !.chosen = NoChoice]
             place == IF task[c].kind = "monitor" THEN "ending" ELSE "closing"
  <2>1. mem \in TaskRow
    <3>1. NoChoice \in Selections
        BY NoTaskType DEF NoTask, TaskRow
    <3>2. {} \in SUBSET (Ticker \X Provider)
        OBVIOUS
    <3> DEFINE half == [task[c] EXCEPT !.cycle = None, !.doing = None, !.attempt = None]
    <3>3. half \in TaskRow
        BY <1>0, ZenonT(40) DEF TaskRow
    <3>4. mem = [half EXCEPT !.todo = {}, !.chosen = NoChoice]
        BY <1>0 DEF TaskRow
    <3> HIDE DEF half
    <3>5. [half EXCEPT !.todo = {}, !.chosen = NoChoice] \in TaskRow
        BY <3>1, <3>2, <3>3 DEF TaskRow
    <3> QED BY <3>4, <3>5
  <2>2. InHand(place, mem)
      BY <1>0, <1>15 DEF AbandonCycle, TaskRow
  <2>3. Goto(c, place, mem)
      BY <1>15 DEF AbandonCycle
  <2> QED BY <2>1, <2>2, <2>3, Went
<1>16. CASE EndRunOfMarkets(c)
  <2> DEFINE mem == [task[c] EXCEPT !.run = None]
  <2>1. mem \in TaskRow
      BY <1>0 DEF TaskRow
  <2>2. InHand("recovered", mem) /\ InHand("closing", mem)
      BY <1>0, <1>16 DEF EndRunOfMarkets, TaskRow
  <2> QED BY <1>16, <2>1, <2>2, Went DEF EndRunOfMarkets
<1>17. CASE EndRunOfCampaign(c)
  <2> DEFINE mem == [task[c] EXCEPT !.run = None]
  <2>1. mem \in TaskRow
      BY <1>0 DEF TaskRow
  <2>2. InHand("done", mem)
      BY <1>0, <1>17 DEF EndRunOfCampaign, TaskRow
  <2> QED BY <1>17, <2>1, <2>2, Went DEF EndRunOfCampaign
<1>18. CASE EndCampaign(c) \/ AbandonRun(c)
    BY <1>0, <1>18, Went DEF EndCampaign, AbandonRun
<1> QED BY <1>1, <1>2, <1>3, <1>4, <1>5, <1>7, <1>8, <1>9, <1>10, <1>11, <1>12, <1>13, <1>14,
           <1>15, <1>16, <1>17, <1>18 DEF Progress

(* A disturbance writes no column, and leads to a place with a fitting        *)
(* memory.                                                                    *)
LEMMA DisturbanceTypes ==
    ASSUME CTypeOK, NEW c \in Client, Disturbance(c)
    PROVE  UNCHANGED Columns /\ PlacesTyped'
<1> USE DEF Place, InHand, WorkPlace
<1>0. /\ task[c] \in TaskRow /\ InHand(pc[c], task[c])
      /\ NoTask \in TaskRow /\ InHand("closing", NoTask) /\ InHand("off", NoTask)
    BY TaskFields, NoTaskType
<1>1. UNCHANGED Columns
    BY DEF Disturbance, Launch, StatementFails, Raise, CutShort, StopRequested, LoseConnection,
           Killed
<1>2. CASE Launch(c)
  <2>1. PICK kind \in Kinds, held \in (SUBSET Ticker) \ {{}} :
          Goto(c, "opened", [NoTask EXCEPT !.kind = kind, !.held = held, !.rest = held,
                                           !.started = clock])
      BY <1>2 DEF Launch
  <2> DEFINE mem == [NoTask EXCEPT !.kind = kind, !.held = held, !.rest = held,
                                   !.started = clock]
  <2>2. mem \in TaskRow
      BY <1>0, ZenonT(40) DEF TaskRow, CTypeOK
  <2>3. mem.held = held /\ mem.cycle = None /\ mem.attempt = None
      BY <1>0 DEF NoTask
  <2>4. InHand("opened", mem)
      BY <2>3
  <2>5. Goto(c, "opened", mem)
      BY <2>1
  <2> HIDE DEF mem, InHand
  <2> QED BY <1>1, <2>2, <2>4, <2>5, Went
<1>3. CASE StatementFails(c) \/ CutShort(c)
    BY <1>0, <1>1, <1>3, Went DEF StatementFails, CutShort
<1>4. CASE Raise(c)
  <2>1. Unwind(c) \in Place
      BY <1>4 DEF Unwind
  <2>2. InHand(Unwind(c), task[c])
      BY <1>0, <1>4 DEF Raise, Unwind
  <2> QED BY <1>0, <1>1, <1>4, <2>1, <2>2, Went DEF Raise
<1>5. CASE StopRequested(c)
  <2>1. pc' = pc /\ task' = [task EXCEPT ![c] = [task[c] EXCEPT !.stop = TRUE]]
      BY <1>5 DEF StopRequested
  <2> DEFINE mem == [task[c] EXCEPT !.stop = TRUE]
  <2>2. mem \in TaskRow
      BY <1>0, ZenonT(40) DEF TaskRow
  <2>3. InHand(pc[c], mem)
      BY <1>0 DEF TaskRow
  <2>4. task'[c] = mem /\ \A d \in Client \ {c} : task'[d] = task[d]
      BY <2>1 DEF CTypeOK
  <2>5. task' \in [Client -> TaskRow]
      BY <2>1, <2>2 DEF CTypeOK
  <2> HIDE DEF InHand, Place, WorkPlace, mem
  <2>6. \A d \in Client : InHand(pc'[d], task'[d])
      BY <2>1, <2>3, <2>4 DEF CTypeOK
  <2> QED BY <1>1, <2>1, <2>5, <2>6 DEF CTypeOK, PlacesTyped
<1>6. CASE LoseConnection(c)
    BY <1>1, <1>6 DEF LoseConnection, CTypeOK, PlacesTyped
<1>7. CASE Killed(c)
  <2>1. pc' = [pc EXCEPT ![c] = "off"] /\ task' = [task EXCEPT ![c] = NoTask]
      BY <1>7 DEF Killed
  <2>2. \A d \in Client : InHand(pc'[d], task'[d])
    <3>1. pc'[c] = "off" /\ task'[c] = NoTask
        BY <2>1 DEF CTypeOK
    <3>2. \A d \in Client \ {c} : pc'[d] = pc[d] /\ task'[d] = task[d]
        BY <2>1 DEF CTypeOK
    <3> HIDE DEF InHand
    <3> QED BY <1>0, <3>1, <3>2 DEF CTypeOK
  <2>3. pc' \in [Client -> Place] /\ task' \in [Client -> TaskRow]
      BY <1>0, <2>1 DEF CTypeOK
  <2> HIDE DEF InHand, Place, WorkPlace
  <2> QED BY <1>1, <2>2, <2>3 DEF PlacesTyped
<1> QED BY <1>1, <1>2, <1>3, <1>4, <1>5, <1>6, <1>7 DEF Disturbance

(* Every step keeps the types.                                                *)
LEMMA StepTypes ==
    ASSUME TypeOK, CTypeOK, [CNext]_cvars
    PROVE  CTypeOK'
<1>1. CASE Tick
  <2>1. clock' \in Time
      BY <1>1, TimeAssumption DEF Tick, Time, CTypeOK
  <2>2. UNCHANGED <<span, startedAt, endedAt, pc, task>>
      BY <1>1 DEF Tick
  <2> QED BY <2>1, <2>2 DEF CTypeOK
<1>2. CASE ServerEnds
    BY <1>2 DEF ServerEnds, Columns, CTypeOK
<1>3. CASE UNCHANGED cvars
    BY <1>3 DEF cvars, CTypeOK
<1>4. ASSUME NEW c \in Client, Progress(c)
      PROVE  CTypeOK'
    BY <1>4, ProgressColumns, ProgressPlaces DEF CTypeOK, ColumnTypes, PlacesTyped
<1>5. ASSUME NEW c \in Client, Disturbance(c)
      PROVE  CTypeOK'
    BY <1>5, DisturbanceTypes, ColumnsKept DEF CTypeOK, ColumnTypes, PlacesTyped
<1> QED BY <1>1, <1>2, <1>3, <1>4, <1>5 DEF CNext

-----------------------------------------------------------------------------
(* One run at a time *)

(* What a process that can write has in hand fits the tables: the two         *)
(* invariants about it, for one process and given tables.                     *)
Fits(R, K, A, place, m) ==
    /\ place \in {"recovered", "planned", "done"} => \A r \in Run : R[r].status # "running"
    /\ place \in WorkPlace =>
          /\ R[m.run].status = "running"
          /\ \A r \in Run : R[r].status = "running" => r = m.run
          /\ m.cycle # None => K[m.cycle].status = "running" /\ K[m.cycle].run = m.run
          /\ m.attempt # None => A[m.attempt].status = "started"

(* A writer's memory fits the tables in a state with the invariant.           *)
LEMMA FitsNow ==
    ASSUME OwnWorkIsUntouched, OnlyOwnRunIsRunning, NEW c \in Client, CanWrite(c)
    PROVE  Fits(runs, cycles, attempts, pc[c], task[c])
BY DEF OwnWorkIsUntouched, OnlyOwnRunIsRunning, Fits, Working

(* If every writer's memory fits the tables after a step, the invariant's two *)
(* conjuncts hold after it.                                                   *)
LEMMA FitsNext ==
    ASSUME \A c \in Client : CanWrite(c)' => Fits(runs', cycles', attempts', pc'[c], task'[c])
    PROVE  OwnWorkIsUntouched' /\ OnlyOwnRunIsRunning'
<1>1. \A c \in Client : (CanWrite(c) => Fits(runs, cycles, attempts, pc[c], task[c]))'
    OBVIOUS
<1>2. OwnWorkIsUntouched'
    BY <1>1 DEF OwnWorkIsUntouched, Fits, Working
<1>3. OnlyOwnRunIsRunning'
    BY <1>1 DEF OnlyOwnRunIsRunning, Fits, Working
<1> QED BY <1>2, <1>3

(* A process that goes on with its session open arrives where it meant to. *)
LEMMA WentFits ==
    ASSUME CTypeOK, NEW c \in Client, NEW place, NEW memory, Goto(c, place, memory),
           Fits(runs', cycles', attempts', place, memory), CanWrite(c)'
    PROVE  Fits(runs', cycles', attempts', pc'[c], task'[c])
<1>1. ~failed'[c]
    BY DEF CanWrite, Usable
<1>2. pc'[c] = place /\ (place \in {"closing", "off"} \/ task'[c] = memory)
    BY <1>1 DEF Goto, CTypeOK
<1> QED BY <1>2 DEF Fits, WorkPlace

(* A step of one process leaves the others where they are. *)
LEMMA OthersStay ==
    ASSUME CTypeOK, NEW c \in Client, NEW d \in Client \ {c}, Progress(c) \/ Disturbance(c)
    PROVE  pc'[d] = pc[d] /\ task'[d] = task[d]
<1>1. ASSUME NEW place, NEW memory, Goto(c, place, memory)
      PROVE  pc'[d] = pc[d] /\ task'[d] = task[d]
    BY <1>1 DEF Goto, CTypeOK
<1>2. CASE \E place, memory : Goto(c, place, memory)
    BY <1>1, <1>2
<1>3. CASE Leave(c) \/ Killed(c) \/ LoseConnection(c) \/ StopRequested(c)
    BY <1>3 DEF Leave, Killed, LoseConnection, StopRequested, CTypeOK
<1>4. CASE Progress(c) /\ ~Leave(c)
    BY <1>1, <1>4 DEF Progress, TakeLock, Refused, Recover, ResumeCampaign, BeginCampaign,
       BeginRun, BeginMarket, BeginOpportunity, EnterCycle, SkipLate, BeginAttempt, NoticeStop,
       EndAttempt, EndCycle, AbandonCycle, EndRunOfMarkets, EndRunOfCampaign, EndCampaign,
       AbandonRun
<1>5. CASE Launch(c) \/ StatementFails(c) \/ Raise(c) \/ CutShort(c)
    BY <1>1, <1>5 DEF Launch, StatementFails, Raise, CutShort
<1> QED BY <1>3, <1>4, <1>5 DEF Disturbance

(* A step of one process leaves the sessions of the others alone, and writes  *)
(* only when its own session may.                                             *)
LEMMA OtherSessions ==
    ASSUME TypeOK, NEW c \in Client, NEW d \in Client \ {c}, ClientStep(c), CanWrite(d)'
    PROVE  CanWrite(d)
<1>1. CASE SessionStep(c)
    BY <1>1 DEF SessionStep, Connect, AcquireLock, RollBack, Exit, ConnectionLost, Crash,
       CanWrite, Usable, TypeOK
<1>2. CASE Commit(c)
    BY <1>2 DEF Commit, CanWrite, Usable, TypeOK
<1>3. CASE ~SessionStep(c)
    BY <1>2, <1>3 DEF ClientStep, CampaignStep, RunStep, CycleStep, AttemptStep, CreateCampaign,
       FinishCampaign, StartRun, FinishRun, InterruptRun, EndRun, StartCycle, FinishCycle,
       StopCycle, StartAttempt, FinishAttempt, RecoverIncomplete
<1> QED BY <1>1, <1>3

(* Only a process that can write changes a table.                             *)
LEMMA WritersWrite ==
    ASSUME NEW c \in Client, ClientStep(c)
    PROVE  CanWrite(c) \/ UNCHANGED tables
<1>1. CASE SessionStep(c)
    BY <1>1 DEF SessionStep, Connect, AcquireLock, RollBack, Exit, ConnectionLost, Crash
<1>2. CASE ~SessionStep(c)
    BY <1>2 DEF ClientStep, CampaignStep, RunStep, CycleStep, AttemptStep, CreateCampaign,
       FinishCampaign, StartRun, FinishRun, InterruptRun, EndRun, StartCycle, FinishCycle,
       StopCycle, StartAttempt, FinishAttempt, RecoverIncomplete, Commit
<1> QED BY <1>1, <1>2

(* What one process does leaves another writer's memory fitting: the lock is  *)
(* with one of them.                                                          *)
LEMMA OthersFit ==
    ASSUME StoreInv, CollectorInv, NEW c \in Client, NEW d \in Client \ {c},
           Progress(c) \/ Disturbance(c), CanWrite(d)'
    PROVE  Fits(runs', cycles', attempts', pc'[d], task'[d])
<1>1. TypeOK /\ BeliefIsTrue /\ CTypeOK
    BY DEF StoreInv, CollectorInv
<1>2. ClientStep(c) \/ UNCHANGED vars
    BY <1>1, ProgressIsStoreStep, DisturbanceIsStoreStep
<1>3. CanWrite(d)
    BY <1>1, <1>2, OtherSessions DEF CanWrite, Usable, vars, session
<1>4. ~CanWrite(c)
    BY <1>1, <1>3 DEF BeliefIsTrue, CanWrite, Usable
<1>5. UNCHANGED tables
    BY <1>2, <1>4, WritersWrite DEF vars
<1>6. Fits(runs, cycles, attempts, pc[d], task[d])
    BY <1>3, FitsNow DEF CollectorInv
<1> QED BY <1>1, <1>5, <1>6, OthersStay DEF tables

(* A cycle just started fits the memory that goes on with it.                 *)
LEMMA EnteredFits ==
    ASSUME TypeOK, CTypeOK, OwnWorkIsUntouched, OnlyOwnRunIsRunning, NEW c \in Client,
           NEW m, NEW o, NEW place \in {"cycle", "late"}, NEW old \in TaskRow,
           EnterCycle(c, m, o, place, old), pc[c] = "run", CanWrite(c)',
           old.run = task[c].run, old.attempt = task[c].attempt
    PROVE  Fits(runs', cycles', attempts', pc'[c], task'[c])
<1> DEFINE T == IF place = "late" THEN {} ELSE Visits(task[c].run, m)
           mem == [old EXCEPT !.cycle = New(cycles), !.todo = T]
<1>1. /\ Goto(c, place, mem) /\ StartCycle(c, New(cycles), task[c].run, m, o)
      /\ CanWrite(c) /\ task[c].attempt = None
    BY TaskFields DEF EnterCycle, StartCycle, Commit, InHand
<1> HIDE DEF T
<1>2. mem.run = task[c].run /\ mem.cycle = New(cycles) /\ mem.attempt = None
    BY <1>1 DEF TaskRow
<1>3. Fits(runs, cycles, attempts, "run", task[c])
    BY <1>1, FitsNow
<1>4. /\ cycles'[New(cycles)].status = "running" /\ cycles'[New(cycles)].run = task[c].run
      /\ runs' = runs
    BY <1>1, NewRows DEF StartCycle, TypeOK
<1> HIDE DEF mem
<1>5. Fits(runs', cycles', attempts', place, mem)
    BY <1>2, <1>3, <1>4 DEF Fits, WorkPlace
<1> QED BY <1>1, <1>5, WentFits

(* A step of a process leaves what it has in hand fitting the tables.         *)
LEMMA OwnProgressFits ==
    ASSUME StoreInv, CollectorInv, NEW c \in Client, Progress(c), CanWrite(c)'
    PROVE  Fits(runs', cycles', attempts', pc'[c], task'[c])
<1>1. /\ TypeOK /\ CTypeOK /\ task[c] \in TaskRow /\ InHand(pc[c], task[c])
      /\ CanWrite(c) => Fits(runs, cycles, attempts, pc[c], task[c])
    BY TaskFields, FitsNow DEF StoreInv, CollectorInv
<1>2. UNCHANGED vars => CanWrite(c)
    BY DEF CanWrite, Usable, vars, session
<1>3. ~Leave(c)
    BY <1>1 DEF Leave, Exit, CanWrite, Usable, TypeOK
<1>4. CASE TakeLock(c) \/ Refused(c)
  <2>1. \A m : Fits(runs', cycles', attempts', "locked", m)
               /\ Fits(runs', cycles', attempts', "closing", m)
      BY DEF Fits, WorkPlace
  <2> QED BY <1>1, <1>4, <2>1, WentFits DEF TakeLock, Refused
<1>5. CASE Recover(c)
  <2>1. \A r \in Run : runs'[r].status # "running"
      BY <1>1, <1>5 DEF Recover, RecoverIncomplete, TypeOK, RunRow
  <2>2. Fits(runs', cycles', attempts', "recovered", task[c])
      BY <2>1 DEF Fits, WorkPlace
  <2> QED BY <1>1, <1>5, <2>2, WentFits DEF Recover
<1>6. CASE ResumeCampaign(c) \/ BeginCampaign(c)
  <2>1. PICK p : Goto(c, "planned", [task[c] EXCEPT !.campaign = p])
      BY <1>6 DEF ResumeCampaign, BeginCampaign
  <2>2. CanWrite(c) /\ runs' = runs /\ pc[c] = "recovered"
      BY <1>2, <1>6 DEF ResumeCampaign, BeginCampaign, CreateCampaign, Commit, vars, tables
  <2>3. \A r \in Run : runs'[r].status # "running"
      BY <1>1, <2>2 DEF Fits
  <2>4. Fits(runs', cycles', attempts', "planned", [task[c] EXCEPT !.campaign = p])
      BY <2>3 DEF Fits, WorkPlace
  <2> QED BY <1>1, <2>1, <2>4, WentFits
<1>7. CASE BeginRun(c)
  <2>1. PICK held, rest, markets, left :
          /\ StartRun(c, New(runs), task[c].campaign, held)
          /\ Goto(c, "run", [task[c] EXCEPT !.run = New(runs), !.rest = rest,
                                            !.markets = markets, !.left = left])
      BY <1>7 DEF BeginRun
  <2> DEFINE mem == [task[c] EXCEPT !.run = New(runs), !.rest = rest,
                                    !.markets = markets, !.left = left]
  <2>2. mem.run = New(runs) /\ mem.cycle = None /\ mem.attempt = None
      BY <1>1, <1>7 DEF BeginRun, InHand, TaskRow
  <2>3. CanWrite(c) /\ pc[c] \in {"recovered", "planned"} /\ New(runs) \in Run
      BY <1>1, <1>7, <2>1, NewRows DEF BeginRun, StartRun, Commit
  <2>4. \A r \in Run : runs[r].status # "running"
      BY <1>1, <2>3 DEF Fits
  <2>5. /\ runs'[New(runs)].status = "running"
        /\ \A r \in Run \ {New(runs)} : runs'[r] = runs[r]
      BY <1>1, <2>1, <2>3 DEF StartRun, TypeOK
  <2>6. Fits(runs', cycles', attempts', "run", mem)
      BY <2>2, <2>4, <2>5 DEF Fits
  <2> QED BY <1>1, <2>1, <2>6, WentFits
<1>8. CASE BeginMarket(c)
  <2>1. PICK m \in task[c].markets :
          EnterCycle(c, m, None, "cycle", [task[c] EXCEPT !.markets = @ \ {m}])
      BY <1>8 DEF BeginMarket
  <2> DEFINE mem == [task[c] EXCEPT !.markets = @ \ {m}]
  <2>2. mem \in TaskRow /\ mem.run = task[c].run /\ mem.attempt = task[c].attempt
      BY <1>1 DEF TaskRow
  <2>3. pc[c] = "run" /\ EnterCycle(c, m, None, "cycle", mem)
      BY <1>8, <2>1 DEF BeginMarket
  <2> HIDE DEF mem
  <2> QED BY <1>1, <2>2, <2>3, EnteredFits DEF CollectorInv
<1>9. CASE BeginOpportunity(c)
  <2>1. PICK o \in Earliest(c), place \in {"cycle", "late"} :
          EnterCycle(c, o[2], o, place, [task[c] EXCEPT !.left = @ \ {o}])
      BY <1>9 DEF BeginOpportunity
  <2> DEFINE mem == [task[c] EXCEPT !.left = @ \ {o}]
  <2>2. mem \in TaskRow /\ mem.run = task[c].run /\ mem.attempt = task[c].attempt
      BY <1>1 DEF TaskRow
  <2>3. pc[c] = "run" /\ EnterCycle(c, o[2], o, place, mem)
      BY <1>9, <2>1 DEF BeginOpportunity
  <2> HIDE DEF mem
  <2> QED BY <1>1, <2>2, <2>3, EnteredFits DEF CollectorInv
<1>10. CASE SkipLate(c) \/ EndCycle(c) \/ AbandonCycle(c)
  <2>1. PICK place, memory :
          /\ Goto(c, place, memory) /\ place \in {"run", "ending", "closing"}
          /\ memory.run = task[c].run /\ memory.cycle = None /\ memory.attempt = None
    <3>1. CASE SkipLate(c)
      <4> DEFINE mem == [task[c] EXCEPT !.cycle = None]
      <4>1. mem.run = task[c].run /\ mem.cycle = None /\ mem.attempt = None
          BY <1>1, <3>1 DEF SkipLate, InHand, TaskRow
      <4> QED BY <3>1, <4>1 DEF SkipLate
    <3>2. CASE EndCycle(c)
      <4> DEFINE mem == [task[c] EXCEPT !.cycle = None, !.chosen = NoChoice]
      <4>1. mem.run = task[c].run /\ mem.cycle = None /\ mem.attempt = None
          BY <1>1, <3>2 DEF EndCycle, InHand, TaskRow
      <4> QED BY <3>2, <4>1 DEF EndCycle
    <3>3. CASE AbandonCycle(c)
      <4> DEFINE mem == [task[c] EXCEPT !.cycle = None, !.todo = {}, !.doing = None,
                                        !.attempt = None, !.chosen = NoChoice]
      <4>1. mem.run = task[c].run /\ mem.cycle = None /\ mem.attempt = None
          BY <1>1 DEF TaskRow
      <4> QED BY <3>3, <4>1 DEF AbandonCycle
    <3> QED BY <1>10, <3>1, <3>2, <3>3
  <2>2. CanWrite(c) /\ runs' = runs /\ pc[c] \in WorkPlace
      BY <1>10 DEF SkipLate, EndCycle, AbandonCycle, StopCycle, FinishCycle, Commit, WorkPlace
  <2>3. Fits(runs', cycles', attempts', place, memory)
      BY <1>1, <2>1, <2>2 DEF Fits, WorkPlace
  <2> QED BY <1>1, <2>1, <2>3, WentFits
<1>11. CASE BeginAttempt(c)
  <2>1. PICK v, number, todo, doing :
          /\ StartAttempt(c, New(attempts), task[c].cycle, v, number)
          /\ Goto(c, "attempt", [task[c] EXCEPT !.todo = todo, !.attempt = New(attempts),
                                                !.doing = doing])
      BY <1>11 DEF BeginAttempt
  <2> DEFINE mem == [task[c] EXCEPT !.todo = todo, !.attempt = New(attempts), !.doing = doing]
  <2>2. mem.run = task[c].run /\ mem.cycle = task[c].cycle /\ mem.attempt = New(attempts)
      BY <1>1 DEF TaskRow
  <2>3. CanWrite(c) /\ runs' = runs /\ cycles' = cycles /\ pc[c] \in WorkPlace
      BY <1>11, <2>1 DEF BeginAttempt, StartAttempt, Commit, WorkPlace
  <2>4. attempts'[New(attempts)].status = "started"
      BY <1>1, <2>1, NewRows DEF StartAttempt, TypeOK
  <2> HIDE DEF mem
  <2>5. Fits(runs', cycles', attempts', "attempt", mem)
      BY <1>1, <2>2, <2>3, <2>4 DEF Fits, WorkPlace
  <2>6. Goto(c, "attempt", mem)
      BY <2>1 DEF mem
  <2> QED BY <1>1, <2>5, <2>6, WentFits
<1>12. CASE NoticeStop(c)
  <2>1. /\ CanWrite(c) /\ pc[c] \in WorkPlace /\ Goto(c, "stopping", task[c])
        /\ runs' = runs /\ cycles' = cycles /\ attempts' = attempts
      BY <1>2, <1>12 DEF NoticeStop, WorkPlace, vars, tables
  <2>2. Fits(runs', cycles', attempts', "stopping", task[c])
      BY <1>1, <2>1 DEF Fits, WorkPlace
  <2> QED BY <1>1, <2>1, <2>2, WentFits
<1>13. CASE EndAttempt(c)
  <2>1. PICK place, memory :
          /\ Goto(c, place, memory) /\ place \in {"stopping", "cycle", "retry"}
          /\ memory.run = task[c].run /\ memory.cycle = task[c].cycle /\ memory.attempt = None
    <3>1. CASE \E chosen : Goto(c, AfterVisit(c),
                 [task[c] EXCEPT !.attempt = None, !.doing = None, !.chosen = chosen])
      <4>1. PICK chosen : Goto(c, AfterVisit(c),
                 [task[c] EXCEPT !.attempt = None, !.doing = None, !.chosen = chosen])
          BY <3>1
      <4> DEFINE mem == [task[c] EXCEPT !.attempt = None, !.doing = None, !.chosen = chosen]
      <4>2. mem.run = task[c].run /\ mem.cycle = task[c].cycle /\ mem.attempt = None
          BY <1>1 DEF TaskRow
      <4> QED BY <4>1, <4>2 DEF AfterVisit
    <3>2. CASE Goto(c, "retry", [task[c] EXCEPT !.attempt = None])
      <4> DEFINE mem == [task[c] EXCEPT !.attempt = None]
      <4>1. mem.run = task[c].run /\ mem.cycle = task[c].cycle /\ mem.attempt = None
          BY <1>1 DEF TaskRow
      <4> QED BY <3>2, <4>1
    <3> QED BY <1>13, <3>1, <3>2 DEF EndAttempt
  <2>2. CanWrite(c) /\ runs' = runs /\ cycles' = cycles /\ pc[c] \in WorkPlace
      BY <1>13 DEF EndAttempt, FinishAttempt, Commit, WorkPlace
  <2>3. Fits(runs', cycles', attempts', place, memory)
      BY <1>1, <2>1, <2>2 DEF Fits, WorkPlace
  <2> QED BY <1>1, <2>1, <2>3, WentFits
<1>14. CASE EndRunOfMarkets(c) \/ EndRunOfCampaign(c)
  <2>1. /\ EndRun(c, task[c].run, "completed") /\ pc[c] = "run" /\ CanWrite(c)
        /\ \E place, memory : /\ Goto(c, place, memory)
                              /\ place \in {"recovered", "closing", "done"}
      BY <1>14 DEF EndRunOfMarkets, EndRunOfCampaign, FinishRun, EndRun, Commit
  <2>2. /\ runs'[task[c].run].status # "running"
        /\ \A r \in Run \ {task[c].run} : runs'[r] = runs[r]
      BY <1>1, <2>1 DEF EndRun, TypeOK, RunRow, InHand, WorkPlace
  <2>3. \A r \in Run : runs'[r].status # "running"
      BY <1>1, <2>1, <2>2 DEF Fits, WorkPlace
  <2>4. \A m, place : place \in {"recovered", "closing", "done"}
          => Fits(runs', cycles', attempts', place, m)
      BY <2>3 DEF Fits, WorkPlace
  <2> QED BY <1>1, <2>1, <2>4, WentFits
<1>15. CASE EndCampaign(c) \/ AbandonRun(c)
  <2>1. Fits(runs', cycles', attempts', "closing", NoTask)
      BY DEF Fits, WorkPlace
  <2> QED BY <1>1, <1>15, <2>1, WentFits DEF EndCampaign, AbandonRun
<1> QED BY <1>3, <1>4, <1>5, <1>6, <1>7, <1>8, <1>9, <1>10, <1>11, <1>12, <1>13, <1>14, <1>15
        DEF Progress

(* A process that was disturbed and can still write has its rows as before.   *)
LEMMA OwnDisturbanceFits ==
    ASSUME StoreInv, CollectorInv, NEW c \in Client, Disturbance(c), CanWrite(c)'
    PROVE  Fits(runs', cycles', attempts', pc'[c], task'[c])
<1>1. /\ TypeOK /\ CTypeOK /\ task[c] \in TaskRow /\ InHand(pc[c], task[c])
      /\ CanWrite(c) => Fits(runs, cycles, attempts, pc[c], task[c])
    BY TaskFields, FitsNow DEF StoreInv, CollectorInv
<1>2. UNCHANGED vars => CanWrite(c) /\ runs' = runs /\ cycles' = cycles /\ attempts' = attempts
    BY DEF CanWrite, Usable, vars, session, tables
<1>3. ~LoseConnection(c) /\ ~Killed(c)
    BY <1>1 DEF LoseConnection, ConnectionLost, Killed, Crash, CanWrite, Usable, TypeOK
<1>4. CASE Launch(c) \/ StatementFails(c) \/ CutShort(c)
  <2>1. \A m : Fits(runs', cycles', attempts', "opened", m)
               /\ Fits(runs', cycles', attempts', "closing", m)
      BY DEF Fits, WorkPlace
  <2> QED BY <1>1, <1>4, <2>1, WentFits DEF Launch, StatementFails, CutShort
<1>5. CASE Raise(c)
  <2>1. Fits(runs', cycles', attempts', Unwind(c), task[c])
      BY <1>1, <1>2, <1>5 DEF Raise, Unwind, Fits, WorkPlace
  <2> QED BY <1>1, <1>5, <2>1, WentFits DEF Raise
<1>6. CASE StopRequested(c)
  <2>1. task'[c] = [task[c] EXCEPT !.stop = TRUE] /\ pc' = pc /\ UNCHANGED vars
      BY <1>1, <1>6 DEF StopRequested, CTypeOK
  <2>2. /\ task'[c].run = task[c].run /\ task'[c].cycle = task[c].cycle
        /\ task'[c].attempt = task[c].attempt
      BY <1>1, <2>1 DEF TaskRow
  <2> QED BY <1>1, <1>2, <2>1, <2>2 DEF Fits
<1> QED BY <1>3, <1>4, <1>5, <1>6 DEF Disturbance

(* No step starts a run while another one is running.                         *)
LEMMA StepKeepsOneRun ==
    ASSUME StoreInv, CollectorInv, NEW c \in Client, Progress(c) \/ Disturbance(c)
    PROVE  OneRunningRun'
<1>1. TypeOK /\ CTypeOK /\ OneRunningRun /\ OwnWorkIsUntouched /\ OnlyOwnRunIsRunning
    BY DEF StoreInv, CollectorInv
<1>2. SUFFICES ASSUME ~BeginRun(c)
               PROVE  \A r \in Run : runs'[r].status = "running" => runs[r].status = "running"
  <2>1. CASE BeginRun(c)
    <3>1. PICK held : StartRun(c, New(runs), task[c].campaign, held)
        BY <2>1 DEF BeginRun
    <3>2. CanWrite(c) /\ pc[c] \in {"recovered", "planned"}
        BY <2>1, <3>1 DEF BeginRun, StartRun, Commit
    <3>3. \A r \in Run : runs[r].status # "running"
        BY <1>1, <3>2, FitsNow DEF Fits
    <3>4. \A r \in Run \ {New(runs)} : runs'[r] = runs[r]
        BY <1>1, <3>1, NewRows DEF StartRun, TypeOK
    <3> QED BY <3>3, <3>4 DEF OneRunningRun
  <2>2. CASE \A r \in Run : runs'[r].status = "running" => runs[r].status = "running"
      BY <1>1, <2>2 DEF OneRunningRun
  <2> QED BY <2>1, <2>2
<1>3. CASE Recover(c)
    BY <1>1, <1>3 DEF Recover, RecoverIncomplete, TypeOK, RunRow
<1>4. CASE EndRunOfMarkets(c) \/ EndRunOfCampaign(c) \/ AbandonRun(c)
  <2>1. task[c].run \in Run /\ \E status \in {"completed", "interrupted"} :
                                  EndRun(c, task[c].run, status)
      BY <1>1, <1>4, TaskFields DEF EndRunOfMarkets, EndRunOfCampaign, AbandonRun, FinishRun,
         InterruptRun, InHand, WorkPlace
  <2> QED BY <1>1, <2>1 DEF EndRun, TypeOK, RunRow
<1>5. CASE runs' = runs
    BY <1>5
<1>6. CASE Disturbance(c)
  <2>1. runs' = runs
      BY <1>6 DEF Disturbance, Launch, StatementFails, Raise, CutShort, StopRequested,
         LoseConnection, Killed, Connect, RollBack, ConnectionLost, Crash, vars, tables
  <2> QED BY <2>1
<1>7. CASE Progress(c) /\ ~Recover(c) /\ ~EndRunOfMarkets(c) /\ ~EndRunOfCampaign(c)
           /\ ~AbandonRun(c)
  <2>1. runs' = runs
      BY <1>2, <1>7 DEF Progress, TakeLock, Refused, Leave, ResumeCampaign, BeginCampaign,
         BeginMarket, BeginOpportunity, EnterCycle, SkipLate, BeginAttempt, NoticeStop,
         EndAttempt, EndCycle, AbandonCycle, EndCampaign, AcquireLock, Exit, CreateCampaign,
         StartCycle, StopCycle, StartAttempt, FinishAttempt, FinishCycle, FinishCampaign,
         vars, tables
  <2> QED BY <2>1
<1> QED BY <1>3, <1>4, <1>6, <1>7

(* The invariant is inductive.                                                *)
LEMMA StepCollectorInv ==
    ASSUME StoreInv, CollectorInv, [CNext]_cvars
    PROVE  CollectorInv'
<1>1. CTypeOK'
    BY StepTypes DEF StoreInv, CollectorInv
<1>2. ASSUME NEW c \in Client, Progress(c) \/ Disturbance(c)
      PROVE  OneRunningRun' /\ OwnWorkIsUntouched' /\ OnlyOwnRunIsRunning'
  <2>1. \A d \in Client : CanWrite(d)' => Fits(runs', cycles', attempts', pc'[d], task'[d])
      BY <1>2, OwnProgressFits, OwnDisturbanceFits, OthersFit
  <2> QED BY <1>2, <2>1, FitsNext, StepKeepsOneRun
<1>3. CASE Tick \/ ServerEnds \/ UNCHANGED cvars
  <2>1. UNCHANGED <<conn, failed, locked, tables, pc, task>>
      BY <1>3 DEF Tick, ServerEnds, SessionEnds, cvars, vars, session
  <2> QED BY <1>1, <2>1 DEF CollectorInv, OneRunningRun, OwnWorkIsUntouched,
             OnlyOwnRunIsRunning, CanWrite, Usable, Working, tables
<1> QED BY <1>1, <1>2, <1>3 DEF CNext, CollectorInv

-----------------------------------------------------------------------------
(* The theorems *)

(* The store's invariant and the collectors' hold in every state.             *)
LEMMA BothInvariants == CSpec => [](StoreInv /\ CollectorInv)
<1>1. CInit => StoreInv /\ CollectorInv
    BY InitStoreInv, InitCollector DEF CInit
<1>2. StoreInv /\ CollectorInv /\ [CNext]_cvars => (StoreInv /\ CollectorInv)'
  <2>1. StoreInv /\ CollectorInv => TypeOK /\ CTypeOK
      BY DEF StoreInv, CollectorInv
  <2> QED BY <2>1, StepIsStoreStep, NextStoreInv, StepCollectorInv
<1> QED BY <1>1, <1>2, PTL DEF CSpec

(* The three programs are clients of storage.py: whatever they do, with any    *)
(* kills, lost connections and failed statements, is a behaviour of the most   *)
(* general caller, so that all its theorems hold of them.                      *)
THEOREM CollectorsUseStore == CSpec => Spec
<1>1. StoreInv /\ CollectorInv /\ [CNext]_cvars => [Next]_vars
    BY StepIsStoreStep DEF StoreInv, CollectorInv
<1>2. CInit => Init
    BY DEF CInit
<1> QED BY <1>1, <1>2, BothInvariants, PTL DEF CSpec, Spec

(* What a process remembers is of its type and fits the place it has reached.  *)
THEOREM CollectorTypeCorrect == CSpec => []CTypeOK
<1>1. CollectorInv => CTypeOK
    BY DEF CollectorInv
<1> QED BY <1>1, BothInvariants, PTL

(* At most one run of the schema is running at any time.                       *)
THEOREM OneRunAtATime == CSpec => []OneRunningRun
<1>1. CollectorInv => OneRunningRun
    BY DEF CollectorInv
<1> QED BY <1>1, BothInvariants, PTL

(* While a collector can write, nobody ends or recovers the rows it works on.  *)
THEOREM WorkIsUntouched == CSpec => []OwnWorkIsUntouched
<1>1. CollectorInv => OwnWorkIsUntouched
    BY DEF CollectorInv
<1> QED BY <1>1, BothInvariants, PTL

-----------------------------------------------------------------------------
(* What every step of the store leaves as it was *)

(* A row that exists keeps what it names, and an attempt changes only while    *)
(* its cycle is running.                                                       *)
KeepsNames ==
    /\ \A r \in Run : runs[r].status # "absent" =>
          /\ runs'[r].status # "absent"
          /\ runs'[r].held = runs[r].held /\ runs'[r].campaign = runs[r].campaign
    /\ \A k \in Cycle : cycles[k].status # "absent" =>
          /\ cycles'[k].status # "absent" /\ cycles'[k].run = cycles[k].run
          /\ cycles'[k].market = cycles[k].market
          /\ cycles'[k].opportunity = cycles[k].opportunity
    /\ \A a \in Attempt : attempts[a].status # "absent" =>
          /\ attempts'[a].cycle = attempts[a].cycle /\ attempts'[a].ticker = attempts[a].ticker
          /\ attempts'[a].slot = attempts[a].slot
    /\ \A a \in Attempt : attempts'[a] = attempts[a]
                           \/ \E k \in Cycle : /\ attempts'[a].cycle = k
                                               /\ cycles[k].status = "running"

(* No step of the store renames what a row refers to.                         *)
LEMMA StepKeepsNames ==
    ASSUME StoreInv, [Next]_vars
    PROVE  KeepsNames
<1>0. TypeOK /\ OpenWorkIsNested /\ RowsAreLinked
    BY DEF StoreInv
<1>1. ASSUME UNCHANGED <<runs, cycles, attempts>> PROVE KeepsNames
    BY <1>1 DEF KeepsNames
<1>2. ASSUME NEW c \in Client, ClientStep(c) PROVE KeepsNames
  <2>1. ASSUME NEW r \in Run, NEW p, NEW held, StartRun(c, r, p, held) PROVE KeepsNames
      BY <1>0, <2>1 DEF StartRun, TypeOK, KeepsNames
  <2>2. ASSUME NEW r \in Run, NEW status \in {"completed", "interrupted"}, EndRun(c, r, status)
        PROVE  KeepsNames
    <3>1. UNCHANGED <<cycles, attempts>>
        BY <2>2 DEF EndRun
    <3> QED BY <1>0, <2>2, <3>1, RunEnds DEF EndRun, RunStatus, KeepsNames
  <2>3. ASSUME NEW k \in Cycle, NEW r, NEW m, NEW o, StartCycle(c, k, r, m, o)
        PROVE  KeepsNames
      BY <1>0, <2>3 DEF StartCycle, TypeOK, KeepsNames
  <2>4. ASSUME NEW k \in Cycle, NEW selected, FinishCycle(c, k, selected)
        PROVE  KeepsNames
    <3>1. UNCHANGED <<runs, attempts>> /\ cycles[k].status = "running"
        BY <2>4 DEF FinishCycle
    <3> QED BY <1>0, <2>4, <3>1, CycleEnds DEF FinishCycle, CycleStatus, KeepsNames
  <2>5. ASSUME NEW k \in Cycle, NEW status \in {"interrupted", "skipped"},
               StopCycle(c, k, status)
        PROVE  KeepsNames
    <3>1. /\ runs' = runs /\ cycles[k].status = "running"
          /\ \A j \in Cycle : /\ cycles'[j].run = cycles[j].run
                               /\ cycles'[j].market = cycles[j].market
                               /\ cycles'[j].opportunity = cycles[j].opportunity
          /\ \A j \in Cycle : cycles[j].status # "absent" => cycles'[j].status # "absent"
        BY <1>0, <2>5, CycleEnds DEF StopCycle, CycleStatus
    <3>2. \A a \in Attempt : /\ attempts'[a].cycle = attempts[a].cycle
                             /\ attempts'[a].ticker = attempts[a].ticker
                             /\ attempts'[a].slot = attempts[a].slot
                             /\ attempts'[a] = attempts[a] \/ attempts[a].cycle = k
        BY <1>0, <2>5 DEF StopCycle, TypeOK, AttemptRow
    <3> QED BY <3>1, <3>2 DEF KeepsNames
  <2>6. ASSUME NEW a \in Attempt, NEW k \in Cycle, NEW t, NEW s, StartAttempt(c, a, k, t, s)
        PROVE  KeepsNames
      BY <1>0, <2>6 DEF StartAttempt, TypeOK, KeepsNames
  <2>7. ASSUME NEW a \in Attempt, NEW result, FinishAttempt(c, a, result) PROVE KeepsNames
    <3>1. /\ UNCHANGED <<runs, cycles>> /\ attempts[a].status = "started"
          /\ cycles[attempts[a].cycle].status = "running" /\ attempts[a].cycle \in Cycle
        BY <1>0, <2>7 DEF FinishAttempt, RowsAreLinked
    <3>2. /\ attempts'[a].cycle = attempts[a].cycle /\ attempts'[a].ticker = attempts[a].ticker
          /\ attempts'[a].slot = attempts[a].slot
          /\ \A b \in Attempt \ {a} : attempts'[b] = attempts[b]
        BY <1>0, <2>7 DEF FinishAttempt, TypeOK, AttemptRow
    <3> QED BY <3>1, <3>2 DEF KeepsNames
  <2>8. CASE RecoverIncomplete(c)
    <3>1. \A r \in Run : /\ runs'[r].held = runs[r].held /\ runs'[r].campaign = runs[r].campaign
                         /\ runs[r].status # "absent" => runs'[r].status # "absent"
        BY <1>0, <2>8 DEF RecoverIncomplete, TypeOK, RunRow
    <3>2. \A k \in Cycle : /\ cycles'[k].run = cycles[k].run
                           /\ cycles'[k].market = cycles[k].market
                           /\ cycles'[k].opportunity = cycles[k].opportunity
                           /\ cycles[k].status # "absent" => cycles'[k].status # "absent"
        BY <1>0, <2>8 DEF RecoverIncomplete, TypeOK, CycleRow
    <3>3. \A a \in Attempt : /\ attempts'[a].cycle = attempts[a].cycle
                             /\ attempts'[a].ticker = attempts[a].ticker
                             /\ attempts'[a].slot = attempts[a].slot
                             /\ attempts'[a] = attempts[a] \/ attempts[a].status = "started"
        BY <1>0, <2>8 DEF RecoverIncomplete, TypeOK, AttemptRow
    <3>4. \A a \in Attempt : attempts[a].status = "started" =>
              attempts[a].cycle \in Cycle /\ cycles[attempts[a].cycle].status = "running"
        BY <1>0 DEF OpenWorkIsNested, RowsAreLinked
    <3> QED BY <3>1, <3>2, <3>3, <3>4 DEF KeepsNames
  <2>9. CASE SessionStep(c) \/ CampaignStep(c)
      BY <1>1, <2>9 DEF SessionStep, Connect, AcquireLock, RollBack, Exit, ConnectionLost, Crash,
         tables, CampaignStep, CreateCampaign, FinishCampaign
  <2>10. CASE RunStep(c)
      BY <2>1, <2>2, <2>10 DEF RunStep, FinishRun, InterruptRun
  <2>11. CASE CycleStep(c)
      BY <2>3, <2>4, <2>5, <2>11 DEF CycleStep
  <2>12. CASE AttemptStep(c)
      BY <2>6, <2>7, <2>12 DEF AttemptStep
  <2> QED BY <1>2, <2>8, <2>9, <2>10, <2>11, <2>12 DEF ClientStep
<1>3. CASE SessionEnds \/ UNCHANGED vars
    BY <1>1, <1>3 DEF SessionEnds, vars, tables
<1> QED BY <1>2, <1>3 DEF Next

(* A cycle that was completed keeps its group, its valuations and its          *)
(* attempts, and a step that completes one is EndCycle of its collector.       *)
LEMMA CompletedStay ==
    ASSUME StoreInv, [Next]_vars, NEW k \in Cycle, cycles[k].status = "completed"
    PROVE  /\ cycles'[k] = cycles[k] /\ valuations'[k] = valuations[k]
           /\ Group(k)' = Group(k)
           /\ \A a \in Attempt : attempts'[a].cycle = k \/ attempts[a].cycle = k
                                  => attempts'[a] = attempts[a]
           /\ \A v : Numbers(k, v)' = Numbers(k, v)
<1>1. KeepsNames /\ KeepsEndedRows /\ RowsAreLinked
    BY StepKeepsNames, StepKeepsEndedRows DEF StoreInv
<1>2. cycles'[k] = cycles[k] /\ valuations'[k] = valuations[k]
    BY <1>1 DEF KeepsEndedRows
<1>3. Group(k)' = Group(k)
  <2>1. cycles[k].run \in Run /\ runs[cycles[k].run].status # "absent"
      BY <1>1 DEF RowsAreLinked
  <2> QED BY <1>1, <1>2, <2>1 DEF Group, KeepsNames
<1>4. \A a \in Attempt : attempts'[a].cycle = k \/ attempts[a].cycle = k
                         => attempts'[a] = attempts[a]
  <2>1. k # None
      BY NoneAssumption
  <2>2. NoAttempt.cycle = None
      BY DEF NoAttempt
  <2>3. \A a \in Attempt : attempts[a].cycle = k => attempts[a].status # "absent"
      BY <1>1, <2>1, <2>2 DEF RowsAreLinked
  <2> QED BY <1>1, <2>3 DEF KeepsNames
<1>5. ASSUME NEW v PROVE Numbers(k, v)' = Numbers(k, v)
  <2>1. Numbers(k, v)' = {attempts'[a].slot[2] : a \in {b \in Attempt :
            /\ attempts'[b].cycle = k /\ attempts'[b].ticker = v[1]
            /\ attempts'[b].slot[1] = v[2]}}
      BY DEF Numbers
  <2> QED BY <1>4, <2>1 DEF Numbers
<1> QED BY <1>2, <1>3, <1>4, <1>5

(* A cycle is completed only by the process that has it in hand.              *)
LEMMA CompletedByEndCycle ==
    ASSUME StoreInv, CollectorInv, [CNext]_cvars, NEW k \in Cycle,
           cycles'[k].status = "completed", cycles[k].status # "completed"
    PROVE  \E c \in Client : EndCycle(c) /\ task[c].cycle = k
<1>1. TypeOK /\ CTypeOK
    BY DEF StoreInv, CollectorInv
<1>2. PICK c \in Client : Progress(c)
  <2>1. ~Tick /\ ~ServerEnds /\ ~UNCHANGED cvars
      BY DEF Tick, ServerEnds, SessionEnds, cvars, vars, tables
  <2>2. ASSUME NEW c \in Client, Disturbance(c) PROVE FALSE
      BY <2>2 DEF Disturbance, Launch, StatementFails, Raise, CutShort, StopRequested,
         LoseConnection, Killed, Connect, RollBack, ConnectionLost, Crash, vars, tables
  <2> QED BY <2>1, <2>2 DEF CNext
<1>3. EndCycle(c)
  <2>1. CASE Recover(c)
      BY <1>1, <2>1 DEF Recover, RecoverIncomplete, TypeOK, CycleRow
  <2>2. CASE SkipLate(c) \/ AbandonCycle(c)
    <3>1. task[c].cycle \in Cycle
        BY <1>1, <2>2, TaskFields DEF SkipLate, AbandonCycle, InHand
    <3>2. PICK status \in {"interrupted", "skipped"} : cycles' = [cycles EXCEPT
              ![task[c].cycle].status = status, ![task[c].cycle].stamp = "closed"]
        BY <2>2 DEF SkipLate, AbandonCycle, StopCycle
    <3> QED BY <1>1, <3>1, <3>2, CycleEnds DEF CycleStatus
  <2>3. CASE BeginMarket(c) \/ BeginOpportunity(c)
    <3>1. PICK o, m : StartCycle(c, New(cycles), task[c].run, m, o)
        BY <2>3, Zenon DEF BeginMarket, BeginOpportunity, EnterCycle
    <3> QED BY <1>1, <3>1 DEF StartCycle, TypeOK
  <2>4. ASSUME cycles' = cycles PROVE FALSE
      BY <2>4
  <2> QED
      BY <1>2, <2>1, <2>2, <2>3, <2>4 DEF Progress, TakeLock, Refused, Leave, ResumeCampaign,
         BeginCampaign, BeginRun, BeginAttempt, NoticeStop, EndAttempt, EndRunOfMarkets,
         EndRunOfCampaign, EndCampaign, AbandonRun, AcquireLock, Exit, CreateCampaign, StartRun,
         StartAttempt, FinishAttempt, FinishRun, InterruptRun, EndRun, FinishCampaign, vars,
         tables
<1>4. task[c].cycle \in Cycle
    BY <1>1, <1>3, TaskFields DEF EndCycle, InHand
<1>5. cycles' = [cycles EXCEPT ![task[c].cycle].status = "completed",
                               ![task[c].cycle].stamp = "closed"]
    BY <1>3 DEF EndCycle, FinishCycle
<1> QED BY <1>1, <1>3, <1>4, <1>5, CycleEnds DEF CycleStatus

-----------------------------------------------------------------------------
(* What fits a process's place whatever the tables hold *)

(* Memories fit before any program is started.                                *)
LEMMA InitMemories == CInit => MemoriesFit
<1>1. CInit => \A c \in Client : pc[c] = "off" /\ task[c] = NoTask
    BY DEF CInit
<1> QED BY <1>1 DEF MemoriesFit, MemoryFits, NoTask, NoChoice

(* Memories go on fitting when a process goes to a place with one that fits.  *)
LEMMA WentFitting ==
    ASSUME CTypeOK, MemoriesFit, NEW c \in Client, NEW place, NEW memory,
           Goto(c, place, memory), MemoryFits(place, memory), clock' = clock
    PROVE  MemoriesFit'
<1> SUFFICES ASSUME NEW d \in Client PROVE MemoryFits(pc[d], task[d])'
    BY DEF MemoriesFit
<1>1. CASE d # c
  <2>1. pc'[d] = pc[d] /\ task'[d] = task[d]
      BY <1>1 DEF Goto, CTypeOK
  <2> QED BY <2>1 DEF MemoriesFit, MemoryFits
<1>2. CASE d = c
  <2>1. \/ pc'[c] = place /\ task'[c] = memory
        \/ pc'[c] \in {"closing", "off"} /\ task'[c] = NoTask
      BY DEF Goto, CTypeOK
  <2>2. MemoryFits("closing", NoTask) /\ MemoryFits("off", NoTask)
      BY DEF MemoryFits, NoTask, NoChoice
  <2> QED BY <1>2, <2>1, <2>2 DEF MemoryFits
<1> QED BY <1>1, <1>2

(* Progress keeps memories fitting.                                           *)
LEMMA ProgressKeepsMemories ==
    ASSUME CTypeOK, MemoriesFit, NEW c \in Client, Progress(c)
    PROVE  MemoriesFit'
<1> USE DEF MemoryFits, Visiting
<1>1. task[c] \in TaskRow /\ MemoryFits(pc[c], task[c]) /\ MemoryFits("closing", NoTask)
    BY TaskFields DEF MemoriesFit, NoTask, NoChoice
<1>2. clock' = clock
    BY DEF Progress, TakeLock, Refused, Leave, Recover, ResumeCampaign, BeginCampaign, BeginRun,
       BeginMarket, BeginOpportunity, EnterCycle, SkipLate, BeginAttempt, NoticeStop, EndAttempt,
       EndCycle, AbandonCycle, EndRunOfMarkets, EndRunOfCampaign, EndCampaign, AbandonRun,
       EndedNow, Columns
<1>3. CASE Leave(c)
  <2>1. pc'[c] = "off" /\ pc[c] = "closing" /\ task' = task
        /\ \A d \in Client \ {c} : pc'[d] = pc[d]
      BY <1>3 DEF Leave, CTypeOK
  <2> QED BY <1>1, <1>2, <2>1 DEF MemoriesFit
<1>4. CASE ~Leave(c)
  <2> SUFFICES \E place, memory : Goto(c, place, memory) /\ MemoryFits(place, memory)
      BY <1>2, WentFitting
  <2>1. CASE TakeLock(c) \/ Recover(c) \/ NoticeStop(c)
      BY <1>1, <2>1 DEF TakeLock, Recover, NoticeStop
  <2>2. CASE Refused(c) \/ EndCampaign(c) \/ AbandonRun(c)
      BY <1>1, <2>2 DEF Refused, EndCampaign, AbandonRun
  <2>3. CASE ResumeCampaign(c) \/ BeginCampaign(c)
    <3>1. PICK p : Goto(c, "planned", [task[c] EXCEPT !.campaign = p])
        BY <2>3 DEF ResumeCampaign, BeginCampaign
    <3> DEFINE mem == [task[c] EXCEPT !.campaign = p]
    <3>2. mem.chosen = task[c].chosen /\ mem.kind = task[c].kind /\ mem.started = task[c].started
        BY <1>1 DEF TaskRow
    <3>3. pc[c] = "recovered" /\ task[c].kind = "monitor"
        BY <2>3 DEF ResumeCampaign, BeginCampaign
    <3>4. MemoryFits("planned", mem)
        BY <1>1, <3>2, <3>3
    <3> QED BY <3>1, <3>4
  <2>4. CASE BeginRun(c)
    <3>1. PICK r, rest, markets, left : Goto(c, "run", [task[c] EXCEPT
              !.run = r, !.rest = rest, !.markets = markets, !.left = left])
        BY <2>4 DEF BeginRun
    <3> DEFINE mem == [task[c] EXCEPT !.run = r, !.rest = rest, !.markets = markets,
                                      !.left = left]
    <3>2. /\ mem.chosen = task[c].chosen /\ mem.kind = task[c].kind
          /\ mem.started = task[c].started /\ mem.campaign = task[c].campaign
        BY <1>1 DEF TaskRow
    <3>3. MemoryFits("run", mem)
        BY <1>1, <2>4, <3>2 DEF BeginRun
    <3> QED BY <3>1, <3>3
  <2>5. ASSUME NEW place \in {"cycle", "late"}, NEW old \in TaskRow, NEW m, NEW o,
                EnterCycle(c, m, o, place, old), pc[c] = "run", old.kind = task[c].kind,
                old.chosen = task[c].chosen, old.started = task[c].started,
                old.campaign = task[c].campaign
         PROVE  \E goal, memory : Goto(c, goal, memory) /\ MemoryFits(goal, memory)
    <3>1. PICK k, T : Goto(c, place, [old EXCEPT !.cycle = k, !.todo = T])
        BY <2>5 DEF EnterCycle
    <3> DEFINE mem == [old EXCEPT !.cycle = k, !.todo = T]
    <3>2. /\ mem.chosen = task[c].chosen /\ mem.kind = task[c].kind
          /\ mem.started = task[c].started /\ mem.campaign = task[c].campaign
        BY <2>5 DEF TaskRow
    <3>3. MemoryFits(place, mem)
        BY <1>1, <2>5, <3>2
    <3> QED BY <3>1, <3>3
  <2>12. CASE BeginMarket(c)
    <3>1. PICK m \in task[c].markets :
            EnterCycle(c, m, None, "cycle", [task[c] EXCEPT !.markets = @ \ {m}])
        BY <2>12 DEF BeginMarket
    <3> DEFINE old == [task[c] EXCEPT !.markets = @ \ {m}]
    <3>2. old \in TaskRow /\ old.kind = task[c].kind /\ old.chosen = task[c].chosen
          /\ old.started = task[c].started /\ old.campaign = task[c].campaign
        BY <1>1 DEF TaskRow
    <3>3. pc[c] = "run" /\ EnterCycle(c, m, None, "cycle", old)
        BY <2>12, <3>1 DEF BeginMarket
    <3> HIDE DEF old
    <3> QED BY <2>5, <3>2, <3>3
  <2>13. CASE BeginOpportunity(c)
    <3>1. PICK o \in Earliest(c), place \in {"cycle", "late"} :
            EnterCycle(c, o[2], o, place, [task[c] EXCEPT !.left = @ \ {o}])
        BY <2>13 DEF BeginOpportunity
    <3> DEFINE old == [task[c] EXCEPT !.left = @ \ {o}]
    <3>2. old \in TaskRow /\ old.kind = task[c].kind /\ old.chosen = task[c].chosen
          /\ old.started = task[c].started /\ old.campaign = task[c].campaign
        BY <1>1 DEF TaskRow
    <3>3. pc[c] = "run" /\ EnterCycle(c, o[2], o, place, old)
        BY <2>13, <3>1 DEF BeginOpportunity
    <3> HIDE DEF old
    <3> QED BY <2>5, <3>2, <3>3
  <2>6. CASE SkipLate(c)
    <3> DEFINE mem == [task[c] EXCEPT !.cycle = None]
    <3>2. /\ mem.chosen = task[c].chosen /\ mem.kind = task[c].kind
          /\ mem.started = task[c].started /\ mem.campaign = task[c].campaign
        BY <1>1 DEF TaskRow
    <3>3. MemoryFits("run", mem)
        BY <1>1, <2>6, <3>2 DEF SkipLate
    <3> QED BY <2>6, <3>3 DEF SkipLate
  <2>7. CASE BeginAttempt(c)
    <3>1. PICK todo, a, doing : Goto(c, "attempt", [task[c] EXCEPT
              !.todo = todo, !.attempt = a, !.doing = doing])
        BY <2>7 DEF BeginAttempt
    <3> DEFINE mem == [task[c] EXCEPT !.todo = todo, !.attempt = a, !.doing = doing]
    <3>2. /\ mem.chosen = task[c].chosen /\ mem.kind = task[c].kind
          /\ mem.started = task[c].started /\ mem.campaign = task[c].campaign
        BY <1>1 DEF TaskRow
    <3>3. MemoryFits("attempt", mem)
        BY <1>1, <2>7, <3>2 DEF BeginAttempt
    <3> QED BY <3>1, <3>3
  <2>8. CASE EndAttempt(c)
    <3>0. \E place \in {"stopping", "cycle", "retry"} : \E doing, chosen :
              Goto(c, place, [task[c] EXCEPT !.attempt = None, !.doing = doing,
                                             !.chosen = chosen])
      <4>1. [task[c] EXCEPT !.attempt = None]
              = [task[c] EXCEPT !.attempt = None, !.doing = @, !.chosen = @]
          BY <1>1 DEF TaskRow
      <4> QED BY <2>8, <4>1 DEF EndAttempt, AfterVisit
    <3>1. PICK place \in {"stopping", "cycle", "retry"} : \E doing, chosen :
              Goto(c, place, [task[c] EXCEPT !.attempt = None, !.doing = doing,
                                             !.chosen = chosen])
        BY <3>0, Zenon
    <3>11. PICK doing, chosen :
              Goto(c, place, [task[c] EXCEPT !.attempt = None, !.doing = doing,
                                             !.chosen = chosen])
        BY <3>1, Zenon
    <3> DEFINE mem == [task[c] EXCEPT !.attempt = None, !.doing = doing, !.chosen = chosen]
    <3>2. /\ mem.kind = task[c].kind
          /\ mem.started = task[c].started /\ mem.campaign = task[c].campaign
        BY <1>1 DEF TaskRow
    <3>3. MemoryFits(place, mem)
        BY <1>1, <2>8, <3>2 DEF EndAttempt
    <3> QED BY <3>11, <3>3
  <2>9. CASE EndCycle(c)
    <3> DEFINE mem == [task[c] EXCEPT !.cycle = None, !.chosen = NoChoice]
    <3>2. /\ mem.chosen = NoChoice /\ mem.kind = task[c].kind
          /\ mem.started = task[c].started /\ mem.campaign = task[c].campaign
        BY <1>1 DEF TaskRow
    <3>3. MemoryFits("run", mem)
        BY <1>1, <2>9, <3>2 DEF EndCycle, NoChoice
    <3> QED BY <2>9, <3>3 DEF EndCycle
  <2>10. CASE AbandonCycle(c)
    <3> DEFINE mem == [task[c] EXCEPT !.cycle = None, !.todo = {}, !.doing = None,
                                      !.attempt = None, !.chosen = NoChoice]
    <3>2. /\ mem.chosen = NoChoice /\ mem.kind = task[c].kind
          /\ mem.started = task[c].started /\ mem.campaign = task[c].campaign
        BY <1>1 DEF TaskRow
    <3>3. MemoryFits("ending", mem) /\ MemoryFits("closing", mem)
        BY <1>1, <2>10, <3>2 DEF AbandonCycle, NoChoice
    <3> QED BY <2>10, <3>3 DEF AbandonCycle
  <2>11. CASE EndRunOfMarkets(c) \/ EndRunOfCampaign(c)
    <3> DEFINE mem == [task[c] EXCEPT !.run = None]
    <3>2. /\ mem.chosen = task[c].chosen /\ mem.kind = task[c].kind
          /\ mem.started = task[c].started /\ mem.campaign = task[c].campaign
        BY <1>1 DEF TaskRow
    <3>3. \A place \in {"recovered", "closing", "done"} : MemoryFits(place, mem)
        BY <1>1, <2>11, <3>2 DEF EndRunOfMarkets, EndRunOfCampaign
    <3> QED BY <2>11, <3>3 DEF EndRunOfMarkets, EndRunOfCampaign
  <2> QED BY <1>4, <2>1, <2>2, <2>3, <2>4, <2>6, <2>7, <2>8, <2>9, <2>10, <2>11, <2>12, <2>13
          DEF Progress
<1> QED BY <1>3, <1>4

(* So does every step.                                                        *)
LEMMA StepKeepsMemories ==
    ASSUME CTypeOK, MemoriesFit, [CNext]_cvars
    PROVE  MemoriesFit'
<1> USE DEF MemoryFits, Visiting
<1>1. CASE Tick
  <2>1. clock' = clock + 1 /\ UNCHANGED <<pc, task>> /\ clock \in Int
      BY <1>1, TimeAssumption DEF Tick, CTypeOK, Time
  <2>2. \A c \in Client : task[c].started \in Int
      BY TaskFields, TimeAssumption DEF TaskRow, Time
  <2> QED BY <2>1, <2>2 DEF MemoriesFit
<1>2. CASE ServerEnds \/ UNCHANGED cvars
    BY <1>2 DEF ServerEnds, Columns, cvars, MemoriesFit
<1>3. ASSUME NEW c \in Client, Disturbance(c) PROVE MemoriesFit'
  <2>1. task[c] \in TaskRow /\ MemoryFits(pc[c], task[c]) /\ MemoryFits("closing", NoTask)
      BY TaskFields DEF MemoriesFit, NoTask, NoChoice
  <2>2. clock' = clock
      BY <1>3 DEF Disturbance, Launch, StatementFails, Raise, CutShort, StopRequested,
         LoseConnection, Killed, Columns
  <2>3. CASE Launch(c)
    <3>1. PICK kind, held : Goto(c, "opened", [NoTask EXCEPT
              !.kind = kind, !.held = held, !.rest = held, !.started = clock])
        BY <2>3 DEF Launch
    <3> DEFINE mem == [NoTask EXCEPT !.kind = kind, !.held = held, !.rest = held,
                                     !.started = clock]
    <3>2. DOMAIN mem.chosen = {} /\ mem.campaign = None /\ mem.started = clock
        BY DEF NoTask, NoChoice
    <3>3. clock \in Nat
        BY TimeAssumption DEF CTypeOK, Time
    <3>4. MemoryFits("opened", mem)
        BY <3>2, <3>3
    <3> QED BY <2>2, <3>1, <3>4, WentFitting
  <2>4. CASE StatementFails(c) \/ CutShort(c)
      BY <2>1, <2>2, <2>4, WentFitting DEF StatementFails, CutShort
  <2>5. CASE Raise(c)
    <3>1. MemoryFits(Unwind(c), task[c])
        BY <2>1, <2>5 DEF Raise, Unwind
    <3> QED BY <2>2, <2>5, <3>1, WentFitting DEF Raise
  <2>6. CASE StopRequested(c)
    <3>1. pc' = pc /\ task' = [task EXCEPT ![c] = [task[c] EXCEPT !.stop = TRUE]]
        BY <2>6 DEF StopRequested
    <3>2. \A d \in Client : /\ task'[d].chosen = task[d].chosen /\ task'[d].kind = task[d].kind
                            /\ task'[d].campaign = task[d].campaign
                            /\ task'[d].started = task[d].started
        BY <2>1, <3>1 DEF CTypeOK, TaskRow
    <3> QED BY <2>2, <3>1, <3>2 DEF MemoriesFit
  <2>7. CASE LoseConnection(c)
      BY <2>2, <2>7 DEF LoseConnection, MemoriesFit
  <2>8. CASE Killed(c)
    <3>1. /\ pc'[c] = "off" /\ task'[c] = NoTask
          /\ \A d \in Client \ {c} : pc'[d] = pc[d] /\ task'[d] = task[d]
        BY <2>8 DEF Killed, CTypeOK
    <3>2. MemoryFits("off", NoTask)
        BY <2>1
    <3> QED BY <2>2, <3>1, <3>2 DEF MemoriesFit
  <2> QED BY <1>3, <2>3, <2>4, <2>5, <2>6, <2>7, <2>8 DEF Disturbance
<1> QED BY <1>1, <1>2, <1>3, ProgressKeepsMemories DEF CNext

-----------------------------------------------------------------------------
(* What a collector remembers of its cycle *)

(* Outside the visits of a cycle nothing is to be remembered.                  *)
LEMMA NothingToRecall ==
    ASSUME NEW place, NEW memory, place \notin Visiting
    PROVE  Recalls(place, memory)'
BY DEF Recalls, Visiting

(* A recollection stays true while what it is about stays the same.           *)
LEMMA SameRecall ==
    ASSUME NEW d \in Client, Recalls(pc[d], task[d]), UNCHANGED <<runs, cycles, attempts, quotes>>,
           pc'[d] = pc[d], task'[d] = task[d]
    PROVE  Recalls(pc[d], task[d])'
<1>1. /\ Recalls(pc[d], task[d])' <=> Recalls(pc[d], task[d])
    BY DEF Recalls, VisitsInHand, PairInHand, AttemptInHand, ChoiceInHand, Numbers, Visits
<1> QED BY <1>1

(* Where a process goes with a true recollection it has one.                  *)
LEMMA WentRecalls ==
    ASSUME CTypeOK, NEW c \in Client, NEW place, NEW memory, Goto(c, place, memory),
           Recalls(place, memory)', CanWrite(c)'
    PROVE  Recalls(pc[c], task[c])'
<1>1. ~failed'[c]
    BY DEF CanWrite, Usable
<1>2. pc'[c] = place /\ (place \in {"closing", "off"} \/ task'[c] = memory)
    BY <1>1 DEF Goto, CTypeOK
<1>3. CASE place \in {"closing", "off"}
    BY <1>2, <1>3 DEF Recalls, Visiting
<1>4. CASE pc'[c] = place /\ task'[c] = memory
  <2>1. Recalls(pc[c], task[c])' <=> Recalls(place, memory)'
      BY <1>4 DEF Recalls, VisitsInHand, PairInHand, AttemptInHand, ChoiceInHand, Numbers, Visits
  <2> QED BY <2>1
<1> QED BY <1>2, <1>3, <1>4

(* What one process does leaves another writer's recollection true.           *)
LEMMA OthersRecall ==
    ASSUME StoreInv, CollectorInv, CyclesRecalled, NEW c \in Client, NEW d \in Client \ {c},
           Progress(c) \/ Disturbance(c), CanWrite(d)'
    PROVE  Recalls(pc[d], task[d])'
<1>1. TypeOK /\ BeliefIsTrue /\ CTypeOK
    BY DEF StoreInv, CollectorInv
<1>2. ClientStep(c) \/ UNCHANGED vars
    BY <1>1, ProgressIsStoreStep, DisturbanceIsStoreStep
<1>3. CanWrite(d)
    BY <1>1, <1>2, OtherSessions DEF CanWrite, Usable, vars, session
<1>4. ~CanWrite(c)
    BY <1>1, <1>3 DEF BeliefIsTrue, CanWrite, Usable
<1>5. UNCHANGED tables
    BY <1>2, <1>4, WritersWrite DEF vars
<1>6. Recalls(pc[d], task[d])
    BY <1>3 DEF CyclesRecalled
<1> QED BY <1>1, <1>5, <1>6, OthersStay, SameRecall DEF tables

(* What is visited are pairs, and none of a new cycle has an attempt.          *)
LEMMA VisitsArePairs ==
    ASSUME TypeOK, NEW r \in Run, NEW m
    PROVE  Visits(r, m) \in SUBSET (Ticker \X Provider)
<1>1. runs[r].held \in SUBSET Ticker
    BY DEF TypeOK, RunRow
<1>2. \A t \in Ticker : SourcesOf[t] \in SUBSET Provider
    BY SlotAssumption
<1> QED BY <1>1, <1>2, SlotAssumption DEF Visits

(* A cycle that is not there yet has no attempts.                             *)
LEMMA NewCycleIsBlank ==
    ASSUME StoreInv, NEW k \in Cycle, cycles[k].status = "absent"
    PROVE  \A a \in Attempt : attempts[a].cycle # k
<1>1. k # None
    BY NoneAssumption
<1>2. NoAttempt.cycle = None
    BY DEF NoAttempt
<1> QED BY <1>1, <1>2 DEF StoreInv, RowsAreLinked

(* A process that just started a cycle has all its pairs to visit, and chose  *)
(* nothing.                                                                   *)
LEMMA EnteredRecalls ==
    ASSUME StoreInv, CTypeOK, MemoriesFit, NEW c \in Client, NEW m, NEW o,
           NEW place \in {"cycle", "late"}, NEW old \in TaskRow,
           EnterCycle(c, m, o, place, old), pc[c] = "run", CanWrite(c)',
           old.run = task[c].run, old.chosen = task[c].chosen
    PROVE  Recalls(pc[c], task[c])'
<1>1. /\ TypeOK /\ task[c].run \in Run /\ DOMAIN task[c].chosen = {}
    BY TaskFields DEF StoreInv, InHand, WorkPlace, MemoriesFit, MemoryFits, Visiting
<1>2. PICK k \in Cycle : k = New(cycles)
    BY <1>1, NewRows
<1>3. PICK T : T = IF place = "late" THEN {} ELSE Visits(task[c].run, m)
    OBVIOUS
<1>4. PICK run : run = task[c].run
    OBVIOUS
<1>5. PICK mem : mem = [old EXCEPT !.cycle = k, !.todo = T]
    OBVIOUS
<1>6. Goto(c, place, mem) /\ StartCycle(c, k, run, m, o)
    BY <1>2, <1>3, <1>4, <1>5 DEF EnterCycle
<1>7. mem.run = run /\ mem.cycle = k /\ mem.todo = T /\ DOMAIN mem.chosen = {}
    BY <1>1, <1>4, <1>5 DEF TaskRow
<1>8. /\ cycles[k].status = "absent" /\ cycles'[k].market = m
      /\ runs' = runs /\ attempts' = attempts
    BY <1>1, <1>6 DEF StartCycle, TypeOK
<1>9. \A a \in Attempt : attempts'[a].cycle # k
    BY <1>8, NewCycleIsBlank
<1>10. CASE place = "cycle"
  <2>1. T = Visits(run, cycles[k].market)'
      BY <1>3, <1>4, <1>8, <1>10 DEF Visits
  <2>2. \A v : Numbers(k, v)' = {}
      BY <1>9 DEF Numbers
  <2>3. VisitsInHand("cycle", mem)'
      BY <1>7, <2>1, <2>2 DEF VisitsInHand
  <2>4. ChoiceInHand(mem)'
      BY <1>7, <1>9 DEF ChoiceInHand
  <2>5. Recalls("cycle", mem)'
      BY <2>3, <2>4 DEF Recalls
  <2> QED BY <1>6, <1>10, <2>5, WentRecalls
<1>11. CASE place = "late"
    BY <1>6, <1>11, WentRecalls, NothingToRecall DEF Visiting
<1> QED BY <1>10, <1>11

(* A new attempt adds its number to its pair, and changes no other.            *)
LEMMA AttemptAddsNumber ==
    ASSUME StoreInv, NEW c \in Client, NEW a \in Attempt, NEW k \in Cycle, NEW t \in Ticker,
           NEW s \in Provider, NEW n \in 1..MaxAttempts, StartAttempt(c, a, k, t, <<s, n>>)
    PROVE  /\ Numbers(k, <<t, s>>)' = Numbers(k, <<t, s>>) \cup {n}
           /\ \A w \in Ticker \X Provider : w # <<t, s>> => Numbers(k, w)' = Numbers(k, w)
<1>1. /\ attempts[a].status = "absent"
      /\ attempts'[a].cycle = k /\ attempts'[a].ticker = t
      /\ attempts'[a].slot[1] = s /\ attempts'[a].slot[2] = n
      /\ \A b \in Attempt \ {a} : attempts'[b] = attempts[b]
    BY DEF StoreInv, StartAttempt, TypeOK
<1>2. attempts[a].cycle # k
  <2>1. k # None
      BY NoneAssumption
  <2>2. NoAttempt.cycle = None
      BY DEF NoAttempt
  <2> QED BY <1>1, <2>1, <2>2 DEF StoreInv, RowsAreLinked
<1>3. ASSUME NEW w
      PROVE  Numbers(k, w)' = {attempts'[b].slot[2] : b \in {x \in Attempt :
                /\ attempts'[x].cycle = k /\ attempts'[x].ticker = w[1]
                /\ attempts'[x].slot[1] = w[2]}}
    BY DEF Numbers
<1>4. Numbers(k, <<t, s>>)' = Numbers(k, <<t, s>>) \cup {n}
    BY <1>1, <1>2, <1>3 DEF Numbers
<1>5. ASSUME NEW w \in Ticker \X Provider, w # <<t, s>>
      PROVE  Numbers(k, w)' = Numbers(k, w)
  <2>1. ~(t = w[1] /\ s = w[2])
      BY <1>5
  <2> QED BY <1>1, <1>2, <1>3, <2>1 DEF Numbers
<1> QED BY <1>4, <1>5

(* A process that begins an attempt recalls it.                               *)
LEMMA BegunRecalls ==
    ASSUME StoreInv, CTypeOK, CyclesRecalled, NEW c \in Client, BeginAttempt(c), CanWrite(c)'
    PROVE  Recalls(pc[c], task[c])'
<1>0. TypeOK
    BY DEF StoreInv
<1>1. /\ task[c] \in TaskRow /\ InHand(pc[c], task[c]) /\ pc[c] \in {"cycle", "retry"}
      /\ task[c].cycle \in Cycle /\ task[c].run \in Run /\ task[c].todo \in SUBSET (Ticker \X Provider)
    BY TaskFields DEF BeginAttempt, InHand, WorkPlace
<1>2. PICK v : /\ v \in IF pc[c] = "cycle" THEN Ready(c) ELSE {task[c].doing}
               /\ LET n == IF pc[c] = "cycle" THEN 1 ELSE task[c].doing[3] + 1
                  IN /\ StartAttempt(c, New(attempts), task[c].cycle, v[1], <<v[2], n>>)
                     /\ Goto(c, "attempt", [task[c] EXCEPT !.todo = @ \ {<<v[1], v[2]>>},
                          !.attempt = New(attempts), !.doing = <<v[1], v[2], n>>])
    BY DEF BeginAttempt
<1>3. PICK t \in Ticker, s \in Provider : t = v[1] /\ s = v[2]
    BY <1>1, <1>2, TaskFields DEF Ready, InHand
<1>4. PICK n \in 1..MaxAttempts : n = IF pc[c] = "cycle" THEN 1 ELSE task[c].doing[3] + 1
    BY <1>1, TaskFields, SlotAssumption DEF InHand
<1>5. PICK a \in Attempt : a = New(attempts)
    BY <1>0, NewRows
<1>6. PICK k \in Cycle, m \in TaskRow : k = task[c].cycle /\ m = task[c]
    BY <1>1
<1>7. PICK mem : mem = [m EXCEPT !.todo = @ \ {<<t, s>>}, !.attempt = a, !.doing = <<t, s, n>>]
    OBVIOUS
<1>8. StartAttempt(c, a, k, t, <<s, n>>) /\ Goto(c, "attempt", mem)
    BY <1>2, <1>3, <1>4, <1>5, <1>6, <1>7
<1>9. /\ mem.todo = m.todo \ {<<t, s>>} /\ mem.attempt = a /\ mem.doing = <<t, s, n>>
      /\ mem.chosen = m.chosen /\ mem.cycle = k /\ mem.run = m.run /\ m.cycle = k
    BY <1>6, <1>7 DEF TaskRow
<1>10. /\ VisitsInHand(pc[c], m) /\ ChoiceInHand(m)
       /\ pc[c] = "retry" => PairInHand(m)
  <2>1. CanWrite(c)
      BY <1>8 DEF StartAttempt, Commit
  <2>2. Recalls(pc[c], m)
      BY <1>6, <2>1 DEF CyclesRecalled
  <2> QED BY <1>1, <2>2 DEF Recalls, Visiting
<1>11. /\ UNCHANGED <<runs, cycles, quotes>>
       /\ attempts[a].status = "absent"
       /\ attempts'[a].status = "started" /\ attempts'[a].cycle = k /\ attempts'[a].ticker = t
       /\ attempts'[a].slot = <<s, n>>
       /\ \A b \in Attempt \ {a} : attempts'[b] = attempts[b]
    BY <1>0, <1>8 DEF StartAttempt, TypeOK
<1>12. /\ Numbers(k, <<t, s>>)' = Numbers(k, <<t, s>>) \cup {n}
       /\ \A w \in Ticker \X Provider : w # <<t, s>> => Numbers(k, w)' = Numbers(k, w)
    BY <1>8, AttemptAddsNumber
<1>13. \/ pc[c] = "cycle" /\ <<t, s>> \in m.todo /\ n = 1
       \/ pc[c] = "retry" /\ m.doing[1] = t /\ m.doing[2] = s /\ n = m.doing[3] + 1
            /\ m.doing[3] \in 1..MaxAttempts
  <2>1. CASE pc[c] = "cycle"
    <3>1. v \in m.todo
        BY <1>2, <1>6, <2>1 DEF Ready
    <3>2. v = <<t, s>>
        BY <1>1, <1>3, <1>6, <3>1
    <3> QED BY <1>4, <2>1, <3>1, <3>2
  <2>2. CASE pc[c] = "retry"
    <3>1. v = m.doing /\ m.doing \in Ticker \X Provider \X (1..MaxAttempts)
        BY <1>1, <1>2, <1>6, <2>2, TaskFields DEF InHand
    <3> QED BY <1>3, <1>4, <1>6, <2>2, <3>1
  <2> QED BY <1>1, <2>1, <2>2
<1>14. PairInHand(mem)'
  <2>1. Numbers(k, <<t, s>>)' = 1..n
    <3>1. CASE pc[c] = "cycle"
      <4>1. Numbers(k, <<t, s>>) = {} /\ n = 1
          BY <1>9, <1>10, <1>13, <3>1 DEF VisitsInHand
      <4> QED BY <1>12, <4>1
    <3>2. CASE pc[c] = "retry"
      <4>1. Numbers(k, <<t, s>>) = 1..m.doing[3] /\ n = m.doing[3] + 1
          BY <1>9, <1>10, <1>13, <3>2 DEF PairInHand
      <4>2. m.doing[3] \in Nat
          BY <1>13, <3>2, SlotAssumption
      <4>3. (1..m.doing[3]) \cup {m.doing[3] + 1} = 1..(m.doing[3] + 1)
          BY <4>2
      <4> QED BY <1>12, <4>1, <4>3
    <3> QED BY <1>13, <3>1, <3>2
  <2>2. \A b \in Attempt : attempts[b].cycle = k /\ attempts[b].ticker = t
                             /\ attempts[b].slot[1] = s => attempts[b].status # "success"
    <3>1. CASE pc[c] = "cycle"
      <4>1. Numbers(k, <<t, s>>) = {}
          BY <1>9, <1>10, <1>13, <3>1 DEF VisitsInHand
      <4> QED BY <4>1 DEF Numbers
    <3>2. CASE pc[c] = "retry"
        BY <1>9, <1>10, <1>13, <3>2 DEF PairInHand
    <3> QED BY <1>13, <3>1, <3>2
  <2>3. /\ mem.doing[1] = t /\ mem.doing[2] = s /\ mem.doing[3] = n
        /\ <<t, s>> \notin mem.todo
      BY <1>9
  <2>4. \A b \in Attempt : attempts'[b].cycle = k /\ attempts'[b].ticker = t
                             /\ attempts'[b].slot[1] = s => attempts'[b].status # "success"
      BY <1>11, <2>2
  <2> QED BY <1>9, <2>1, <2>3, <2>4 DEF PairInHand
<1>15. AttemptInHand(mem)'
    BY <1>9, <1>11 DEF AttemptInHand
<1>16. VisitsInHand("attempt", mem)'
  <2>1. \A w \in mem.todo : Numbers(k, w)' = {}
      BY <1>1, <1>6, <1>9, <1>10, <1>12 DEF VisitsInHand
  <2>2. Visits(m.run, cycles[k].market)' = Visits(m.run, cycles[k].market)
      BY <1>11 DEF Visits
  <2>3. ASSUME NEW w \in Visits(m.run, cycles[k].market), w \notin mem.todo, w # <<t, s>>
        PROVE  \E i \in 1..MaxAttempts : Numbers(k, w)' = 1..i
    <3>1. w \in Ticker \X Provider
        BY <1>0, <1>1, <1>6, <2>3, VisitsArePairs
    <3>2. w \notin m.todo
        BY <1>9, <2>3
    <3>3. \E i \in 1..MaxAttempts : Numbers(k, w) = 1..i
        BY <1>9, <1>10, <1>13, <2>3, <3>2 DEF VisitsInHand
    <3> QED BY <1>12, <2>3, <3>1, <3>3
  <2> QED BY <1>9, <2>1, <2>2, <2>3 DEF VisitsInHand
<1>17. ChoiceInHand(mem)'
  <2>1. \A b \in Attempt : quotes[b] # "none" => b # a
      BY <1>11 DEF StoreInv, QuoteIffSuccess
  <2> QED BY <1>9, <1>10, <1>11, <2>1 DEF ChoiceInHand
<1>18. Recalls("attempt", mem)'
    BY <1>14, <1>15, <1>16, <1>17 DEF Recalls
<1> QED BY <1>8, <1>18, WentRecalls

(* The end of a visit: what was selected for the holding in hand is a new      *)
(* quote as it is, or rests on a stored one.                                   *)
LEMMA SelectedChoice ==
    ASSUME StoreInv, CTypeOK, NEW c \in Client, pc[c] = "attempt", NEW result \in Results(c),
           NEW chosen \in Selected(c, result), ChoiceInHand(task[c]), PairInHand(task[c]),
           AttemptInHand(task[c]), FinishAttempt(c, task[c].attempt, result),
           NEW mem, mem.cycle = task[c].cycle, mem.chosen = chosen
    PROVE  ChoiceInHand(mem)'
<1>0. TypeOK /\ QuoteIffSuccess
    BY DEF StoreInv
<1>1. PICK m \in TaskRow : m = task[c]
    BY TaskFields
<1>2. PICK t \in Ticker, s \in Provider, a \in Attempt :
          t = m.doing[1] /\ s = m.doing[2] /\ a = m.attempt
    BY <1>1, TaskFields DEF InHand
<1>3. /\ ChoiceInHand(m) /\ PairInHand(m) /\ AttemptInHand(m) /\ mem.cycle = m.cycle
    BY <1>1
<1>4. /\ attempts[a].status = "started"
      /\ attempts' = [attempts EXCEPT ![a].status = Outcome(result), ![a].stamp = "closed"]
      /\ quotes' = IF result \in {"usable", "unusable"} THEN [quotes EXCEPT ![a] = result]
                                                          ELSE quotes
    BY <1>1, <1>2 DEF FinishAttempt
<1>5. /\ attempts'[a].status = Outcome(result) /\ attempts'[a].cycle = attempts[a].cycle
      /\ attempts'[a].ticker = attempts[a].ticker /\ attempts'[a].slot = attempts[a].slot
      /\ \A b \in Attempt \ {a} : attempts'[b] = attempts[b] /\ quotes'[b] = quotes[b]
      /\ quotes'[a] = IF result \in {"usable", "unusable"} THEN result ELSE quotes[a]
    BY <1>0, <1>4 DEF TypeOK, AttemptRow
<1>6. /\ attempts[a].cycle = m.cycle /\ attempts[a].ticker = t /\ attempts[a].slot[1] = s
    BY <1>2, <1>3 DEF AttemptInHand
<1>7. quotes[a] = "none"
    BY <1>0, <1>4 DEF QuoteIffSuccess, TypeOK
<1>8. /\ result \in {"usable", "unusable", "failure", "interrupted"}
      /\ result \in {"usable", "unusable"} => t \notin Unresolved
    BY <1>1, <1>2 DEF Results
<1>9. \A b \in Attempt : attempts[b].cycle = m.cycle /\ attempts[b].ticker = t
                           /\ attempts[b].slot[1] = s => attempts[b].status # "success"
    BY <1>2, <1>3 DEF PairInHand
(* What was selected before, and every earlier quote of the cycle, stays.      *)
<1>10. /\ \A x \in DOMAIN m.chosen :
            /\ m.chosen[x] \in Attempt /\ m.chosen[x] # a /\ quotes'[m.chosen[x]] # "none"
            /\ attempts'[m.chosen[x]].ticker = x /\ attempts'[m.chosen[x]].slot[1] = Valuation
       /\ \A b \in Attempt \ {a} :
            attempts'[b].cycle = m.cycle /\ attempts'[b].slot[1] = Valuation
              /\ attempts'[b].status = "success"
            => /\ attempts'[b].ticker \in DOMAIN m.chosen
               /\ m.chosen[attempts'[b].ticker] = b
    BY <1>3, <1>5, <1>7 DEF ChoiceInHand
<1>11. CASE s # Valuation \/ t \in Unresolved
  <2>1. chosen = m.chosen
      BY <1>1, <1>2, <1>11 DEF Selected
  <2>2. ~(attempts'[a].slot[1] = Valuation /\ attempts'[a].status = "success")
      BY <1>5, <1>6, <1>8, <1>11 DEF Outcome
  <2> QED BY <1>3, <1>10, <2>1, <2>2 DEF ChoiceInHand
<1>12. CASE s = Valuation /\ t \notin Unresolved
  <2> DEFINE extended(b) == [x \in DOMAIN m.chosen \cup {t} |->
                                IF x = t THEN b ELSE m.chosen[x]]
  <2>1. ASSUME NEW b \in Attempt, chosen = extended(b), quotes'[b] # "none",
               attempts'[b].ticker = t, attempts'[b].slot[1] = Valuation,
               attempts'[a].status = "success" => b = a
        PROVE  ChoiceInHand(mem)'
    <3>1. /\ DOMAIN chosen = DOMAIN m.chosen \cup {t} /\ chosen[t] = b
          /\ \A x \in DOMAIN m.chosen : x # t => chosen[x] = m.chosen[x]
        BY <2>1
    <3>2. \A x \in DOMAIN chosen :
            /\ chosen[x] \in Attempt /\ quotes'[chosen[x]] # "none"
            /\ attempts'[chosen[x]].ticker = x /\ attempts'[chosen[x]].slot[1] = Valuation
        BY <1>10, <2>1, <3>1
    <3>3. ASSUME NEW d \in Attempt, attempts'[d].cycle = m.cycle,
                 attempts'[d].slot[1] = Valuation, attempts'[d].status = "success"
          PROVE  attempts'[d].ticker \in DOMAIN chosen /\ chosen[attempts'[d].ticker] = d
      <4>1. CASE d = a
          BY <1>5, <1>6, <2>1, <3>1, <3>3, <4>1
      <4>2. CASE d # a
        <5>1. attempts'[d].ticker \in DOMAIN m.chosen /\ m.chosen[attempts'[d].ticker] = d
            BY <1>10, <3>3, <4>2
        <5>2. attempts'[d] = attempts[d]
            BY <1>5, <4>2
        <5>3. attempts'[d].ticker # t
            BY <1>9, <1>12, <3>3, <5>2
        <5> QED BY <3>1, <5>1, <5>3
      <4> QED BY <4>1, <4>2
    <3> QED BY <1>3, <3>2, <3>3 DEF ChoiceInHand
  <2>2. CASE result \in {"usable", "unusable"}
    <3>1. chosen = extended(a)
        BY <1>1, <1>2, <1>12, <2>2 DEF Selected
    <3> HIDE DEF extended
    <3> QED BY <1>5, <1>6, <1>12, <2>1, <2>2, <3>1
  <2>3. CASE result \notin {"usable", "unusable"}
    <3>1. attempts'[a].status # "success"
        BY <1>5, <1>8, <2>3 DEF Outcome
    <3>2. chosen = m.chosen \/ \E b \in Cached(t) : chosen = extended(b)
        BY <1>1, <1>2, <1>12, <2>3 DEF Selected
    <3>3. CASE chosen = m.chosen
        BY <1>3, <1>10, <3>1, <3>3 DEF ChoiceInHand
    <3>4. ASSUME NEW b \in Cached(t), chosen = extended(b) PROVE ChoiceInHand(mem)'
      <4>1. b \in Attempt /\ quotes[b] = "usable" /\ attempts[b].ticker = t
            /\ attempts[b].slot[1] = Valuation
          BY DEF Cached
      <4>2. b # a
          BY <1>7, <4>1
      <4> HIDE DEF extended
      <4> QED BY <1>5, <2>1, <3>1, <3>4, <4>1, <4>2
    <3> QED BY <3>2, <3>3, <3>4
  <2> QED BY <2>2, <2>3
<1> QED BY <1>11, <1>12

(* A process that ends an attempt recalls what became of it.                  *)
LEMMA EndedRecalls ==
    ASSUME StoreInv, CTypeOK, CyclesRecalled, NEW c \in Client, EndAttempt(c), CanWrite(c)'
    PROVE  Recalls(pc[c], task[c])'
<1>0. TypeOK /\ QuoteIffSuccess
    BY DEF StoreInv
<1>1. /\ task[c] \in TaskRow /\ InHand("attempt", task[c]) /\ pc[c] = "attempt"
      /\ task[c].cycle \in Cycle /\ task[c].run \in Run /\ task[c].attempt \in Attempt
      /\ task[c].todo \in SUBSET (Ticker \X Provider)
      /\ task[c].doing \in Ticker \X Provider \X (1..MaxAttempts)
    BY TaskFields DEF EndAttempt, InHand, WorkPlace
<1>2. PICK m \in TaskRow, k \in Cycle, a \in Attempt :
          m = task[c] /\ k = task[c].cycle /\ a = task[c].attempt
    BY <1>1
<1>3. PICK result \in Results(c) :
        /\ FinishAttempt(c, task[c].attempt, result)
        /\ \/ \E chosen \in Selected(c, result) :
                 Goto(c, AfterVisit(c), [task[c] EXCEPT !.attempt = None, !.doing = None,
                                                        !.chosen = chosen])
           \/ result = "failure" /\ Goto(c, "retry", [task[c] EXCEPT !.attempt = None])
    BY DEF EndAttempt
<1>4. VisitsInHand("attempt", m) /\ ChoiceInHand(m) /\ PairInHand(m) /\ AttemptInHand(m)
  <2>1. CanWrite(c)
      BY <1>3 DEF FinishAttempt, Commit
  <2>2. Recalls("attempt", m)
      BY <1>1, <1>2, <2>1 DEF CyclesRecalled
  <2> QED BY <2>2 DEF Recalls, Visiting
<1>5. /\ UNCHANGED <<runs, cycles>> /\ attempts[a].status = "started"
      /\ attempts'[a].status = Outcome(result)
      /\ \A b \in Attempt : /\ attempts'[b].cycle = attempts[b].cycle
                            /\ attempts'[b].ticker = attempts[b].ticker
                            /\ attempts'[b].slot = attempts[b].slot
      /\ \A b \in Attempt \ {a} : attempts'[b] = attempts[b]
    BY <1>0, <1>2, <1>3, ZenonT(40) DEF FinishAttempt, TypeOK, AttemptRow
<1>6. \A w : Numbers(k, w)' = Numbers(k, w)
  <2> SUFFICES ASSUME NEW w PROVE Numbers(k, w)' = Numbers(k, w)
      OBVIOUS
  <2>1. Numbers(k, w)' = {attempts'[b].slot[2] : b \in {x \in Attempt :
            /\ attempts'[x].cycle = k /\ attempts'[x].ticker = w[1]
            /\ attempts'[x].slot[1] = w[2]}}
      BY DEF Numbers
  <2> QED BY <1>5, <2>1 DEF Numbers
<1>7. \A w \in Visits(m.run, cycles[k].market)' \ m.todo :
          \E i \in 1..MaxAttempts : Numbers(k, w)' = 1..i
  <2>1. Visits(m.run, cycles[k].market)' = Visits(m.run, cycles[k].market)
      BY <1>5 DEF Visits
  <2>2. Numbers(k, <<m.doing[1], m.doing[2]>>) = 1..m.doing[3] /\ m.doing[3] \in 1..MaxAttempts
      BY <1>1, <1>2, <1>4 DEF PairInHand
  <2> QED BY <1>2, <1>4, <1>6, <2>1, <2>2 DEF VisitsInHand
<1>8. \A w \in m.todo : Numbers(k, w)' = {}
    BY <1>2, <1>4, <1>6 DEF VisitsInHand
<1>9. CASE \E chosen \in Selected(c, result) :
             Goto(c, AfterVisit(c), [task[c] EXCEPT !.attempt = None, !.doing = None,
                                                    !.chosen = chosen])
  <2>1. PICK chosen \in Selected(c, result) :
             Goto(c, AfterVisit(c), [task[c] EXCEPT !.attempt = None, !.doing = None,
                                                    !.chosen = chosen])
      BY <1>9
  <2>2. PICK mem : mem = [m EXCEPT !.attempt = None, !.doing = None, !.chosen = chosen]
      OBVIOUS
  <2>3. /\ mem.cycle = k /\ mem.run = m.run /\ mem.todo = m.todo /\ mem.chosen = chosen
      BY <1>2, <2>2 DEF TaskRow
  <2>4. ChoiceInHand(mem)'
      BY <1>1, <1>2, <1>3, <1>4, <2>3, SelectedChoice
  <2>5. VisitsInHand("cycle", mem)'
      BY <1>7, <1>8, <2>3 DEF VisitsInHand
  <2>6. Recalls("cycle", mem)' /\ Recalls("stopping", mem)'
      BY <2>4, <2>5 DEF Recalls, Visiting
  <2>7. Goto(c, "cycle", mem) \/ Goto(c, "stopping", mem)
      BY <1>2, <2>1, <2>2 DEF AfterVisit
  <2> QED BY <2>6, <2>7, WentRecalls
<1>10. CASE result = "failure" /\ Goto(c, "retry", [task[c] EXCEPT !.attempt = None])
  <2>1. PICK mem : mem = [m EXCEPT !.attempt = None]
      OBVIOUS
  <2>2. /\ mem.cycle = k /\ mem.run = m.run /\ mem.todo = m.todo /\ mem.chosen = m.chosen
        /\ mem.doing = m.doing /\ m.cycle = k
      BY <1>2, <2>1 DEF TaskRow
  <2>3. quotes' = quotes /\ attempts'[a].status = "failure" /\ quotes[a] = "none"
      BY <1>0, <1>2, <1>3, <1>5, <1>10 DEF FinishAttempt, Outcome, QuoteIffSuccess, TypeOK
  <2>4. ChoiceInHand(mem)'
      BY <1>4, <1>5, <2>2, <2>3 DEF ChoiceInHand
  <2>5. PairInHand(mem)'
    <3>1. \A b \in Attempt : attempts'[b].cycle = k /\ attempts'[b].ticker = m.doing[1]
             /\ attempts'[b].slot[1] = m.doing[2] => attempts'[b].status # "success"
        BY <1>4, <1>5, <2>2, <2>3 DEF PairInHand
    <3> QED BY <1>4, <1>6, <2>2, <3>1 DEF PairInHand
  <2>6. VisitsInHand("retry", mem)'
      BY <1>7, <1>8, <2>2 DEF VisitsInHand
  <2>7. Recalls("retry", mem)'
      BY <2>4, <2>5, <2>6 DEF Recalls
  <2>8. Goto(c, "retry", mem)
      BY <1>2, <1>10, <2>1
  <2> QED BY <2>7, <2>8, WentRecalls
<1> QED BY <1>3, <1>9, <1>10

(* A process that has just written remembers its cycle as it is.               *)
LEMMA OwnProgressRecalls ==
    ASSUME StoreInv, CTypeOK, MemoriesFit, CyclesRecalled, NEW c \in Client, Progress(c),
           CanWrite(c)'
    PROVE  Recalls(pc[c], task[c])'
<1>1. TypeOK /\ task[c] \in TaskRow
    BY TaskFields DEF StoreInv
<1>2. CASE BeginMarket(c)
  <2>1. PICK m \in task[c].markets :
          EnterCycle(c, m, None, "cycle", [task[c] EXCEPT !.markets = @ \ {m}])
      BY <1>2 DEF BeginMarket
  <2> DEFINE old == [task[c] EXCEPT !.markets = @ \ {m}]
  <2>2. old \in TaskRow /\ old.run = task[c].run /\ old.chosen = task[c].chosen
      BY <1>1 DEF TaskRow
  <2>3. pc[c] = "run" /\ EnterCycle(c, m, None, "cycle", old)
      BY <1>2, <2>1 DEF BeginMarket
  <2> HIDE DEF old
  <2> QED BY <2>2, <2>3, EnteredRecalls
<1>3. CASE BeginOpportunity(c)
  <2>1. PICK o \in Earliest(c), place \in {"cycle", "late"} :
          EnterCycle(c, o[2], o, place, [task[c] EXCEPT !.left = @ \ {o}])
      BY <1>3 DEF BeginOpportunity
  <2> DEFINE old == [task[c] EXCEPT !.left = @ \ {o}]
  <2>2. old \in TaskRow /\ old.run = task[c].run /\ old.chosen = task[c].chosen
      BY <1>1 DEF TaskRow
  <2>3. PICK m : m = o[2]
      OBVIOUS
  <2>4. pc[c] = "run" /\ EnterCycle(c, m, o, place, old)
      BY <1>3, <2>1, <2>3 DEF BeginOpportunity
  <2> HIDE DEF old
  <2> QED BY <2>2, <2>4, EnteredRecalls
<1>4. CASE BeginAttempt(c)
    BY <1>4, BegunRecalls
<1>5. CASE EndAttempt(c)
    BY <1>5, EndedRecalls
<1>6. ASSUME NEW place \in {"closing", "locked", "recovered", "planned", "run", "stopping",
                            "ending", "done"}, NEW memory, Goto(c, place, memory)
      PROVE  Recalls(pc[c], task[c])'
  <2>1. pc'[c] \notin Visiting
      BY <1>6 DEF Goto, CTypeOK, Visiting
  <2> QED BY <2>1 DEF Recalls, Visiting
<1>7. CASE Leave(c)
  <2>1. pc'[c] \notin Visiting
      BY <1>7 DEF Leave, CTypeOK, Visiting
  <2> QED BY <2>1 DEF Recalls, Visiting
<1> QED BY <1>2, <1>3, <1>4, <1>5, <1>6, <1>7 DEF Progress, TakeLock, Refused, Recover,
        ResumeCampaign, BeginCampaign, BeginRun, SkipLate, NoticeStop, EndCycle, AbandonCycle,
        EndRunOfMarkets, EndRunOfCampaign, EndCampaign, AbandonRun

(* A process that was disturbed and can still write recalls its cycle.        *)
LEMMA OwnDisturbanceRecalls ==
    ASSUME StoreInv, CTypeOK, CyclesRecalled, NEW c \in Client, Disturbance(c), CanWrite(c)'
    PROVE  Recalls(pc[c], task[c])'
<1>1. TypeOK /\ task[c] \in TaskRow
    BY TaskFields DEF StoreInv
<1>2. ~LoseConnection(c) /\ ~Killed(c)
    BY <1>1 DEF LoseConnection, ConnectionLost, Killed, Crash, CanWrite, Usable, TypeOK
<1>3. CASE Launch(c) \/ StatementFails(c) \/ CutShort(c) \/ Raise(c)
  <2>1. pc'[c] \notin Visiting
      BY <1>3 DEF Launch, StatementFails, CutShort, Raise, Unwind, Goto, CTypeOK, Visiting
  <2> QED BY <2>1 DEF Recalls, Visiting
<1>4. CASE StopRequested(c)
  <2>1. task'[c] = [task[c] EXCEPT !.stop = TRUE] /\ pc' = pc /\ UNCHANGED vars
      BY <1>4 DEF StopRequested, CTypeOK
  <2>2. /\ task'[c].run = task[c].run /\ task'[c].cycle = task[c].cycle
        /\ task'[c].attempt = task[c].attempt /\ task'[c].todo = task[c].todo
        /\ task'[c].doing = task[c].doing /\ task'[c].chosen = task[c].chosen
      BY <1>1, <2>1 DEF TaskRow
  <2>3. Recalls(pc[c], task[c])
      BY <2>1 DEF CyclesRecalled, CanWrite, Usable, vars, session
  <2>4. Recalls(pc[c], task[c])' <=> Recalls(pc[c], task[c])
      BY <2>1, <2>2 DEF Recalls, VisitsInHand, PairInHand, AttemptInHand, ChoiceInHand, Numbers,
         Visits, vars, tables
  <2> QED BY <2>3, <2>4
<1> QED BY <1>2, <1>3, <1>4 DEF Disturbance

(* A cycle that is completed took its valuations from what was remembered.     *)
LEMMA EndedCycleIsSound ==
    ASSUME StoreInv, CollectorInv, CyclesRecalled, NEW c \in Client, EndCycle(c),
           NEW k \in Cycle, k = task[c].cycle
    PROVE  /\ \A t \in Group(k)' :
                /\ valuations'[k][t] # None =>
                      /\ attempts'[valuations'[k][t]].ticker = t
                      /\ attempts'[valuations'[k][t]].slot[1] = Valuation
                /\ \A a \in Attempt :
                      /\ attempts'[a].cycle = k /\ attempts'[a].ticker = t
                      /\ attempts'[a].slot[1] = Valuation /\ attempts'[a].status = "success"
                      => valuations'[k][t] = a
           /\ \A t \in Group(k)' : \A s \in (IF t \in Unresolved THEN {Valuation}
                                                                ELSE SourcesOf[t]) :
                \E n \in 1..MaxAttempts : Numbers(k, <<t, s>>)' = 1..n
<1>0. TypeOK /\ CTypeOK
    BY DEF StoreInv, CollectorInv
<1>1. PICK m \in TaskRow : m = task[c] /\ m.cycle = k /\ m.todo = {} /\ pc[c] = "cycle"
    BY <1>0, TaskFields DEF EndCycle
<1>2. FinishCycle(c, k, m.chosen)
    BY <1>1 DEF EndCycle
<1>3. CanWrite(c)
    BY <1>2 DEF FinishCycle, Commit
<1>4. VisitsInHand("cycle", m) /\ ChoiceInHand(m)
    BY <1>1, <1>3 DEF CyclesRecalled, Recalls, Visiting
<1>5. cycles[k].run = m.run
    BY <1>1, <1>3, NoneAssumption DEF CollectorInv, OwnWorkIsUntouched, Working, WorkPlace
<1>6. /\ UNCHANGED <<runs, attempts>>
      /\ cycles'[k].run = cycles[k].run /\ cycles'[k].market = cycles[k].market
      /\ \A t \in Group(k) : valuations'[k][t] = IF t \in DOMAIN m.chosen THEN m.chosen[t] ELSE None
      /\ Group(k) \in SUBSET Ticker
  <2>1. runs' = runs /\ attempts' = attempts
      BY <1>2 DEF FinishCycle
  <2>2. cycles'[k].run = cycles[k].run /\ cycles'[k].market = cycles[k].market
    <3>1. cycles' = [cycles EXCEPT ![k].status = "completed", ![k].stamp = "closed"]
        BY <1>2 DEF FinishCycle
    <3>2. "completed" \in CycleStatus
        BY DEF CycleStatus
    <3> QED BY <1>0, <3>1, <3>2, CycleEnds
  <2>3. Group(k) \in SUBSET Ticker
    <3>1. m.run \in Run /\ runs[m.run].held \in SUBSET Ticker
        BY <1>0, <1>1, TaskFields DEF InHand, WorkPlace, TypeOK, RunRow
    <3> QED BY <1>5, <3>1 DEF Group
  <2>4. \A t \in Group(k) : valuations'[k][t] = IF t \in DOMAIN m.chosen THEN m.chosen[t] ELSE None
      BY <1>0, <1>2, <2>3 DEF FinishCycle, TypeOK
  <2> QED BY <2>1, <2>2, <2>3, <2>4
<1>7. Group(k)' = Group(k)
    BY <1>6 DEF Group
<1>8. ASSUME NEW t \in Group(k)
      PROVE  /\ valuations'[k][t] # None =>
                    /\ attempts'[valuations'[k][t]].ticker = t
                    /\ attempts'[valuations'[k][t]].slot[1] = Valuation
             /\ \A a \in Attempt :
                    /\ attempts'[a].cycle = k /\ attempts'[a].ticker = t
                    /\ attempts'[a].slot[1] = Valuation /\ attempts'[a].status = "success"
                    => valuations'[k][t] = a
    BY <1>1, <1>4, <1>6, <1>8 DEF ChoiceInHand
<1>9. ASSUME NEW t \in Group(k),
             NEW s \in (IF t \in Unresolved THEN {Valuation} ELSE SourcesOf[t])
      PROVE  \E n \in 1..MaxAttempts : Numbers(k, <<t, s>>)' = 1..n
  <2>1. <<t, s>> \in Visits(m.run, cycles[k].market)
      BY <1>5, <1>9 DEF Visits, Group
  <2>2. Numbers(k, <<t, s>>)' = Numbers(k, <<t, s>>)
      BY <1>6 DEF Numbers
  <2> QED BY <1>1, <1>4, <2>1, <2>2 DEF VisitsInHand
<1>10. \A t \in Group(k) : \A s \in (IF t \in Unresolved THEN {Valuation} ELSE SourcesOf[t]) :
         \E n \in 1..MaxAttempts : Numbers(k, <<t, s>>)' = 1..n
    BY <1>9
<1>11. \A t \in Group(k)' :
          /\ valuations'[k][t] # None =>
                /\ attempts'[valuations'[k][t]].ticker = t
                /\ attempts'[valuations'[k][t]].slot[1] = Valuation
          /\ \A a \in Attempt :
                /\ attempts'[a].cycle = k /\ attempts'[a].ticker = t
                /\ attempts'[a].slot[1] = Valuation /\ attempts'[a].status = "success"
                => valuations'[k][t] = a
    BY <1>7, <1>8
<1>12. \A t \in Group(k)' : \A s \in (IF t \in Unresolved THEN {Valuation} ELSE SourcesOf[t]) :
          \E n \in 1..MaxAttempts : Numbers(k, <<t, s>>)' = 1..n
    BY <1>7, <1>10
<1> QED BY <1>11, <1>12

(* The invariant of the visits is inductive.                                  *)
LEMMA StepVisitInv ==
    ASSUME StoreInv, CollectorInv, MemoriesFit, VisitInv, [CNext]_cvars
    PROVE  VisitInv'
<1>0. /\ TypeOK /\ CTypeOK /\ CyclesRecalled /\ FreshBeatsCache /\ EveryHoldingWasAsked
      /\ [Next]_vars
    BY StepIsStoreStep DEF StoreInv, CollectorInv, VisitInv
<1>1. CyclesRecalled'
  <2>1. ASSUME NEW c \in Client, Progress(c) \/ Disturbance(c) PROVE CyclesRecalled'
    <3>1. \A d \in Client : CanWrite(d)' => Recalls(pc[d], task[d])'
        BY <1>0, <2>1, OwnProgressRecalls, OwnDisturbanceRecalls, OthersRecall
    <3> QED BY <3>1 DEF CyclesRecalled
  <2>2. CASE Tick \/ ServerEnds \/ UNCHANGED cvars
    <3>1. UNCHANGED <<conn, failed, locked, runs, cycles, attempts, quotes, pc, task>>
        BY <2>2 DEF Tick, ServerEnds, SessionEnds, cvars, vars, session, tables
    <3>2. \A d \in Client : CanWrite(d)' => Recalls(pc[d], task[d])'
        BY <1>0, <3>1, SameRecall DEF CyclesRecalled, CanWrite, Usable
    <3> QED BY <3>2 DEF CyclesRecalled
  <2> QED BY <2>1, <2>2 DEF CNext
<1>2. ASSUME NEW k \in Cycle, cycles'[k].status = "completed", cycles[k].status = "completed"
      PROVE  /\ \A t \in Ticker : t \in Group(k)' =>
                  /\ valuations'[k][t] # None =>
                        /\ attempts'[valuations'[k][t]].ticker = t
                        /\ attempts'[valuations'[k][t]].slot[1] = Valuation
                  /\ \A a \in Attempt :
                        /\ attempts'[a].cycle = k /\ attempts'[a].ticker = t
                        /\ attempts'[a].slot[1] = Valuation /\ attempts'[a].status = "success"
                        => valuations'[k][t] = a
             /\ \A t \in Group(k)' : \A s \in (IF t \in Unresolved THEN {Valuation}
                                                                  ELSE SourcesOf[t]) :
                  \E n \in 1..MaxAttempts : Numbers(k, <<t, s>>)' = 1..n
  <2>1. /\ valuations'[k] = valuations[k] /\ Group(k)' = Group(k)
        /\ \A a \in Attempt : attempts'[a].cycle = k \/ attempts[a].cycle = k
                               => attempts'[a] = attempts[a]
        /\ \A v : Numbers(k, v)' = Numbers(k, v)
      BY <1>0, <1>2, CompletedStay
  <2>2. ASSUME NEW t \in Ticker, t \in Group(k), valuations[k][t] # None
        PROVE  attempts'[valuations[k][t]] = attempts[valuations[k][t]]
    <3>1. valuations[k][t] \in Attempt
        BY <1>0, <1>2, <2>2 DEF StoreInv, CompletedIffValued, TypeOK
    <3>2. attempts[valuations[k][t]].status = "success"
        BY <1>0, <2>2, <3>1 DEF StoreInv, ValuationHasQuote, QuoteIffSuccess
    <3> QED BY <1>0, <3>1, <3>2, StepKeepsEndedRows DEF KeepsEndedRows
  <2>3. ASSUME NEW t \in Ticker, t \in Group(k)
        PROVE  /\ valuations[k][t] # None => /\ attempts[valuations[k][t]].ticker = t
                                             /\ attempts[valuations[k][t]].slot[1] = Valuation
               /\ \A a \in Attempt :
                    /\ attempts[a].cycle = k /\ attempts[a].ticker = t
                    /\ attempts[a].slot[1] = Valuation /\ attempts[a].status = "success"
                    => valuations[k][t] = a
      BY <1>0, <1>2, <2>3 DEF FreshBeatsCache
  <2>4. \A t \in Group(k) : \A s \in (IF t \in Unresolved THEN {Valuation} ELSE SourcesOf[t]) :
            \E n \in 1..MaxAttempts : Numbers(k, <<t, s>>) = 1..n
      BY <1>0, <1>2 DEF EveryHoldingWasAsked
  <2> QED BY <2>1, <2>2, <2>3, <2>4
<1>3. ASSUME NEW k \in Cycle, cycles'[k].status = "completed", cycles[k].status # "completed"
      PROVE  \E c \in Client : EndCycle(c) /\ k = task[c].cycle
    BY <1>3, CompletedByEndCycle
<1>4. FreshBeatsCache'
  <2> SUFFICES ASSUME NEW k \in Cycle, NEW t \in Ticker, cycles'[k].status = "completed",
                      t \in Group(k)'
               PROVE  /\ valuations'[k][t] # None =>
                            /\ attempts'[valuations'[k][t]].ticker = t
                            /\ attempts'[valuations'[k][t]].slot[1] = Valuation
                      /\ \A a \in Attempt :
                            /\ attempts'[a].cycle = k /\ attempts'[a].ticker = t
                            /\ attempts'[a].slot[1] = Valuation
                            /\ attempts'[a].status = "success"
                            => valuations'[k][t] = a
      BY DEF FreshBeatsCache
  <2>1. CASE cycles[k].status = "completed"
      BY <1>2, <2>1
  <2>2. CASE cycles[k].status # "completed"
    <3>1. PICK c \in Client : EndCycle(c) /\ k = task[c].cycle
        BY <1>3, <2>2
    <3> QED BY <1>0, <3>1, EndedCycleIsSound
  <2> QED BY <2>1, <2>2
<1>5. EveryHoldingWasAsked'
    BY <1>0, <1>2, <1>3, EndedCycleIsSound DEF EveryHoldingWasAsked
<1> QED BY <1>1, <1>4, <1>5 DEF VisitInv

(* It holds before any program is started.                                    *)
LEMMA InitVisitInv == CInit => VisitInv
BY DEF CInit, Init, VisitInv, CyclesRecalled, CanWrite, Usable, FreshBeatsCache,
       EveryHoldingWasAsked, NoCycle

(* It holds in every state, beside the invariants it rests on.                *)
LEMMA CyclesAreRecalled == CSpec => [](StoreInv /\ CollectorInv /\ MemoriesFit /\ VisitInv)
<1>1. CInit => StoreInv /\ CollectorInv /\ MemoriesFit /\ VisitInv
    BY InitStoreInv, InitCollector, InitMemories, InitVisitInv DEF CInit
<1>2. StoreInv /\ CollectorInv /\ MemoriesFit /\ VisitInv /\ [CNext]_cvars
        => (StoreInv /\ CollectorInv /\ MemoriesFit /\ VisitInv)'
  <2>1. StoreInv /\ CollectorInv => TypeOK /\ CTypeOK
      BY DEF StoreInv, CollectorInv
  <2> QED BY <2>1, StepIsStoreStep, NextStoreInv, StepCollectorInv, StepKeepsMemories,
             StepVisitInv
<1> QED BY <1>1, <1>2, PTL DEF CSpec

(* A valuation rests on the valuation source's quote for that very holding,    *)
(* and on the cycle's own quote whenever it obtained one: whatever attempts    *)
(* failed, were retried or ran beside other processes.                         *)
THEOREM CacheNeverDisplacesFresh == CSpec => []FreshBeatsCache
<1>1. VisitInv => FreshBeatsCache
    BY DEF VisitInv
<1> QED BY <1>1, CyclesAreRecalled, PTL

(* A completed cycle asked every source that applies about every holding, and  *)
(* numbered its retries without gaps.                                          *)
THEOREM HoldingsAreAsked == CSpec => []EveryHoldingWasAsked
<1>1. VisitInv => EveryHoldingWasAsked
    BY DEF VisitInv
<1> QED BY <1>1, CyclesAreRecalled, PTL

-----------------------------------------------------------------------------
(* What a monitor remembers of its campaign *)

(* No step goes back in time, moves the start of a run or the period of a      *)
(* campaign that exists, or adds to its plan.                                  *)
PlansStay ==
    /\ clock' >= clock
    /\ \A r \in Run : runs[r].status # "absent" => startedAt'[r] = startedAt[r]
    /\ \A p \in Campaign : campaigns[p] # "absent" =>
          /\ campaigns'[p] # "absent" /\ span'[p] = span[p]
          /\ \A o \in Opportunity : plan'[o].campaign = p => plan[o].campaign = p

(* Every step keeps what is planned.                                          *)
LEMMA StepKeepsPlans ==
    ASSUME StoreInv, CollectorInv, [CNext]_cvars
    PROVE  PlansStay
<1>0. TypeOK /\ CTypeOK /\ clock \in Int
    BY TimeAssumption DEF StoreInv, CollectorInv, CTypeOK, Time
<1>1. ASSUME UNCHANGED <<campaigns, plan>>, UNCHANGED <<span, startedAt>>, clock' >= clock
      PROVE  PlansStay
    BY <1>1 DEF PlansStay
<1>2. CASE Tick
    BY <1>0, <1>1, <1>2 DEF Tick, vars, tables
<1>3. CASE ServerEnds \/ UNCHANGED cvars
    BY <1>0, <1>1, <1>3 DEF ServerEnds, SessionEnds, Columns, cvars, vars, tables
<1>4. ASSUME NEW c \in Client, Disturbance(c) PROVE PlansStay
  <2>1. UNCHANGED tables
      BY <1>4 DEF Disturbance, Launch, StatementFails, Raise, CutShort, StopRequested,
         LoseConnection, Killed, Connect, RollBack, ConnectionLost, Crash, vars
  <2>2. UNCHANGED Columns
      BY <1>4 DEF Disturbance, Launch, StatementFails, Raise, CutShort, StopRequested,
         LoseConnection, Killed
  <2> QED BY <1>0, <1>1, <2>1, <2>2 DEF Columns, tables
<1>5. ASSUME NEW c \in Client, Progress(c) PROVE PlansStay
  <2>1. CASE BeginCampaign(c)
    <3>1. PICK p \in Campaign : p = NewCampaign
        BY <1>0, NewRows
    <3>2. CreateCampaign(c, p, NewSchedule(c, p)) /\ UNCHANGED <<clock, startedAt>>
        BY <2>1, <3>1 DEF BeginCampaign
    <3>3. \A q \in Campaign \ {p} : span'[q] = span[q] /\ campaigns'[q] = campaigns[q]
        BY <1>0, <2>1, <3>1, <3>2 DEF BeginCampaign, CreateCampaign, TypeOK, CTypeOK
    <3>4. campaigns[p] = "absent"
        BY <3>2 DEF CreateCampaign
    <3>5. \A o \in Opportunity : plan'[o].campaign = p \/ plan'[o] = plan[o]
        BY <1>0, <3>2 DEF CreateCampaign, TypeOK
    <3> QED BY <1>0, <3>2, <3>3, <3>4, <3>5 DEF PlansStay
  <2>2. CASE BeginRun(c)
    <3>1. PICK r \in Run : r = New(runs)
        BY <1>0, NewRows
    <3>2. /\ runs[r].status = "absent" /\ UNCHANGED <<campaigns, plan, clock, span>>
          /\ startedAt' = [startedAt EXCEPT ![r] = clock]
        BY <2>2, <3>1 DEF BeginRun, StartRun
    <3>3. \A q \in Run \ {r} : startedAt'[q] = startedAt[q]
        BY <1>0, <3>2 DEF CTypeOK
    <3> QED BY <1>0, <3>2, <3>3 DEF PlansStay
  <2>3. CASE EndCampaign(c)
    <3>1. UNCHANGED <<plan, clock, span, startedAt>>
        BY <2>3 DEF EndCampaign, FinishCampaign, Columns
    <3>2. \A p \in Campaign : campaigns[p] # "absent" => campaigns'[p] # "absent"
        BY <1>0, <2>3 DEF EndCampaign, FinishCampaign, TypeOK
    <3> QED BY <1>0, <3>1, <3>2 DEF PlansStay
  <2>4. CASE ~BeginCampaign(c) /\ ~BeginRun(c) /\ ~EndCampaign(c)
    <3>1. UNCHANGED <<campaigns, plan, clock, span, startedAt>>
        BY <1>5, <2>4 DEF Progress, TakeLock, Refused, Leave, Recover, ResumeCampaign, BeginMarket,
           BeginOpportunity, EnterCycle, SkipLate, BeginAttempt, NoticeStop, EndAttempt, EndCycle,
           AbandonCycle, EndRunOfMarkets, EndRunOfCampaign, AbandonRun, EndedNow, Columns,
           AcquireLock, Exit, RecoverIncomplete, StartCycle, StopCycle, StartAttempt,
           FinishAttempt, FinishCycle, FinishRun, InterruptRun, EndRun, vars, tables
    <3> QED BY <1>0, <1>1, <3>1
  <2> QED BY <2>1, <2>2, <2>3, <2>4
<1> QED BY <1>2, <1>3, <1>4, <1>5 DEF CNext

(* An opportunity that was claimed stays claimed.                              *)
LEMMA ClaimsStay ==
    ASSUME StoreInv, [Next]_vars, NEW o \in Opportunity, NEW k \in Cycle,
           cycles[k].opportunity = o
    PROVE  /\ cycles'[k].opportunity = o /\ Claimed(o)'
           /\ cycles[k].status # "running" => cycles'[k].status # "running"
<1>1. o # None
    BY NoneAssumption
<1>2. NoCycle.opportunity = None
    BY DEF NoCycle
<1>3. cycles[k].status # "absent"
    BY <1>1, <1>2 DEF StoreInv, RowsAreLinked
<1>4. cycles'[k].opportunity = o
    BY <1>3, StepKeepsNames DEF KeepsNames
<1>5. cycles[k].status # "running" => cycles'[k] = cycles[k]
    BY <1>3, StepKeepsEndedRows DEF KeepsEndedRows
<1> QED BY <1>4, <1>5 DEF Claimed

(* Every step keeps the campaigns of runs in being.                           *)
LEMMA StepRunsHaveCampaigns ==
    ASSUME StoreInv, CollectorInv, RunsHaveCampaigns, [CNext]_cvars
    PROVE  RunsHaveCampaigns'
<1>0. TypeOK /\ CTypeOK /\ [Next]_vars /\ PlansStay /\ KeepsNames
    BY StepIsStoreStep, StepKeepsPlans, StepKeepsNames DEF StoreInv, CollectorInv
<1> SUFFICES ASSUME NEW r \in Run, runs'[r].campaign # None
             PROVE  campaigns'[runs'[r].campaign] # "absent"
    BY DEF RunsHaveCampaigns
<1>1. CASE runs[r].status # "absent"
  <2>1. runs'[r].campaign = runs[r].campaign
      BY <1>0, <1>1 DEF KeepsNames
  <2>2. runs[r].campaign \in Campaign
      BY <1>0, <2>1 DEF TypeOK, RunRow
  <2> QED BY <1>0, <2>1, <2>2 DEF RunsHaveCampaigns, PlansStay
<1>2. CASE runs[r].status = "absent"
  <2>1. runs[r].campaign = None
      BY <1>2 DEF StoreInv, RowsAreLinked, NoRun
  <2>2. runs'[r].campaign # runs[r].campaign
      BY <2>1
  <2>3. PICK c, p, held : /\ c \in Client /\ p \in Campaign \cup {None}
                            /\ StartRun(c, r, p, held)
    <3>1. PICK c \in Client : RunStep(c) \/ RecoverIncomplete(c)
      <4>1. runs' # runs
          BY <2>2
      <4>2. PICK c \in Client : ClientStep(c)
          BY <1>0, <4>1 DEF Next, SessionEnds, vars, tables
      <4>3. ~SessionStep(c)
          BY <4>1 DEF SessionStep, Connect, AcquireLock, RollBack, Exit, ConnectionLost, Crash,
             tables
      <4>4. ~CampaignStep(c) /\ ~CycleStep(c) /\ ~AttemptStep(c)
          BY <4>1 DEF CampaignStep, CreateCampaign, FinishCampaign, CycleStep, StartCycle,
             FinishCycle, StopCycle, AttemptStep, StartAttempt, FinishAttempt
      <4> QED BY <4>2, <4>3, <4>4 DEF ClientStep
    <3>2. ~RecoverIncomplete(c)
      <4>1. RecoverIncomplete(c) => runs'[r].campaign = runs[r].campaign
          BY <1>0 DEF RecoverIncomplete, TypeOK, RunRow
      <4> QED BY <2>2, <4>1
    <3>3. ASSUME NEW q \in Run, NEW status \in {"completed", "interrupted"}, EndRun(c, q, status)
          PROVE  FALSE
        BY <1>0, <2>2, <3>3, RunEnds DEF EndRun, RunStatus
    <3>4. PICK q, p, held : /\ q \in Run /\ p \in Campaign \cup {None}
                                /\ StartRun(c, q, p, held)
        BY <3>1, <3>2, <3>3 DEF RunStep, FinishRun, InterruptRun
    <3>5. q = r
        BY <1>0, <2>2, <3>4 DEF StartRun, TypeOK
    <3> QED BY <3>4, <3>5
  <2>4. runs'[r].campaign = p /\ campaigns' = campaigns /\ (p # None => campaigns[p] = "running")
      BY <1>0, <2>3 DEF StartRun, TypeOK
  <2> QED BY <2>4
<1> QED BY <1>1, <1>2

(* None stands for no campaign.                                               *)
LEMMA NoneIsNoCampaign ==
    ASSUME NEW p \in Campaign
    PROVE  p # None
BY NoneAssumption, ZenonT(30)

(* A process that goes on with its run keeps to its campaign's plan, as long   *)
(* as what it no longer has left was claimed.                                  *)
LEMMA PlanStaysInHand ==
    ASSUME StoreInv, RunsHaveCampaigns, [Next]_vars, PlansStay, NEW place \in WorkPlace, NEW m,
           PlanInHand(place, m), m.run \in Run, runs[m.run].status # "absent",
           m.kind = "monitor" => m.campaign \in Campaign,
           NEW mem, mem.run = m.run, mem.campaign = m.campaign, mem.kind = m.kind,
           \A o \in m.left : o \in mem.left \/ Claimed(o)'
    PROVE  \A to : PlanInHand(to, mem)'
<1>1. runs'[m.run].campaign = runs[m.run].campaign
    BY StepKeepsNames DEF KeepsNames
<1>2. startedAt'[m.run] = startedAt[m.run]
    BY DEF PlansStay
<1>3. runs[m.run].campaign = m.campaign
    BY DEF PlanInHand
<1>4. ASSUME m.kind = "monitor", NEW o \in Opportunity, plan'[o].campaign = m.campaign,
             ScheduledAt(o) >= startedAt'[m.run]
      PROVE  o \in mem.left \/ Claimed(o)'
  <2>0. m.campaign \in Campaign
      BY <1>4
  <2>1. m.campaign # None
    <3>1. PICK p \in Campaign : p = m.campaign
        BY <2>0
    <3> QED BY <3>1, NoneIsNoCampaign
  <2>2. campaigns[m.campaign] # "absent"
      BY <1>3, <2>1 DEF RunsHaveCampaigns
  <2>3. plan[o].campaign = m.campaign
      BY <1>4, <2>0, <2>2 DEF PlansStay
  <2>4. o \in m.left \/ Claimed(o)
      BY <1>2, <1>4, <2>3 DEF PlanInHand
  <2>5. Claimed(o) => Claimed(o)'
      BY ClaimsStay DEF Claimed
  <2> QED BY <2>4, <2>5
<1> QED BY <1>1, <1>3, <1>4 DEF PlanInHand

(* Where a process goes with its plan in hand it has it.                      *)
LEMMA WentPlanned ==
    ASSUME CTypeOK, NEW c \in Client, NEW place, NEW memory, Goto(c, place, memory),
           PlanInHand(place, memory)', CanWrite(c)'
    PROVE  PlanInHand(pc[c], task[c])'
<1>1. ~failed'[c]
    BY DEF CanWrite, Usable
<1>2. pc'[c] = place /\ (place \in {"closing", "off"} \/ task'[c] = memory)
    BY <1>1 DEF Goto, CTypeOK
<1>3. CASE place \in {"closing", "off"}
    BY <1>2, <1>3 DEF PlanInHand, WorkPlace
<1>4. CASE pc'[c] = place /\ task'[c] = memory
  <2>1. PlanInHand(pc[c], task[c])' <=> PlanInHand(place, memory)'
      BY <1>4 DEF PlanInHand, Claimed
  <2> QED BY <2>1
<1> QED BY <1>2, <1>3, <1>4

(* A plan stays in hand while what it is about stays the same.                *)
LEMMA SamePlan ==
    ASSUME NEW d \in Client, PlanInHand(pc[d], task[d]),
           UNCHANGED <<runs, cycles, plan>>, UNCHANGED startedAt,
           pc'[d] = pc[d], task'[d] = task[d]
    PROVE  PlanInHand(pc[d], task[d])'
<1>1. PlanInHand(pc[d], task[d])' <=> PlanInHand(pc[d], task[d])
    BY DEF PlanInHand, Claimed
<1> QED BY <1>1

(* Only the start of a run gives a run its time of starting.                  *)
LEMMA OnlyBeginRunDates ==
    ASSUME CTypeOK, NEW c \in Client, Progress(c) \/ Disturbance(c), ~BeginRun(c)
    PROVE  startedAt' = startedAt
<1>1. CASE Disturbance(c)
    BY <1>1, DisturbanceTypes DEF Columns
<1>2. CASE Progress(c)
  <2>1. CASE BeginCampaign(c)
      BY <2>1 DEF BeginCampaign
  <2>2. CASE EndRunOfMarkets(c) \/ EndRunOfCampaign(c) \/ AbandonRun(c)
      BY <2>2 DEF EndRunOfMarkets, EndRunOfCampaign, AbandonRun, EndedNow
  <2>3. CASE BeginAttempt(c) \/ EndAttempt(c)
    <3>1. UNCHANGED Columns
        BY <2>3, Zenon DEF BeginAttempt, EndAttempt
    <3> QED BY <3>1 DEF Columns
  <2>4. CASE BeginMarket(c)
      BY <2>4 DEF BeginMarket, EnterCycle, Columns
  <2>5. CASE BeginOpportunity(c)
      BY <2>5 DEF BeginOpportunity, EnterCycle, Columns
  <2> QED
      BY <1>2, <2>1, <2>2, <2>3, <2>4, <2>5 DEF Progress, TakeLock, Refused, Leave, Recover,
         ResumeCampaign, SkipLate, NoticeStop, EndCycle, AbandonCycle, EndCampaign, Columns
<1> QED BY <1>1, <1>2

(* The other processes cannot write while one writes.                          *)
LEMMA OthersKeepPlan ==
    ASSUME StoreInv, CollectorInv, PlansInHand, NEW c \in Client, NEW d \in Client \ {c},
           Progress(c) \/ Disturbance(c), CanWrite(d)'
    PROVE  PlanInHand(pc[d], task[d])'
<1>1. TypeOK /\ BeliefIsTrue /\ CTypeOK
    BY DEF StoreInv, CollectorInv
<1>2. ClientStep(c) \/ UNCHANGED vars
    BY <1>1, ProgressIsStoreStep, DisturbanceIsStoreStep
<1>3. CanWrite(d)
    BY <1>1, <1>2, OtherSessions DEF CanWrite, Usable, vars, session
<1>4. ~CanWrite(c)
    BY <1>1, <1>3 DEF BeliefIsTrue, CanWrite, Usable
<1>5. UNCHANGED tables
    BY <1>2, <1>4, WritersWrite DEF vars
<1>6. PlanInHand(pc[d], task[d])
    BY <1>3 DEF PlansInHand
<1>7. startedAt' = startedAt
  <2>1. ASSUME BeginRun(c) PROVE FALSE
    <3>1. PICK r, p, held : StartRun(c, r, p, held)
        BY <2>1, Zenon DEF BeginRun
    <3> QED BY <1>4, <3>1 DEF StartRun, Commit
  <2> QED BY <1>1, <2>1, OnlyBeginRunDates
<1> QED BY <1>1, <1>5, <1>6, <1>7, OthersStay, SamePlan DEF tables

(* A new run is of the campaign in hand, and begins with all that is planned   *)
(* from its launch on and not yet claimed.                                     *)
LEMMA BegunRunPlanned ==
    ASSUME StoreInv, CTypeOK, MemoriesFit, NEW c \in Client, BeginRun(c), CanWrite(c)'
    PROVE  PlanInHand(pc[c], task[c])'
<1>0. TypeOK
    BY DEF StoreInv
<1>1. PICK r \in Run, m \in TaskRow : r = New(runs) /\ m = task[c]
    BY <1>0, NewRows, TaskFields
<1>2. PICK left : left = IF m.kind = "monitor" THEN Unclaimed(c) ELSE {}
    OBVIOUS
<1>3. PICK held, rest, markets :
          /\ StartRun(c, r, m.campaign, held)
          /\ Goto(c, "run", [m EXCEPT !.run = r, !.rest = rest, !.markets = markets,
                                      !.left = left])
    BY <1>1, <1>2, Zenon DEF BeginRun
<1>4. startedAt' = [startedAt EXCEPT ![r] = clock]
    BY <1>1, Zenon DEF BeginRun
<1>5. pc[c] \notin {"off", "closing"}
    BY DEF BeginRun
<1>6. PICK mem : mem = [m EXCEPT !.run = r, !.rest = rest, !.markets = markets, !.left = left]
    OBVIOUS
<1>7. mem.run = r /\ mem.campaign = m.campaign /\ mem.kind = m.kind /\ mem.left = left
    BY <1>6 DEF TaskRow
<1>8. runs'[r].campaign = m.campaign /\ cycles' = cycles /\ plan' = plan
    BY <1>0, <1>3 DEF StartRun, TypeOK
<1>9. startedAt'[r] = clock /\ clock \in Int
    BY <1>4, TimeAssumption DEF CTypeOK, Time
<1>10. m.started <= clock /\ m.started \in Int
    BY <1>1, <1>5, TimeAssumption DEF MemoriesFit, MemoryFits, TaskRow, Time
<1>11. ASSUME m.kind = "monitor", NEW o \in Opportunity, plan'[o].campaign = m.campaign,
              ScheduledAt(o) >= startedAt'[r]
       PROVE  o \in left \/ Claimed(o)'
  <2>1. ScheduledAt(o) \in Int
      BY TimeAssumption DEF ScheduledAt
  <2>2. ScheduledAt(o) >= m.started
      BY <1>9, <1>10, <1>11, <2>1
  <2>3. plan[o].campaign = task[c].campaign /\ ScheduledAt(o) >= task[c].started
      BY <1>1, <1>8, <1>11, <2>2
  <2>4. left = Unclaimed(c)
      BY <1>2, <1>11
  <2>5. o \in Unclaimed(c) \/ Claimed(o)
      BY <2>3 DEF Unclaimed
  <2>6. Claimed(o)' <=> Claimed(o)
      BY <1>8 DEF Claimed
  <2> QED BY <2>4, <2>5, <2>6
<1>12. PlanInHand("run", mem)'
    BY <1>7, <1>8, <1>11 DEF PlanInHand
<1>13. Goto(c, "run", mem)
    BY <1>3, <1>6
<1> QED BY <1>12, <1>13, WentPlanned

(* Within a cycle, and after it, a process keeps its run and what it has left. *)
GoesOn(c) ==
    /\ CanWrite(c) \/ ~CanWrite(c)'
    /\ pc[c] \in WorkPlace
    /\ \E to, mem : /\ Goto(c, to, mem)
                   /\ mem.run = task[c].run /\ mem.campaign = task[c].campaign
                   /\ mem.kind = task[c].kind /\ mem.left = task[c].left

(* Inside a cycle, and at its end, a process goes on with its run.            *)
LEMMA WorkGoesOn ==
    ASSUME CTypeOK, NEW c \in Client
    PROVE  SkipLate(c) \/ EndCycle(c) \/ AbandonCycle(c)
             \/ BeginAttempt(c) \/ EndAttempt(c) \/ NoticeStop(c) => GoesOn(c)
<1>1. PICK m \in TaskRow : m = task[c]
    BY TaskFields
<1>2. ASSUME CanWrite(c) \/ ~CanWrite(c)', pc[c] \in WorkPlace, NEW to, NEW mem,
             Goto(c, to, mem), mem.run = m.run, mem.campaign = m.campaign,
             mem.kind = m.kind, mem.left = m.left
      PROVE  GoesOn(c)
    BY <1>1, <1>2 DEF GoesOn
<1>3. ASSUME BeginAttempt(c) PROVE GoesOn(c)
  <2>1. PICK todo, a, doing : Goto(c, "attempt", [task[c] EXCEPT
            !.todo = todo, !.attempt = a, !.doing = doing])
      BY <1>3, Zenon DEF BeginAttempt
  <2>2. PICK mem : mem = [m EXCEPT !.todo = todo, !.attempt = a, !.doing = doing]
      OBVIOUS
  <2>3. mem.run = m.run /\ mem.campaign = m.campaign /\ mem.kind = m.kind /\ mem.left = m.left
      BY <2>2 DEF TaskRow
  <2>4. CanWrite(c)
    <3>1. PICK b, k, t, s : StartAttempt(c, b, k, t, s)
        BY <1>3, Zenon DEF BeginAttempt
    <3> QED BY <3>1 DEF StartAttempt, Commit
  <2>5. pc[c] \in WorkPlace /\ Goto(c, "attempt", mem)
    <3>1. pc[c] \in {"cycle", "retry"}
        BY <1>3 DEF BeginAttempt
    <3> QED BY <1>1, <2>1, <2>2, <3>1 DEF WorkPlace
  <2> QED BY <1>2, <2>3, <2>4, <2>5
<1>4. ASSUME EndAttempt(c) PROVE GoesOn(c)
  <2>1. PICK to, doing, chosen : Goto(c, to, [task[c] EXCEPT
            !.attempt = None, !.doing = doing, !.chosen = chosen])
    <3>1. [task[c] EXCEPT !.attempt = None]
            = [task[c] EXCEPT !.attempt = None, !.doing = task[c].doing,
                              !.chosen = task[c].chosen]
        BY <1>1 DEF TaskRow
    <3>2. \/ \E chosen : Goto(c, AfterVisit(c), [task[c] EXCEPT
                 !.attempt = None, !.doing = None, !.chosen = chosen])
          \/ Goto(c, "retry", [task[c] EXCEPT !.attempt = None])
        BY <1>4, Zenon DEF EndAttempt
    <3> QED BY <3>1, <3>2, Zenon
  <2>2. PICK mem : mem = [m EXCEPT !.attempt = None, !.doing = doing, !.chosen = chosen]
      OBVIOUS
  <2>3. mem.run = m.run /\ mem.campaign = m.campaign /\ mem.kind = m.kind /\ mem.left = m.left
      BY <2>2 DEF TaskRow
  <2>4. CanWrite(c)
    <3>1. PICK a, result : FinishAttempt(c, a, result)
        BY <1>4, Zenon DEF EndAttempt
    <3> QED BY <3>1 DEF FinishAttempt, Commit
  <2>5. pc[c] \in WorkPlace /\ Goto(c, to, mem)
    <3>1. pc[c] = "attempt"
        BY <1>4, Zenon DEF EndAttempt
    <3> QED BY <1>1, <2>1, <2>2, <3>1 DEF WorkPlace
  <2> QED BY <1>2, <2>3, <2>4, <2>5
<1>5. ASSUME SkipLate(c) PROVE GoesOn(c)
  <2>1. PICK mem : mem = [m EXCEPT !.cycle = None]
      OBVIOUS
  <2>2. mem.run = m.run /\ mem.campaign = m.campaign /\ mem.kind = m.kind /\ mem.left = m.left
      BY <2>1 DEF TaskRow
  <2>3. CanWrite(c)
      BY <1>5, Zenon DEF SkipLate, StopCycle, Commit
  <2>4. pc[c] \in WorkPlace /\ Goto(c, "run", mem)
      BY <1>1, <1>5, <2>1 DEF SkipLate, WorkPlace
  <2> QED BY <1>2, <2>2, <2>3, <2>4
<1>6. ASSUME EndCycle(c) PROVE GoesOn(c)
  <2>1. PICK mem : mem = [m EXCEPT !.cycle = None, !.chosen = NoChoice]
      OBVIOUS
  <2>2. mem.run = m.run /\ mem.campaign = m.campaign /\ mem.kind = m.kind /\ mem.left = m.left
      BY <2>1 DEF TaskRow
  <2>3. CanWrite(c) /\ pc[c] \in WorkPlace /\ Goto(c, "run", mem)
      BY <1>1, <1>6, <2>1 DEF EndCycle, FinishCycle, Commit, WorkPlace
  <2> QED BY <1>2, <2>2, <2>3
<1>7. ASSUME AbandonCycle(c) PROVE GoesOn(c)
  <2>1. PICK mem : mem = [m EXCEPT !.cycle = None, !.todo = {}, !.doing = None,
                                   !.attempt = None, !.chosen = NoChoice]
      OBVIOUS
  <2>2. mem.run = m.run /\ mem.campaign = m.campaign /\ mem.kind = m.kind /\ mem.left = m.left
      BY <2>1 DEF TaskRow
  <2>3. PICK to : to = IF m.kind = "monitor" THEN "ending" ELSE "closing"
      OBVIOUS
  <2>4. CanWrite(c)
      BY <1>7, Zenon DEF AbandonCycle, StopCycle, Commit
  <2>5. pc[c] \in WorkPlace /\ Goto(c, to, mem)
      BY <1>1, <1>7, <2>1, <2>3 DEF AbandonCycle, WorkPlace
  <2> QED BY <1>2, <2>2, <2>4, <2>5
<1>8. ASSUME NoticeStop(c) PROVE GoesOn(c)
  <2>1. /\ CanWrite(c) \/ ~CanWrite(c)'
        /\ Goto(c, "stopping", m) /\ pc[c] \in WorkPlace
      BY <1>1, <1>8 DEF NoticeStop, CanWrite, Usable, vars, session, WorkPlace
  <2> QED BY <1>2, <2>1
<1> QED BY <1>3, <1>4, <1>5, <1>6, <1>7, <1>8

(* Progress keeps a process's own plan in hand.                               *)
LEMMA OwnProgressPlanned ==
    ASSUME StoreInv, CollectorInv, MemoriesFit, RunsHaveCampaigns, PlansInHand, PlansStay,
           [Next]_vars, NEW c \in Client, Progress(c), CanWrite(c)'
    PROVE  PlanInHand(pc[c], task[c])'
<1>0. TypeOK /\ CTypeOK
    BY DEF StoreInv, CollectorInv
<1>1. PICK m \in TaskRow, place \in Place : m = task[c] /\ place = pc[c] /\ InHand(place, m)
    BY <1>0, TaskFields
(* A process that goes on with its run.                                        *)
<1>2. ASSUME CanWrite(c), place \in WorkPlace, NEW to, NEW mem, Goto(c, to, mem),
             mem.run = m.run, mem.campaign = m.campaign, mem.kind = m.kind,
             \A o \in m.left : o \in mem.left \/ Claimed(o)'
      PROVE  PlanInHand(pc[c], task[c])'
  <2>1. PlanInHand(place, m)
      BY <1>1, <1>2 DEF PlansInHand
  <2>2. m.run \in Run /\ (m.kind = "monitor" => m.campaign \in Campaign)
      BY <1>1, <1>2 DEF InHand
  <2>3. runs[m.run].status # "absent"
      BY <1>1, <1>2 DEF CollectorInv, OwnWorkIsUntouched, Working
  <2>4. PlanInHand(to, mem)'
      BY <1>2, <2>1, <2>2, <2>3, PlanStaysInHand
  <2> QED BY <1>0, <1>2, <2>4, WentPlanned
(* A process that enters a cycle.                                              *)
<1>3. ASSUME place = "run", NEW kind \in {"cycle", "late"}, NEW old \in TaskRow, NEW n, NEW o,
             EnterCycle(c, n, o, kind, old), old.run = m.run, old.campaign = m.campaign,
             old.kind = m.kind, \A x \in m.left : x \in old.left \/ x = o
      PROVE  PlanInHand(pc[c], task[c])'
  <2>1. PICK k \in Cycle : k = New(cycles)
      BY <1>0, NewRows
  <2>2. PICK run, todo : /\ StartCycle(c, k, run, n, o)
                         /\ Goto(c, kind, [old EXCEPT !.cycle = k, !.todo = todo])
      BY <1>3, <2>1, Zenon DEF EnterCycle
  <2>3. PICK mem : mem = [old EXCEPT !.cycle = k, !.todo = todo]
      OBVIOUS
  <2>4. mem.run = m.run /\ mem.campaign = m.campaign /\ mem.kind = m.kind /\ mem.left = old.left
      BY <1>3, <2>3 DEF TaskRow
  <2>5. cycles'[k].opportunity = o /\ CanWrite(c)
      BY <1>0, <2>2 DEF StartCycle, Commit, TypeOK
  <2>6. \A x \in m.left : x \in mem.left \/ Claimed(x)'
      BY <1>3, <2>4, <2>5 DEF Claimed
  <2>7. Goto(c, kind, mem) /\ place \in WorkPlace
      BY <1>3, <2>2, <2>3 DEF WorkPlace
  <2> QED BY <1>2, <2>4, <2>5, <2>6, <2>7
<1>4. CASE BeginMarket(c)
  <2>1. PICK n \in task[c].markets :
          EnterCycle(c, n, None, "cycle", [task[c] EXCEPT !.markets = @ \ {n}])
      BY <1>4 DEF BeginMarket
  <2>2. PICK old : old = [m EXCEPT !.markets = @ \ {n}]
      OBVIOUS
  <2>3. /\ old \in TaskRow /\ old.run = m.run /\ old.campaign = m.campaign
        /\ old.kind = m.kind /\ old.left = m.left
      BY <2>2 DEF TaskRow
  <2>4. place = "run" /\ EnterCycle(c, n, None, "cycle", old)
      BY <1>1, <1>4, <2>1, <2>2 DEF BeginMarket
  <2> QED BY <1>3, <2>3, <2>4
<1>5. CASE BeginOpportunity(c)
  <2>1. PICK o \in Earliest(c), kind \in {"cycle", "late"} :
          EnterCycle(c, o[2], o, kind, [task[c] EXCEPT !.left = @ \ {o}])
      BY <1>5 DEF BeginOpportunity
  <2>2. PICK old, n : old = [m EXCEPT !.left = @ \ {o}] /\ n = o[2]
      OBVIOUS
  <2>3. /\ old \in TaskRow /\ old.run = m.run /\ old.campaign = m.campaign
        /\ old.kind = m.kind /\ old.left = m.left \ {o}
      BY <2>2 DEF TaskRow
  <2>4. place = "run" /\ EnterCycle(c, n, o, kind, old)
      BY <1>1, <1>5, <2>1, <2>2 DEF BeginOpportunity
  <2> QED BY <1>3, <2>3, <2>4
<1>6. CASE \/ SkipLate(c) \/ EndCycle(c) \/ AbandonCycle(c)
            \/ BeginAttempt(c) \/ EndAttempt(c) \/ NoticeStop(c)
    BY <1>0, <1>1, <1>2, <1>6, WorkGoesOn DEF GoesOn
<1>7. CASE BeginRun(c)
    BY <1>0, <1>7, BegunRunPlanned
<1>8. ASSUME NEW to \in {"closing", "locked", "recovered", "planned", "done"}, NEW memory,
              Goto(c, to, memory)
       PROVE  PlanInHand(pc[c], task[c])'
  <2>1. pc'[c] \notin WorkPlace
      BY <1>0, <1>8 DEF Goto, CTypeOK, WorkPlace
  <2> QED BY <2>1 DEF PlanInHand
<1>9. CASE Leave(c)
  <2>1. pc'[c] \notin WorkPlace
      BY <1>0, <1>9 DEF Leave, CTypeOK, WorkPlace
  <2> QED BY <2>1 DEF PlanInHand
<1> QED BY <1>4, <1>5, <1>6, <1>7, <1>8, <1>9 DEF Progress, TakeLock,
        Refused, Recover, ResumeCampaign, BeginCampaign, EndRunOfMarkets, EndRunOfCampaign,
        EndCampaign, AbandonRun

(* A disturbance changes no table.                                            *)
LEMMA DisturbanceKeepsTables ==
    ASSUME NEW c \in Client, Disturbance(c)
    PROVE  UNCHANGED tables
<1>1. CASE Launch(c)
    BY <1>1 DEF Launch, Connect
<1>2. CASE Raise(c) \/ CutShort(c) \/ StopRequested(c)
    BY <1>2 DEF Raise, CutShort, StopRequested, vars
<1>3. CASE StatementFails(c) \/ LoseConnection(c) \/ Killed(c)
    BY <1>3 DEF StatementFails, LoseConnection, Killed, RollBack, ConnectionLost, Crash
<1> QED BY <1>1, <1>2, <1>3 DEF Disturbance

(* Nor does it take the plan out of the process's hand.                       *)
LEMMA OwnDisturbancePlanned ==
    ASSUME StoreInv, CollectorInv, PlansInHand, NEW c \in Client, Disturbance(c), CanWrite(c)'
    PROVE  PlanInHand(pc[c], task[c])'
<1>0. TypeOK /\ CTypeOK
    BY DEF StoreInv, CollectorInv
<1>1. PICK m \in TaskRow : m = task[c]
    BY <1>0, TaskFields
<1>2. UNCHANGED tables /\ startedAt' = startedAt
    BY <1>0, DisturbanceKeepsTables, DisturbanceTypes DEF Columns
<1>3. ASSUME NEW to, NEW mem, PlanInHand(to, mem) PROVE PlanInHand(to, mem)'
    BY <1>2, <1>3 DEF PlanInHand, Claimed, tables
<1>4. CASE Launch(c) \/ StatementFails(c) \/ CutShort(c)
  <2>1. PICK to \in {"opened", "closing"} : \E mem : Goto(c, to, mem)
      BY <1>4, Zenon DEF Launch, StatementFails, CutShort
  <2>2. pc'[c] \notin WorkPlace
      BY <1>0, <2>1 DEF Goto, CTypeOK, WorkPlace
  <2> QED BY <2>2 DEF PlanInHand
<1>7. ~LoseConnection(c) /\ ~Killed(c)
    BY <1>0 DEF LoseConnection, ConnectionLost, Killed, Crash, CanWrite, Usable, TypeOK
<1>5. CASE StopRequested(c)
  <2>1. /\ task'[c] = [m EXCEPT !.stop = TRUE] /\ pc' = pc /\ UNCHANGED vars
      BY <1>0, <1>1, <1>5 DEF StopRequested, CTypeOK
  <2>2. /\ task'[c].run = m.run /\ task'[c].campaign = m.campaign
        /\ task'[c].kind = m.kind /\ task'[c].left = m.left
      BY <2>1 DEF TaskRow
  <2>3. PlanInHand(pc[c], m)
      BY <1>1, <2>1 DEF PlansInHand, CanWrite, Usable, vars, session
  <2>4. PlanInHand(pc[c], m)'
      BY <1>1, <1>3, <2>1, <2>3 DEF PlanInHand
  <2> QED BY <2>1, <2>2, <2>3, <1>2 DEF PlanInHand, Claimed, tables
<1>6. CASE Raise(c)
  <2>1. UNCHANGED vars /\ Goto(c, Unwind(c), m)
      BY <1>1, <1>6 DEF Raise
  <2>2. PlanInHand(pc[c], m)
      BY <1>1, <2>1 DEF PlansInHand, CanWrite, Usable, vars, session
  <2>3. PICK to : to = Unwind(c)
      OBVIOUS
  <2>4. to \in WorkPlace => pc[c] \in WorkPlace
      BY <2>3 DEF Unwind, WorkPlace
  <2>5. PlanInHand(to, m)
      BY <2>2, <2>4 DEF PlanInHand
  <2>6. Goto(c, to, m) /\ PlanInHand(to, m)'
      BY <1>3, <2>1, <2>3, <2>5
  <2> QED BY <1>0, <2>6, WentPlanned
<1> QED BY <1>4, <1>5, <1>6, <1>7 DEF Disturbance

(* Runs change by recovery, by their start and by their end.                  *)
LEMMA FewStepsTouchRuns ==
    ASSUME NEW c \in Client, Progress(c), ~Recover(c), ~AbandonRun(c), ~BeginRun(c),
           ~EndRunOfMarkets(c), ~EndRunOfCampaign(c)
    PROVE  runs' = runs
<1>1. CASE BeginMarket(c) \/ BeginOpportunity(c)
  <2>1. PICK k, r, m, o : StartCycle(c, k, r, m, o)
      BY <1>1, Zenon DEF BeginMarket, BeginOpportunity, EnterCycle
  <2> QED BY <2>1 DEF StartCycle
<1>2. CASE BeginAttempt(c)
  <2>1. PICK a, k, t, s : StartAttempt(c, a, k, t, s)
      BY <1>2, Zenon DEF BeginAttempt
  <2> QED BY <2>1 DEF StartAttempt
<1>3. CASE EndAttempt(c)
  <2>1. PICK a, result : FinishAttempt(c, a, result)
      BY <1>3, Zenon DEF EndAttempt
  <2> QED BY <2>1 DEF FinishAttempt
<1>4. CASE BeginCampaign(c) \/ EndCampaign(c)
    BY <1>4 DEF BeginCampaign, EndCampaign, CreateCampaign, FinishCampaign
<1>5. CASE SkipLate(c) \/ EndCycle(c) \/ AbandonCycle(c)
    BY <1>5, Zenon DEF SkipLate, EndCycle, AbandonCycle, StopCycle, FinishCycle
<1>6. CASE TakeLock(c) \/ Refused(c) \/ Leave(c) \/ ResumeCampaign(c) \/ NoticeStop(c)
    BY <1>6 DEF TakeLock, Refused, Leave, ResumeCampaign, NoticeStop, AcquireLock, Exit, vars,
       tables
<1> QED BY <1>1, <1>2, <1>3, <1>4, <1>5, <1>6 DEF Progress

(* Recovery completes no run.                                                 *)
LEMMA RecoveryCompletesNone ==
    ASSUME TypeOK, NEW c \in Client, Recover(c), NEW r \in Run
    PROVE  runs'[r].status = "completed" => runs[r].status = "completed"
<1>1. runs' = [q \in Run |-> IF runs[q].status = "running"
            THEN [runs[q] EXCEPT !.status = "interrupted", !.stamp = "recovered"]
            ELSE runs[q]]
    BY Zenon DEF Recover, RecoverIncomplete
<1>2. runs[r] \in RunRow
    BY DEF TypeOK
<1>3. runs'[r] = IF runs[r].status = "running"
            THEN [runs[r] EXCEPT !.status = "interrupted", !.stamp = "recovered"]
            ELSE runs[r]
    BY <1>1, Zenon
<1> QED BY <1>2, <1>3 DEF RunRow

(* Ending a run leaves every other one as it was.                             *)
LEMMA EndsOneRun ==
    ASSUME TypeOK, NEW r \in Run, NEW status \in RunStatus,
           runs' = [runs EXCEPT ![r].status = status, ![r].stamp = "closed"]
    PROVE  runs'[r].status = status /\ \A q \in Run : q # r => runs'[q] = runs[q]
BY RunEnds

(* A run is completed only by the collector that works on it.                  *)
LEMMA CompletedByEndRun ==
    ASSUME StoreInv, CollectorInv, [CNext]_cvars, NEW r \in Run,
           runs'[r].status = "completed", runs[r].status # "completed"
    PROVE  \E c \in Client : (EndRunOfMarkets(c) \/ EndRunOfCampaign(c)) /\ task[c].run = r
<1>1. TypeOK /\ CTypeOK
    BY DEF StoreInv, CollectorInv
<1>2. PICK c \in Client : Progress(c)
  <2>1. ~Tick /\ ~ServerEnds /\ ~UNCHANGED cvars
      BY DEF Tick, ServerEnds, SessionEnds, cvars, vars, tables
  <2>2. ASSUME NEW c \in Client, Disturbance(c) PROVE FALSE
      BY <2>2, DisturbanceKeepsTables DEF tables
  <2> QED BY <2>1, <2>2 DEF CNext
<1>3. task[c].run \in Run \/ pc[c] \notin WorkPlace
    BY <1>1, TaskFields DEF InHand
<1>4. EndRunOfMarkets(c) \/ EndRunOfCampaign(c)
  <2>1. CASE Recover(c)
      BY <1>1, <2>1, RecoveryCompletesNone
  <2>2. CASE AbandonRun(c)
    <3>1. PICK q \in Run : q = task[c].run
        BY <1>3, <2>2 DEF AbandonRun, WorkPlace
    <3>2. runs' = [runs EXCEPT ![q].status = "interrupted", ![q].stamp = "closed"]
        BY <2>2, <3>1 DEF AbandonRun, InterruptRun, EndRun
    <3>3. "interrupted" \in RunStatus
        BY DEF RunStatus
    <3>4. runs'[q].status = "interrupted" /\ \A x \in Run : x # q => runs'[x] = runs[x]
        BY <1>1, <3>2, <3>3, EndsOneRun
    <3> QED BY <3>4
  <2>3. CASE BeginRun(c)
    <3>1. PICK p, held : StartRun(c, New(runs), p, held)
        BY <2>3, Zenon DEF BeginRun
    <3> QED BY <1>1, <3>1 DEF StartRun, TypeOK
  <2>4. CASE ~Recover(c) /\ ~AbandonRun(c) /\ ~BeginRun(c)
             /\ ~EndRunOfMarkets(c) /\ ~EndRunOfCampaign(c)
    <3>1. runs' = runs
        BY <1>2, <2>4, FewStepsTouchRuns
    <3> QED BY <3>1
  <2> QED BY <2>1, <2>2, <2>3, <2>4
<1>5. PICK q \in Run : q = task[c].run
    BY <1>3, <1>4 DEF EndRunOfMarkets, EndRunOfCampaign, WorkPlace
<1>6. runs' = [runs EXCEPT ![q].status = "completed", ![q].stamp = "closed"]
    BY <1>4, <1>5 DEF EndRunOfMarkets, EndRunOfCampaign, FinishRun, EndRun
<1>7. "completed" \in RunStatus
    BY DEF RunStatus
<1>8. \A x \in Run : x # q => runs'[x] = runs[x]
    BY <1>1, <1>6, <1>7, EndsOneRun
<1> QED BY <1>4, <1>5, <1>8

(* The run of a campaign that a monitor ends has missed nothing.               *)
LEMMA EndedRunMissedNothing ==
    ASSUME StoreInv, CollectorInv, MemoriesFit, PlansInHand, NEW c \in Client, NEW r \in Run,
           EndRunOfMarkets(c) \/ EndRunOfCampaign(c), task[c].run = r, runs[r].campaign # None,
           runs'[r].campaign = runs[r].campaign
    PROVE  /\ clock' >= PlannedEnd(runs[r].campaign)'
           /\ \A o \in Opportunity :
                 plan'[o].campaign = runs[r].campaign /\ ScheduledAt(o) >= startedAt'[r]
                   => \E k \in Cycle : cycles'[k].opportunity = o /\ cycles'[k].status # "running"
<1>0. TypeOK /\ CTypeOK /\ OpenWorkIsNested /\ RowsAreLinked /\ OnlyOwnRunIsRunning
    BY DEF StoreInv, CollectorInv
<1>1. PICK m \in TaskRow : m = task[c] /\ m.run = r
    BY <1>0, TaskFields
<1>2. /\ EndRun(c, r, "completed") /\ pc[c] = "run"
      /\ UNCHANGED <<clock, span, startedAt>>
    BY <1>1 DEF EndRunOfMarkets, EndRunOfCampaign, FinishRun, EndedNow
<1>3. CanWrite(c) /\ cycles' = cycles /\ plan' = plan
      /\ \A k \in Cycle : cycles[k].run = r => cycles[k].status # "running"
    BY <1>2 DEF EndRun, Commit
<1>4. PlanInHand("run", m)
    BY <1>1, <1>2, <1>3 DEF PlansInHand
<1>5. runs[r].campaign = m.campaign
    BY <1>1, <1>4 DEF PlanInHand, WorkPlace
<1>6. m.kind = "monitor"
    BY <1>1, <1>5 DEF MemoriesFit, MemoryFits
<1>7. m.left = {} /\ clock >= PlannedEnd(m.campaign)
    BY <1>1, <1>6 DEF EndRunOfMarkets, EndRunOfCampaign
<1>8. \A k \in Cycle : cycles[k].status # "running"
  <2> SUFFICES ASSUME NEW k \in Cycle, cycles[k].status = "running" PROVE FALSE
      OBVIOUS
  <2>1. cycles[k].run \in Run /\ runs[cycles[k].run].status = "running"
      BY <1>0 DEF OpenWorkIsNested, RowsAreLinked
  <2>2. cycles[k].run = task[c].run
      BY <1>0, <1>2, <1>3, <2>1 DEF OnlyOwnRunIsRunning, Working, WorkPlace
  <2> QED BY <1>1, <1>3, <2>2
<1>9. ASSUME NEW o \in Opportunity, plan'[o].campaign = runs[r].campaign,
             ScheduledAt(o) >= startedAt'[r]
      PROVE  \E k \in Cycle : cycles'[k].opportunity = o /\ cycles'[k].status # "running"
  <2>1. plan[o].campaign = m.campaign /\ ScheduledAt(o) >= startedAt[m.run]
      BY <1>1, <1>2, <1>3, <1>5, <1>9
  <2>2. Claimed(o)
      BY <1>4, <1>6, <1>7, <2>1 DEF PlanInHand, WorkPlace
  <2> QED BY <1>3, <1>8, <2>2 DEF Claimed
<1>10. PlannedEnd(runs[r].campaign)' = PlannedEnd(m.campaign)
    BY <1>2, <1>5 DEF PlannedEnd
<1> QED BY <1>2, <1>7, <1>9, <1>10

(* Every step keeps the plans in hand.                                        *)
LEMMA StepPlansInHand ==
    ASSUME StoreInv, CollectorInv, MemoriesFit, PlanInv, [CNext]_cvars
    PROVE  PlansInHand'
<1>0. /\ TypeOK /\ CTypeOK /\ PlansInHand /\ RunsHaveCampaigns /\ [Next]_vars /\ PlansStay
    BY StepIsStoreStep, StepKeepsPlans DEF StoreInv, CollectorInv, PlanInv
<1>1. ASSUME NEW c \in Client, Progress(c) \/ Disturbance(c) PROVE PlansInHand'
  <2>1. \A d \in Client : CanWrite(d)' => PlanInHand(pc[d], task[d])'
      BY <1>0, <1>1, OwnProgressPlanned, OwnDisturbancePlanned, OthersKeepPlan
  <2> QED BY <2>1 DEF PlansInHand
<1>2. CASE Tick \/ ServerEnds \/ UNCHANGED cvars
  <2>1. UNCHANGED <<conn, failed, locked, runs, cycles, plan, startedAt, pc, task>>
      BY <1>2 DEF Tick, ServerEnds, SessionEnds, cvars, vars, session, tables, Columns
  <2>2. \A d \in Client : CanWrite(d)' => PlanInHand(pc[d], task[d])'
      BY <1>0, <2>1, SamePlan DEF PlansInHand, CanWrite, Usable
  <2> QED BY <2>2 DEF PlansInHand
<1> QED BY <1>1, <1>2 DEF CNext

(* Every step keeps it that a completed run missed nothing.                   *)
LEMMA StepMissesNothing ==
    ASSUME StoreInv, CollectorInv, MemoriesFit, PlanInv, [CNext]_cvars
    PROVE  CompletedRunMissedNothing'
<1>0. /\ TypeOK /\ CTypeOK /\ PlansInHand /\ RunsHaveCampaigns /\ CompletedRunMissedNothing
      /\ [Next]_vars /\ PlansStay /\ KeepsNames /\ KeepsEndedRows
    BY StepIsStoreStep, StepKeepsPlans, StepKeepsNames, StepKeepsEndedRows
       DEF StoreInv, CollectorInv, PlanInv
<1> SUFFICES ASSUME NEW r \in Run, runs'[r].status = "completed", runs'[r].campaign # None
             PROVE  /\ clock' >= PlannedEnd(runs[r].campaign)'
                    /\ \A o \in Opportunity :
                         plan'[o].campaign = runs'[r].campaign
                           /\ ScheduledAt(o) >= startedAt'[r]
                         => \E k \in Cycle : /\ cycles'[k].opportunity = o
                                             /\ cycles'[k].status # "running"
    BY DEF CompletedRunMissedNothing
<1>1. CASE runs[r].status = "completed"
  <2>1. runs'[r] = runs[r]
      BY <1>0, <1>1 DEF KeepsEndedRows
  <2>2. PICK p \in Campaign : p = runs[r].campaign
      BY <1>0, <2>1 DEF TypeOK, RunRow
  <2>3. campaigns[p] # "absent" /\ runs'[r].campaign = p
      BY <1>0, <2>1, <2>2 DEF RunsHaveCampaigns
  <2>4. clock \in Int /\ clock' \in Int /\ clock' >= clock
    <3>1. CTypeOK'
        BY <1>0, StepTypes
    <3> QED BY <1>0, <3>1, TimeAssumption DEF CTypeOK, Time, PlansStay
  <2>5. span'[p] = span[p] /\ span[p].start + Duration \in Int
    <3>1. span[p].start \in Time
        BY <1>0 DEF CTypeOK
    <3>2. span[p].start \in Int /\ Duration \in Int
        BY <3>1, TimeAssumption DEF Time
    <3> QED BY <1>0, <2>3, <3>2 DEF PlansStay
  <2>6. clock >= PlannedEnd(p)
      BY <1>0, <1>1, <2>1, <2>2 DEF CompletedRunMissedNothing
  <2>7. clock' >= PlannedEnd(runs[r].campaign)'
      BY <2>3, <2>4, <2>5, <2>6 DEF PlannedEnd
  <2>8. ASSUME NEW o \in Opportunity, plan'[o].campaign = p, ScheduledAt(o) >= startedAt'[r]
        PROVE  \E k \in Cycle : cycles'[k].opportunity = o /\ cycles'[k].status # "running"
    <3>1. startedAt'[r] = startedAt[r] /\ plan[o].campaign = p
        BY <1>0, <1>1, <2>3, <2>8 DEF PlansStay
    <3>2. PICK k \in Cycle : cycles[k].opportunity = o /\ cycles[k].status # "running"
        BY <1>0, <1>1, <2>1, <2>2, <2>8, <3>1 DEF CompletedRunMissedNothing
    <3> QED BY <1>0, <3>2, ClaimsStay
  <2> QED BY <2>3, <2>7, <2>8
<1>2. CASE runs[r].status # "completed"
  <2>1. PICK c \in Client : (EndRunOfMarkets(c) \/ EndRunOfCampaign(c)) /\ task[c].run = r
      BY <1>2, CompletedByEndRun
  <2>2. runs'[r].campaign = runs[r].campaign
    <3>1. runs[r].status = "running"
        BY <2>1 DEF EndRunOfMarkets, EndRunOfCampaign, FinishRun, EndRun
    <3> QED BY <1>0, <3>1 DEF KeepsNames
  <2>3. /\ clock' >= PlannedEnd(runs[r].campaign)'
        /\ \A o \in Opportunity :
              plan'[o].campaign = runs[r].campaign /\ ScheduledAt(o) >= startedAt'[r]
                => \E k \in Cycle : cycles'[k].opportunity = o /\ cycles'[k].status # "running"
      BY <1>0, <2>1, <2>2, EndedRunMissedNothing
  <2> QED BY <2>2, <2>3
<1> QED BY <1>1, <1>2

(* The invariant of the plans holds in every state.                           *)
LEMMA PlansAreKept == CSpec => []PlanInv
<1>1. CInit => PlanInv
    BY DEF CInit, Init, PlanInv, PlansInHand, CanWrite, Usable, RunsHaveCampaigns,
       CompletedRunMissedNothing, NoRun
<1>2. StoreInv /\ CollectorInv /\ MemoriesFit /\ PlanInv /\ [CNext]_cvars => PlanInv'
  <2>1. PlanInv => RunsHaveCampaigns
      BY DEF PlanInv
  <2> QED BY <2>1, StepPlansInHand, StepRunsHaveCampaigns, StepMissesNothing DEF PlanInv
<1> QED BY <1>1, <1>2, CyclesAreRecalled, PTL DEF CSpec

(* A run of a campaign that completed missed nothing: each opportunity planned *)
(* at or after its start was claimed by some run, whatever stops, kills and    *)
(* restarts lay between, and none of those cycles is still open.               *)
THEOREM CompletedRunsMissNothing == CSpec => []CompletedRunMissedNothing
<1>1. PlanInv => CompletedRunMissedNothing
    BY DEF PlanInv
<1> QED BY <1>1, PlansAreKept, PTL

-----------------------------------------------------------------------------
(* When a run has ended *)

(* A run that ended has its time of ending, which is not in the future.        *)
EndsAreRecorded ==
    \A r \in Run : runs[r].stamp = "closed" => endedAt[r] # None /\ endedAt[r] <= clock

(* A step that ends a run records when; no other step changes that time.      *)
LEMMA StepRecordsEnds ==
    ASSUME StoreInv, CollectorInv, EndsAreRecorded, [CNext]_cvars, PlansStay, CTypeOK',
           NEW r \in Run
    PROVE  /\ runs[r].stamp = "closed" => endedAt'[r] = endedAt[r]
           /\ runs'[r].stamp = "closed" => endedAt'[r] # None /\ endedAt'[r] <= clock'
<1>0. TypeOK /\ CTypeOK /\ EndedIffStamped
    BY DEF StoreInv, CollectorInv
<1>1. clock \in Int /\ clock' \in Int /\ clock <= clock' /\ clock # None /\ endedAt[r] \in Time \cup {None}
    BY <1>0, TimeNone, TimeAssumption DEF CTypeOK, Time, PlansStay
<1>3. CASE UNCHANGED endedAt /\ (runs'[r].stamp = "closed" => runs[r].stamp = "closed")
  <2>1. endedAt[r] # None => endedAt[r] \in Int
      BY <1>1, TimeAssumption DEF Time
  <2> QED BY <1>1, <1>3, <2>1 DEF EndsAreRecorded
<1>4. ASSUME NEW c \in Client, EndRunOfMarkets(c) \/ EndRunOfCampaign(c) \/ AbandonRun(c)
      PROVE  /\ runs[r].stamp = "closed" => endedAt'[r] = endedAt[r]
             /\ runs'[r].stamp = "closed" => endedAt'[r] # None /\ endedAt'[r] <= clock'
  <2>1. PICK q \in Run : q = task[c].run
      BY <1>0, <1>4, TaskFields DEF EndRunOfMarkets, EndRunOfCampaign, AbandonRun, InHand, WorkPlace
  <2>2. /\ endedAt' = [endedAt EXCEPT ![q] = clock] /\ clock' = clock
        /\ runs[q].status = "running"
        /\ \E status : runs' = [runs EXCEPT ![q].status = status, ![q].stamp = "closed"]
      BY <1>4, <2>1 DEF EndRunOfMarkets, EndRunOfCampaign, AbandonRun, FinishRun, InterruptRun,
         EndRun, EndedNow
  <2>3. CASE q = r
    <3>1. endedAt'[r] = clock /\ runs[r].stamp # "closed"
        BY <1>0, <2>2, <2>3 DEF CTypeOK, EndedIffStamped
    <3> QED BY <1>1, <2>2, <3>1
  <2>4. CASE q # r
    <3>1. endedAt'[r] = endedAt[r] /\ runs'[r] = runs[r]
        BY <1>0, <2>2, <2>4 DEF CTypeOK, TypeOK
    <3> QED BY <1>1, <2>2, <3>1 DEF EndsAreRecorded
  <2> QED BY <2>3, <2>4
<1>5. ASSUME NEW c \in Client, Progress(c), ~EndRunOfMarkets(c), ~EndRunOfCampaign(c), ~AbandonRun(c)
      PROVE  UNCHANGED endedAt /\ (runs'[r].stamp = "closed" => runs[r].stamp = "closed")
  <2>1. UNCHANGED endedAt
      BY <1>5 DEF Progress, TakeLock, Refused, Leave, Recover, ResumeCampaign, BeginCampaign,
         BeginRun, BeginMarket, BeginOpportunity, EnterCycle, SkipLate, BeginAttempt, NoticeStop,
         EndAttempt, EndCycle, AbandonCycle, EndCampaign, Columns
  <2>2. CASE BeginRun(c)
    <3>1. PICK q \in Run : q = New(runs)
        BY <1>0, NewRows
    <3>2. PICK row : runs' = [runs EXCEPT ![q] = row] /\ row.stamp = "open"
      <4>1. PICK held : StartRun(c, q, task[c].campaign, held)
          BY <2>2, <3>1 DEF BeginRun
      <4>2. runs' = [runs EXCEPT ![q] = [status |-> "running", campaign |-> task[c].campaign,
                                         held |-> held, stamp |-> "open"]]
          BY <4>1 DEF StartRun
      <4> DEFINE row == [status |-> "running", campaign |-> task[c].campaign, held |-> held,
                         stamp |-> "open"]
      <4>3. runs' = [runs EXCEPT ![q] = row] /\ row.stamp = "open"
          BY <4>2
      <4> QED BY <4>3
    <3> QED BY <1>0, <2>1, <3>2 DEF TypeOK
  <2>3. CASE Recover(c)
    <3>1. runs' = [q \in Run |-> IF runs[q].status = "running"
            THEN [runs[q] EXCEPT !.status = "interrupted", !.stamp = "recovered"]
            ELSE runs[q]]
        BY <2>3, Zenon DEF Recover, RecoverIncomplete
    <3>2. runs[r] \in RunRow
        BY <1>0 DEF TypeOK
    <3>3. CASE runs[r].status = "running"
      <4>1. runs'[r].stamp = "recovered"
          BY <3>1, <3>2, <3>3 DEF RunRow
      <4> QED BY <2>1, <4>1
    <3>4. CASE runs[r].status # "running"
        BY <2>1, <3>1, <3>4
    <3> QED BY <3>3, <3>4
  <2> QED BY <1>5, <2>1, <2>2, <2>3, FewStepsTouchRuns
<1>6. CASE Tick \/ ServerEnds \/ UNCHANGED cvars \/ \E c \in Client : Disturbance(c)
  <2>1. UNCHANGED tables /\ UNCHANGED endedAt
    <3>1. CASE Tick \/ ServerEnds \/ UNCHANGED cvars
        BY <3>1 DEF Tick, ServerEnds, SessionEnds, cvars, vars, Columns
    <3>2. ASSUME NEW c \in Client, Disturbance(c) PROVE UNCHANGED tables /\ UNCHANGED endedAt
      <4>1. UNCHANGED endedAt
          BY <3>2 DEF Disturbance, Launch, StatementFails, Raise, CutShort, StopRequested,
             LoseConnection, Killed, Columns
      <4> QED BY <3>2, <4>1, DisturbanceKeepsTables
    <3> QED BY <1>6, <3>1, <3>2
  <2> QED BY <1>3, <2>1 DEF tables
<1> QED BY <1>3, <1>4, <1>5, <1>6 DEF CNext

(* A run that ended has its time of ending.                                    *)
LEMMA EndsStayRecorded == CSpec => []EndsAreRecorded
<1>1. CInit => EndsAreRecorded
    BY DEF CInit, Init, EndsAreRecorded, NoRun
<1>2. /\ StoreInv /\ CollectorInv /\ EndsAreRecorded /\ [CNext]_cvars /\ CollectorInv'
      => EndsAreRecorded'
  <2> SUFFICES ASSUME StoreInv, CollectorInv, EndsAreRecorded, [CNext]_cvars, CollectorInv'
               PROVE  EndsAreRecorded'
      OBVIOUS
  <2>1. PlansStay /\ CTypeOK'
      BY StepKeepsPlans DEF CollectorInv
  <2>2. ASSUME NEW r \in Run, runs'[r].stamp = "closed"
        PROVE  endedAt'[r] # None /\ endedAt'[r] <= clock'
      BY <2>1, <2>2, StepRecordsEnds
  <2> QED BY <2>2 DEF EndsAreRecorded
<1> QED BY <1>1, <1>2, BothInvariants, PTL DEF CSpec

-----------------------------------------------------------------------------
(* The campaigns of runs, cycles and plans *)

(* A step that is no collector's keeps the tables and what is in hand.         *)
LEMMA StepIsOfSomeone ==
    ASSUME [CNext]_cvars
    PROVE  \/ \E c \in Client : Progress(c) \/ Disturbance(c)
           \/ UNCHANGED tables /\ UNCHANGED <<span, pc, task>>
BY DEF CNext, Tick, ServerEnds, SessionEnds, Columns, cvars, vars, tables

(* Opportunities are planned for their own campaign and market.                *)
LEMMA StepPlansTheirOwn ==
    ASSUME StoreInv, CollectorInv, PlansAreTheirOwn, [CNext]_cvars
    PROVE  PlansAreTheirOwn'
<1>0. TypeOK /\ CTypeOK
    BY DEF StoreInv, CollectorInv
<1>1. ASSUME plan' = plan PROVE PlansAreTheirOwn'
    BY <1>1 DEF PlansAreTheirOwn
<1>2. ASSUME NEW c \in Client, BeginCampaign(c) PROVE PlansAreTheirOwn'
  <2>1. CreateCampaign(c, NewCampaign, NewSchedule(c, NewCampaign))
      BY <1>2 DEF BeginCampaign
  <2>2. \A o \in Opportunity : o \in DOMAIN NewSchedule(c, NewCampaign)
                                => o[1] = NewCampaign /\ NewSchedule(c, NewCampaign)[o] = o[2]
      BY DEF NewSchedule
  <2>3. PICK p, planned : /\ CreateCampaign(c, p, planned)
                          /\ \A o \in Opportunity : o \in DOMAIN planned
                                                       => o[1] = p /\ planned[o] = o[2]
      BY <2>1, <2>2
  <2>4. \A o \in Opportunity : plan'[o] = [campaign |-> o[1], market |-> o[2]]
                                 \/ plan'[o] = plan[o]
      BY <1>0, <2>3 DEF CreateCampaign, TypeOK
  <2> QED BY <2>4 DEF PlansAreTheirOwn
<1>3. ASSUME NEW c \in Client, Progress(c), ~BeginCampaign(c) PROVE plan' = plan
    BY <1>3 DEF Progress, TakeLock, Refused, Leave, Recover, ResumeCampaign, BeginRun, BeginMarket,
       BeginOpportunity, EnterCycle, SkipLate, BeginAttempt, NoticeStop, EndAttempt, EndCycle,
       AbandonCycle, EndRunOfMarkets, EndRunOfCampaign, AbandonRun, EndCampaign, FinishCampaign,
       AcquireLock, Exit, RecoverIncomplete, StartRun, StartCycle, StopCycle, StartAttempt,
       FinishAttempt, FinishCycle, FinishRun, InterruptRun, EndRun, vars, tables
<1> QED BY <1>1, <1>2, <1>3, StepIsOfSomeone, DisturbanceKeepsTables DEF tables

(* A process about to run a campaign has its input.                            *)
LEMMA StepInputsInHand ==
    ASSUME StoreInv, CollectorInv, InputsInHand, [CNext]_cvars
    PROVE  InputsInHand'
<1>0. TypeOK /\ CTypeOK /\ PlansStay
    BY StepKeepsPlans DEF StoreInv, CollectorInv
<1> SUFFICES ASSUME NEW c \in Client, pc'[c] = "planned"
             PROVE  /\ campaigns'[task'[c].campaign] # "absent"
                    /\ span'[task'[c].campaign].held = task'[c].held
    BY DEF InputsInHand, InputInHand
<1>1. PICK m \in TaskRow : m = task[c] /\ InHand(pc[c], m)
    BY <1>0, TaskFields
<1>2. ASSUME pc[c] = "planned", task'[c].campaign = m.campaign, task'[c].held = m.held
      PROVE  /\ campaigns'[task'[c].campaign] # "absent"
             /\ span'[task'[c].campaign].held = task'[c].held
  <2>1. m.campaign \in Campaign
      BY <1>1, <1>2 DEF InHand
  <2>2. campaigns[m.campaign] # "absent" /\ span[m.campaign].held = m.held
      BY <1>1, <1>2 DEF InputsInHand, InputInHand
  <2> QED BY <1>0, <1>2, <2>1, <2>2 DEF PlansStay
<1>3. CASE UNCHANGED <<pc, task>>
    BY <1>1, <1>2, <1>3
<1>4. ASSUME NEW d \in Client \ {c}, Progress(d) \/ Disturbance(d)
      PROVE  pc'[c] = pc[c] /\ task'[c] = task[c]
    BY <1>0, <1>4, OthersStay
<1>5. ASSUME NEW to, NEW mem, Goto(c, to, mem)
      PROVE  to = "planned" /\ task'[c] = mem
    BY <1>0, <1>5 DEF Goto, CTypeOK
<1>6. CASE Disturbance(c)
  <2>1. CASE StopRequested(c)
    <3>1. pc'[c] = pc[c] /\ task'[c] = [m EXCEPT !.stop = TRUE]
        BY <1>0, <1>1, <2>1 DEF StopRequested, CTypeOK
    <3>2. task'[c].campaign = m.campaign /\ task'[c].held = m.held
        BY <3>1 DEF TaskRow
    <3> QED BY <1>2, <3>1, <3>2
  <2>2. CASE LoseConnection(c)
      BY <1>3, <2>2 DEF LoseConnection
  <2>3. CASE Killed(c)
      BY <1>0, <2>3 DEF Killed, CTypeOK
  <2>4. CASE Launch(c) \/ StatementFails(c) \/ Raise(c) \/ CutShort(c)
    <3>1. \E to \in {"opened", "closing", "stopping", "ending"} : \E mem : Goto(c, to, mem)
        BY <2>4, Zenon DEF Launch, StatementFails, Raise, CutShort, Unwind
    <3> QED BY <1>5, <3>1
  <2> QED BY <1>6, <2>1, <2>2, <2>3, <2>4 DEF Disturbance
<1>7. CASE ResumeCampaign(c)
  <2>1. PICK p \in Campaign : /\ Matches(p, c)
                              /\ Goto(c, "planned", [m EXCEPT !.campaign = p])
      BY <1>1, <1>7 DEF ResumeCampaign
  <2>2. campaigns[p] # "absent" /\ span[p].held = m.held
      BY <1>1, <2>1 DEF Matches
  <2>3. task'[c].campaign = p /\ task'[c].held = m.held
      BY <1>5, <2>1 DEF TaskRow
  <2> QED BY <1>0, <2>2, <2>3 DEF PlansStay
<1>8. CASE BeginCampaign(c)
  <2>1. PICK p \in Campaign : p = NewCampaign
      BY <1>0, NewRows
  <2>2. /\ campaigns' = [campaigns EXCEPT ![p] = "running"]
        /\ span' = [span EXCEPT ![p] = [start |-> m.started, held |-> m.held]]
        /\ Goto(c, "planned", [m EXCEPT !.campaign = p])
      BY <1>1, <1>8, <2>1, Zenon DEF BeginCampaign, CreateCampaign
  <2>3. task'[c].campaign = p /\ task'[c].held = m.held
      BY <1>5, <2>2 DEF TaskRow
  <2>4. campaigns'[p] # "absent" /\ span'[p].held = m.held
      BY <1>0, <2>2 DEF TypeOK, CTypeOK
  <2> QED BY <2>3, <2>4
<1>9. CASE Progress(c) /\ ~ResumeCampaign(c) /\ ~BeginCampaign(c)
  <2>1. CASE Leave(c)
      BY <1>0, <2>1 DEF Leave, CTypeOK
  <2>2. CASE ~Leave(c)
    <3>1. \E to \in Place \ {"planned"} : \E mem : Goto(c, to, mem)
      <4>1. CASE TakeLock(c) \/ Refused(c) \/ Recover(c) \/ BeginRun(c) \/ NoticeStop(c)
          BY <4>1, Zenon DEF TakeLock, Refused, Recover, BeginRun, NoticeStop, Place
      <4>2. CASE BeginMarket(c) \/ SkipLate(c) \/ BeginAttempt(c) \/ EndCycle(c)
          BY <4>2, Zenon DEF BeginMarket, EnterCycle, SkipLate, BeginAttempt, EndCycle, Place
      <4>3. CASE BeginOpportunity(c)
        <5>1. \E n, o, old : \E to \in {"cycle", "late"} : EnterCycle(c, n, o, to, old)
            BY <4>3 DEF BeginOpportunity
        <5> QED BY <5>1, Zenon DEF EnterCycle, Place
      <4>4. CASE EndAttempt(c)
          BY <4>4, Zenon DEF EndAttempt, AfterVisit, Place
      <4>5. CASE AbandonCycle(c) \/ EndRunOfMarkets(c) \/ EndRunOfCampaign(c)
                  \/ EndCampaign(c) \/ AbandonRun(c)
          BY <4>5, Zenon DEF AbandonCycle, EndRunOfMarkets, EndRunOfCampaign, EndCampaign,
             AbandonRun, Place
      <4> QED BY <1>9, <2>2, <4>1, <4>2, <4>3, <4>4, <4>5 DEF Progress
    <3> QED BY <1>5, <3>1
  <2> QED BY <2>1, <2>2
<1> QED BY <1>1, <1>2, <1>3, <1>4, <1>6, <1>7, <1>8, <1>9, StepIsOfSomeone

(* A run's row is new only when a collector begins it.                         *)
LEMMA NewRunIsBegun ==
    ASSUME StoreInv, CollectorInv, [CNext]_cvars, NEW r \in Run, runs[r].status = "absent",
           runs'[r] # runs[r]
    PROVE  \E c \in Client : BeginRun(c) /\ New(runs) = r
<1>0. TypeOK /\ CTypeOK
    BY DEF StoreInv, CollectorInv
<1>1. PICK c \in Client : Progress(c)
    BY StepIsOfSomeone, DisturbanceKeepsTables DEF tables
<1>2. CASE Recover(c)
    BY <1>0, <1>2 DEF Recover, RecoverIncomplete, TypeOK
<1>3. CASE AbandonRun(c) \/ EndRunOfMarkets(c) \/ EndRunOfCampaign(c)
  <2>1. PICK q \in Run : q = task[c].run
      BY <1>0, <1>3, TaskFields DEF AbandonRun, EndRunOfMarkets, EndRunOfCampaign, InHand, WorkPlace
  <2>2. PICK status \in {"completed", "interrupted"} : EndRun(c, q, status)
      BY <1>3, <2>1 DEF AbandonRun, EndRunOfMarkets, EndRunOfCampaign, FinishRun, InterruptRun
  <2> QED BY <1>0, <2>2, EndsOneRun DEF EndRun, RunStatus
<1>4. CASE BeginRun(c)
  <2>1. PICK q \in Run : q = New(runs)
      BY <1>0, NewRows
  <2>2. PICK p, held : StartRun(c, q, p, held)
      BY <1>4, <2>1, Zenon DEF BeginRun
  <2>3. q = r
      BY <1>0, <2>2 DEF StartRun, TypeOK
  <2> QED BY <1>4, <2>1, <2>3
<1> QED BY <1>1, <1>2, <1>3, <1>4, FewStepsTouchRuns

(* Every run of a campaign has its input.                                      *)
LEMMA StepRunsHoldTheInput ==
    ASSUME StoreInv, CollectorInv, MemoriesFit, RunsHaveCampaigns, InputsInHand,
           RunsHoldTheInput, [CNext]_cvars
    PROVE  RunsHoldTheInput'
<1>0. TypeOK /\ CTypeOK /\ [Next]_vars /\ PlansStay /\ KeepsNames
    BY StepIsStoreStep, StepKeepsPlans, StepKeepsNames DEF StoreInv, CollectorInv
<1> SUFFICES ASSUME NEW r \in Run, runs'[r].campaign # None
             PROVE  runs'[r].held = span'[runs'[r].campaign].held
    BY DEF RunsHoldTheInput
<1>1. CASE runs[r].status # "absent"
  <2>1. runs'[r].campaign = runs[r].campaign /\ runs'[r].held = runs[r].held
      BY <1>0, <1>1 DEF KeepsNames
  <2>2. runs[r].campaign \in Campaign
      BY <1>0, <2>1 DEF TypeOK, RunRow
  <2> QED BY <1>0, <2>1, <2>2 DEF RunsHaveCampaigns, RunsHoldTheInput, PlansStay
<1>2. CASE runs[r].status = "absent"
  <2>1. runs'[r] # runs[r]
      BY <1>2 DEF StoreInv, RowsAreLinked, NoRun
  <2>2. PICK c \in Client : BeginRun(c) /\ New(runs) = r
      BY <1>2, <2>1, NewRunIsBegun
  <2>3. PICK m \in TaskRow : m = task[c] /\ InHand(pc[c], m) /\ MemoryFits(pc[c], m)
      BY <1>0, TaskFields DEF MemoriesFit
  <2>4. PICK held \in Batches(c) : StartRun(c, r, m.campaign, held)
      BY <2>2, <2>3, Zenon DEF BeginRun
  <2>5. runs'[r].campaign = m.campaign /\ runs'[r].held = held
      BY <1>0, <2>4 DEF StartRun, TypeOK
  <2>6. m.kind = "monitor" /\ pc[c] = "planned"
      BY <2>2, <2>3, <2>5 DEF MemoryFits, BeginRun
  <2>7. held = m.held
      BY <2>3, <2>4, <2>6 DEF Batches
  <2>8. m.campaign \in Campaign
      BY <2>3, <2>6 DEF InHand
  <2>9. campaigns[m.campaign] # "absent" /\ span[m.campaign].held = m.held
      BY <2>3, <2>6 DEF InputsInHand, InputInHand
  <2> QED BY <1>0, <2>5, <2>7, <2>8, <2>9 DEF PlansStay
<1> QED BY <1>1, <1>2

(* A cycle's row is new only when a collector enters it.                       *)
LEMMA NewCycleIsEntered ==
    ASSUME StoreInv, CollectorInv, [CNext]_cvars, NEW k \in Cycle, cycles[k].status = "absent",
           cycles'[k] # cycles[k]
    PROVE  \E c \in Client : (BeginMarket(c) \/ BeginOpportunity(c)) /\ New(cycles) = k
<1>0. TypeOK /\ CTypeOK
    BY DEF StoreInv, CollectorInv
<1>1. PICK c \in Client : Progress(c)
    BY StepIsOfSomeone, DisturbanceKeepsTables DEF tables
<1>2. CASE Recover(c)
    BY <1>0, <1>2 DEF Recover, RecoverIncomplete, TypeOK
<1>3. CASE SkipLate(c) \/ EndCycle(c) \/ AbandonCycle(c)
  <2>1. PICK j, status : /\ cycles[j].status = "running"
                         /\ cycles' = [cycles EXCEPT ![j].status = status, ![j].stamp = "closed"]
      BY <1>3, Zenon DEF SkipLate, EndCycle, AbandonCycle, StopCycle, FinishCycle
  <2> QED BY <1>0, <2>1 DEF TypeOK
<1>4. CASE BeginMarket(c) \/ BeginOpportunity(c)
  <2>1. PICK j \in Cycle : j = New(cycles)
      BY <1>0, NewRows
  <2>2. PICK r, m, o : StartCycle(c, j, r, m, o)
      BY <1>4, <2>1, Zenon DEF BeginMarket, BeginOpportunity, EnterCycle
  <2>3. j = k
      BY <1>0, <2>2 DEF StartCycle, TypeOK
  <2> QED BY <1>4, <2>1, <2>3
<1>5. CASE BeginAttempt(c) \/ EndAttempt(c)
  <2>1. (\E a, j, t, s : StartAttempt(c, a, j, t, s)) \/ \E a, result : FinishAttempt(c, a, result)
      BY <1>5, Zenon DEF BeginAttempt, EndAttempt
  <2> QED BY <2>1 DEF StartAttempt, FinishAttempt
<1>6. CASE BeginRun(c)
  <2>1. PICK r, p, held : StartRun(c, r, p, held)
      BY <1>6, Zenon DEF BeginRun
  <2> QED BY <2>1 DEF StartRun
<1>7. CASE \/ TakeLock(c) \/ Refused(c) \/ Leave(c) \/ ResumeCampaign(c) \/ BeginCampaign(c)
           \/ NoticeStop(c) \/ EndRunOfMarkets(c) \/ EndRunOfCampaign(c) \/ EndCampaign(c)
           \/ AbandonRun(c)
    BY <1>7 DEF TakeLock, Refused, Leave, ResumeCampaign, BeginCampaign, NoticeStop,
       EndRunOfMarkets, EndRunOfCampaign, EndCampaign, AbandonRun, AcquireLock, Exit,
       CreateCampaign, FinishCampaign, FinishRun, InterruptRun, EndRun, vars, tables
<1> QED BY <1>1, <1>2, <1>3, <1>4, <1>5, <1>6, <1>7 DEF Progress

(* Every cycle in a run of a campaign has an opportunity.                      *)
LEMMA StepCyclesAreScheduled ==
    ASSUME StoreInv, CollectorInv, MemoriesFit, PlansInHand, CampaignCyclesAreScheduled,
           [CNext]_cvars
    PROVE  CampaignCyclesAreScheduled'
<1>0. TypeOK /\ CTypeOK /\ [Next]_vars /\ KeepsNames /\ RowsAreLinked
    BY StepIsStoreStep, StepKeepsNames DEF StoreInv, CollectorInv
<1> SUFFICES ASSUME NEW k \in Cycle, cycles'[k].status # "absent",
                    runs'[cycles'[k].run].campaign # None
             PROVE  cycles'[k].opportunity # None
    BY DEF CampaignCyclesAreScheduled
<1>1. CASE cycles[k].status # "absent"
  <2>1. /\ cycles[k].run \in Run /\ runs[cycles[k].run].status # "absent"
        /\ cycles'[k].run = cycles[k].run /\ cycles'[k].opportunity = cycles[k].opportunity
      BY <1>0, <1>1 DEF KeepsNames, RowsAreLinked
  <2> QED BY <1>0, <1>1, <2>1 DEF KeepsNames, CampaignCyclesAreScheduled
<1>2. CASE cycles[k].status = "absent"
  <2>1. PICK c \in Client : (BeginMarket(c) \/ BeginOpportunity(c)) /\ New(cycles) = k
      BY <1>2, NewCycleIsEntered
  <2>2. PICK m \in TaskRow : m = task[c] /\ InHand(pc[c], m) /\ MemoryFits(pc[c], m)
      BY <1>0, TaskFields DEF MemoriesFit
  <2>3. CASE BeginOpportunity(c)
    <3>1. PICK o \in Earliest(c) : StartCycle(c, k, m.run, o[2], o)
        BY <2>1, <2>2, <2>3, Zenon DEF BeginOpportunity, EnterCycle
    <3>2. cycles'[k].opportunity = o
        BY <1>0, <3>1 DEF StartCycle, TypeOK
    <3>3. o \in Opportunity
        BY <2>2, <3>1 DEF Earliest, TaskRow
    <3> QED BY <3>2, <3>3, NoneAssumption
  <2>4. CASE BeginMarket(c)
    <3>1. PICK n : StartCycle(c, k, m.run, n, None)
        BY <2>1, <2>2, <2>4, Zenon DEF BeginMarket, EnterCycle
    <3>2. cycles'[k].run = m.run /\ runs' = runs /\ CanWrite(c)
        BY <1>0, <3>1 DEF StartCycle, Commit, TypeOK
    <3>3. pc[c] = "run" /\ m.campaign = None
        BY <2>2, <2>4 DEF BeginMarket, MemoryFits
    <3>4. PlanInHand("run", m)
        BY <2>2, <3>2, <3>3 DEF PlansInHand
    <3> QED BY <3>2, <3>3, <3>4 DEF PlanInHand, WorkPlace
  <2> QED BY <2>1, <2>3, <2>4
<1> QED BY <1>1, <1>2

(* The inputs, cycles and plans of campaigns fit together in every state.      *)
LEMMA CampaignsAreKept == CSpec => []CampaignInv
<1>1. CInit => CampaignInv
    BY DEF CInit, Init, CampaignInv, InputsInHand, InputInHand, RunsHoldTheInput,
       CampaignCyclesAreScheduled, PlansAreTheirOwn, NoRun, NoPlan, NoCycle
<1>2. StoreInv /\ CollectorInv /\ MemoriesFit /\ PlanInv /\ CampaignInv /\ [CNext]_cvars
      => CampaignInv'
    BY StepPlansTheirOwn, StepInputsInHand, StepRunsHoldTheInput, StepCyclesAreScheduled
       DEF CampaignInv, PlanInv
<1> QED BY <1>1, <1>2, CyclesAreRecalled, PlansAreKept, PTL DEF CSpec

-----------------------------------------------------------------------------
(* The order of the opportunities *)

(* No cycle of a process's run is open but the one it has in hand.             *)
OpenCycleInHand(place, m) ==
    place \in WorkPlace => \A k \in Cycle : cycles[k].status = "running" => k = m.cycle

(* So it is for every process that can write.                                 *)
OpenCyclesInHand == \A c \in Client : CanWrite(c) => OpenCycleInHand(pc[c], task[c])

(* Where a process goes with its open cycle in hand it has it.                *)
LEMMA WentWithCycle ==
    ASSUME CTypeOK, NEW c \in Client, NEW place, NEW memory, Goto(c, place, memory),
           CanWrite(c)', place \in WorkPlace =>
               \A k \in Cycle : cycles'[k].status = "running" => k = memory.cycle
    PROVE  OpenCycleInHand(pc[c], task[c])'
<1>1. ~failed'[c]
    BY DEF CanWrite, Usable
<1>2. pc'[c] = place /\ (place \in {"closing", "off"} \/ task'[c] = memory)
    BY <1>1 DEF Goto, CTypeOK
<1> QED BY <1>2 DEF OpenCycleInHand, WorkPlace

(* A cycle entered is the only one open.                                      *)
LEMMA EnteredWithCycle ==
    ASSUME StoreInv, CollectorInv, OpenCyclesInHand, NEW c \in Client, pc[c] = "run",
           CanWrite(c)', NEW n, NEW o, NEW place, NEW old \in TaskRow,
           EnterCycle(c, n, o, place, old)
    PROVE  OpenCycleInHand(pc[c], task[c])'
<1>0. TypeOK /\ CTypeOK
    BY DEF StoreInv, CollectorInv
<1>1. PICK k \in Cycle : k = New(cycles)
    BY <1>0, NewRows
<1>2. PICK run, todo : /\ StartCycle(c, k, run, n, o)
                       /\ Goto(c, place, [old EXCEPT !.cycle = k, !.todo = todo])
    BY <1>1, Zenon DEF EnterCycle
<1>3. PICK mem : mem = [old EXCEPT !.cycle = k, !.todo = todo]
    OBVIOUS
<1>4. mem.cycle = k
    BY <1>3 DEF TaskRow
<1>5. CanWrite(c) /\ \A j \in Cycle \ {k} : cycles'[j] = cycles[j]
    BY <1>0, <1>2 DEF StartCycle, Commit, TypeOK
<1>6. \A j \in Cycle : cycles[j].status # "running"
  <2>1. task[c].cycle = None
      BY <1>0, TaskFields DEF InHand
  <2> QED BY <1>5, <2>1, NoneAssumption DEF OpenCyclesInHand, OpenCycleInHand, WorkPlace
<1> QED BY <1>0, <1>2, <1>3, <1>4, <1>5, <1>6, WentWithCycle

(* Progress keeps a process's open cycle in hand.                             *)
LEMMA OwnProgressWithCycle ==
    ASSUME StoreInv, CollectorInv, OpenCyclesInHand, NEW c \in Client, Progress(c), CanWrite(c)'
    PROVE  OpenCycleInHand(pc[c], task[c])'
<1>0. TypeOK /\ CTypeOK /\ OpenWorkIsNested /\ RowsAreLinked
    BY DEF StoreInv, CollectorInv
<1>1. PICK m \in TaskRow : m = task[c] /\ InHand(pc[c], m)
    BY <1>0, TaskFields
(* A process that goes on with its cycle, or without one.                     *)
<1>2. ASSUME CanWrite(c), pc[c] \in WorkPlace, cycles' = cycles, NEW to, NEW mem,
             Goto(c, to, mem), mem.cycle = m.cycle
      PROVE  OpenCycleInHand(pc[c], task[c])'
    BY <1>0, <1>1, <1>2, WentWithCycle DEF OpenCyclesInHand, OpenCycleInHand
(* A process that ends its cycle.                                             *)
<1>3. ASSUME CanWrite(c), pc[c] \in WorkPlace, NEW status \in CycleStatus \ {"running"},
             cycles' = [cycles EXCEPT ![m.cycle].status = status, ![m.cycle].stamp = "closed"],
             m.cycle \in Cycle, NEW to, NEW mem, Goto(c, to, mem)
      PROVE  OpenCycleInHand(pc[c], task[c])'
  <2>1. \A k \in Cycle : cycles[k].status = "running" => k = m.cycle
      BY <1>1, <1>3 DEF OpenCyclesInHand, OpenCycleInHand
  <2>2. \A k \in Cycle : cycles'[k].status # "running"
    <3>1. \A k \in Cycle \ {m.cycle} : cycles'[k] = cycles[k]
        BY <1>0, <1>3, CycleEnds
    <3>2. cycles'[m.cycle].status = status
        BY <1>0, <1>3, CycleEnds
    <3> QED BY <1>3, <2>1, <3>1, <3>2
  <2> QED BY <1>0, <1>3, <2>2, WentWithCycle
<1>4. CASE BeginMarket(c)
  <2>1. PICK n \in task[c].markets :
          EnterCycle(c, n, None, "cycle", [task[c] EXCEPT !.markets = @ \ {n}])
      BY <1>4 DEF BeginMarket
  <2>2. PICK old : old = [m EXCEPT !.markets = @ \ {n}]
      OBVIOUS
  <2>3. old \in TaskRow
      BY <2>2 DEF TaskRow
  <2>4. pc[c] = "run" /\ EnterCycle(c, n, None, "cycle", old)
      BY <1>1, <1>4, <2>1, <2>2 DEF BeginMarket
  <2> QED BY <2>3, <2>4, EnteredWithCycle
<1>5. CASE BeginOpportunity(c)
  <2>1. PICK o, place : EnterCycle(c, o[2], o, place, [task[c] EXCEPT !.left = @ \ {o}])
      BY <1>5, Zenon DEF BeginOpportunity
  <2>2. PICK old, n : old = [m EXCEPT !.left = @ \ {o}] /\ n = o[2]
      OBVIOUS
  <2>3. old \in TaskRow
      BY <2>2 DEF TaskRow
  <2>4. pc[c] = "run" /\ EnterCycle(c, n, o, place, old)
      BY <1>1, <1>5, <2>1, <2>2 DEF BeginOpportunity
  <2> QED BY <2>3, <2>4, EnteredWithCycle
<1>6. CASE SkipLate(c) \/ EndCycle(c) \/ AbandonCycle(c)
  <2>1. m.cycle \in Cycle /\ pc[c] \in WorkPlace
      BY <1>1, <1>6 DEF SkipLate, EndCycle, AbandonCycle, InHand, WorkPlace
  <2>2. PICK status \in CycleStatus \ {"running"} : /\ CanWrite(c)
          /\ cycles' = [cycles EXCEPT ![m.cycle].status = status, ![m.cycle].stamp = "closed"]
      BY <1>1, <1>6 DEF SkipLate, EndCycle, AbandonCycle, StopCycle, FinishCycle, CycleStatus, Commit
  <2>3. PICK to, mem : Goto(c, to, mem)
      BY <1>6, Zenon DEF SkipLate, EndCycle, AbandonCycle
  <2> QED BY <1>3, <2>1, <2>2, <2>3
<1>7. CASE BeginAttempt(c)
  <2>1. PICK todo, a, doing : Goto(c, "attempt", [task[c] EXCEPT
            !.todo = todo, !.attempt = a, !.doing = doing])
      BY <1>7, Zenon DEF BeginAttempt
  <2>2. PICK mem : mem = [m EXCEPT !.todo = todo, !.attempt = a, !.doing = doing]
      OBVIOUS
  <2>3. mem.cycle = m.cycle
      BY <2>2 DEF TaskRow
  <2>4. CanWrite(c) /\ cycles' = cycles
    <3>1. PICK b, k, t, s : StartAttempt(c, b, k, t, s)
        BY <1>7, Zenon DEF BeginAttempt
    <3> QED BY <3>1 DEF StartAttempt, Commit
  <2>5. pc[c] \in WorkPlace /\ Goto(c, "attempt", mem)
    <3>1. pc[c] \in {"cycle", "retry"}
        BY <1>7 DEF BeginAttempt
    <3> QED BY <1>1, <2>1, <2>2, <3>1 DEF WorkPlace
  <2> QED BY <1>2, <2>3, <2>4, <2>5
<1>8. CASE EndAttempt(c)
  <2>1. PICK to, doing, chosen : Goto(c, to, [task[c] EXCEPT
            !.attempt = None, !.doing = doing, !.chosen = chosen])
    <3>1. [task[c] EXCEPT !.attempt = None]
            = [task[c] EXCEPT !.attempt = None, !.doing = task[c].doing,
                              !.chosen = task[c].chosen]
        BY <1>1 DEF TaskRow
    <3>2. \/ \E chosen : Goto(c, AfterVisit(c), [task[c] EXCEPT
                 !.attempt = None, !.doing = None, !.chosen = chosen])
          \/ Goto(c, "retry", [task[c] EXCEPT !.attempt = None])
        BY <1>8, Zenon DEF EndAttempt
    <3> QED BY <3>1, <3>2, Zenon
  <2>2. PICK mem : mem = [m EXCEPT !.attempt = None, !.doing = doing, !.chosen = chosen]
      OBVIOUS
  <2>3. mem.cycle = m.cycle
      BY <2>2 DEF TaskRow
  <2>4. CanWrite(c) /\ cycles' = cycles
    <3>1. PICK a, result : FinishAttempt(c, a, result)
        BY <1>8, Zenon DEF EndAttempt
    <3> QED BY <3>1 DEF FinishAttempt, Commit
  <2>5. pc[c] \in WorkPlace /\ Goto(c, to, mem)
    <3>1. pc[c] = "attempt"
        BY <1>8, Zenon DEF EndAttempt
    <3> QED BY <1>1, <2>1, <2>2, <3>1 DEF WorkPlace
  <2> QED BY <1>2, <2>3, <2>4, <2>5
<1>9. CASE NoticeStop(c)
  <2>1. CanWrite(c) /\ cycles' = cycles /\ Goto(c, "stopping", m) /\ pc[c] \in WorkPlace
      BY <1>1, <1>9 DEF NoticeStop, CanWrite, Usable, vars, session, tables, WorkPlace
  <2> QED BY <1>2, <2>1
<1>10. CASE BeginRun(c)
  <2>1. PICK r, p, held, mem : StartRun(c, r, p, held) /\ Goto(c, "run", mem)
      BY <1>10, Zenon DEF BeginRun
  <2>2. CanWrite(c) /\ cycles' = cycles /\ pc[c] \in {"recovered", "planned"}
      BY <1>10, <2>1 DEF StartRun, Commit, BeginRun
  <2>3. \A r2 \in Run : runs[r2].status # "running"
      BY <2>2 DEF CollectorInv, OnlyOwnRunIsRunning
  <2>4. \A k \in Cycle : cycles'[k].status # "running"
      BY <1>0, <2>2, <2>3 DEF OpenWorkIsNested, RowsAreLinked
  <2> QED BY <1>0, <2>1, <2>4, WentWithCycle
<1>11. ASSUME NEW to \in {"closing", "locked", "recovered", "planned", "done"}, NEW memory,
              Goto(c, to, memory)
       PROVE  OpenCycleInHand(pc[c], task[c])'
    BY <1>0, <1>11, WentWithCycle DEF WorkPlace
<1>12. CASE Leave(c)
  <2>1. pc'[c] \notin WorkPlace
      BY <1>0, <1>12 DEF Leave, CTypeOK, WorkPlace
  <2> QED BY <2>1 DEF OpenCycleInHand
<1> QED BY <1>4, <1>5, <1>6, <1>7, <1>8, <1>9, <1>10, <1>11, <1>12 DEF Progress, TakeLock,
        Refused, Recover, ResumeCampaign, BeginCampaign, EndRunOfMarkets, EndRunOfCampaign,
        EndCampaign, AbandonRun

(* Nor does a disturbance take the open cycle out of the process's hand.       *)
LEMMA OwnDisturbanceWithCycle ==
    ASSUME StoreInv, CollectorInv, OpenCyclesInHand, NEW c \in Client, Disturbance(c),
           CanWrite(c)'
    PROVE  OpenCycleInHand(pc[c], task[c])'
<1>0. TypeOK /\ CTypeOK /\ cycles' = cycles
    BY DisturbanceKeepsTables DEF StoreInv, CollectorInv, tables
<1>1. PICK m \in TaskRow : m = task[c]
    BY <1>0, TaskFields
<1>2. CASE Launch(c) \/ StatementFails(c) \/ CutShort(c)
  <2>1. PICK to \in {"opened", "closing"} : \E mem : Goto(c, to, mem)
      BY <1>2, Zenon DEF Launch, StatementFails, CutShort
  <2> QED BY <1>0, <2>1, WentWithCycle DEF WorkPlace
<1>3. ~LoseConnection(c) /\ ~Killed(c)
    BY <1>0 DEF LoseConnection, ConnectionLost, Killed, Crash, CanWrite, Usable, TypeOK
<1>4. CASE StopRequested(c)
  <2>1. task'[c] = [m EXCEPT !.stop = TRUE] /\ pc' = pc /\ UNCHANGED vars
      BY <1>0, <1>1, <1>4 DEF StopRequested, CTypeOK
  <2>2. task'[c].cycle = m.cycle
      BY <2>1 DEF TaskRow
  <2>3. OpenCycleInHand(pc[c], m)
      BY <1>1, <2>1 DEF OpenCyclesInHand, CanWrite, Usable, vars, session
  <2> QED BY <1>0, <2>1, <2>2, <2>3 DEF OpenCycleInHand
<1>5. CASE Raise(c)
  <2>1. UNCHANGED vars /\ Goto(c, Unwind(c), m)
      BY <1>1, <1>5 DEF Raise
  <2>2. OpenCycleInHand(pc[c], m)
      BY <1>1, <2>1 DEF OpenCyclesInHand, CanWrite, Usable, vars, session
  <2>3. PICK to : to = Unwind(c)
      OBVIOUS
  <2>4. to \in WorkPlace => pc[c] \in WorkPlace
      BY <2>3 DEF Unwind, WorkPlace
  <2>5. to \in WorkPlace => \A k \in Cycle : cycles'[k].status = "running" => k = m.cycle
      BY <1>0, <2>2, <2>4 DEF OpenCycleInHand
  <2>6. Goto(c, to, m)
      BY <2>1, <2>3
  <2> QED BY <1>0, <2>5, <2>6, WentWithCycle
<1> QED BY <1>2, <1>3, <1>4, <1>5 DEF Disturbance

(* What one process does leaves another writer's open cycle in its hand.      *)
LEMMA OthersKeepCycle ==
    ASSUME StoreInv, CollectorInv, OpenCyclesInHand, NEW c \in Client, NEW d \in Client \ {c},
           Progress(c) \/ Disturbance(c), CanWrite(d)'
    PROVE  OpenCycleInHand(pc[d], task[d])'
<1>1. TypeOK /\ BeliefIsTrue /\ CTypeOK
    BY DEF StoreInv, CollectorInv
<1>2. ClientStep(c) \/ UNCHANGED vars
    BY <1>1, ProgressIsStoreStep, DisturbanceIsStoreStep
<1>3. CanWrite(d)
    BY <1>1, <1>2, OtherSessions DEF CanWrite, Usable, vars, session
<1>4. ~CanWrite(c)
    BY <1>1, <1>3 DEF BeliefIsTrue, CanWrite, Usable
<1>5. cycles' = cycles
    BY <1>2, <1>4, WritersWrite DEF vars, tables
<1>6. OpenCycleInHand(pc[d], task[d])
    BY <1>3 DEF OpenCyclesInHand
<1> QED BY <1>1, <1>5, <1>6, OthersStay DEF OpenCycleInHand

(* A collector that can write has no cycle open but the one in hand.           *)
LEMMA OneCycleIsOpen == CSpec => []OpenCyclesInHand
<1>1. CInit => OpenCyclesInHand
    BY DEF CInit, Init, OpenCyclesInHand, CanWrite, Usable
<1>2. StoreInv /\ CollectorInv /\ OpenCyclesInHand /\ [CNext]_cvars => OpenCyclesInHand'
  <2> SUFFICES ASSUME StoreInv, CollectorInv, OpenCyclesInHand, [CNext]_cvars
               PROVE  \A d \in Client : CanWrite(d)' => OpenCycleInHand(pc[d], task[d])'
      BY DEF OpenCyclesInHand
  <2>1. ASSUME NEW c \in Client, Progress(c) \/ Disturbance(c), NEW d \in Client, CanWrite(d)'
        PROVE  OpenCycleInHand(pc[d], task[d])'
      BY <2>1, OwnProgressWithCycle, OwnDisturbanceWithCycle, OthersKeepCycle
  <2>2. CASE Tick \/ ServerEnds \/ UNCHANGED cvars
    <3>1. UNCHANGED <<conn, failed, locked, cycles, pc, task>>
        BY <2>2 DEF Tick, ServerEnds, SessionEnds, cvars, vars, session, tables, Columns
    <3>2. \A d \in Client : CanWrite(d)' => CanWrite(d) /\ OpenCycleInHand(pc[d], task[d])
        BY <3>1 DEF OpenCyclesInHand, CanWrite, Usable
    <3> QED BY <3>1, <3>2 DEF OpenCycleInHand
  <2> QED BY <2>1, <2>2 DEF CNext
<1> QED BY <1>1, <1>2, BothInvariants, PTL DEF CSpec

(* Before a monitor enters a cycle, the opportunities before its own are done. *)
LEMMA EnteredInOrder ==
    ASSUME StoreInv, CollectorInv, MemoriesFit, PlansInHand, OpenCyclesInHand, NEW c \in Client,
           BeginOpportunity(c), NEW k \in Cycle, New(cycles) = k, NEW x \in Opportunity,
           plan[x].campaign = task[c].campaign, startedAt[task[c].run] <= ScheduledAt(x)
    PROVE  /\ cycles'[k].run = task[c].run /\ cycles[k].status = "absent"
           /\ ScheduledAt(x) < ScheduledAt(cycles'[k].opportunity) =>
                 \E j \in Cycle : cycles[j].opportunity = x /\ cycles[j].status # "running"
<1>0. TypeOK /\ CTypeOK /\ RowsAreLinked
    BY DEF StoreInv, CollectorInv
<1>1. PICK m \in TaskRow : m = task[c] /\ InHand(pc[c], m)
    BY <1>0, TaskFields
<1>2. PICK o \in Earliest(c) : StartCycle(c, k, m.run, o[2], o)
    BY <1>1, Zenon DEF BeginOpportunity, EnterCycle
<1>3. /\ cycles'[k].run = m.run /\ cycles'[k].opportunity = o /\ CanWrite(c)
      /\ cycles[k].status = "absent"
    BY <1>0, <1>2 DEF StartCycle, Commit, TypeOK
<1>4. pc[c] = "run" /\ m.kind = "monitor"
    BY <1>1 DEF BeginOpportunity
<1>5. x \in m.left \/ Claimed(x)
  <2>1. PlanInHand("run", m)
      BY <1>1, <1>3, <1>4 DEF PlansInHand
  <2>2. startedAt[m.run] \in Int /\ ScheduledAt(x) \in Int
    <3>1. m.run \in Run
        BY <1>1, <1>4 DEF InHand, WorkPlace
    <3>2. startedAt[m.run] \in Time
        BY <1>0, <3>1 DEF CTypeOK
    <3> QED BY <3>2, TimeAssumption DEF ScheduledAt, Time
  <2>3. ScheduledAt(x) >= startedAt[m.run]
      BY <1>1, <2>2
  <2> QED BY <1>1, <1>4, <2>1, <2>3 DEF PlanInHand, WorkPlace
<1>6. ASSUME ScheduledAt(x) < ScheduledAt(o), x \in m.left PROVE FALSE
  <2>1. ScheduledAt(o) <= ScheduledAt(x)
      BY <1>1, <1>2, <1>6 DEF Earliest
  <2>2. ScheduledAt(o) \in Int /\ ScheduledAt(x) \in Int
    <3>1. o \in Opportunity
        BY <1>1, <1>2 DEF Earliest, TaskRow
    <3> QED BY <3>1, TimeAssumption DEF ScheduledAt
  <2> QED BY <1>6, <2>1, <2>2
<1>7. \A j \in Cycle : cycles[j].status # "running"
  <2>1. m.cycle = None
      BY <1>1, <1>4 DEF InHand
  <2> QED BY <1>1, <1>3, <1>4, <2>1, NoneAssumption
          DEF OpenCyclesInHand, OpenCycleInHand, WorkPlace
<1> QED BY <1>1, <1>3, <1>5, <1>6, <1>7 DEF Claimed

(* Every step keeps the order of the opportunities.                            *)
LEMMA StepPassesNothingOver ==
    ASSUME StoreInv, CollectorInv, MemoriesFit, PlansInHand, RunsHaveCampaigns,
           OpenCyclesInHand, NonePassedOver, [CNext]_cvars
    PROVE  NonePassedOver'
<1>0. TypeOK /\ CTypeOK /\ RowsAreLinked /\ [Next]_vars /\ PlansStay /\ KeepsNames
    BY StepIsStoreStep, StepKeepsPlans, StepKeepsNames DEF StoreInv, CollectorInv
<1> SUFFICES ASSUME NEW k \in Cycle, NEW x \in Opportunity, NEW o, NEW r,
                    o = cycles'[k].opportunity, r = cycles'[k].run,
                    o # None, runs'[r].campaign # None, plan'[x].campaign = runs'[r].campaign,
                    startedAt'[r] <= ScheduledAt(x), ScheduledAt(x) < ScheduledAt(o)
             PROVE  \E j \in Cycle : cycles'[j].opportunity = x /\ cycles'[j].status # "running"
    BY DEF NonePassedOver, ScheduledAt
<1>1. ASSUME NEW j \in Cycle, cycles[j].opportunity = x, cycles[j].status # "running"
      PROVE  \E i \in Cycle : cycles'[i].opportunity = x /\ cycles'[i].status # "running"
    BY <1>0, <1>1, ClaimsStay
(* The run was there before the step, and so was what is planned for it.       *)
<1>2. ASSUME r \in Run, runs[r].status # "absent"
      PROVE  /\ runs'[r].campaign = runs[r].campaign /\ startedAt'[r] = startedAt[r]
             /\ plan[x].campaign = runs[r].campaign
  <2>1. runs'[r].campaign = runs[r].campaign /\ startedAt'[r] = startedAt[r]
      BY <1>0, <1>2 DEF KeepsNames, PlansStay
  <2>2. runs[r].campaign \in Campaign
      BY <1>0, <1>2, <2>1 DEF TypeOK, RunRow
  <2>3. campaigns[runs[r].campaign] # "absent"
      BY <1>2, <2>1 DEF RunsHaveCampaigns
  <2> QED BY <1>0, <2>1, <2>2, <2>3 DEF PlansStay
<1>3. CASE cycles[k].status # "absent"
  <2>1. cycles[k].opportunity = o /\ cycles[k].run = r
      BY <1>0, <1>3 DEF KeepsNames
  <2>2. r \in Run /\ runs[r].status # "absent"
      BY <1>0, <1>3, <2>1 DEF RowsAreLinked
  <2> QED BY <1>1, <1>2, <2>1, <2>2 DEF NonePassedOver
<1>4. CASE cycles[k].status = "absent"
  <2>1. cycles'[k] # cycles[k]
      BY <1>0, <1>4 DEF RowsAreLinked, NoCycle
  <2>2. PICK c \in Client : (BeginMarket(c) \/ BeginOpportunity(c)) /\ New(cycles) = k
      BY <1>4, <2>1, NewCycleIsEntered
  <2>3. ~BeginMarket(c)
    <3> SUFFICES ASSUME BeginMarket(c) PROVE FALSE
        OBVIOUS
    <3>1. PICK n : StartCycle(c, k, task[c].run, n, None)
        BY <2>2, Zenon DEF BeginMarket, EnterCycle
    <3> QED BY <1>0, <3>1 DEF StartCycle, TypeOK
  <2>4. PICK e : StartCycle(c, k, task[c].run, e[2], e)
      BY <2>2, <2>3, Zenon DEF BeginOpportunity, EnterCycle
  <2>5. /\ r = task[c].run /\ runs[r].status = "running" /\ CanWrite(c)
        /\ pc[c] = "run" /\ task[c].kind = "monitor"
      BY <1>0, <2>2, <2>3, <2>4 DEF StartCycle, Commit, TypeOK, BeginOpportunity
  <2>6. r \in Run
      BY <1>0, <2>5, TaskFields DEF InHand, WorkPlace
  <2>7. runs[r].campaign = task[c].campaign
      BY <2>5 DEF PlansInHand, PlanInHand, WorkPlace
  <2>8. plan[x].campaign = task[c].campaign /\ startedAt[task[c].run] <= ScheduledAt(x)
      BY <1>2, <2>5, <2>6, <2>7
  <2> QED BY <1>1, <2>2, <2>3, <2>8, EnteredInOrder
<1> QED BY <1>3, <1>4

(* A monitor takes its campaign's opportunities in order and passes none over, *)
(* with any lateness, stops, kills and restarts: before each one that a cycle  *)
(* has, all that were planned since its run began have cycles that ended.      *)
THEOREM NothingIsPassedOver == CSpec => []NonePassedOver
<1>1. CInit => NonePassedOver
    BY DEF CInit, Init, NonePassedOver, NoCycle
<1>2. StoreInv /\ CollectorInv /\ MemoriesFit /\ PlanInv /\ OpenCyclesInHand
        /\ NonePassedOver /\ [CNext]_cvars => NonePassedOver'
    BY StepPassesNothingOver DEF PlanInv
<1> QED BY <1>1, <1>2, CyclesAreRecalled, PlansAreKept, OneCycleIsOpen, PTL DEF CSpec

-----------------------------------------------------------------------------
(* The numbers of attempts *)

(* Attempts are numbered: an attempt that exists has a place of its own among  *)
(* the retries of its cycle, holding and source, and these follow each other   *)
(* from the first on, also when the cycle was stopped.                         *)
AttemptsAreNumbered ==
    /\ \A a \in Attempt : attempts[a].status # "absent" => attempts[a].slot \in Slot
    /\ \A a, b \in Attempt :
          /\ attempts[a].status # "absent" /\ attempts[b].status # "absent"
          /\ attempts[a].cycle = attempts[b].cycle /\ attempts[a].ticker = attempts[b].ticker
          /\ attempts[a].slot = attempts[b].slot
          => a = b
    /\ \A k \in Cycle, v \in Ticker \X Provider :
          \E n \in 0..MaxAttempts : Numbers(k, v) = 1..n

(* An attempt's row is new only when a collector begins it.                    *)
LEMMA NewAttemptIsBegun ==
    ASSUME StoreInv, CollectorInv, [CNext]_cvars, NEW a \in Attempt,
           attempts[a].status = "absent", attempts'[a] # attempts[a]
    PROVE  \E c \in Client : BeginAttempt(c)
<1>0. TypeOK /\ CTypeOK
    BY DEF StoreInv, CollectorInv
<1>1. PICK c \in Client : Progress(c)
    BY StepIsOfSomeone, DisturbanceKeepsTables DEF tables
<1>2. CASE Recover(c)
    BY <1>0, <1>2 DEF Recover, RecoverIncomplete, TypeOK
<1>3. CASE SkipLate(c) \/ AbandonCycle(c)
  <2>1. PICK k, status : StopCycle(c, k, status)
      BY <1>3 DEF SkipLate, AbandonCycle
  <2> QED BY <1>0, <2>1 DEF StopCycle, TypeOK
<1>4. CASE EndAttempt(c)
  <2>1. PICK b, result : FinishAttempt(c, b, result)
      BY <1>4 DEF EndAttempt
  <2>2. b # a
      BY <2>1 DEF FinishAttempt
  <2> QED BY <1>0, <2>1, <2>2 DEF FinishAttempt, TypeOK
<1>5. ASSUME ~BeginAttempt(c), ~Recover(c), ~SkipLate(c), ~AbandonCycle(c), ~EndAttempt(c)
      PROVE  attempts' = attempts
  <2>1. CASE BeginMarket(c) \/ BeginOpportunity(c)
    <3>1. PICK k, r, m, o : StartCycle(c, k, r, m, o)
        BY <2>1, Zenon DEF BeginMarket, BeginOpportunity, EnterCycle
    <3> QED BY <3>1 DEF StartCycle
  <2>2. CASE BeginRun(c)
    <3>1. PICK r, p, held : StartRun(c, r, p, held)
        BY <2>2, Zenon DEF BeginRun
    <3> QED BY <3>1 DEF StartRun
  <2>3. CASE \/ TakeLock(c) \/ Refused(c) \/ Leave(c) \/ ResumeCampaign(c) \/ BeginCampaign(c)
             \/ NoticeStop(c) \/ EndCycle(c) \/ EndRunOfMarkets(c) \/ EndRunOfCampaign(c)
             \/ EndCampaign(c) \/ AbandonRun(c)
      BY <2>3 DEF TakeLock, Refused, Leave, ResumeCampaign, BeginCampaign, NoticeStop, EndCycle,
         EndRunOfMarkets, EndRunOfCampaign, EndCampaign, AbandonRun, AcquireLock, Exit,
         CreateCampaign, FinishCycle, FinishRun, InterruptRun, EndRun, FinishCampaign, vars, tables
  <2> QED BY <1>1, <1>5, <2>1, <2>2, <2>3 DEF Progress
<1> QED BY <1>1, <1>2, <1>3, <1>4, <1>5

(* What a collector begins is the next attempt of its pair.                    *)
LEMMA BegunIsNext ==
    ASSUME StoreInv, CTypeOK, CyclesRecalled, NEW c \in Client, BeginAttempt(c)
    PROVE  \E a \in Attempt, k \in Cycle, t \in Ticker, s \in Provider, n \in 1..MaxAttempts :
              StartAttempt(c, a, k, t, <<s, n>>) /\ Numbers(k, <<t, s>>) = 1..(n - 1)
<1>0. TypeOK
    BY DEF StoreInv
<1>1. PICK m \in TaskRow :
        /\ m = task[c] /\ InHand(pc[c], m) /\ pc[c] \in {"cycle", "retry"}
        /\ m.cycle \in Cycle /\ m.todo \in SUBSET (Ticker \X Provider)
        /\ m.doing \in (Ticker \X Provider \X (1..MaxAttempts)) \cup {None}
    BY TaskFields DEF BeginAttempt, InHand, WorkPlace
<1>2. PICK v : /\ v \in IF pc[c] = "cycle" THEN Ready(c) ELSE {m.doing}
               /\ StartAttempt(c, New(attempts), m.cycle, v[1],
                               <<v[2], IF pc[c] = "cycle" THEN 1 ELSE m.doing[3] + 1>>)
    BY <1>1, Zenon DEF BeginAttempt
<1>3. PICK a \in Attempt, k \in Cycle : a = New(attempts) /\ k = m.cycle
    BY <1>0, <1>1, NewRows
<1>4. Recalls(pc[c], m)
    BY <1>1, <1>2 DEF CyclesRecalled, StartAttempt, Commit
<1>5. CASE pc[c] = "cycle"
  <2>1. v \in m.todo /\ v = <<v[1], v[2]>> /\ v[1] \in Ticker /\ v[2] \in Provider
      BY <1>1, <1>2, <1>5 DEF Ready
  <2>2. Numbers(k, v) = {}
      BY <1>3, <1>4, <1>5, <2>1 DEF Recalls, Visiting, VisitsInHand
  <2>3. StartAttempt(c, a, k, v[1], <<v[2], 1>>)
      BY <1>2, <1>3, <1>5
  <2>4. 1 \in 1..MaxAttempts /\ 1..(1 - 1) = {}
      BY SlotAssumption
  <2>5. Numbers(k, <<v[1], v[2]>>) = 1..(1 - 1)
      BY <2>1, <2>2, <2>4
  <2> QED BY <2>1, <2>3, <2>4, <2>5
<1>6. CASE pc[c] = "retry"
  <2>1. /\ m.doing # None /\ m.doing[3] < MaxAttempts
      BY <1>1, <1>6 DEF InHand
  <2>2. PICK t \in Ticker, s \in Provider, i \in 1..MaxAttempts : m.doing = <<t, s, i>>
      BY <1>1, <2>1
  <2>3. Numbers(k, <<t, s>>) = 1..i
      BY <1>3, <1>4, <1>6, <2>2 DEF Recalls, PairInHand
  <2>4. i + 1 \in 1..MaxAttempts /\ (i + 1) - 1 = i
      BY <2>1, <2>2, SlotAssumption
  <2>5. StartAttempt(c, a, k, t, <<s, i + 1>>)
      BY <1>2, <1>3, <1>6, <2>2
  <2> QED BY <2>3, <2>4, <2>5
<1> QED BY <1>1, <1>5, <1>6

(* Attempts stay numbered.                                                     *)
LEMMA StepNumbersAttempts ==
    ASSUME StoreInv, CollectorInv, CyclesRecalled, AttemptsAreNumbered, [CNext]_cvars
    PROVE  AttemptsAreNumbered'
<1>0. TypeOK /\ CTypeOK /\ RowsAreLinked /\ KeepsNames
    BY StepIsStoreStep, StepKeepsNames DEF StoreInv, CollectorInv
<1>1. ASSUME NEW k, NEW v
      PROVE  Numbers(k, v)' = {attempts'[b].slot[2] : b \in {x \in Attempt :
                /\ attempts'[x].cycle = k /\ attempts'[x].ticker = v[1]
                /\ attempts'[x].slot[1] = v[2]}}
    BY DEF Numbers
<1>2. CASE \E c \in Client : BeginAttempt(c)
  <2>1. PICK c \in Client, a \in Attempt, k \in Cycle, t \in Ticker, s \in Provider,
             n \in 1..MaxAttempts :
             StartAttempt(c, a, k, t, <<s, n>>) /\ Numbers(k, <<t, s>>) = 1..(n - 1)
      BY <1>0, <1>2, BegunIsNext
  <2>2. /\ attempts[a].status = "absent" /\ attempts'[a].cycle = k /\ attempts'[a].ticker = t
        /\ attempts'[a].slot = <<s, n>>
        /\ \A b \in Attempt \ {a} : attempts'[b] = attempts[b]
        /\ \A b \in Attempt : ~(attempts[b].cycle = k /\ attempts[b].ticker = t
                                  /\ attempts[b].slot = <<s, n>>)
      BY <1>0, <2>1 DEF StartAttempt, TypeOK
  <2>3. \A b \in Attempt : attempts'[b].status # "absent" => attempts'[b].slot \in Slot
    <3>1. <<s, n>> \in Slot
        BY SlotAssumption
    <3> QED BY <2>2, <3>1 DEF AttemptsAreNumbered
  <2>4. ASSUME NEW b \in Attempt, NEW d \in Attempt,
               attempts'[b].status # "absent", attempts'[d].status # "absent",
               attempts'[b].cycle = attempts'[d].cycle, attempts'[b].ticker = attempts'[d].ticker,
               attempts'[b].slot = attempts'[d].slot
        PROVE  b = d
    <3>1. CASE b # a /\ d # a
        BY <2>2, <2>4, <3>1 DEF AttemptsAreNumbered
    <3>2. CASE b = a /\ d # a
      <4>1. attempts'[d] = attempts[d] /\ attempts'[d].cycle = k /\ attempts'[d].ticker = t
              /\ attempts'[d].slot = <<s, n>>
          BY <2>2, <2>4, <3>2
      <4> QED BY <2>2, <4>1
    <3>3. CASE d = a /\ b # a
      <4>1. attempts'[b] = attempts[b] /\ attempts'[b].cycle = k /\ attempts'[b].ticker = t
              /\ attempts'[b].slot = <<s, n>>
          BY <2>2, <2>4, <3>3
      <4> QED BY <2>2, <4>1
    <3> QED BY <3>1, <3>2, <3>3
  <2>5. ASSUME NEW j \in Cycle, NEW v \in Ticker \X Provider
        PROVE  \E i \in 0..MaxAttempts : Numbers(j, v)' = 1..i
    <3>1. \E i \in 0..MaxAttempts : Numbers(j, v) = 1..i
        BY DEF AttemptsAreNumbered
    <3>2. CASE j # k
      <4>1. attempts[a].cycle # j
        <5>1. j # None /\ NoAttempt.cycle = None
            BY NoneAssumption DEF NoAttempt
        <5> QED BY <1>0, <2>2, <5>1 DEF RowsAreLinked
      <4>2. Numbers(j, v)' = Numbers(j, v)
          BY <1>1, <2>2, <3>2, <4>1 DEF Numbers
      <4> QED BY <3>1, <4>2
    <3>3. CASE j = k /\ v # <<t, s>>
      <4>1. Numbers(j, v)' = Numbers(j, v)
          BY <2>1, <3>3, AttemptAddsNumber
      <4> QED BY <3>1, <4>1
    <3>4. CASE j = k /\ v = <<t, s>>
      <4>1. Numbers(j, v)' = (1..(n - 1)) \cup {n}
          BY <2>1, <3>4, AttemptAddsNumber
      <4>2. (1..(n - 1)) \cup {n} = 1..n /\ n \in 0..MaxAttempts
          BY SlotAssumption
      <4> QED BY <4>1, <4>2
    <3> QED BY <3>2, <3>3, <3>4
  <2> QED BY <2>3, <2>4, <2>5 DEF AttemptsAreNumbered
<1>3. CASE \A c \in Client : ~BeginAttempt(c)
  <2>1. \A a \in Attempt : attempts[a].status = "absent" => attempts'[a] = attempts[a]
      BY <1>3, NewAttemptIsBegun
  <2>2. \A a \in Attempt : /\ attempts'[a].cycle = attempts[a].cycle
                           /\ attempts'[a].ticker = attempts[a].ticker
                           /\ attempts'[a].slot = attempts[a].slot
      BY <1>0, <2>1 DEF KeepsNames
  <2>3. \A a \in Attempt : attempts'[a].status # "absent" => attempts[a].status # "absent"
      BY <2>1
  <2>4. \A k, v : Numbers(k, v)' = Numbers(k, v)
      BY <1>1, <2>2 DEF Numbers
  <2> QED BY <2>2, <2>3, <2>4 DEF AttemptsAreNumbered
<1> QED BY <1>2, <1>3

(* With no attempts there is nothing to number.                               *)
LEMMA InitNumbersAttempts == CInit => AttemptsAreNumbered
<1> SUFFICES ASSUME CInit PROVE AttemptsAreNumbered
    OBVIOUS
<1>1. \A a \in Attempt : attempts[a].status = "absent" /\ attempts[a].cycle = None
    BY DEF CInit, Init, NoAttempt
<1>2. ASSUME NEW k \in Cycle, NEW v PROVE Numbers(k, v) = 1..0
  <2>1. k # None
      BY NoneAssumption
  <2>2. 1..0 = {}
      OBVIOUS
  <2> QED BY <1>1, <2>1, <2>2 DEF Numbers
<1>3. 0 \in 0..MaxAttempts
    BY SlotAssumption
<1> QED BY <1>1, <1>2, <1>3 DEF AttemptsAreNumbered

(* The retries of a visit are numbered one after the other, each number once,  *)
(* in every cycle, also one that was stopped or recovered.                     *)
THEOREM AttemptsStayNumbered == CSpec => []AttemptsAreNumbered
<1>1. StoreInv /\ CollectorInv /\ VisitInv /\ AttemptsAreNumbered /\ [CNext]_cvars
        => AttemptsAreNumbered'
    BY StepNumbersAttempts DEF VisitInv
<1> QED BY <1>1, InitNumbersAttempts, CyclesAreRecalled, PTL DEF CSpec

=============================================================================
