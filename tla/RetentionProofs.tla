-------------------------- MODULE RetentionProofs --------------------------
(***************************************************************************)
(* What prune and purge may never do, for any number of rows, keys and     *)
(* sources.  EvidenceIsWhole is inductive together with TypeOK: what Kept  *)
(* leaves out is exactly what prune deletes (KeptIsWhatRemains), Kept is   *)
(* closed under Uses, and a new run uses rows that no later run overwrites.*)
(***************************************************************************)
EXTENDS Retention, FiniteSetTheorems, WellFoundedInduction, TLAPS

-----------------------------------------------------------------------------
(* What the two action properties rest on: the inductive invariant. A         *)
(* cooldown is over long before a run is old, and rows are numbered in the    *)
(* order they were created; so no older row behind a doomed one can come to   *)
(* light with a cooldown. A purge's reading stays good, for a cooldown that   *)
(* arose after it is in a run that the manifest cannot name.                  *)

(* A cooldown asked for in a run that is old, or before one, is over.         *)
OldIsOver ==
    \A r, x \in Row, p \in Provider :
        runs[r].status = "old" /\ x <= r => runs[x].answer[p] # "cooling"

(* A manifest names runs that were created before it.                         *)
ManifestIsCreated == \A r \in purging.runs : r <= created.run

(* What a manifest reads of a cooldown that stands is still so.               *)
ReadingIsKept ==
    \A p \in provider_cooldowns :
        LastAttempt(p) \in purging.runs => p \in purging.cooling

(* The inductive invariant.                                                   *)
RetentionInv == TypeOK /\ OldIsOver /\ ManifestIsCreated /\ ReadingIsKept

-----------------------------------------------------------------------------

(* The empty row is a row, and nothing was quoted in it.                      *)
LEMMA NoRowType == NoRow \in RunRow /\ NoRow.status = "none" /\ NoRow.quoted = {}
<1>1. 0 \in 0..MaxRows
  BY BoundAssumption
<1> QED
  BY <1>1 DEF NoRow, RunRow

(* Nor does it use another row's quote.                                       *)
LEMMA NoRowValues == \A k \in Key : NoRow.values[k] = 0
BY DEF NoRow

(* What the passing of time and a recovery make of a row. *)
LEMMA RowChanges ==
    ASSUME NEW x \in RunRow
    PROVE  /\ \A s \in {"recovered", "old"} :
                 /\ [x EXCEPT !.status = s] \in RunRow
                 /\ [x EXCEPT !.status = s].status = s
                 /\ [x EXCEPT !.status = s].values = x.values
                 /\ [x EXCEPT !.status = s].quoted = x.quoted
           /\ LET y == AfterADay(x)
              IN  /\ y \in RunRow /\ y.status = x.status
                  /\ y.values = x.values /\ y.quoted = x.quoted
                  /\ x = NoRow => y = NoRow
<1>1. \A s \in {"recovered", "old"} :
                 /\ [x EXCEPT !.status = s] \in RunRow
                 /\ [x EXCEPT !.status = s].status = s
                 /\ [x EXCEPT !.status = s].values = x.values
                 /\ [x EXCEPT !.status = s].quoted = x.quoted
  BY DEF RunRow
<1> DEFINE later == [p \in Provider |-> IF x.answer[p] = "cooling" THEN "clear" ELSE x.answer[p]]
<1>2. later \in [Provider -> {"none", "clear", "cooling"}]
  BY DEF RunRow
<1>3. x = NoRow => later = x.answer
  BY DEF NoRow
<1> HIDE DEF later
<1>4. [x EXCEPT !.answer = later] \in RunRow
  BY <1>2 DEF RunRow
<1>5. LET y == [x EXCEPT !.answer = later]
      IN  y.status = x.status /\ y.values = x.values /\ y.quoted = x.quoted
  BY DEF RunRow
<1>6. x = NoRow => [x EXCEPT !.answer = later] = NoRow
  BY <1>3 DEF RunRow
<1> QED
  BY <1>1, <1>4, <1>5, <1>6 DEF later, AfterADay

(* The type invariant's conjuncts, one for each variable.                     *)
RunsOK == /\ runs \in [Row -> RunRow]
          /\ \A r \in Row : r > created.run => runs[r].status = "none"
          /\ \A r \in Row : runs[r].status = "none" => runs[r] = NoRow

(* The rows created.                                                          *)
CreatedOK == /\ created \in [run : Nat, job : Nat, catalog : Nat]
             /\ created.run + created.job + created.catalog <= MaxRows

(* The jobs.                                                                  *)
JobsOK == jobs \in [Row -> {"none", "live", "recent", "old"}]

(* The listings.                                                              *)
CatalogsOK == catalogs \in [Row -> {"none", "valid", "expired", "old"}]

(* The purge in hand.                                                         *)
PurgingOK == /\ purging \in [active : BOOLEAN, runs : SUBSET Row, jobs : SUBSET Row,
                             cooling : SUBSET Provider]
             /\ ~purging.active => purging = Idle

(* Together they are the type invariant.                                      *)
LEMMA TypeParts == TypeOK <=> RunsOK /\ CreatedOK /\ JobsOK /\ CatalogsOK /\ PurgingOK
BY DEF TypeOK, RunsOK, CreatedOK, JobsOK, CatalogsOK, PurgingOK

(* No purge is a value of its type.                                           *)
LEMMA IdleType ==
    Idle \in [active : BOOLEAN, runs : SUBSET Row, jobs : SUBSET Row, cooling : SUBSET Provider]
BY DEF Idle

(* The initial state has the right types. *)
LEMMA InitTypes == Init => TypeOK
<1> SUFFICES ASSUME Init PROVE TypeOK
  OBVIOUS
<1>1. RunsOK
  BY NoRowType DEF Init, RunsOK
<1>2. CreatedOK
  BY BoundAssumption DEF Init, CreatedOK
<1>3. JobsOK /\ CatalogsOK
  BY DEF Init, JobsOK, CatalogsOK
<1>4. PurgingOK
  BY IdleType DEF Init, PurgingOK
<1> QED
  BY <1>1, <1>2, <1>3, <1>4, TypeParts

(* A new row stays within the bound, and gets the next number. *)
LEMMA NewRow ==
    ASSUME CreatedOK, MoreRows, NEW f \in {"run", "job", "catalog"},
           created' = [created EXCEPT ![f] = @ + 1]
    PROVE  /\ CreatedOK'
           /\ created'[f] = created[f] + 1 /\ created'[f] \in Row
           /\ f # "run" => created'.run = created.run
<1>1. created.run \in Nat /\ created.job \in Nat /\ created.catalog \in Nat
  BY DEF CreatedOK
<1> QED
  BY <1>1, BoundAssumption DEF CreatedOK, MoreRows, Row

(* Every step keeps the types of the runs. *)
LEMMA StepRuns == TypeOK /\ [Next]_vars => RunsOK'
<1> SUFFICES ASSUME RunsOK, CreatedOK, [Next]_vars PROVE RunsOK'
  BY TypeParts
<1>0. \A x \in Row : runs[x] \in RunRow
  BY DEF RunsOK
<1>1. CASE Recover
  <2>1. \A r \in Row : runs'[r] = IF runs[r].status = "running"
                              THEN [runs[r] EXCEPT !.status = "recovered"] ELSE runs[r]
    BY <1>1 DEF Recover
  <2> QED
    BY <1>0, <1>1, <2>1, RowChanges, NoRowType DEF Recover, RunsOK
<1>2. ASSUME NEW campaign \in BOOLEAN, NEW quoted \in SUBSET Key,
             NEW status \in {"running", "recent"},
             NEW answer \in [Provider -> {"none", "clear", "cooling"}],
             Collect(campaign, quoted, answer, status)
      PROVE  RunsOK'
  <2>1. created'.run \in Row /\ created'.run = created.run + 1
    BY <1>2, NewRow, "run" \in {"run", "job", "catalog"} DEF Collect
  <2>2. PICK chosen \in Values(created'.run, quoted) \cup {NoRow.values} :
          runs' = [runs EXCEPT ![created'.run] =
                        [status |-> status, campaign |-> campaign,
                         quoted |-> quoted, values |-> chosen, answer |-> answer]]
    BY <1>2 DEF Collect
  <2> DEFINE row == [status |-> status, campaign |-> campaign,
                     quoted |-> quoted, values |-> chosen, answer |-> answer]
  <2>3. chosen \in [Key -> 0..MaxRows]
    BY <2>2, NoRowType DEF Values, RunRow
  <2>4. row \in RunRow /\ row.status # "none"
    BY <2>3 DEF RunRow
  <2> HIDE DEF row
  <2>5. runs' = [runs EXCEPT ![created'.run] = row]
    BY <2>2 DEF row
  <2>6. \A r \in Row : r > created.run + 1 => r > created.run
    BY DEF CreatedOK, Row
  <2>7. runs' \in [Row -> RunRow]
    BY <2>1, <2>4, <2>5 DEF RunsOK
  <2>8. \A r \in Row : runs'[r] = IF r = created.run + 1 THEN row ELSE runs[r]
    BY <2>1, <2>5 DEF RunsOK
  <2>9. \A r \in Row : r > created'.run => runs'[r].status = "none"
    BY <2>1, <2>6, <2>8 DEF RunsOK, CreatedOK, Row
  <2> QED
    BY <2>4, <2>7, <2>8, <2>9 DEF RunsOK
<1>3. CASE SaveCatalog
  BY <1>3, NewRow, "catalog" \in {"run", "job", "catalog"} DEF SaveCatalog, RunsOK
<1>4. CASE ClaimJob
  BY <1>4, NewRow, "job" \in {"run", "job", "catalog"} DEF ClaimJob, RunsOK
<1>5. CASE DayPasses
  <2>1. /\ runs' = [r \in Row |-> AfterADay(runs[r])] /\ created' = created
        /\ \A r \in Row : runs'[r] = AfterADay(runs[r])
    BY <1>5 DEF DayPasses
  <2>2. \A r \in Row :
            /\ AfterADay(runs[r]) \in RunRow
            /\ AfterADay(runs[r]).status = runs[r].status
            /\ runs[r] = NoRow => AfterADay(runs[r]) = NoRow
    BY <1>0, RowChanges
  <2> QED
    BY <2>1, <2>2 DEF RunsOK
<1>6. CASE PeriodPasses
  <2>1. \A r \in Row : runs'[r] = IF runs[r].status = "recent"
                              THEN [runs[r] EXCEPT !.status = "old"] ELSE runs[r]
    BY <1>6 DEF PeriodPasses
  <2> QED
    BY <1>0, <1>6, <2>1, RowChanges, NoRowType DEF PeriodPasses, RunsOK
<1>7. CASE Prune
  BY <1>7, NoRowType DEF Prune, RunsOK
<1>8. CASE Purge
  BY <1>8, NoRowType DEF Purge, RunsOK
<1>9. CASE EndJob \/ LeavePurge \/ UNCHANGED vars
  BY <1>9 DEF EndJob, LeavePurge, vars, RunsOK
<1>10. ASSUME NEW R \in SUBSET Row, NEW J \in SUBSET Row, BeginPurge(R, J)
       PROVE  RunsOK'
  BY <1>10 DEF BeginPurge, RunsOK
<1> QED
  BY <1>1, <1>2, <1>3, <1>4, <1>5, <1>6, <1>7, <1>8, <1>9, <1>10 DEF Next

(* Every step keeps the types of the other tables and of the purge. *)
LEMMA StepOthers ==
    TypeOK /\ [Next]_vars => CreatedOK' /\ JobsOK' /\ CatalogsOK' /\ PurgingOK'
<1> SUFFICES ASSUME CreatedOK, JobsOK, CatalogsOK, PurgingOK, [Next]_vars
             PROVE  CreatedOK' /\ JobsOK' /\ CatalogsOK' /\ PurgingOK'
  BY TypeParts
<1>1. ASSUME NEW campaign \in BOOLEAN, NEW quoted \in SUBSET Key,
             NEW status \in {"running", "recent"},
             NEW answer \in [Provider -> {"none", "clear", "cooling"}],
             Collect(campaign, quoted, answer, status)
      PROVE  CreatedOK' /\ JobsOK' /\ CatalogsOK' /\ PurgingOK'
  <2>1. CreatedOK'
    BY <1>1, NewRow, "run" \in {"run", "job", "catalog"} DEF Collect
  <2> QED
    BY <1>1, <2>1 DEF Collect, JobsOK, CatalogsOK, PurgingOK
<1>2. CASE SaveCatalog
  <2>1. CreatedOK' /\ created'.catalog \in Row
    BY <1>2, NewRow, "catalog" \in {"run", "job", "catalog"} DEF SaveCatalog
  <2> QED
    BY <1>2, <2>1 DEF SaveCatalog, JobsOK, CatalogsOK, PurgingOK
<1>3. CASE ClaimJob
  <2>1. CreatedOK' /\ created'.job \in Row
    BY <1>3, NewRow, "job" \in {"run", "job", "catalog"} DEF ClaimJob
  <2> QED
    BY <1>3, <2>1 DEF ClaimJob, JobsOK, CatalogsOK, PurgingOK
<1>4. CASE Recover \/ EndJob \/ UNCHANGED vars
  BY <1>4 DEF Recover, EndJob, vars, CreatedOK, JobsOK, CatalogsOK, PurgingOK
<1>5. CASE DayPasses
  BY <1>5 DEF DayPasses, CreatedOK, JobsOK, CatalogsOK, PurgingOK
<1>6. CASE PeriodPasses
  BY <1>6 DEF PeriodPasses, CreatedOK, JobsOK, CatalogsOK, PurgingOK
<1>7. CASE Prune
  BY <1>7 DEF Prune, CreatedOK, JobsOK, CatalogsOK, PurgingOK
<1>8. CASE Purge
  BY <1>8, IdleType DEF Purge, CreatedOK, JobsOK, CatalogsOK, PurgingOK
<1>9. CASE LeavePurge
  BY <1>9, IdleType DEF LeavePurge, CreatedOK, JobsOK, CatalogsOK, PurgingOK
<1>10. ASSUME NEW R \in SUBSET Row, NEW J \in SUBSET Row, BeginPurge(R, J)
       PROVE  CreatedOK' /\ JobsOK' /\ CatalogsOK' /\ PurgingOK'
  BY <1>10 DEF BeginPurge, provider_cooldowns, CreatedOK, JobsOK, CatalogsOK, PurgingOK
<1> QED
  BY <1>1, <1>2, <1>3, <1>4, <1>5, <1>6, <1>7, <1>8, <1>9, <1>10 DEF Next

(* Every step keeps the types.                                                *)
LEMMA StepTypes == TypeOK /\ [Next]_vars => TypeOK'
<1>1. TypeOK' <=> RunsOK' /\ CreatedOK' /\ JobsOK' /\ CatalogsOK' /\ PurgingOK'
  BY DEF TypeOK, RunsOK, CreatedOK, JobsOK, CatalogsOK, PurgingOK
<1> QED
  BY <1>1, StepRuns, StepOthers

(* Types of the tables and of what a purge has read: rows are only created
   within their bound, and an idle purge remembers nothing. *)
THEOREM RetentionTypes == Spec => []TypeOK
BY InitTypes, StepTypes, PTL DEF Spec

(* The recursive query of prune keeps with a run the runs it uses. *)
LEMMA KeptIsClosed == ASSUME TypeOK PROVE Closed(Kept) /\ Protected \subseteq Kept
<1>1. Protected \subseteq Row
  BY DEF Protected
<1>2. ASSUME NEW r \in Kept, NEW u \in Uses(r) PROVE u \in Kept
  <2>1. r \in Row /\ u \in Row
    <3>1. r \in Row
      BY DEF Kept
    <3>2. PICK k \in Key : u = runs[r].values[k] /\ u # 0
      BY DEF Uses
    <3>3. runs[r].values[k] \in 0..MaxRows
      BY <3>1 DEF TypeOK, RunRow
    <3> QED
      BY <3>1, <3>2, <3>3, BoundAssumption DEF Row
  <2> QED
    BY <2>1 DEF Kept, Closed
<1> QED
  BY <1>1, <1>2 DEF Kept, Closed

(* What prune does not delete and still exists is what the query kept. *)
LEMMA KeptIsWhatRemains ==
    ASSUME TypeOK, NEW r \in Row, Exists(r), r \notin Doomed
    PROVE  r \in Kept
<1>1. CASE r \in Protected
  BY <1>1, KeptIsClosed
<1>2. CASE r \notin Protected
  <2>1. runs[r].status = "old" /\ ~runs[r].campaign
    BY <1>2 DEF Protected, Exists
  <2> QED
    BY <2>1 DEF Doomed
<1> QED
  BY <1>1, <1>2

(* Every step keeps the evidence whole. *)
LEMMA StepEvidence == TypeOK /\ EvidenceIsWhole /\ [Next]_vars => EvidenceIsWhole'
<1> SUFFICES ASSUME TypeOK, EvidenceIsWhole, [Next]_vars,
                    NEW r \in Row, NEW k \in Key,
                    runs'[r].values[k] # 0
             PROVE  /\ runs'[runs'[r].values[k]].status # "none"
                    /\ k \in runs'[runs'[r].values[k]].quoted
  BY DEF EvidenceIsWhole, Exists
<1> DEFINE v == runs'[r].values[k]
<1>0. \A x \in Row, y \in Key :
         /\ runs[x].values[y] \in 0..MaxRows
         /\ runs[x].values[y] # 0 => /\ runs[x].values[y] \in Row
                                     /\ runs[runs[x].values[y]].status # "none"
                                     /\ y \in runs[runs[x].values[y]].quoted
  BY BoundAssumption DEF TypeOK, RunRow, EvidenceIsWhole, Exists, Row
<1>1. ASSUME \A x \in Row : /\ runs'[x].values = runs[x].values
                            /\ runs'[x].quoted = runs[x].quoted
                            /\ runs[x].status # "none" => runs'[x].status # "none"
      PROVE  runs'[v].status # "none" /\ k \in runs'[v].quoted
  BY <1>0, <1>1
<1>2. CASE Recover
  BY <1>1, <1>2 DEF Recover, TypeOK, RunRow
<1>3. ASSUME NEW campaign \in BOOLEAN, NEW quoted \in SUBSET Key,
             NEW status \in {"running", "recent"},
             NEW answer \in [Provider -> {"none", "clear", "cooling"}],
             Collect(campaign, quoted, answer, status)
      PROVE  runs'[v].status # "none" /\ k \in runs'[v].quoted
  <2> DEFINE new == created.run + 1
  <2>1. new \in Row /\ created'.run = new /\ runs[new] = NoRow
    BY <1>3, BoundAssumption DEF Collect, MoreRows, Row, TypeOK
  <2>2. PICK chosen \in Values(new, quoted) \cup {NoRow.values} :
          runs' = [runs EXCEPT ![new] =
                        [status |-> status, campaign |-> campaign,
                         quoted |-> quoted, values |-> chosen, answer |-> answer]]
    BY <1>3, <2>1 DEF Collect
  <2> HIDE DEF new
  <2>3. \A x \in Row : runs'[x] = IF x = new
            THEN [status |-> status, campaign |-> campaign, quoted |-> quoted,
                  values |-> chosen, answer |-> answer]
            ELSE runs[x]
    BY <2>1, <2>2 DEF TypeOK
  <2>4. ASSUME NEW x \in Row, NEW y \in Key PROVE runs[x].values[y] # new
    <3>1. new # 0 /\ y \notin runs[new].quoted
      BY <2>1, NoRowType DEF Row
    <3> QED
      BY <1>0, <3>1
  <2>5. CASE r # new
    <3>1. v = runs[r].values[k] /\ v \in Row /\ v # new
      BY <1>0, <2>3, <2>4, <2>5
    <3> QED
      BY <1>0, <2>3, <2>5, <3>1
  <2>6. CASE r = new
    <3>1. v = chosen[k]
      BY <2>3, <2>6
    <3>2. chosen \in Values(new, quoted)
      BY <2>2, <3>1 DEF NoRow
    <3>3. CASE k \in quoted
      BY <2>1, <2>3, <3>1, <3>2, <3>3 DEF Values
    <3>4. CASE k \notin quoted
      <4>1. v \in Window(k)
        BY <3>1, <3>2, <3>4 DEF Values
      <4>2. v \in Row /\ k \in runs[v].quoted
        BY <4>1 DEF Window
      <4>3. v # new /\ runs[v].status # "none"
        BY <4>2, <2>1 DEF NoRow, TypeOK
      <4> QED
        BY <4>2, <4>3, <2>3
    <3> QED
      BY <3>3, <3>4
  <2> QED
    BY <2>5, <2>6
<1>4. CASE SaveCatalog \/ ClaimJob \/ EndJob \/ LeavePurge \/ UNCHANGED vars
  BY <1>1, <1>4 DEF SaveCatalog, ClaimJob, EndJob, LeavePurge, vars
<1>5. CASE DayPasses \/ PeriodPasses
  <2>1. \A x \in Row : runs[x] \in RunRow
    BY DEF TypeOK
  <2>2. CASE DayPasses
    <3>1. \A x \in Row : runs'[x] = AfterADay(runs[x])
      BY <2>2 DEF DayPasses
    <3>2. \A x \in Row : /\ AfterADay(runs[x]).status = runs[x].status
                         /\ AfterADay(runs[x]).values = runs[x].values
                         /\ AfterADay(runs[x]).quoted = runs[x].quoted
      BY <2>1, RowChanges
    <3> QED
      BY <1>1, <3>1, <3>2
  <2>3. CASE PeriodPasses
    BY <1>1, <2>3, <2>1, RowChanges DEF PeriodPasses
  <2> QED
    BY <1>5, <2>2, <2>3
<1>7. CASE Prune
  <2>1. \A x \in Row : runs'[x] = IF x \in Doomed THEN NoRow ELSE runs[x]
    BY <1>7 DEF Prune
  <2>2. r \notin Doomed /\ v = runs[r].values[k] /\ v \in Row
    BY <2>1, <1>0 DEF NoRow
  <2>3. Exists(r)
    BY <2>2 DEF Exists, TypeOK, NoRow
  <2>4. v \in Kept
    BY <2>2, <2>3, KeptIsWhatRemains, KeptIsClosed DEF Closed, Uses
  <2>5. v \notin Doomed
    BY <2>4 DEF Doomed
  <2> QED
    BY <1>0, <2>1, <2>2, <2>5
<1>8. ASSUME NEW R \in SUBSET Row, NEW J \in SUBSET Row, BeginPurge(R, J)
      PROVE  runs'[v].status # "none" /\ k \in runs'[v].quoted
  BY <1>1, <1>8 DEF BeginPurge
<1>9. CASE Purge
  <2>1. \A x \in Row : runs'[x] = IF x \in purging.runs THEN NoRow ELSE runs[x]
    BY <1>9 DEF Purge
  <2>2. r \notin purging.runs /\ v = runs[r].values[k] /\ v \in Row
    BY <2>1, <1>0 DEF NoRow
  <2>3. Exists(r)
    BY <2>2 DEF Exists, TypeOK, NoRow
  <2>4. v \notin purging.runs
    BY <1>9, <2>2, <2>3 DEF Purge, MayPurge, SharedEvidence, Uses
  <2> QED
    BY <1>0, <2>1, <2>2, <2>4
<1> QED
  BY <1>2, <1>3, <1>4, <1>5, <1>7, <1>8, <1>9 DEF Next

(* Whatever is pruned or purged, every remaining valuation has the quote it
   rests on and the run that fetched it: the foreign keys never refuse a
   DELETE of either tool. *)
THEOREM EvidenceStaysWhole == Spec => []EvidenceIsWhole
<1>1. Init => EvidenceIsWhole
  BY DEF Init, EvidenceIsWhole, NoRow
<1> QED
  BY <1>1, StepEvidence, RetentionTypes, PTL DEF Spec

----------------------------------------------------------------------------
(* The newest row of a kind, and the newest rows of a key. *)

(* A set of rows that is not empty has a last one. *)
LEMMA LastRow ==
    ASSUME NEW S \in SUBSET Row, S # {}
    PROVE  \E m \in S : \A x \in S : x <= m
<1> DEFINE T == {MaxRows - x : x \in S}
<1>1. MaxRows \in Nat /\ \A x \in S : x \in 1..MaxRows
  BY BoundAssumption DEF Row
<1>2. T \subseteq Nat /\ T # {}
  BY <1>1
<1>3. PICK t \in T : \A y \in T : ~(y < t)
  <2> DEFINE R == {ss \in Nat \X Nat : ss[1] < ss[2]}
  <2>1. IsWellFoundedOn(R, Nat)
    BY NatLessThanWellFounded DEF OpToRel
  <2> HIDE DEF T, R
  <2>2. \E t \in T : \A y \in T : ~(<<y, t>> \in R)
    BY <1>2, <2>1, WFMin
  <2> QED
    BY <1>2, <2>2 DEF R
<1>5. PICK m \in S : t = MaxRows - m
  OBVIOUS
<1>6. ASSUME NEW x \in S PROVE x <= m
  <2>1. ~(MaxRows - x < MaxRows - m)
    BY <1>3, <1>5
  <2> QED
    BY <1>1, <2>1
<1> QED
  BY <1>6

(* LastAttempt finds the newest row with an answer, and 0 only without one. *)
LEMMA LastAttemptIsLast ==
    ASSUME NEW p \in Provider
    PROVE  /\ LastAttempt(p) # 0 =>
                 /\ LastAttempt(p) \in Row /\ runs[LastAttempt(p)].answer[p] # "none"
                 /\ \A x \in Row : runs[x].answer[p] # "none" => x <= LastAttempt(p)
           /\ LastAttempt(p) = 0 => \A x \in Row : runs[x].answer[p] = "none"
<1> DEFINE asked == {r \in Row : runs[r].answer[p] # "none"}
<1>1. CASE asked = {}
  BY <1>1 DEF LastAttempt
<1>2. CASE asked # {}
  <2>1. \E m \in asked : \A x \in asked : x <= m
    BY <1>2, LastRow
  <2>2. LastAttempt(p) = CHOOSE r \in asked : \A x \in asked : x <= r
    BY <1>2 DEF LastAttempt
  <2>3. LastAttempt(p) \in asked /\ \A x \in asked : x <= LastAttempt(p)
    BY <2>1, <2>2
  <2> QED
    BY <2>3 DEF Row
<1> QED
  BY <1>1, <1>2

(* A set of rows has one last row. *)
LEMMA OneLastRow ==
    ASSUME NEW S \in SUBSET Row, NEW m \in S, \A x \in S : x <= m
    PROVE  (CHOOSE r \in S : \A x \in S : x <= r) = m
<1> DEFINE c == CHOOSE r \in S : \A x \in S : x <= r
<1>1. c \in S /\ \A x \in S : x <= c
  OBVIOUS
<1>2. c <= m /\ m <= c /\ c \in 1..MaxRows /\ m \in 1..MaxRows
  BY <1>1 DEF Row
<1> QED
  BY <1>2

(* What the service reads of a table from which some old rows were taken is
   what it read before, if none of them was its newest answer. *)
LEMMA CooldownsStand ==
    ASSUME NEW p \in Provider, NEW gone \in SUBSET Row,
           \A x \in Row : runs'[x] = IF x \in gone THEN NoRow ELSE runs[x],
           LastAttempt(p) # 0, LastAttempt(p) \notin gone
    PROVE  LastAttempt(p)' = LastAttempt(p) /\ runs'[LastAttempt(p)] = runs[LastAttempt(p)]
<1> DEFINE m == LastAttempt(p)
<1>1. /\ m \in Row /\ m \notin gone /\ runs[m].answer[p] # "none"
      /\ \A x \in Row : runs[x].answer[p] # "none" => x <= m
  BY LastAttemptIsLast
<1>2. PICK last : last = m
  OBVIOUS
<1> HIDE DEF m
<1>3. runs'[last].answer[p] # "none" /\ runs'[last] = runs[last]
  BY <1>1, <1>2
<1>4. \A x \in Row : runs'[x].answer[p] # "none" => x <= last
  BY <1>1, <1>2 DEF NoRow
<1> DEFINE asked == {r \in Row : runs'[r].answer[p] # "none"}
<1>5. LastAttempt(p)' = last
  <2>1. last \in asked /\ \A x \in asked : x <= last
    BY <1>1, <1>2, <1>3, <1>4
  <2>2. LastAttempt(p)' = CHOOSE r \in asked : \A x \in asked : x <= r
    BY <2>1 DEF LastAttempt
  <2> QED
    BY <2>1, <2>2, OneLastRow
<1> QED
  BY <1>2, <1>3, <1>5 DEF m

(* prune takes no run whose answer counts: what is doomed is old, and a row
   at or before an old one has no cooldown left. *)
LEMMA PruneKeepsCooldowns ==
    ASSUME RetentionInv, Prune
    PROVE  provider_cooldowns' = provider_cooldowns
<1>1. Doomed \in SUBSET Row /\ \A x \in Doomed : runs[x].status = "old"
  BY DEF Doomed
<1>2. \A x \in Row : runs'[x] = IF x \in Doomed THEN NoRow ELSE runs[x]
  BY DEF Prune
<1>3. ASSUME NEW p \in provider_cooldowns PROVE p \in provider_cooldowns'
  <2>1. p \in Provider /\ LastAttempt(p) # 0 /\ runs[LastAttempt(p)].answer[p] = "cooling"
    BY <1>3 DEF provider_cooldowns
  <2>2. LastAttempt(p) \in Row
    BY <2>1, LastAttemptIsLast
  <2>3. LastAttempt(p) \notin Doomed
    BY <1>1, <2>1, <2>2 DEF RetentionInv, OldIsOver, Row
  <2>4. LastAttempt(p)' = LastAttempt(p) /\ runs'[LastAttempt(p)] = runs[LastAttempt(p)]
    BY <1>1, <1>2, <2>1, <2>3, CooldownsStand
  <2> QED
    BY <2>1, <2>4 DEF provider_cooldowns
<1>4. ASSUME NEW p \in provider_cooldowns' PROVE p \in provider_cooldowns
  <2> DEFINE asked == {r \in Row : runs'[r].answer[p] # "none"}
  <2>1. p \in Provider /\ LastAttempt(p)' # 0 /\ runs'[LastAttempt(p)'].answer[p] = "cooling"
    BY <1>4 DEF provider_cooldowns
  <2>2. asked # {} /\ LastAttempt(p)' = CHOOSE r \in asked : \A x \in asked : x <= r
    BY <2>1 DEF LastAttempt
  <2>3. PICK n : n = LastAttempt(p)'
    OBVIOUS
  <2>4. \E m \in asked : \A x \in asked : x <= m
    BY <2>2, LastRow
  <2>5. n \in asked
    BY <2>2, <2>3, <2>4
  <2>6. n \in Row /\ runs[n].answer[p] = "cooling"
    BY <1>2, <2>1, <2>3, <2>5 DEF NoRow
  <2>7. PICK last : last = LastAttempt(p)
    OBVIOUS
  <2>8. last # 0 /\ last \in Row /\ n <= last
    BY <2>1, <2>6, <2>7, LastAttemptIsLast
  <2>9. last \notin Doomed
    BY <1>1, <2>1, <2>6, <2>8 DEF RetentionInv, OldIsOver
  <2>10. LastAttempt(p)' = LastAttempt(p)
    BY <1>1, <1>2, <2>1, <2>7, <2>8, <2>9, CooldownsStand
  <2> QED
    BY <2>1, <2>3, <2>6, <2>7, <2>8, <2>10 DEF provider_cooldowns
<1> QED
  BY <1>3, <1>4

(* prune takes no quote that a cache could still choose, and by taking older
   ones it brings no other into the window. *)
LEMMA PruneKeepsWindow ==
    ASSUME TypeOK, Prune, NEW k \in Key
    PROVE  Window(k)' = Window(k)
<1> DEFINE newer(r) == {x \in Row : x > r /\ k \in runs[x].quoted}
           left(r) == {x \in Row : x > r /\ k \in runs'[x].quoted}
<1>1. \A x \in Row : runs'[x] = IF x \in Doomed THEN NoRow ELSE runs[x]
  BY DEF Prune
<1>2. \A x \in Row : k \in runs'[x].quoted <=> x \notin Doomed /\ k \in runs[x].quoted
  BY <1>1, NoRowType
<1>3. ASSUME NEW r \in Row
      PROVE  /\ left(r) \subseteq newer(r) /\ newer(r) \subseteq Row
             /\ IsFiniteSet(left(r)) /\ IsFiniteSet(newer(r))
             /\ Cardinality(left(r)) \in Nat /\ Cardinality(newer(r)) \in Nat
             /\ Cardinality(left(r)) <= Cardinality(newer(r))
  <2>1. left(r) \subseteq newer(r) /\ newer(r) \subseteq Row
    BY <1>2
  <2>2. IsFiniteSet(Row)
    BY BoundAssumption, FS_Interval DEF Row
  <2> HIDE DEF left, newer
  <2>3. IsFiniteSet(newer(r))
    BY <2>1, <2>2, FS_Subset
  <2>4. IsFiniteSet(left(r)) /\ Cardinality(left(r)) <= Cardinality(newer(r))
    BY <2>1, <2>3, FS_Subset
  <2> QED
    BY <2>1, <2>3, <2>4, FS_CardinalityType
<1>4. Window(k) = {r \in Row : k \in runs[r].quoted /\ Cardinality(newer(r)) < Keep}
  BY DEF Window
<1>5. Window(k)' = {r \in Row : k \in runs'[r].quoted /\ Cardinality(left(r)) < Keep}
  BY DEF Window
<1>6. Keep \in Nat
  BY BoundAssumption
<1>7. ASSUME NEW r \in Window(k) PROVE r \in Window(k)'
  <2>1. r \in Row /\ k \in runs[r].quoted /\ Cardinality(newer(r)) < Keep
    BY <1>4
  <2>2. Exists(r)
    BY <2>1, NoRowType DEF TypeOK, Exists
  <2>3. r \in Protected
    BY <2>1, <2>2 DEF Protected
  <2>4. r \notin Doomed
    BY <2>3, KeptIsClosed DEF Doomed
  <2>5. Cardinality(left(r)) < Keep
    <3> HIDE DEF newer, left
    <3> QED
      BY <1>3, <1>6, <2>1
  <2> QED
    BY <1>2, <1>5, <2>1, <2>4, <2>5
<1>8. ASSUME NEW r \in Window(k)', r \notin Window(k) PROVE FALSE
  <2>1. r \in Row /\ r \notin Doomed /\ k \in runs[r].quoted /\ Cardinality(left(r)) < Keep
    BY <1>2, <1>5
  <2>2. ~(Cardinality(newer(r)) < Keep)
    BY <1>4, <1>8, <2>1
  <2> DEFINE taken == newer(r) \ left(r)
  <2>3. taken # {} /\ taken \subseteq Row
    BY <1>3, <2>1, <2>2
  <2>4. PICK d \in taken : \A x \in taken : x <= d
    BY <2>3, LastRow
  <2>5. d \in Row /\ d \in Doomed /\ d > r
    BY <1>2, <2>4
  <2>6. newer(d) \subseteq left(r)
    <3>1. ASSUME NEW x \in newer(d) PROVE x \in left(r)
      <4>1. x \in Row /\ x > d /\ x > r /\ x \in newer(r)
        BY <2>1, <2>5 DEF Row
      <4>2. x \notin taken
        BY <2>4, <2>5, <4>1 DEF Row
      <4> QED
        BY <4>1, <4>2
    <3> QED
      BY <3>1
  <2>7. Cardinality(newer(d)) <= Cardinality(left(r))
    <3> HIDE DEF newer, left
    <3> QED
      BY <1>3, <2>1, <2>6, FS_Subset
  <2>8. d \in Window(k)
    <3>1. Cardinality(newer(d)) < Keep
      <4> HIDE DEF newer, left
      <4> QED
        BY <1>3, <1>6, <2>1, <2>5, <2>7
    <3> QED
      BY <1>4, <2>4, <2>5, <3>1
  <2>9. d \in Protected
    BY <2>5, <2>8 DEF Protected, Doomed, Exists
  <2> QED
    BY <2>5, <2>9, KeptIsClosed DEF Doomed
<1> QED
  BY <1>7, <1>8

(* prune takes no generation that is loaded, and no job that the next refresh
   counts its cooldown from. *)
LEMMA PruneKeepsListing ==
    ASSUME TypeOK, Prune
    PROVE  Loaded' = Loaded /\ LastJob' = LastJob
<1>1. \A g \in Row : catalogs'[g] = "valid" <=> catalogs[g] = "valid"
  BY DEF Prune, DoomedCatalogs
<1>2. Loaded' = Loaded
  BY <1>1 DEF Loaded
<1> DEFINE stored == {j \in Row : jobs[j] # "none"}
           left == {j \in Row : jobs'[j] # "none"}
<1>3. left = stored \ DoomedJobs
  BY DEF Prune, DoomedJobs
<1>4. LastJob = {j \in stored : \A x \in stored : x <= j}
  BY DEF LastJob
<1>5. LastJob' = {j \in left : \A x \in left : x <= j}
  BY DEF LastJob
<1>6. LastJob \subseteq LastJob'
  BY <1>3, <1>4, <1>5 DEF DoomedJobs
<1>7. ASSUME NEW j \in LastJob' PROVE j \in LastJob
  <2>1. j \in stored
    BY <1>3, <1>5
  <2>2. PICK m \in stored : \A x \in stored : x <= m
    BY <2>1, LastRow
  <2>3. m \in LastJob'
    BY <1>4, <1>6, <2>2
  <2>4. j <= m /\ m <= j /\ j \in 1..MaxRows /\ m \in 1..MaxRows
    BY <1>5, <2>1, <2>2, <2>3 DEF Row
  <2>5. j = m
    BY <2>4
  <2> QED
    BY <1>4, <2>2, <2>5
<1> QED
  BY <1>2, <1>6, <1>7

----------------------------------------------------------------------------
(* RetentionInv: what the two action properties rest on. *)

(* Where the same rows have an answer, the last attempt is the same. *)
LEMMA SameAttempts ==
    ASSUME NEW p \in Provider,
           \A x \in Row : runs'[x].answer[p] # "none" <=> runs[x].answer[p] # "none"
    PROVE  LastAttempt(p)' = LastAttempt(p)
<1> DEFINE asked == {r \in Row : runs[r].answer[p] # "none"}
           last(S) == IF S = {} THEN 0 ELSE CHOOSE r \in S : \A x \in S : x <= r
<1>1. asked' = asked
  OBVIOUS
<1>2. LastAttempt(p) = last(asked) /\ LastAttempt(p)' = last(asked')
  BY DEF LastAttempt
<1> HIDE DEF asked
<1> QED
  BY <1>1, <1>2

(* A cooldown that is seen is in a row. *)
LEMMA CooldownsAreAnswers ==
    ASSUME NEW p \in provider_cooldowns
    PROVE  /\ p \in Provider /\ LastAttempt(p) \in Row /\ LastAttempt(p) # 0
           /\ runs[LastAttempt(p)].answer[p] = "cooling"
BY LastAttemptIsLast DEF provider_cooldowns

(* A day takes cooldowns away and nothing else; a row's status does not
   change its answers. *)
LEMMA RowAnswers ==
    ASSUME NEW x \in RunRow
    PROVE  /\ \A s \in {"recovered", "old"} : [x EXCEPT !.status = s].answer = x.answer
           /\ \A p \in Provider :
                 /\ AfterADay(x).answer[p] # "cooling"
                 /\ AfterADay(x).answer[p] = "none" <=> x.answer[p] = "none"
           /\ AfterADay(x).status = x.status
<1> DEFINE later == [p \in Provider |-> IF x.answer[p] = "cooling" THEN "clear" ELSE x.answer[p]]
<1>1. AfterADay(x).answer = later /\ AfterADay(x).status = x.status
  BY DEF AfterADay, RunRow
<1> QED
  BY <1>1 DEF RunRow

(* A collector's new run is the newest row; the others are as they were. *)
LEMMA NewRun ==
    ASSUME TypeOK, NEW campaign, NEW quoted, NEW status, NEW answer,
           Collect(campaign, quoted, answer, status)
    PROVE  \E new \in Row :
              /\ new = created.run + 1 /\ created'.run = new
              /\ \A x \in Row : runs[x].status # "none" => x < new
              /\ runs[new] = NoRow
              /\ runs'[new].status = status /\ runs'[new].answer = answer
              /\ \A x \in Row : x # new => runs'[x] = runs[x]
<1> DEFINE new == created.run + 1
<1>1. /\ new \in Row /\ created'.run = new /\ runs[new] = NoRow
      /\ \A x \in Row : runs[x].status # "none" => x < new
  BY BoundAssumption DEF Collect, MoreRows, Row, TypeOK
<1>2. PICK chosen \in Values(new, quoted) \cup {NoRow.values} :
          runs' = [runs EXCEPT ![new] =
                        [status |-> status, campaign |-> campaign,
                         quoted |-> quoted, values |-> chosen, answer |-> answer]]
  BY <1>1 DEF Collect
<1>3. \A x \in Row : runs'[x] = IF x = new
            THEN [status |-> status, campaign |-> campaign, quoted |-> quoted,
                  values |-> chosen, answer |-> answer]
            ELSE runs[x]
  BY <1>1, <1>2 DEF TypeOK
<1> HIDE DEF new
<1> QED
  BY <1>1, <1>3 DEF new

(* Old rows have no cooldown, nor have the rows before them. *)
LEMMA StepOldIsOver == RetentionInv /\ [Next]_vars => OldIsOver'
<1> SUFFICES ASSUME RetentionInv, [Next]_vars,
                    NEW r \in Row, NEW x \in Row, NEW p \in Provider,
                    runs'[r].status = "old", x <= r
             PROVE  runs'[x].answer[p] # "cooling"
  BY DEF OldIsOver
<1>0. /\ TypeOK
      /\ \A y \in Row : runs[y] \in RunRow /\ runs[y].answer \in [Provider -> {"none", "clear", "cooling"}]
      /\ runs[r].status = "old" => runs[x].answer[p] # "cooling"
  BY DEF RetentionInv, OldIsOver, TypeOK, RunRow
<1>1. CASE Recover
  <2>1. \A y \in Row : runs'[y] = IF runs[y].status = "running"
                              THEN [runs[y] EXCEPT !.status = "recovered"] ELSE runs[y]
    BY <1>1 DEF Recover
  <2>2. runs'[x].answer = runs[x].answer
    BY <1>0, <2>1 DEF RunRow
  <2>3. runs[r].status = "old"
    BY <1>0, <2>1 DEF RunRow
  <2> QED
    BY <1>0, <2>2, <2>3
<1>2. ASSUME NEW campaign \in BOOLEAN, NEW quoted \in SUBSET Key,
             NEW status \in {"running", "recent"},
             NEW answer \in [Provider -> {"none", "clear", "cooling"}],
             Collect(campaign, quoted, answer, status)
      PROVE  runs'[x].answer[p] # "cooling"
  <2>0. TypeOK
    BY <1>0
  <2>1. PICK new \in Row :
              /\ new = created.run + 1 /\ created'.run = new
              /\ \A y \in Row : runs[y].status # "none" => y < new
              /\ runs[new] = NoRow
              /\ runs'[new].status = status /\ runs'[new].answer = answer
              /\ \A y \in Row : y # new => runs'[y] = runs[y]
    BY <1>2, <2>0, NewRun
  <2>2. r # new /\ runs[r].status = "old"
    BY <2>1
  <2>3. x # new
    BY <2>1, <2>2 DEF Row
  <2> QED
    BY <1>0, <2>1, <2>2, <2>3
<1>3. CASE DayPasses
  BY <1>0, <1>3, RowAnswers DEF DayPasses
<1>4. CASE PeriodPasses
  <2>1. \A y \in Row : runs'[y] = IF runs[y].status = "recent"
                              THEN [runs[y] EXCEPT !.status = "old"] ELSE runs[y]
    BY <1>4 DEF PeriodPasses
  <2> QED
    BY <1>0, <1>4, <2>1, RowAnswers DEF PeriodPasses
<1>5. CASE Prune
  BY <1>0, <1>5 DEF Prune, NoRow
<1>6. CASE Purge
  BY <1>0, <1>6 DEF Purge, NoRow
<1>7. CASE SaveCatalog \/ ClaimJob \/ EndJob \/ LeavePurge \/ UNCHANGED vars
  BY <1>0, <1>7 DEF SaveCatalog, ClaimJob, EndJob, LeavePurge, vars
<1>8. ASSUME NEW R \in SUBSET Row, NEW J \in SUBSET Row, BeginPurge(R, J)
      PROVE  runs'[x].answer[p] # "cooling"
  BY <1>0, <1>8 DEF BeginPurge
<1> QED
  BY <1>1, <1>2, <1>3, <1>4, <1>5, <1>6, <1>7, <1>8 DEF Next

(* The manifest names rows that exist when it is read, and no number is
   given twice. *)
LEMMA StepManifest == RetentionInv /\ [Next]_vars => ManifestIsCreated'
<1> SUFFICES ASSUME RetentionInv, [Next]_vars, NEW r \in purging'.runs
             PROVE  r <= created'.run
  BY DEF ManifestIsCreated
<1>0. /\ CreatedOK /\ created.run \in Nat /\ purging.runs \subseteq Row /\ Idle.runs = {}
      /\ \A x \in purging.runs : x <= created.run
      /\ \A x \in Row : runs[x].status # "none" => x <= created.run
  BY DEF RetentionInv, ManifestIsCreated, TypeOK, CreatedOK, Idle, Row
<1>1. ASSUME purging' = purging, created'.run \in Nat, created'.run >= created.run
      PROVE  r <= created'.run
  BY <1>0, <1>1 DEF Row
<1>2. CASE Recover \/ EndJob \/ DayPasses \/ PeriodPasses \/ Prune \/ UNCHANGED vars
  BY <1>0, <1>1, <1>2 DEF Recover, EndJob, DayPasses, PeriodPasses, Prune, vars
<1>3. ASSUME NEW campaign \in BOOLEAN, NEW quoted \in SUBSET Key,
             NEW status \in {"running", "recent"},
             NEW answer \in [Provider -> {"none", "clear", "cooling"}],
             Collect(campaign, quoted, answer, status)
      PROVE  r <= created'.run
  <2>1. created'.run = created.run + 1
    BY <1>0, <1>3, NewRow, "run" \in {"run", "job", "catalog"} DEF Collect
  <2> QED
    BY <1>0, <1>1, <1>3, <2>1 DEF Collect
<1>4. CASE SaveCatalog
  <2>1. created'.run = created.run
    BY <1>0, <1>4, NewRow, "catalog" \in {"run", "job", "catalog"} DEF SaveCatalog
  <2> QED
    BY <1>0, <1>1, <1>4, <2>1 DEF SaveCatalog
<1>5. CASE ClaimJob
  <2>1. created'.run = created.run
    BY <1>0, <1>5, NewRow, "job" \in {"run", "job", "catalog"} DEF ClaimJob
  <2> QED
    BY <1>0, <1>1, <1>5, <2>1 DEF ClaimJob
<1>6. ASSUME NEW R \in SUBSET Row, NEW J \in SUBSET Row, BeginPurge(R, J)
      PROVE  r <= created'.run
  BY <1>0, <1>6 DEF BeginPurge, Exists
<1>7. CASE Purge \/ LeavePurge
  BY <1>0, <1>7 DEF Purge, LeavePurge
<1> QED
  BY <1>2, <1>3, <1>4, <1>5, <1>6, <1>7 DEF Next

(* What a purge has read stays good enough: a cooldown that it did not see
   is in a newer run than any it may delete. *)
LEMMA StepReading == RetentionInv /\ [Next]_vars => ReadingIsKept'
<1> SUFFICES ASSUME RetentionInv, [Next]_vars,
                    NEW p \in provider_cooldowns', LastAttempt(p)' \in purging'.runs
             PROVE  p \in purging'.cooling
  BY DEF ReadingIsKept
<1>0. /\ TypeOK /\ p \in Provider
      /\ \A y \in Row : runs[y] \in RunRow
      /\ p \in provider_cooldowns /\ LastAttempt(p) \in purging.runs => p \in purging.cooling
      /\ \A x \in purging.runs : x <= created.run
      /\ Idle.runs = {}
  BY DEF RetentionInv, ReadingIsKept, ManifestIsCreated, TypeOK, Idle, provider_cooldowns
<1>1. PICK last : last = LastAttempt(p)'
  OBVIOUS
<1>2. last # 0 /\ runs'[last].answer[p] = "cooling" /\ last \in purging'.runs
  BY <1>1 DEF provider_cooldowns
<1>3. last \in Row
  <2> DEFINE asked == {r \in Row : runs'[r].answer[p] # "none"}
  <2>1. asked # {} /\ last = CHOOSE r \in asked : \A x \in asked : x <= r
    BY <1>1, <1>2 DEF LastAttempt
  <2>2. \E m \in asked : \A x \in asked : x <= m
    BY <2>1, LastRow
  <2> QED
    BY <2>1, <2>2
<1>4. ASSUME purging' = purging, provider_cooldowns' = provider_cooldowns,
             LastAttempt(p)' = LastAttempt(p)
      PROVE  p \in purging'.cooling
  BY <1>0, <1>4
<1>5. ASSUME purging' = purging, \A x \in Row : runs'[x].answer = runs[x].answer
      PROVE  p \in purging'.cooling
  <2>1. LastAttempt(p)' = LastAttempt(p)
    BY <1>0, <1>5, SameAttempts
  <2>2. p \in provider_cooldowns
    BY <1>0, <1>1, <1>2, <1>3, <1>5, <2>1 DEF provider_cooldowns
  <2> QED
    BY <1>0, <1>5, <2>1, <2>2
<1>6. CASE Recover
  <2>1. \A y \in Row : runs'[y] = IF runs[y].status = "running"
                              THEN [runs[y] EXCEPT !.status = "recovered"] ELSE runs[y]
    BY <1>6 DEF Recover
  <2>2. \A y \in Row : runs'[y].answer = runs[y].answer
    BY <1>0, <2>1 DEF RunRow
  <2> QED
    BY <1>5, <1>6, <2>2 DEF Recover
<1>7. ASSUME NEW campaign \in BOOLEAN, NEW quoted \in SUBSET Key,
             NEW status \in {"running", "recent"},
             NEW answer \in [Provider -> {"none", "clear", "cooling"}],
             Collect(campaign, quoted, answer, status)
      PROVE  p \in purging'.cooling
  <2>0. TypeOK
    BY <1>0
  <2>1. PICK new \in Row :
              /\ new = created.run + 1 /\ created'.run = new
              /\ \A y \in Row : runs[y].status # "none" => y < new
              /\ runs[new] = NoRow
              /\ runs'[new].status = status /\ runs'[new].answer = answer
              /\ \A y \in Row : y # new => runs'[y] = runs[y]
    BY <1>7, <2>0, NewRun
  <2>2. purging' = purging
    BY <1>7 DEF Collect
  <2>3. new \notin purging.runs
    BY <1>0, <2>1 DEF TypeOK
  <2>4. last # new
    BY <1>2, <2>2, <2>3
  <2>5. answer[p] = "none"
    <3> DEFINE asked == {r \in Row : runs'[r].answer[p] # "none"}
    <3>1. SUFFICES ASSUME new \in asked PROVE FALSE
      BY <2>1
    <3>2. \A x \in asked : x <= new
      <4>1. \A x \in Row : runs[x].answer[p] # "none" => x < new
        BY <1>0, <2>1 DEF TypeOK, NoRow
      <4> QED
        BY <2>1, <4>1 DEF Row
    <3>3. (CHOOSE r \in asked : \A x \in asked : x <= r) = new
      BY <3>1, <3>2, OneLastRow
    <3>4. LastAttempt(p)' = new
      BY <3>1, <3>3 DEF LastAttempt
    <3> QED
      BY <1>1, <2>4, <3>4
  <2>6. \A r \in Row : runs'[r].answer[p] # "none" <=> runs[r].answer[p] # "none"
    BY <1>0, <2>1, <2>5 DEF NoRow
  <2>7. LastAttempt(p)' = LastAttempt(p)
    BY <1>0, <2>6, SameAttempts
  <2>8. p \in provider_cooldowns
    BY <1>0, <1>1, <1>2, <1>3, <2>1, <2>4, <2>7 DEF provider_cooldowns
  <2> QED
    BY <1>0, <1>1, <1>2, <2>2, <2>7, <2>8
<1>8. CASE DayPasses
  BY <1>0, <1>2, <1>3, <1>8, RowAnswers DEF DayPasses
<1>9. CASE PeriodPasses
  <2>1. \A y \in Row : runs'[y] = IF runs[y].status = "recent"
                              THEN [runs[y] EXCEPT !.status = "old"] ELSE runs[y]
    BY <1>9 DEF PeriodPasses
  <2>2. \A y \in Row : runs'[y].answer = runs[y].answer
    BY <1>0, <2>1 DEF RunRow
  <2> QED
    BY <1>5, <1>9, <2>2 DEF PeriodPasses
<1>10. CASE Prune
  <2>1. provider_cooldowns' = provider_cooldowns /\ purging' = purging
    BY <1>10, PruneKeepsCooldowns DEF Prune
  <2>2. p \in provider_cooldowns
    BY <2>1
  <2>3. LastAttempt(p) \in Row /\ LastAttempt(p) # 0 /\ runs[LastAttempt(p)].answer[p] = "cooling"
    BY <2>2, CooldownsAreAnswers
  <2>4. LastAttempt(p) \notin Doomed
    BY <2>3, <1>0 DEF RetentionInv, OldIsOver, Doomed, Row
  <2>5. \A x \in Row : runs'[x] = IF x \in Doomed THEN NoRow ELSE runs[x]
    BY <1>10 DEF Prune
  <2>6. Doomed \in SUBSET Row
    BY DEF Doomed
  <2>7. LastAttempt(p)' = LastAttempt(p)
    BY <1>0, <2>3, <2>4, <2>5, <2>6, CooldownsStand
  <2> QED
    BY <1>4, <2>1, <2>7
<1>11. ASSUME NEW R \in SUBSET Row, NEW J \in SUBSET Row, BeginPurge(R, J)
       PROVE  p \in purging'.cooling
  <2>1. runs' = runs /\ purging'.cooling = provider_cooldowns
    BY <1>11 DEF BeginPurge
  <2>2. provider_cooldowns' = provider_cooldowns
    BY <2>1, SMTT(30) DEF provider_cooldowns, LastAttempt
  <2> QED
    BY <2>1, <2>2
<1>12. CASE Purge \/ LeavePurge
  BY <1>0, <1>2, <1>12 DEF Purge, LeavePurge
<1>13. CASE SaveCatalog \/ ClaimJob \/ EndJob \/ UNCHANGED vars
  BY <1>5, <1>13 DEF SaveCatalog, ClaimJob, EndJob, vars
<1> QED
  BY <1>6, <1>7, <1>8, <1>9, <1>10, <1>11, <1>12, <1>13 DEF Next

(* The invariant holds in every state.                                        *)
LEMMA RetentionInvHolds == Spec => []RetentionInv
<1>1. Init => RetentionInv
  BY InitTypes DEF Init, RetentionInv, OldIsOver, ManifestIsCreated, ReadingIsKept, NoRow, Idle
<1>2. RetentionInv /\ [Next]_vars => RetentionInv'
  <2> SUFFICES ASSUME RetentionInv, [Next]_vars PROVE RetentionInv'
    OBVIOUS
  <2>1. TypeOK'
    BY StepTypes DEF RetentionInv
  <2> QED
    BY <2>1, StepOldIsOver, StepManifest, StepReading DEF RetentionInv
<1> QED
  BY <1>1, <1>2, PTL DEF Spec

(* A prune changes nothing the service reads: the cache candidates of every
   key, the loaded listing, the job that the next refresh counts its cooldown
   from and the cooldowns of the sources, however many rows there are. *)
THEOREM PruneIsUnseen == Spec => PruneIsInvisible
<1>1. RetentionInv /\ [Next]_vars
        => [Prune => /\ \A k \in Key : Window(k)' = Window(k)
                     /\ Loaded' = Loaded
                     /\ LastJob' = LastJob
                     /\ provider_cooldowns' = provider_cooldowns]_vars
  <2> SUFFICES ASSUME RetentionInv, Prune
               PROVE  /\ \A k \in Key : Window(k)' = Window(k)
                      /\ Loaded' = Loaded
                      /\ LastJob' = LastJob
                      /\ provider_cooldowns' = provider_cooldowns
    OBVIOUS
  <2>1. TypeOK
    BY DEF RetentionInv
  <2> QED
    BY <2>1, PruneKeepsWindow, PruneKeepsListing, PruneKeepsCooldowns
<1> QED
  BY <1>1, RetentionInvHolds, PTL DEF Spec, PruneIsInvisible

(* A purge lifts no cooldown that is in force when it deletes, although it
   read the cooldowns before it had the lock. *)
THEOREM PurgeKeepsCooldowns == Spec => CooldownSurvivesPurge
<1>1. RetentionInv /\ [Next]_vars
        => [Purge => provider_cooldowns \subseteq provider_cooldowns']_vars
  <2> SUFFICES ASSUME RetentionInv, Purge, NEW p \in provider_cooldowns
               PROVE  p \in provider_cooldowns'
    OBVIOUS
  <2>1. p \in Provider /\ LastAttempt(p) # 0 /\ runs[LastAttempt(p)].answer[p] = "cooling"
    BY CooldownsAreAnswers
  <2>2. LastAttempt(p) \notin purging.runs
    BY DEF RetentionInv, ReadingIsKept, Purge, MayPurge, HeldCooldowns
  <2>3. /\ purging.runs \in SUBSET Row
        /\ \A x \in Row : runs'[x] = IF x \in purging.runs THEN NoRow ELSE runs[x]
    BY DEF RetentionInv, TypeOK, Purge
  <2>4. LastAttempt(p)' = LastAttempt(p) /\ runs'[LastAttempt(p)] = runs[LastAttempt(p)]
    BY <2>1, <2>2, <2>3, CooldownsStand
  <2> QED
    BY <2>1, <2>4 DEF provider_cooldowns
<1> QED
  BY <1>1, RetentionInvHolds, PTL DEF Spec, CooldownSurvivesPurge
=============================================================================
