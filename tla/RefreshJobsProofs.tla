-------------------------- MODULE RefreshJobsProofs --------------------------
(* One refresh at a time, on a lease that lasts, proved for any numbers of    *)
(* requests, jobs and batches and any times that satisfy QuietStretchesFit.   *)
EXTENDS RefreshJobs, FiniteSetTheorems, TLAPS

-----------------------------------------------------------------------------
(* Why the properties hold: the inductive invariants.                         *)

(* The longest time between two progress writes: up to the first one that is  *)
(* not the listing's own, then one batch.  All of it must fit into the lease. *)
ListingTime == IF CatalogInRequest THEN CatalogTime ELSE 0

(* The longest stretch before the first batch's progress, and that all of     *)
(* them fit.                                                                  *)
BeforeBatch == IF Foreign THEN OperationTimeout ELSE ListingTime

(* The quiet stretches fit into the lease.                                    *)
QuietStretchesFit == ListingTime < lease_seconds /\ BeforeBatch + BatchTime < lease_seconds

(* The newest job.                                                            *)
Newest == Cardinality(Created)

(* Jobs are created in order, and only the newest can be running on a live    *)
(* lease.                                                                     *)
RowsInOrder ==
    /\ Newest \in 0..MaxJobs /\ Created = 1..Newest
    /\ \A j \in Job : jobs[j].status = "running" /\ ~expired(j) => j = Newest

(* A request that is being served.                                            *)
Active(h) == work[h].phase # "idle"

(* A request that is served has the newest job, alone; its row says so.       *)
ActiveHasNewest ==
    /\ \A h \in Handler : Active(h) => /\ work[h].job = Newest /\ Newest \in Job
                                       /\ jobs[Newest].status = "running"
                                       /\ work[h].phase = "batch" => work[h].rest > 0
    /\ \A g, h \in Handler : Active(g) /\ Active(h) => g = h

(* What is left of the lease covers what is left of the present stretch.      *)
LeaseCovers(w, lease) ==
    /\ lease > 0
    /\ w.phase \in {"start", "lockCatalog"} => lease = lease_seconds
    /\ w.phase \in {"lockCatalog", "catalog"} => CatalogInRequest
    /\ w.phase = "catalog" => lease >= lease_seconds - CatalogTime + w.left
    /\ w.phase \in {"lock", "rates"} => lease >= lease_seconds - ListingTime
    /\ w.phase = "fx" => Foreign /\ lease >= lease_seconds - OperationTimeout + w.left
    /\ w.phase = "batches" /\ w.due > 0 => lease >= lease_seconds - BeforeBatch
    /\ w.phase = "batch" => lease > w.left

(* The lease of a request that is served covers its present stretch.          *)
LeaseLasts == \A h \in Handler : Active(h) => LeaseCovers(work[h], jobs[work[h].job].lease)

(* The lock belongs to a request inside its Storage block.                    *)
Holding == {"catalog", "rates", "fx", "batches", "batch"}

(* The owner of the lock is inside its block.                                 *)
LockIsHeld == lock \in Handler => work[lock].phase \in Holding

(* The inductive invariant.                                                   *)
RefreshInv == TypeOK /\ RowsInOrder /\ ActiveHasNewest /\ LeaseLasts /\ LockIsHeld

(* What needs no lease: a request has a job that exists, and is inside its    *)
(* Storage block exactly while it owns the lock, also when an overrun lease   *)
(* let another in.                                                            *)
JobsInHand ==
    /\ Newest \in 0..MaxJobs /\ Created = 1..Newest
    /\ \A h \in Handler : Active(h) => /\ work[h].job \in Created
                                       /\ work[h].phase = "batch" => work[h].rest > 0

(* A request owns the lock exactly while it is inside its Storage block.      *)
LockMatches == \A h \in Handler : lock = h <=> work[h].phase \in Holding

(* The inductive invariant of the lock, which needs no lease.                 *)
LockInv == TypeOK /\ JobsInHand /\ LockMatches

-----------------------------------------------------------------------------
(* The times are numbers, and the lease is longer than none. *)
LEMMA Times ==
    /\ lease_seconds \in Nat \ {0} /\ OperationTimeout < lease_seconds
    /\ OperationTimeout \in Nat /\ CatalogTime \in Nat /\ ListingTime \in Nat
    /\ BeforeBatch \in Nat /\ Deadline \in Nat /\ Cooldown \in Nat /\ Batches \in Nat
    /\ MaxJobs \in Nat
    /\ BatchMarkets * CycleBudget \in Nat /\ BatchTime \in Nat
<1>1. /\ CycleBudget \in Nat \ {0} /\ OperationTimeout \in Nat \ {0} /\ Grace \in Nat
      /\ CatalogTime \in Nat /\ Deadline \in Nat \ {0} /\ Cooldown \in Nat \ {0}
      /\ Batches \in Nat /\ BatchMarkets \in Nat \ {0} /\ MaxJobs \in Nat \ {0}
    BY RefreshAssumption
<1>2. BatchMarkets * CycleBudget \in Nat
    BY <1>1
<1> HIDE DEF lease_seconds
<1>3. lease_seconds \in Nat \ {0} /\ OperationTimeout < lease_seconds
    BY <1>1 DEF lease_seconds
<1> QED BY <1>1, <1>2, <1>3 DEF ListingTime, BeforeBatch, BatchTime, Min

(* The fields of a job's row and of a request's work.                         *)
LEMMA RowTypes ==
    ASSUME TypeOK
    PROVE  /\ \A j \in Job : /\ jobs[j] \in JobRow
                             /\ jobs[j].status \in {"absent", "running"} \cup Ended
                             /\ jobs[j].lease \in 0..lease_seconds /\ jobs[j].age \in 0..Cooldown
           /\ \A h \in Handler : /\ work[h] \in WorkRow
                                 /\ work[h].phase \in Phase /\ work[h].job \in Job \cup {None}
                                 /\ work[h].left \in Nat /\ work[h].due \in 0..Deadline
                                 /\ work[h].rest \in 0..Batches /\ work[h].result \in Ended
<1>1. (\A j \in Job : jobs[j] \in JobRow) /\ (\A h \in Handler : work[h] \in WorkRow)
    BY DEF TypeOK
<1> QED BY <1>1 DEF JobRow, WorkRow

(* An idle request is of its type.                                            *)
LEMMA IdleType == Idle \in WorkRow /\ Idle.phase = "idle"
BY Times DEF Idle, WorkRow, Phase, Ended

(* The interval of the jobs that exist has as many as its last one's number.  *)
LEMMA Counted == \A n \in Nat : Cardinality(1..n) = n
BY FS_Interval

(* The invariant holds before the first job.                                  *)
LEMMA InitRefresh == Init => RefreshInv
<1> SUFFICES ASSUME Init PROVE RefreshInv
    OBVIOUS
<1>1. TypeOK
    BY IdleType, Times DEF Init, TypeOK, NoJob, JobRow
<1>2. Created = 1..0
    BY DEF Init, Created, NoJob
<1>3. Newest = 0
    BY <1>2, Counted DEF Newest
<1>4. RowsInOrder
    BY <1>2, <1>3, Times DEF RowsInOrder, Init, NoJob
<1>5. ActiveHasNewest /\ LeaseLasts
    BY IdleType DEF Init, ActiveHasNewest, LeaseLasts, Active
<1>6. LockIsHeld
    BY RefreshAssumption DEF Init, LockIsHeld
<1> QED BY <1>1, <1>4, <1>5, <1>6 DEF RefreshInv

-----------------------------------------------------------------------------
(* A served request moves on: it changes at most its own job, the newest.     *)
LEMMA HandlerMoves ==
    ASSUME RefreshInv, NEW h \in Handler, Active(h), NEW w \in WorkRow,
           work' = [work EXCEPT ![h] = w],
           jobs' \in [Job -> JobRow], \A j \in Job \ {Newest} : jobs'[j] = jobs[j],
           jobs'[Newest].status # "absent",
           w.phase # "idle" => /\ w.job = Newest /\ jobs'[Newest].status = "running"
                               /\ w.phase = "batch" => w.rest > 0
                               /\ LeaseCovers(w, jobs'[Newest].lease),
           lock' \in Handler \cup {None, "orphan", "external"},
           lock' = h => w.phase \in Holding,
           lock' \in Handler \ {h} => lock' = lock
    PROVE  RefreshInv'
<1> USE DEF RefreshInv
<1>1. TypeOK'
    BY DEF TypeOK
<1>2. Newest \in Job /\ jobs[Newest].status = "running"
    BY DEF ActiveHasNewest
<1>3. Created' = Created
    BY <1>2 DEF Created
<1>4. Newest' = Newest
    BY <1>3 DEF Newest
<1>5. RowsInOrder'
    BY <1>3, <1>4 DEF RowsInOrder, expired
<1>6. \A g \in Handler \ {h} : work'[g] = work[g] /\ ~Active(g) /\ ~Active(g)'
    BY DEF ActiveHasNewest, Active, TypeOK
<1>7. work'[h] = w
    BY DEF TypeOK
<1>8. ActiveHasNewest'
    BY <1>2, <1>4, <1>6, <1>7 DEF ActiveHasNewest, Active
<1>9. LeaseLasts'
    BY <1>6, <1>7 DEF LeaseLasts, Active
<1>10. LockIsHeld'
    BY <1>6, <1>7 DEF LockIsHeld
<1> QED BY <1>1, <1>5, <1>8, <1>9, <1>10

(* Move changes two fields of the handler's memory. *)
LEMMA Moved ==
    ASSUME TypeOK, NEW h \in Handler, NEW phase \in Phase, NEW left \in Nat, Move(h, phase, left)
    PROVE  \E w \in WorkRow :
              /\ work' = [work EXCEPT ![h] = w]
              /\ w.phase = phase /\ w.left = left /\ w.job = work[h].job
              /\ w.due = work[h].due /\ w.rest = work[h].rest
<1> DEFINE w == [work[h] EXCEPT !.phase = phase, !.left = left]
<1>1. work[h] \in WorkRow
    BY DEF TypeOK
<1>2. w \in WorkRow /\ w.phase = phase /\ w.left = left /\ w.job = work[h].job
      /\ w.due = work[h].due /\ w.rest = work[h].rest
    BY <1>1 DEF WorkRow
<1>3. work' = [work EXCEPT ![h] = w]
    BY DEF Move, TypeOK
<1> QED BY <1>2, <1>3

(* put_job of one's own row. *)
LEMMA Written ==
    ASSUME TypeOK, NEW j \in Job, NEW status \in {"running"} \cup Ended,
           NEW lease \in 0..lease_seconds, Put(j, status, lease)
    PROVE  /\ jobs' \in [Job -> JobRow] /\ \A i \in Job \ {j} : jobs'[i] = jobs[i]
           /\ jobs'[j].status = status /\ jobs'[j].lease = lease
<1>1. jobs \in [Job -> JobRow] /\ jobs[j] \in JobRow
    BY DEF TypeOK
<1>2. jobs' = [jobs EXCEPT ![j] = [jobs[j] EXCEPT !.status = status, !.lease = lease]]
    BY <1>1 DEF Put
<1>3. [jobs[j] EXCEPT !.status = status, !.lease = lease] \in JobRow
    BY <1>1 DEF JobRow
<1> QED BY <1>1, <1>2, <1>3 DEF JobRow

-----------------------------------------------------------------------------

(* Every stage of run_job keeps the invariant, if quiet stretches fit into    *)
(* the lease.                                                                 *)
LEMMA RunJobInv ==
    ASSUME QuietStretchesFit, RefreshInv, NEW h \in Handler, RunJob(h)
    PROVE  RefreshInv'
<1>1. Active(h)
    BY DEF RunJob, Start, TakeLock, CatalogFetched, Rates, RatesFetched, NextBatch, BatchDone,
           Finish, Failure, Close, Active
<1>2. /\ TypeOK /\ LockIsHeld
      /\ work[h].job = Newest /\ Newest \in Job /\ jobs[Newest].status = "running"
      /\ LeaseCovers(work[h], jobs[Newest].lease)
      /\ work[h].phase = "batch" => work[h].rest > 0
    BY <1>1 DEF RefreshInv, ActiveHasNewest, LeaseLasts
<1>3. /\ jobs \in [Job -> JobRow] /\ jobs[Newest].lease \in 0..lease_seconds
      /\ work[h] \in WorkRow /\ work[h].left \in Nat /\ work[h].due \in 0..Deadline
      /\ work[h].rest \in 0..Batches
      /\ lock \in Handler \cup {None, "orphan", "external"}
    BY <1>2, RowTypes DEF TypeOK
<1>4. /\ None \notin Handler /\ "orphan" \notin Handler
    BY RefreshAssumption
<1>17. Put(Newest, "running", lease_seconds) =>
         /\ jobs' \in [Job -> JobRow] /\ \A i \in Job \ {Newest} : jobs'[i] = jobs[i]
         /\ jobs'[Newest].status = "running" /\ jobs'[Newest].lease = lease_seconds
  <2>1. lease_seconds \in 0..lease_seconds
      BY Times
  <2> QED BY <1>2, <2>1, Written
(* Without a write: only the phase and the time it may take change. *)
<1>5. ASSUME NEW phase \in Phase \ {"idle"}, NEW left \in Nat, Move(h, phase, left), jobs' = jobs,
             \A w \in WorkRow : /\ w.phase = phase /\ w.left = left
                                /\ w.due = work[h].due
                                => LeaseCovers(w, jobs[Newest].lease),
             phase = "batch" => work[h].rest > 0,
             lock' \in {lock, h},
             lock' = h => phase \in Holding
      PROVE  RefreshInv'
  <2>1. PICK w \in WorkRow :
              /\ work' = [work EXCEPT ![h] = w]
              /\ w.phase = phase /\ w.left = left /\ w.job = work[h].job
              /\ w.due = work[h].due /\ w.rest = work[h].rest
      BY <1>2, <1>5, Moved
  <2> QED BY <1>1, <1>2, <1>3, <1>5, <2>1, HandlerMoves
(* With a write of progress: the lease is whole again. *)
<1>6. ASSUME NEW phase \in Phase \ {"idle"}, NEW left \in Nat, Progress(h, phase, left),
             \A w \in WorkRow : w.phase = phase /\ w.left = left => LeaseCovers(w, lease_seconds),
             phase # "batch", lock = h => phase \in Holding
      PROVE  RefreshInv'
  <2>1. PICK w \in WorkRow :
              /\ work' = [work EXCEPT ![h] = w]
              /\ w.phase = phase /\ w.left = left /\ w.job = work[h].job
      BY <1>2, <1>6, Moved DEF Progress
  <2>2. Put(Newest, "running", lease_seconds) /\ lock' = lock
      BY <1>2, <1>6 DEF Progress
  <2>3. /\ jobs' \in [Job -> JobRow] /\ \A i \in Job \ {Newest} : jobs'[i] = jobs[i]
        /\ jobs'[Newest].status = "running" /\ jobs'[Newest].lease = lease_seconds
      BY <1>17, <2>2
  <2> QED BY <1>1, <1>2, <1>3, <1>6, <2>1, <2>2, <2>3, HandlerMoves
<1>7. CASE Start(h)
  <2>1. lock # h
      BY <1>2, <1>7 DEF Start, LockIsHeld, Holding
  <2>2. CASE ~work[h].only /\ Move(h, "lock", 0) /\ UNCHANGED <<jobs, lock>>
    <3>1. \A w \in WorkRow : w.phase = "lock" => LeaseCovers(w, jobs[Newest].lease)
        BY <1>2, <1>3, <1>7, Times DEF Start, LeaseCovers
    <3> QED BY <1>5, <2>1, <2>2, <3>1 DEF Phase, Instant
  <2>3. CASE CatalogInRequest /\ Progress(h, "lockCatalog", 0)
    <3>1. \A w \in WorkRow : w.phase = "lockCatalog" => LeaseCovers(w, lease_seconds)
        BY <2>3, Times DEF LeaseCovers
    <3> QED BY <1>6, <2>1, <2>3, <3>1 DEF Phase, Instant
  <2> QED BY <1>7, <2>2, <2>3 DEF Start
<1>8. CASE TakeLock(h)
  <2>1. CASE work[h].phase = "lock"
    <3>1. Move(h, "rates", 0) /\ jobs' = jobs /\ lock' = h
        BY <1>8, <2>1 DEF TakeLock
    <3>2. \A w \in WorkRow : w.phase = "rates" => LeaseCovers(w, jobs[Newest].lease)
        BY <1>2, <2>1 DEF LeaseCovers
    <3> QED BY <1>5, <3>1, <3>2 DEF Phase, Instant, Holding
  <2>2. CASE work[h].phase = "lockCatalog"
    <3>1. Move(h, "catalog", CatalogTime) /\ jobs' = jobs /\ lock' = h
        BY <1>8, <2>2 DEF TakeLock
    <3>2. \A w \in WorkRow : w.phase = "catalog" /\ w.left = CatalogTime
                               => LeaseCovers(w, jobs[Newest].lease)
        BY <1>2, <1>3, <2>2, Times DEF LeaseCovers
    <3> QED BY <1>5, <3>1, <3>2, Times DEF Phase, Stages, Holding
  <2> QED BY <1>8, <2>1, <2>2 DEF TakeLock
<1>9. CASE CatalogFetched(h)
  <2> DEFINE w == [work[h] EXCEPT !.phase = IF work[h].only THEN "final" ELSE "lock", !.left = 0,
                                  !.result = "succeeded"]
  <2>1. work' = [work EXCEPT ![h] = w] /\ jobs' = jobs /\ lock' = None
      BY <1>2, <1>9 DEF CatalogFetched, TypeOK
  <2>2. w \in WorkRow /\ w.phase \in {"final", "lock"} /\ w.job = work[h].job
      BY <1>3 DEF WorkRow, Phase, Instant, Ended
  <2>3. CatalogInRequest /\ jobs[Newest].lease >= lease_seconds - CatalogTime
      BY <1>2, <1>3, <1>9, Times DEF CatalogFetched, LeaseCovers
  <2>4. LeaseCovers(w, jobs[Newest].lease)
      BY <1>2, <2>2, <2>3 DEF LeaseCovers, ListingTime
  <2> HIDE DEF w
  <2> QED BY <1>1, <1>2, <1>3, <1>4, <2>1, <2>2, <2>4, HandlerMoves
<1>10. CASE Rates(h)
  <2>1. CASE Foreign /\ work[h].due > 0
    <3> DEFINE left == Min(OperationTimeout, work[h].due)
    <3>1. Progress(h, "fx", left)
        BY <1>10, <2>1 DEF Rates
    <3>2. left \in Nat /\ left <= OperationTimeout
        BY <1>3, Times DEF Min
    <3>3. \A w \in WorkRow : w.phase = "fx" /\ w.left = left => LeaseCovers(w, lease_seconds)
        BY <2>1, <3>2, Times DEF LeaseCovers
    <3> HIDE DEF left
    <3> QED BY <1>6, <3>1, <3>2, <3>3 DEF Phase, Stages, Holding
  <2>2. CASE ~(Foreign /\ work[h].due > 0)
    <3>1. Move(h, "batches", 0) /\ UNCHANGED <<jobs, lock>> /\ work[h].phase = "rates"
        BY <1>10, <2>2 DEF Rates
    <3>2. \A w \in WorkRow : w.phase = "batches" /\ w.due = work[h].due
                               => LeaseCovers(w, jobs[Newest].lease)
        BY <1>2, <2>2, <3>1 DEF LeaseCovers, BeforeBatch
    <3> QED BY <1>5, <3>1, <3>2 DEF Phase, Instant, Holding
  <2> QED BY <2>1, <2>2
<1>11. CASE RatesFetched(h)
  <2>1. Move(h, "batches", 0) /\ UNCHANGED <<jobs, lock>> /\ work[h].phase = "fx"
      BY <1>11 DEF RatesFetched
  <2>2. \A w \in WorkRow : w.phase = "batches" => LeaseCovers(w, jobs[Newest].lease)
      BY <1>2, <1>3, <2>1, Times DEF LeaseCovers, BeforeBatch
  <2> QED BY <1>5, <2>1, <2>2 DEF Phase, Instant, Holding
<1>12. CASE NextBatch(h)
  <2> DEFINE left == Min(BatchMarkets * CycleBudget, work[h].due)
  <2>1. /\ Move(h, "batch", left) /\ UNCHANGED <<jobs, lock>>
        /\ work[h].phase = "batches" /\ work[h].rest > 0 /\ work[h].due > 0
      BY <1>12 DEF NextBatch
  <2>2. left \in Nat /\ left <= BatchTime
      BY <1>3, Times DEF Min, BatchTime
  <2>3. jobs[Newest].lease > left
    <3>1. jobs[Newest].lease >= lease_seconds - BeforeBatch
        BY <1>2, <2>1 DEF LeaseCovers
    <3>2. BeforeBatch + BatchTime < lease_seconds
        BY DEF QuietStretchesFit
    <3> HIDE DEF left
    <3> QED BY <1>3, <2>2, <3>1, <3>2, Times
  <2>4. \A w \in WorkRow : w.phase = "batch" /\ w.left = left
                             => LeaseCovers(w, jobs[Newest].lease)
      BY <1>2, <2>3 DEF LeaseCovers
  <2> HIDE DEF left
  <2> QED BY <1>5, <2>1, <2>2, <2>4 DEF Phase, Stages, Holding
<1>13. CASE BatchDone(h)
  <2> DEFINE w == [work[h] EXCEPT !.phase = "batches", !.left = 0, !.rest = @ - 1]
  <2>1. /\ work' = [work EXCEPT ![h] = w] /\ lock' = lock /\ work[h].rest > 0
        /\ Put(Newest, "running", lease_seconds)
      BY <1>2, <1>13 DEF BatchDone, TypeOK
  <2>2. work[h].rest - 1 \in 0..Batches
      BY <1>3, <2>1, Times
  <2>3. w \in WorkRow /\ w.phase = "batches" /\ w.job = work[h].job
      BY <1>3, <2>2 DEF WorkRow, Phase, Instant
  <2>4. /\ jobs' \in [Job -> JobRow] /\ \A i \in Job \ {Newest} : jobs'[i] = jobs[i]
        /\ jobs'[Newest].status = "running" /\ jobs'[Newest].lease = lease_seconds
      BY <1>17, <2>1
  <2>5. LeaseCovers(w, lease_seconds)
      BY <2>3, Times DEF LeaseCovers
  <2> HIDE DEF w
  <2> QED BY <1>1, <1>2, <1>3, <2>1, <2>3, <2>4, <2>5, HandlerMoves DEF Holding
<1>14. CASE Finish(h)
  <2>1. PICK result \in Ended :
              work' = [work EXCEPT ![h].phase = "final", ![h].result = result]
      BY <1>14 DEF Finish
  <2> DEFINE w == [work[h] EXCEPT !.phase = "final", !.result = result]
  <2>2. work' = [work EXCEPT ![h] = w] /\ jobs' = jobs /\ lock' = None
      BY <1>2, <1>14, <2>1 DEF Finish, TypeOK
  <2>3. w \in WorkRow /\ w.phase = "final" /\ w.job = work[h].job
      BY <1>3 DEF WorkRow, Phase, Instant
  <2>4. LeaseCovers(w, jobs[Newest].lease)
      BY <1>2, <2>3 DEF LeaseCovers
  <2> HIDE DEF w
  <2> QED BY <1>1, <1>2, <1>3, <1>4, <2>2, <2>3, <2>4, HandlerMoves
<1>15. CASE Failure(h)
  <2> DEFINE w == [work[h] EXCEPT !.phase = "final", !.left = 0, !.result = "failed"]
  <2>1. work' = [work EXCEPT ![h] = w] /\ jobs' = jobs
        /\ lock' = IF lock = h THEN None ELSE lock
      BY <1>2, <1>15 DEF Failure, Fail, TypeOK
  <2>2. w \in WorkRow /\ w.phase = "final" /\ w.job = work[h].job
      BY <1>3 DEF WorkRow, Phase, Instant, Ended
  <2>3. LeaseCovers(w, jobs[Newest].lease)
      BY <1>2, <2>2 DEF LeaseCovers
  <2> HIDE DEF w
  <2> QED BY <1>1, <1>2, <1>3, <1>4, <2>1, <2>2, <2>3, HandlerMoves
<1>16. CASE Close(h)
  <2>1. work' = [work EXCEPT ![h] = Idle] /\ lock' = lock /\ lock # h
      BY <1>2, <1>16 DEF Close, LockIsHeld, Holding
  <2>2. CASE Put(work[h].job, work[h].result, jobs[work[h].job].lease)
    <3>1. work[h].result \in Ended
        BY <1>2, RowTypes
    <3>2. /\ jobs' \in [Job -> JobRow] /\ \A i \in Job \ {Newest} : jobs'[i] = jobs[i]
          /\ jobs'[Newest].status = work[h].result
        BY <1>2, <1>3, <2>2, <3>1, Written
    <3>3. jobs'[Newest].status # "absent"
        BY <3>1, <3>2 DEF Ended
    <3> QED BY <1>1, <1>2, <1>3, <2>1, <3>2, <3>3, IdleType, HandlerMoves
  <2>3. CASE jobs' = jobs
      BY <1>1, <1>2, <1>3, <2>1, <2>3, IdleType, HandlerMoves
  <2> QED BY <1>16, <2>2, <2>3 DEF Close
<1> QED BY <1>7, <1>8, <1>9, <1>10, <1>11, <1>12, <1>13, <1>14, <1>15, <1>16 DEF RunJob

(* The end of an instance keeps it.                                           *)
LEMMA CrashInv ==
    ASSUME RefreshInv, NEW h \in Handler, Crash(h)
    PROVE  RefreshInv'
<1>1. Active(h) /\ TypeOK
    BY DEF Crash, Active, RefreshInv
<1>2. Newest \in Job /\ jobs[Newest].status = "running"
    BY <1>1 DEF RefreshInv, ActiveHasNewest
<1>3. /\ lock' \in Handler \cup {None, "orphan", "external"}
      /\ lock' # h /\ (lock' \in Handler \ {h} => lock' = lock)
    BY <1>1, RefreshAssumption DEF Crash, TypeOK
<1>4. jobs' \in [Job -> JobRow] /\ jobs' = jobs /\ work' = [work EXCEPT ![h] = Idle]
    BY <1>1 DEF Crash, TypeOK
<1> QED BY <1>1, <1>2, <1>3, <1>4, IdleType, HandlerMoves

-----------------------------------------------------------------------------
(* recover_jobs touches only what has expired, and everybody read as failed.  *)
LEMMA Sweep ==
    ASSUME TypeOK
    PROVE  /\ Swept \in [Job -> JobRow]
           /\ \A j \in Job : /\ Swept[j].status = "absent" <=> jobs[j].status = "absent"
                             /\ Swept[j].lease = jobs[j].lease
                             /\ Swept[j].status = "running" => Swept[j] = jobs[j] /\ ~expired(j)
                             /\ ~expired(j) => Swept[j] = jobs[j]
                             /\ Swept[j].status = visible(j)
<1> SUFFICES ASSUME NEW j \in Job
             PROVE  /\ Swept[j] \in JobRow
                    /\ Swept[j].status = "absent" <=> jobs[j].status = "absent"
                    /\ Swept[j].lease = jobs[j].lease
                    /\ Swept[j].status = "running" => Swept[j] = jobs[j] /\ ~expired(j)
                    /\ ~expired(j) => Swept[j] = jobs[j]
                    /\ Swept[j].status = visible(j)
    BY DEF Swept
<1>1. jobs[j] \in JobRow
    BY RowTypes
<1>2. CASE jobs[j].status = "running" /\ expired(j)
  <2>1. Swept[j] = [jobs[j] EXCEPT !.status = "failed"]
      BY <1>2 DEF Swept
  <2>2. /\ Swept[j] \in JobRow /\ Swept[j].status = "failed"
        /\ Swept[j].lease = jobs[j].lease
      BY <1>1, <2>1 DEF JobRow, Ended
  <2> QED BY <1>2, <2>2 DEF visible
<1>3. CASE ~(jobs[j].status = "running" /\ expired(j))
  <2>1. Swept[j] = jobs[j]
      BY <1>3 DEF Swept
  <2> QED BY <1>1, <1>3, <2>1 DEF visible
<1> QED BY <1>2, <1>3

(* The job a claim looks at is the one created last. *)
LEMMA LatestIsNewest ==
    ASSUME RowsInOrder, Newest # 0
    PROVE  Latest = Newest /\ Newest \in Job /\ Created # {}
<1>1. Newest \in 1..Newest /\ Newest \in Nat /\ Created = 1..Newest /\ Newest \in Job
    BY Times DEF RowsInOrder, Job
<1>2. \A i \in Created : i <= Newest
    BY <1>1
<1>3. \A j \in Created : (\A i \in Created : i <= j) => j = Newest
    BY <1>1, <1>2
<1> HIDE DEF Newest
<1> QED BY <1>1, <1>2, <1>3 DEF Latest

(* What a claim finds: no request at work, and no job that reads as running.  *)
LEMMA ClaimFinds ==
    ASSUME RefreshInv, NEW h \in Handler, Claim(h)
    PROVE  /\ \A g \in Handler : ~Active(g)
           /\ \A j \in Job : Swept[j].status # "running"
           /\ Newest + 1 \in Job /\ jobs[Newest + 1].status = "absent"
<1>1. TypeOK /\ RowsInOrder /\ ActiveHasNewest /\ LeaseLasts
    BY DEF RefreshInv
<1>2. ASSUME Newest # 0 PROVE Swept[Newest].status # "running" /\ Newest \in Job
    BY <1>1, <1>2, LatestIsNewest DEF Claim
<1>3. \A j \in Job : Swept[j].status # "running"
  <2> SUFFICES ASSUME NEW j \in Job, Swept[j].status = "running" PROVE FALSE
      OBVIOUS
  <2>1. jobs[j].status = "running" /\ ~expired(j)
      BY <1>1, Sweep
  <2>2. j = Newest /\ Newest # 0
      BY <1>1, <2>1 DEF RowsInOrder, Job
  <2> QED BY <1>2, <2>2
<1>4. \A g \in Handler : ~Active(g)
  <2> SUFFICES ASSUME NEW g \in Handler, Active(g) PROVE FALSE
      OBVIOUS
  <2>1. Newest \in Job /\ jobs[Newest].status = "running" /\ jobs[Newest].lease > 0
      BY <1>1 DEF ActiveHasNewest, LeaseLasts, LeaseCovers
  <2>2. Swept[Newest] = jobs[Newest]
      BY <1>1, <2>1, Sweep DEF expired
  <2> QED BY <1>3, <2>1, <2>2
<1>5. Newest # MaxJobs
    BY <1>1 DEF Claim, RowsInOrder, Job
<1>6. Newest + 1 \in Job /\ Newest + 1 \notin 1..Newest
    BY <1>1, <1>5, Times DEF RowsInOrder, Job
<1>7. jobs[Newest + 1].status = "absent"
    BY <1>1, <1>6 DEF RowsInOrder, Created
<1> QED BY <1>3, <1>4, <1>6, <1>7

(* A claim keeps it.                                                          *)
LEMMA ClaimInv ==
    ASSUME RefreshInv, NEW h \in Handler, Claim(h)
    PROVE  RefreshInv'
<1> DEFINE n == Newest + 1
           row == [status |-> "running", lease |-> lease_seconds, age |-> 0]
<1>1. /\ TypeOK /\ RowsInOrder /\ LockIsHeld /\ (\A g \in Handler : ~Active(g))
      /\ n \in Job /\ jobs[n].status = "absent"
      /\ \A j \in Job : Swept[j].status # "running"
    BY ClaimFinds DEF RefreshInv
<1>2. jobs' = [Swept EXCEPT ![n] = row] /\ lock' = lock
    BY DEF Claim, Newest
<1>3. row \in JobRow
    BY Times DEF JobRow
<1>4. jobs' \in [Job -> JobRow] /\ jobs'[n] = row /\ \A j \in Job \ {n} : jobs'[j] = Swept[j]
    BY <1>1, <1>2, <1>3, Sweep
<1>5. Created' = Created \cup {n}
    BY <1>1, <1>4, Sweep DEF Created
<1>6. Created' = 1..n /\ n \in Nat
    BY <1>1, <1>5 DEF RowsInOrder
<1>7. Newest' = n
  <2>1. Newest' = Cardinality(Created')
      BY DEF Newest
  <2> HIDE DEF n
  <2> QED BY <1>6, <2>1, Counted
<1>8. RowsInOrder'
  <2>1. Newest' \in 0..MaxJobs /\ Created' = 1..Newest'
      BY <1>1, <1>6, <1>7, Times DEF Job
  <2>2. \A j \in Job : jobs'[j].status = "running" => j = Newest'
      BY <1>1, <1>4, <1>7
  <2> QED BY <2>1, <2>2 DEF RowsInOrder
<1>9. CASE UNCHANGED work
  <2>1. TypeOK' /\ LockIsHeld' /\ \A g \in Handler : ~Active(g)'
      BY <1>1, <1>2, <1>4, <1>9 DEF TypeOK, LockIsHeld, Active
  <2> QED BY <1>8, <2>1 DEF RefreshInv, ActiveHasNewest, LeaseLasts
<1>10. ASSUME NEW only \in BOOLEAN,
              work' = [work EXCEPT ![h] = [Idle EXCEPT !.phase = "start", !.job = n,
                                            !.due = Deadline, !.rest = Batches, !.only = only]]
       PROVE  RefreshInv'
  <2> DEFINE w == [Idle EXCEPT !.phase = "start", !.job = n, !.due = Deadline,
                               !.rest = Batches, !.only = only]
  <2>1. w \in WorkRow /\ w.phase = "start" /\ w.job = n
    <3>1. Deadline \in 0..Deadline /\ Batches \in 0..Batches /\ "start" \in Phase
        BY Times DEF Phase, Instant
    <3> HIDE DEF n
    <3>2. Idle \in WorkRow
        BY IdleType
    <3> QED BY <1>1, <3>1, <3>2 DEF WorkRow
  <2>2. work'[h] = w /\ \A g \in Handler \ {h} : work'[g] = work[g]
      BY <1>1, <1>10 DEF TypeOK
  <2>3. TypeOK'
      BY <1>1, <1>2, <1>4, <1>10, <2>1 DEF TypeOK
  <2>4. \A g \in Handler : Active(g)' => g = h
      BY <1>1, <2>2 DEF Active
  <2> HIDE DEF w
  <2>5. ActiveHasNewest'
      BY <1>1, <1>4, <1>7, <2>1, <2>2, <2>4 DEF ActiveHasNewest
  <2>6. LeaseCovers(w, lease_seconds)
      BY <2>1, Times DEF LeaseCovers
  <2>7. LeaseLasts'
      BY <1>4, <2>1, <2>2, <2>4, <2>6 DEF LeaseLasts
  <2>8. LockIsHeld'
      BY <1>1, <1>2, <2>2 DEF LockIsHeld, Claim, Holding
  <2> QED BY <1>8, <2>3, <2>5, <2>7, <2>8 DEF RefreshInv
<1> QED BY <1>9, <1>10 DEF Claim, Newest

(* A sweep that is committed without a claim. *)
LEMMA ReportInv ==
    ASSUME RefreshInv, NEW h \in Handler, Report(h)
    PROVE  RefreshInv'
<1>1. TypeOK /\ RowsInOrder /\ ActiveHasNewest /\ LeaseLasts /\ LockIsHeld
    BY DEF RefreshInv
<1>2. jobs' = Swept /\ lock' = lock /\ work' = work
    BY DEF Report
<1>3. TypeOK' /\ LockIsHeld'
    BY <1>1, <1>2, Sweep DEF TypeOK, LockIsHeld
<1>4. Created' = Created
    BY <1>1, <1>2, Sweep DEF Created
<1>5. Newest' = Newest
    BY <1>4 DEF Newest
<1>6. RowsInOrder'
    BY <1>1, <1>2, <1>4, <1>5, Sweep DEF RowsInOrder, expired
<1>7. ActiveHasNewest' /\ LeaseLasts'
  <2> SUFFICES ASSUME NEW g \in Handler, Active(g)
               PROVE  jobs'[work[g].job] = jobs[work[g].job]
      BY <1>1, <1>2, <1>5 DEF ActiveHasNewest, LeaseLasts, Active
  <2>1. work[g].job \in Job /\ jobs[work[g].job].lease > 0
      BY <1>1 DEF ActiveHasNewest, LeaseLasts, LeaseCovers
  <2> QED BY <1>1, <1>2, <2>1, Sweep DEF expired
<1> QED BY <1>3, <1>6, <1>7 DEF RefreshInv

(* Time takes from leases, stretches and deadlines, and touches nothing else. *)
LEMMA TickTypes ==
    ASSUME TypeOK, Tick
    PROVE  /\ TypeOK'
           /\ \A j \in Job : /\ jobs'[j].status = jobs[j].status
                             /\ jobs'[j].lease = IF jobs[j].status = "absent" THEN jobs[j].lease
                                                 ELSE Down(jobs[j].lease)
           /\ \A g \in Handler : /\ work'[g].phase = work[g].phase /\ work'[g].job = work[g].job
                                 /\ work'[g].rest = work[g].rest
                                 /\ work'[g].left = Down(work[g].left)
<1>1. TypeOK
    OBVIOUS
<1>2. \A j \in Job : /\ jobs'[j] \in JobRow /\ jobs'[j].status = jobs[j].status
                     /\ jobs'[j].lease = IF jobs[j].status = "absent" THEN jobs[j].lease
                                         ELSE Down(jobs[j].lease)
  <2> SUFFICES ASSUME NEW j \in Job
               PROVE  /\ jobs'[j] \in JobRow /\ jobs'[j].status = jobs[j].status
                      /\ jobs'[j].lease = IF jobs[j].status = "absent" THEN jobs[j].lease
                                          ELSE Down(jobs[j].lease)
      OBVIOUS
  <2>1. /\ jobs[j] \in JobRow /\ jobs[j].lease \in 0..lease_seconds
        /\ jobs[j].age \in 0..Cooldown
      BY <1>1, RowTypes
  <2>2. CASE jobs[j].status = "absent"
      BY <2>1, <2>2 DEF Tick
  <2>3. CASE jobs[j].status # "absent"
    <3>1. jobs'[j] = [jobs[j] EXCEPT !.lease = Down(jobs[j].lease),
                                     !.age = Min(jobs[j].age + 1, Cooldown)]
        BY <2>3 DEF Tick
    <3>2. Down(jobs[j].lease) \in 0..lease_seconds /\ Min(jobs[j].age + 1, Cooldown) \in 0..Cooldown
        BY <2>1, Times DEF Down, Min
    <3> QED BY <2>1, <2>3, <3>1, <3>2 DEF JobRow
  <2> QED BY <2>2, <2>3
<1>3. \A g \in Handler : /\ work'[g] \in WorkRow /\ work'[g].phase = work[g].phase
                         /\ work'[g].job = work[g].job /\ work'[g].rest = work[g].rest
                         /\ work'[g].left = Down(work[g].left)
  <2> SUFFICES ASSUME NEW g \in Handler
               PROVE  /\ work'[g] \in WorkRow /\ work'[g].phase = work[g].phase
                      /\ work'[g].job = work[g].job /\ work'[g].rest = work[g].rest
                      /\ work'[g].left = Down(work[g].left)
      OBVIOUS
  <2>1. work[g] \in WorkRow /\ work[g].left \in Nat /\ work[g].due \in 0..Deadline
      BY <1>1, RowTypes
  <2>2. work'[g] = [work[g] EXCEPT !.left = Down(work[g].left), !.due = Down(work[g].due)]
      BY DEF Tick
  <2>3. Down(work[g].left) \in Nat /\ Down(work[g].due) \in 0..Deadline
      BY <2>1, Times DEF Down
  <2> QED BY <2>1, <2>2, <2>3 DEF WorkRow
<1>4. TypeOK'
  <2>1. jobs' \in [Job -> JobRow]
      BY <1>2 DEF Tick
  <2>2. work' \in [Handler -> WorkRow]
      BY <1>3 DEF Tick
  <2> QED BY <1>1, <2>1, <2>2 DEF TypeOK, Tick
<1> QED BY <1>2, <1>3, <1>4

(* Time takes as much from the lease as from the stretch it covers. *)
LEMMA TickInv ==
    ASSUME QuietStretchesFit, RefreshInv, Tick
    PROVE  RefreshInv'
<1>1. TypeOK /\ RowsInOrder /\ ActiveHasNewest /\ LeaseLasts /\ LockIsHeld
    BY DEF RefreshInv
<1>2. \A j \in Job : /\ jobs'[j].status = jobs[j].status
                     /\ jobs'[j].lease = IF jobs[j].status = "absent" THEN jobs[j].lease
                                         ELSE Down(jobs[j].lease)
    BY <1>1, TickTypes
<1>3. \A g \in Handler : /\ work'[g].phase = work[g].phase
                         /\ work'[g].job = work[g].job /\ work'[g].rest = work[g].rest
                         /\ work'[g].left = Down(work[g].left)
    BY <1>1, TickTypes
<1>4. TypeOK'
    BY <1>1, TickTypes
<1>5. Created' = Created
    BY <1>2 DEF Created
<1>6. Newest' = Newest
    BY <1>5 DEF Newest
<1>7. RowsInOrder'
  <2>1. \A j \in Job : jobs'[j].status = "running" /\ ~expired(j)' => ~expired(j)
      BY <1>2 DEF expired, Down
  <2> QED BY <1>1, <1>2, <1>5, <1>6, <2>1 DEF RowsInOrder
<1>8. ActiveHasNewest' /\ LockIsHeld'
  <2>1. \A g \in Handler : Active(g)' <=> Active(g)
      BY <1>3 DEF Active
  <2>2. ActiveHasNewest'
      BY <1>1, <1>2, <1>3, <1>6, <2>1 DEF ActiveHasNewest
  <2>3. lock' = lock
      BY DEF Tick
  <2> QED BY <1>1, <1>3, <2>2, <2>3 DEF LockIsHeld
<1>9. LeaseLasts'
  <2> SUFFICES ASSUME NEW g \in Handler, Active(g)
               PROVE  LeaseCovers(work'[g], jobs'[Newest].lease)
      BY <1>1, <1>3 DEF LeaseLasts, Active, ActiveHasNewest
  <2> DEFINE lease == jobs[Newest].lease
             left == work[g].left
  <2>1. /\ work[g].phase \in Stages /\ left > 0 /\ left \in Nat
      BY <1>1, RowTypes DEF Tick, Active, Phase
  <2>2. /\ Newest \in Job /\ lease \in 0..lease_seconds /\ LeaseCovers(work[g], lease)
        /\ jobs[Newest].status = "running"
      BY <1>1, RowTypes DEF ActiveHasNewest, LeaseLasts
  <2>3. lease > 0 /\ jobs'[Newest].lease = lease - 1 /\ work'[g].left = left - 1
      BY <1>2, <1>3, <2>1, <2>2 DEF LeaseCovers, Down
  <2>4. work'[g].phase = work[g].phase
      BY <1>3
  <2> HIDE DEF lease, left
  <2>5. CASE work[g].phase = "catalog"
    <3>1. CatalogInRequest /\ lease >= lease_seconds - CatalogTime + left
        BY <2>2, <2>5 DEF LeaseCovers, left
    <3>2. lease_seconds - CatalogTime > 0
        BY <3>1, Times DEF QuietStretchesFit, ListingTime
    <3>3. lease - 1 > 0 /\ lease - 1 >= lease_seconds - CatalogTime + (left - 1)
        BY <2>1, <2>2, <3>1, <3>2, Times
    <3> QED BY <2>3, <2>4, <2>5, <3>1, <3>3 DEF LeaseCovers
  <2>6. CASE work[g].phase = "fx"
    <3>1. Foreign /\ lease >= lease_seconds - OperationTimeout + left
        BY <2>2, <2>6 DEF LeaseCovers, left
    <3>2. lease - 1 > 0 /\ lease - 1 >= lease_seconds - OperationTimeout + (left - 1)
        BY <2>1, <2>2, <3>1, Times
    <3> QED BY <2>3, <2>4, <2>6, <3>1, <3>2 DEF LeaseCovers
  <2>7. CASE work[g].phase = "batch"
    <3>1. lease > left
        BY <2>2, <2>7 DEF LeaseCovers, left
    <3>2. lease - 1 > 0 /\ lease - 1 > left - 1
        BY <2>1, <2>2, <3>1, Times
    <3> QED BY <2>3, <2>4, <2>7, <3>2 DEF LeaseCovers
  <2> QED BY <2>1, <2>5, <2>6, <2>7 DEF Stages
<1> QED BY <1>4, <1>7, <1>8, <1>9 DEF RefreshInv

(* The lock's other owners, and steps that change nothing. *)
LEMMA OthersInv ==
    ASSUME RefreshInv, UNCHANGED <<jobs, work>>,
           lock' \in {lock, None, "external"}
    PROVE  RefreshInv'
<1>1. TypeOK'
    BY DEF RefreshInv, TypeOK
<1>2. RowsInOrder' /\ ActiveHasNewest' /\ LeaseLasts'
    BY DEF RefreshInv, RowsInOrder, ActiveHasNewest, LeaseLasts, Newest, Created, Active, expired
<1>3. LockIsHeld'
    BY RefreshAssumption DEF RefreshInv, LockIsHeld
<1> QED BY <1>1, <1>2, <1>3 DEF RefreshInv

(* The invariant is inductive, if quiet stretches fit into the lease.         *)
LEMMA NextRefresh == QuietStretchesFit /\ RefreshInv /\ [Next]_vars => RefreshInv'
<1> SUFFICES ASSUME QuietStretchesFit, RefreshInv, [Next]_vars PROVE RefreshInv'
    OBVIOUS
<1>1. CASE Tick
    BY <1>1, TickInv
<1>2. CASE SessionEnds \/ ExternalTakes \/ ExternalReleases \/ UNCHANGED vars
    BY <1>2, OthersInv DEF SessionEnds, ExternalTakes, ExternalReleases, vars
<1>3. ASSUME NEW h \in Handler, Claim(h) \/ Report(h) \/ RunJob(h) \/ Crash(h)
      PROVE  RefreshInv'
    BY <1>3, ClaimInv, ReportInv, RunJobInv, CrashInv
<1> QED BY <1>1, <1>2, <1>3 DEF Next

(* While every quiet stretch fits into the lease, the invariant holds: of any  *)
(* number of requests, with any crashes, lost locks and other collectors.      *)
THEOREM RefreshIsOrdered ==
    ASSUME QuietStretchesFit
    PROVE  Spec => []RefreshInv
<1>1. Init => RefreshInv
    BY InitRefresh
<1>2. RefreshInv /\ [Next]_vars => RefreshInv'
    BY QuietStretchesFit, NextRefresh
<1> QED BY <1>1, <1>2, PTL DEF Spec

(* While a request works on its job, the lease it renews only with progress    *)
(* has not run out: every reader of the table sees the job running.            *)
THEOREM WorkIsSeenRunning ==
    ASSUME QuietStretchesFit
    PROVE  Spec => []WorkReadsAsRunning
<1>1. ASSUME RefreshInv, NEW h \in Handler, Serving(h)
      PROVE  visible(work[h].job) = "running"
  <2>1. Active(h)
      BY <1>1 DEF Serving, Active
  <2>2. jobs[work[h].job].status = "running" /\ jobs[work[h].job].lease > 0
      BY <1>1, <2>1 DEF RefreshInv, ActiveHasNewest, LeaseLasts, LeaseCovers
  <2> QED BY <2>2 DEF visible, expired
<1>2. RefreshInv => WorkReadsAsRunning
    BY <1>1 DEF WorkReadsAsRunning
<1> QED BY <1>2, QuietStretchesFit, RefreshIsOrdered, PTL

(* No two requests work on a refresh at the same time, whichever instances     *)
(* serve them and whatever crashed before.                                     *)
THEOREM OneAtATime ==
    ASSUME QuietStretchesFit
    PROVE  Spec => []OneRequestWorks
<1>1. RefreshInv => OneRequestWorks
    BY DEF RefreshInv, ActiveHasNewest, OneRequestWorks, Serving, Active
<1> QED BY <1>1, QuietStretchesFit, RefreshIsOrdered, PTL

-----------------------------------------------------------------------------
(* What holds without the hypothesis: types, and the collector lock.  Two       *)
(* requests may then work at once, but only one inside its Storage block.      *)

(* The lock's invariant holds before the first job.                           *)
LEMMA InitLock == Init => LockInv
<1> SUFFICES ASSUME Init PROVE LockInv
    OBVIOUS
<1>1. TypeOK /\ RowsInOrder
    BY InitRefresh DEF RefreshInv
<1>2. \A h \in Handler : work[h].phase = "idle"
    BY IdleType DEF Init
<1> QED BY <1>1, <1>2, RefreshAssumption
        DEF Init, LockInv, RowsInOrder, JobsInHand, LockMatches, Active, Holding

(* A served request moves on: it keeps its job, and no row comes or goes.     *)
LEMMA HandlerKeepsLock ==
    ASSUME LockInv, NEW h \in Handler, NEW w \in WorkRow,
           work' = [work EXCEPT ![h] = w],
           jobs' \in [Job -> JobRow],
           \A j \in Job : jobs'[j].status = "absent" <=> jobs[j].status = "absent",
           w.phase # "idle" => /\ w.job \in Created
                               /\ w.phase = "batch" => w.rest > 0,
           lock' \in Handler \cup {None, "orphan", "external"},
           lock' = h <=> w.phase \in Holding,
           \A g \in Handler \ {h} : lock' = g <=> lock = g
    PROVE  LockInv'
<1>1. TypeOK /\ JobsInHand /\ LockMatches
    BY DEF LockInv
<1>2. TypeOK'
    BY <1>1 DEF TypeOK
<1>3. Created' = Created
    BY DEF Created
<1>4. Newest' = Newest
    BY <1>3 DEF Newest
<1>5. work'[h] = w /\ \A g \in Handler \ {h} : work'[g] = work[g]
    BY <1>1 DEF TypeOK
<1>6. JobsInHand'
    BY <1>1, <1>3, <1>4, <1>5 DEF JobsInHand, Active
<1>7. LockMatches'
    BY <1>1, <1>5 DEF LockMatches
<1> QED BY <1>2, <1>6, <1>7 DEF LockInv

(* Every stage of run_job keeps the lock's invariant.                         *)
LEMMA RunJobLock ==
    ASSUME LockInv, NEW h \in Handler, RunJob(h)
    PROVE  LockInv'
<1>1. Active(h)
    BY DEF RunJob, Start, TakeLock, CatalogFetched, Rates, RatesFetched, NextBatch, BatchDone,
           Finish, Failure, Close, Active
<1>2. /\ TypeOK /\ work[h].job \in Created /\ work[h].job \in Job
      /\ jobs[work[h].job].status # "absent"
      /\ work[h].phase = "batch" => work[h].rest > 0
      /\ lock = h <=> work[h].phase \in Holding
    BY <1>1 DEF LockInv, JobsInHand, LockMatches, Created
<1>3. /\ jobs \in [Job -> JobRow] /\ work[h] \in WorkRow /\ work[h].left \in Nat
      /\ work[h].due \in 0..Deadline /\ work[h].rest \in 0..Batches
      /\ work[h].result \in Ended /\ jobs[work[h].job].lease \in 0..lease_seconds
      /\ lock \in Handler \cup {None, "orphan", "external"}
    BY <1>2, RowTypes DEF TypeOK
<1>4. None \notin Handler /\ "orphan" \notin Handler /\ "external" \notin Handler
    BY RefreshAssumption
<1>5. ASSUME NEW status \in {"running"} \cup Ended, NEW lease \in 0..lease_seconds,
             Put(work[h].job, status, lease)
      PROVE  /\ jobs' \in [Job -> JobRow]
             /\ \A j \in Job : jobs'[j].status = "absent" <=> jobs[j].status = "absent"
  <2> PICK own \in Job : own = work[h].job
      BY <1>2
  <2>1. /\ jobs' \in [Job -> JobRow] /\ \A i \in Job \ {own} : jobs'[i] = jobs[i]
        /\ jobs'[own].status = status
      BY <1>2, <1>5, Written
  <2> QED BY <1>2, <2>1 DEF Ended
<1>6. Put(work[h].job, "running", lease_seconds) =>
         /\ jobs' \in [Job -> JobRow]
         /\ \A j \in Job : jobs'[j].status = "absent" <=> jobs[j].status = "absent"
  <2>1. lease_seconds \in 0..lease_seconds
      BY Times
  <2> QED BY <1>5, <2>1
(* Only the phase and the time it may take change, beside the lock.           *)
<1>7. ASSUME NEW phase \in Phase \ {"idle"}, NEW left \in Nat, Move(h, phase, left),
             jobs' = jobs \/ Put(work[h].job, "running", lease_seconds),
             phase = "batch" => work[h].rest > 0,
             lock' \in {lock, h, None}, lock' = h <=> phase \in Holding,
             \A g \in Handler \ {h} : lock' = g <=> lock = g
      PROVE  LockInv'
  <2>1. PICK w \in WorkRow :
              /\ work' = [work EXCEPT ![h] = w]
              /\ w.phase = phase /\ w.left = left /\ w.job = work[h].job
              /\ w.due = work[h].due /\ w.rest = work[h].rest
      BY <1>2, <1>7, Moved
  <2>2. /\ jobs' \in [Job -> JobRow]
        /\ \A j \in Job : jobs'[j].status = "absent" <=> jobs[j].status = "absent"
      BY <1>3, <1>6, <1>7
  <2> QED BY <1>2, <1>3, <1>7, <2>1, <2>2, HandlerKeepsLock
<1>8. CASE Start(h)
  <2>1. PICK phase \in {"lock", "lockCatalog"} :
             /\ Move(h, phase, 0) /\ lock' = lock
             /\ jobs' = jobs \/ Put(work[h].job, "running", lease_seconds)
      BY <1>8 DEF Start, Progress
  <2>2. phase \in Phase \ {"idle"} /\ phase \notin Holding /\ phase # "batch" /\ lock # h
      BY <1>2, <1>8 DEF Start, Phase, Instant, Holding
  <2> QED BY <1>7, <2>1, <2>2
<1>9. CASE TakeLock(h)
  <2>1. PICK phase \in {"rates", "catalog"}, left \in Nat :
             Move(h, phase, left) /\ lock = None /\ lock' = h /\ jobs' = jobs
      BY <1>9, Times DEF TakeLock
  <2>2. phase \in Phase \ {"idle"} /\ phase \in Holding /\ phase # "batch"
      BY DEF Phase, Instant, Stages, Holding
  <2> QED BY <1>4, <1>7, <2>1, <2>2
<1>10. CASE CatalogFetched(h)
  <2> DEFINE w == [work[h] EXCEPT !.phase = IF work[h].only THEN "final" ELSE "lock", !.left = 0,
                                  !.result = "succeeded"]
  <2>1. work' = [work EXCEPT ![h] = w] /\ jobs' = jobs /\ lock' = None /\ lock = h
      BY <1>2, <1>10 DEF CatalogFetched, TypeOK, Holding
  <2>2. w \in WorkRow /\ w.phase \in {"final", "lock"} /\ w.job = work[h].job
      BY <1>3 DEF WorkRow, Phase, Instant, Ended
  <2>3. w.phase \notin Holding /\ w.phase # "batch"
      BY <2>2 DEF Holding
  <2> HIDE DEF w
  <2> QED BY <1>2, <1>3, <1>4, <2>1, <2>2, <2>3, HandlerKeepsLock
<1>11. CASE Rates(h)
  <2>1. PICK phase \in {"fx", "batches"}, left \in Nat :
             /\ Move(h, phase, left) /\ lock' = lock
             /\ jobs' = jobs \/ Put(work[h].job, "running", lease_seconds)
    <3>1. Min(OperationTimeout, work[h].due) \in Nat
        BY <1>3, Times DEF Min
    <3> QED BY <1>11, <3>1 DEF Rates, Progress
  <2>2. phase \in Phase \ {"idle"} /\ phase \in Holding /\ phase # "batch" /\ lock = h
      BY <1>2, <1>11 DEF Rates, Phase, Instant, Stages, Holding
  <2> QED BY <1>7, <2>1, <2>2
<1>12. CASE RatesFetched(h)
  <2>1. Move(h, "batches", 0) /\ jobs' = jobs /\ lock' = lock /\ lock = h
      BY <1>2, <1>12 DEF RatesFetched, Holding
  <2>2. "batches" \in Phase \ {"idle"} /\ "batches" \in Holding
      BY DEF Phase, Instant, Holding
  <2> QED BY <1>7, <2>1, <2>2
<1>13. CASE NextBatch(h)
  <2>1. PICK left \in Nat :
             /\ Move(h, "batch", left) /\ jobs' = jobs /\ lock' = lock /\ lock = h
             /\ work[h].rest > 0
    <3>1. Min(BatchMarkets * CycleBudget, work[h].due) \in Nat
        BY <1>3, Times DEF Min
    <3> QED BY <1>2, <1>13, <3>1 DEF NextBatch, Holding
  <2>2. "batch" \in Phase \ {"idle"} /\ "batch" \in Holding
      BY DEF Phase, Stages, Holding
  <2> QED BY <1>7, <2>1, <2>2
<1>14. CASE BatchDone(h)
  <2> DEFINE w == [work[h] EXCEPT !.phase = "batches", !.left = 0, !.rest = @ - 1]
  <2>1. /\ work' = [work EXCEPT ![h] = w] /\ lock' = lock /\ lock = h /\ work[h].rest > 0
        /\ Put(work[h].job, "running", lease_seconds)
      BY <1>2, <1>14 DEF BatchDone, TypeOK, Holding
  <2>2. work[h].rest - 1 \in 0..Batches
      BY <1>3, <2>1, Times
  <2>3. w \in WorkRow /\ w.phase = "batches" /\ w.job = work[h].job
      BY <1>3, <2>2 DEF WorkRow, Phase, Instant
  <2>4. w.phase \in Holding
      BY <2>3 DEF Holding
  <2> HIDE DEF w
  <2> QED BY <1>2, <1>3, <1>6, <2>1, <2>3, <2>4, HandlerKeepsLock
(* The ways out of the Storage block. *)
<1>15. ASSUME NEW result \in Ended, NEW left \in Nat,
              work' = [work EXCEPT ![h] = [work[h] EXCEPT !.phase = "final", !.left = left,
                                                         !.result = result]],
              jobs' = jobs, lock' = IF lock = h THEN None ELSE lock
       PROVE  LockInv'
  <2> DEFINE w == [work[h] EXCEPT !.phase = "final", !.left = left, !.result = result]
  <2>1. w \in WorkRow /\ w.phase = "final" /\ w.job = work[h].job
      BY <1>3 DEF WorkRow, Phase, Instant
  <2>2. w.phase \notin Holding /\ w.phase # "batch"
      BY <2>1 DEF Holding
  <2>3. work' = [work EXCEPT ![h] = w]
      BY <1>15
  <2>4. /\ lock' \in Handler \cup {None, "orphan", "external"} /\ lock' # h
        /\ \A g \in Handler \ {h} : lock' = g <=> lock = g
      BY <1>3, <1>4, <1>15
  <2> HIDE DEF w
  <2> QED BY <1>2, <1>3, <1>15, <2>1, <2>2, <2>3, <2>4, HandlerKeepsLock
<1>16. CASE Finish(h)
  <2>1. PICK result \in Ended :
              work' = [work EXCEPT ![h].phase = "final", ![h].result = result]
      BY <1>16 DEF Finish
  <2>2. work' = [work EXCEPT ![h] = [work[h] EXCEPT !.phase = "final", !.left = work[h].left,
                                                    !.result = result]]
      BY <1>2, <1>3, <2>1 DEF TypeOK, WorkRow
  <2>3. jobs' = jobs /\ lock' = None /\ lock = h
      BY <1>2, <1>16 DEF Finish, Holding
  <2> QED BY <1>3, <1>15, <2>2, <2>3
<1>17. CASE Failure(h)
  <2>1. work' = [work EXCEPT ![h] = [work[h] EXCEPT !.phase = "final", !.left = 0,
                                                    !.result = "failed"]]
      BY <1>2, <1>17 DEF Failure, Fail, TypeOK
  <2> QED BY <1>15, <1>17, <2>1 DEF Failure, Fail, Ended
<1>18. CASE Close(h)
  <2>1. work' = [work EXCEPT ![h] = Idle] /\ lock' = lock /\ lock # h
      BY <1>2, <1>18 DEF Close, Holding
  <2>2. /\ jobs' \in [Job -> JobRow]
        /\ \A j \in Job : jobs'[j].status = "absent" <=> jobs[j].status = "absent"
      BY <1>3, <1>5, <1>18 DEF Close
  <2> QED BY <1>2, <1>3, <2>1, <2>2, IdleType, HandlerKeepsLock DEF Holding
<1> QED BY <1>8, <1>9, <1>10, <1>11, <1>12, <1>13, <1>14, <1>16, <1>17, <1>18 DEF RunJob

(* So does the end of an instance.                                            *)
LEMMA CrashLock ==
    ASSUME LockInv, NEW h \in Handler, Crash(h)
    PROVE  LockInv'
<1>1. /\ lock' \in Handler \cup {None, "orphan", "external"} /\ lock' # h
      /\ \A g \in Handler \ {h} : lock' = g <=> lock = g
    BY RefreshAssumption DEF Crash, LockInv, TypeOK
<1>2. jobs' \in [Job -> JobRow] /\ jobs' = jobs /\ work' = [work EXCEPT ![h] = Idle]
    BY DEF Crash, LockInv, TypeOK
<1> QED BY <1>1, <1>2, IdleType, HandlerKeepsLock DEF Holding

(* The number of the next row is free, and nothing else of the table goes.    *)
LEMMA ClaimLock ==
    ASSUME LockInv, NEW h \in Handler, Claim(h)
    PROVE  LockInv'
<1> DEFINE n == Newest + 1
           row == [status |-> "running", lease |-> lease_seconds, age |-> 0]
<1>1. TypeOK /\ JobsInHand /\ LockMatches /\ work[h].phase = "idle" /\ lock # h
    BY DEF LockInv, Claim, LockMatches, Holding
<1>2. jobs' = [Swept EXCEPT ![n] = row] /\ lock' = lock
    BY DEF Claim, Newest
<1>3. row \in JobRow
    BY Times DEF JobRow
<1>4. Newest # MaxJobs
    BY <1>1 DEF Claim, JobsInHand, Job
<1>5. n \in Job /\ Newest \in Nat /\ Created = 1..Newest
    BY <1>1, <1>4, Times DEF JobsInHand, Job
<1>6. jobs' \in [Job -> JobRow] /\ jobs'[n] = row /\ \A j \in Job \ {n} : jobs'[j] = Swept[j]
    BY <1>1, <1>2, <1>3, <1>5, Sweep
<1>7. Created' = Created \cup {n}
    BY <1>1, <1>5, <1>6, Sweep DEF Created
<1>8. Created' = 1..n /\ n \in Nat
    BY <1>5, <1>7
<1>9. Newest' = n
  <2>1. Newest' = Cardinality(Created')
      BY DEF Newest
  <2> HIDE DEF n
  <2> QED BY <1>8, <2>1, Counted
<1>10. Newest' \in 0..MaxJobs /\ Created' = 1..Newest'
    BY <1>5, <1>8, <1>9, Times DEF Job
<1>11. CASE UNCHANGED work
  <2>1. TypeOK' /\ LockMatches'
      BY <1>1, <1>2, <1>6, <1>11 DEF TypeOK, LockMatches
  <2>2. \A g \in Handler : Active(g)' <=> Active(g)
      BY <1>11 DEF Active
  <2>3. JobsInHand'
      BY <1>1, <1>7, <1>10, <1>11, <2>2 DEF JobsInHand
  <2> QED BY <2>1, <2>3 DEF LockInv
<1>12. ASSUME NEW only \in BOOLEAN,
              work' = [work EXCEPT ![h] = [Idle EXCEPT !.phase = "start", !.job = n,
                                            !.due = Deadline, !.rest = Batches, !.only = only]]
       PROVE  LockInv'
  <2> DEFINE w == [Idle EXCEPT !.phase = "start", !.job = n, !.due = Deadline,
                               !.rest = Batches, !.only = only]
  <2>1. w \in WorkRow /\ w.phase = "start" /\ w.job = n
    <3>1. Deadline \in 0..Deadline /\ Batches \in 0..Batches /\ "start" \in Phase
        BY Times DEF Phase, Instant
    <3> HIDE DEF n
    <3>2. Idle \in WorkRow
        BY IdleType
    <3> QED BY <1>5, <3>1, <3>2 DEF WorkRow
  <2>2. work'[h] = w /\ \A g \in Handler \ {h} : work'[g] = work[g]
      BY <1>1, <1>12 DEF TypeOK
  <2>3. TypeOK'
      BY <1>1, <1>2, <1>6, <1>12, <2>1 DEF TypeOK
  <2> HIDE DEF w
  <2>4. JobsInHand'
      BY <1>1, <1>7, <1>10, <2>1, <2>2 DEF JobsInHand, Active
  <2>5. LockMatches'
      BY <1>1, <1>2, <2>1, <2>2 DEF LockMatches, Holding
  <2> QED BY <2>3, <2>4, <2>5 DEF LockInv
<1> QED BY <1>11, <1>12 DEF Claim, Newest

(* So does everything else but a claim.                                       *)
LEMMA OthersLock ==
    ASSUME LockInv,
           \/ Tick \/ SessionEnds \/ ExternalTakes \/ ExternalReleases \/ UNCHANGED vars
           \/ \E h \in Handler : Report(h)
    PROVE  LockInv'
<1>1. TypeOK /\ JobsInHand /\ LockMatches
    BY DEF LockInv
<1>2. CASE Tick
  <2>1. TypeOK'
      BY <1>1, <1>2, TickTypes
  <2>2. /\ \A j \in Job : jobs'[j].status = jobs[j].status
        /\ \A g \in Handler : /\ work'[g].phase = work[g].phase /\ work'[g].job = work[g].job
                               /\ work'[g].rest = work[g].rest
      BY <1>1, <1>2, TickTypes
  <2>3. Created' = Created
      BY <2>2 DEF Created
  <2>4. Newest' = Newest
      BY <2>3 DEF Newest
  <2>5. JobsInHand'
      BY <1>1, <2>2, <2>3, <2>4 DEF JobsInHand, Active
  <2>6. LockMatches'
      BY <1>1, <1>2, <2>2 DEF LockMatches, Tick
  <2> QED BY <2>1, <2>5, <2>6 DEF LockInv
<1>3. CASE SessionEnds \/ ExternalTakes \/ ExternalReleases \/ UNCHANGED vars
  <2>1. UNCHANGED <<jobs, work>> /\ lock' \in {lock, None, "external"}
      BY <1>3 DEF SessionEnds, ExternalTakes, ExternalReleases, vars
  <2>2. TypeOK'
      BY <1>1, <2>1 DEF TypeOK
  <2>3. JobsInHand'
      BY <1>1, <2>1 DEF JobsInHand, Newest, Created, Active
  <2>4. LockMatches'
      BY <1>1, <1>3, <2>1, RefreshAssumption
         DEF LockMatches, SessionEnds, ExternalTakes, ExternalReleases, vars
  <2> QED BY <2>2, <2>3, <2>4 DEF LockInv
<1>4. ASSUME NEW h \in Handler, Report(h) PROVE LockInv'
  <2>1. jobs' = Swept /\ lock' = lock /\ work' = work
      BY <1>4 DEF Report
  <2>2. TypeOK' /\ LockMatches'
      BY <1>1, <2>1, Sweep DEF TypeOK, LockMatches
  <2>3. Created' = Created
      BY <1>1, <2>1, Sweep DEF Created
  <2>4. Newest' = Newest
      BY <2>3 DEF Newest
  <2>5. JobsInHand'
      BY <1>1, <2>1, <2>3, <2>4 DEF JobsInHand, Active
  <2> QED BY <2>2, <2>5 DEF LockInv
<1> QED BY <1>2, <1>3, <1>4

(* Whatever the times are, also when leases run out under working requests: a  *)
(* request is inside its Storage block exactly while it owns the collector     *)
(* lock, so that no two write quotes at once.                                  *)
THEOREM LockIsExact == Spec => []LockInv
<1>1. LockInv /\ [Next]_vars => LockInv'
  <2> SUFFICES ASSUME LockInv, [Next]_vars PROVE LockInv'
      OBVIOUS
  <2>1. CASE \/ Tick \/ SessionEnds \/ ExternalTakes \/ ExternalReleases \/ UNCHANGED vars
             \/ \E h \in Handler : Report(h)
      BY <2>1, OthersLock
  <2>2. ASSUME NEW h \in Handler, Claim(h) \/ RunJob(h) \/ Crash(h)
        PROVE  LockInv'
      BY <2>2, ClaimLock, RunJobLock, CrashLock
  <2> QED BY <2>1, <2>2 DEF Next
<1> QED BY <1>1, InitLock, PTL DEF Spec

(* Type correctness of the job table, the lock and the requests' memory.      *)
THEOREM RefreshTypes == Spec => []TypeOK
<1>1. LockInv => TypeOK
    BY DEF LockInv
<1> QED BY <1>1, LockIsExact, PTL

(* The collector lock is never left to a request that is over: each way out of *)
(* run_job's Storage block gives it back.                                      *)
THEOREM LockIsGivenBack == Spec => []LockHasWorker
<1>1. LockInv => LockHasWorker
    BY DEF LockInv, LockMatches, Holding, LockHasWorker, Serving
<1> QED BY <1>1, LockIsExact, PTL

-----------------------------------------------------------------------------
(* The job table implements the board, as visible() shows it.                 *)

(* A step that leaves every job reading as it did is a stutter of the board.  *)
LEMMA Unseen ==
    ASSUME \A j \in Job : visible(j)' = visible(j)
    PROVE  UNCHANGED [j \in Job |-> visible(j)]
OBVIOUS

(* A job that read as running reads as ended. *)
LEMMA SeenEnd ==
    ASSUME NEW j \in Job, visible(j) = "running", visible(j)' \in Ended,
           \A i \in Job \ {j} : visible(i)' = visible(i)
    PROVE  Board!Next
<1> DEFINE result == visible(j)'
<1>1. [i \in Job |-> visible(i)]' = [[i \in Job |-> visible(i)] EXCEPT ![j] = result]
    OBVIOUS
<1>2. result \in Board!Ended
    BY DEF Ended, Board!Ended
<1> HIDE DEF result
<1>3. Board!End(j)
    BY <1>1, <1>2 DEF Board!End
<1> QED BY <1>3 DEF Board!Next

(* A claim that is granted starts a job on the board.                         *)
LEMMA ClaimStarts ==
    ASSUME RefreshInv, NEW h \in Handler, Claim(h)
    PROVE  Board!Next
<1> DEFINE row == [status |-> "running", lease |-> lease_seconds, age |-> 0]
<1>1. PICK n \in Job : n = Newest + 1
    BY ClaimFinds
<1>2. TypeOK /\ jobs[n].status = "absent" /\ \A j \in Job : Swept[j].status # "running"
    BY <1>1, ClaimFinds DEF RefreshInv
<1>3. jobs' = [Swept EXCEPT ![n] = row]
    BY <1>1 DEF Claim, Newest
<1>4. jobs'[n] = row /\ \A j \in Job \ {n} : jobs'[j] = Swept[j]
    BY <1>2, <1>3, Sweep
<1>5. \A j \in Job : visible(j) # "running"
    BY <1>2, Sweep
<1>6. visible(n) = "absent"
    BY <1>2 DEF visible
<1>7. visible(n)' = "running"
    BY <1>4, Times DEF visible, expired
<1>8. \A j \in Job \ {n} : visible(j)' = visible(j)
    BY <1>2, <1>4, Sweep DEF visible
<1> HIDE DEF row
<1>9. [i \in Job |-> visible(i)]' = [[i \in Job |-> visible(i)] EXCEPT ![n] = "running"]
    BY <1>7, <1>8
<1>10. Board!Start(n)
    BY <1>5, <1>6, <1>9 DEF Board!Start
<1> QED BY <1>10 DEF Board!Next

(* Of a request's own writes only the closing one is seen: progress goes to a  *)
(* job that reads as running already.                                          *)
LEMMA RunJobIsSeen ==
    ASSUME RefreshInv, NEW h \in Handler, RunJob(h)
    PROVE  Board!Next \/ UNCHANGED [j \in Job |-> visible(j)]
<1>1. Active(h)
    BY DEF RunJob, Start, TakeLock, CatalogFetched, Rates, RatesFetched, NextBatch, BatchDone,
           Finish, Failure, Close, Active
<1>2. /\ TypeOK /\ work[h].job = Newest /\ Newest \in Job /\ jobs[Newest].status = "running"
      /\ jobs[Newest].lease > 0 /\ jobs[Newest].lease \in 0..lease_seconds
      /\ work[h].result \in Ended
    BY <1>1, RowTypes DEF RefreshInv, ActiveHasNewest, LeaseLasts, LeaseCovers
<1>3. visible(Newest) = "running"
    BY <1>2 DEF visible, expired
<1>4. CASE jobs' = jobs
    BY <1>4, Unseen DEF visible, expired
<1>5. CASE Put(Newest, "running", lease_seconds)
  <2>1. lease_seconds \in 0..lease_seconds /\ lease_seconds # 0
      BY Times
  <2>2. /\ \A i \in Job \ {Newest} : jobs'[i] = jobs[i]
        /\ jobs'[Newest].status = "running" /\ jobs'[Newest].lease = lease_seconds
      BY <1>2, <1>5, <2>1, Written
  <2>3. \A j \in Job : visible(j)' = visible(j)
      BY <1>3, <2>1, <2>2 DEF visible, expired
  <2> QED BY <2>3, Unseen
<1>6. CASE Put(Newest, work[h].result, jobs[Newest].lease)
  <2>1. /\ \A i \in Job \ {Newest} : jobs'[i] = jobs[i]
        /\ jobs'[Newest].status = work[h].result
      BY <1>2, <1>6, Written
  <2>2. PICK j \in Job : j = Newest
      BY <1>2
  <2>3. visible(j) = "running" /\ visible(j)' \in Ended
      BY <1>2, <1>3, <2>1, <2>2 DEF visible, Ended
  <2>4. \A i \in Job \ {j} : visible(i)' = visible(i)
      BY <2>1, <2>2 DEF visible, expired
  <2> QED BY <2>3, <2>4, SeenEnd
<1>7. jobs' = jobs \/ Put(Newest, "running", lease_seconds)
      \/ Put(Newest, work[h].result, jobs[Newest].lease)
    BY <1>2 DEF RunJob, Start, TakeLock, CatalogFetched, Rates, RatesFetched, NextBatch, BatchDone,
                Finish, Failure, Close, Progress
<1> QED BY <1>4, <1>5, <1>6, <1>7

(* A progress report is not seen on the board.                                *)
LEMMA ReportIsUnseen ==
    ASSUME RefreshInv, NEW h \in Handler, Report(h)
    PROVE  UNCHANGED [j \in Job |-> visible(j)]
<1>1. TypeOK /\ jobs' = Swept
    BY DEF RefreshInv, Report
<1>2. \A j \in Job : visible(j)' = visible(j)
    BY <1>1, Sweep DEF visible, expired
<1> QED BY <1>2, Unseen

(* A lease runs out: only the newest job can be seen to end by it.             *)
LEMMA TickIsSeen ==
    ASSUME RefreshInv, Tick
    PROVE  Board!Next \/ UNCHANGED [j \in Job |-> visible(j)]
<1>1. TypeOK /\ RowsInOrder
    BY DEF RefreshInv
<1>2. \A j \in Job : /\ jobs'[j].status = jobs[j].status
                     /\ jobs'[j].lease = IF jobs[j].status = "absent" THEN jobs[j].lease
                                         ELSE Down(jobs[j].lease)
  <2> SUFFICES ASSUME NEW j \in Job
               PROVE  /\ jobs'[j].status = jobs[j].status
                      /\ jobs'[j].lease = IF jobs[j].status = "absent" THEN jobs[j].lease
                                          ELSE Down(jobs[j].lease)
      OBVIOUS
  <2>1. jobs[j] \in JobRow
      BY <1>1, RowTypes
  <2>2. jobs'[j] = IF jobs[j].status = "absent" THEN jobs[j]
                   ELSE [jobs[j] EXCEPT !.lease = Down(jobs[j].lease),
                                        !.age = Min(jobs[j].age + 1, Cooldown)]
      BY DEF Tick
  <2> QED BY <2>1, <2>2 DEF JobRow
<1>3. \A j \in Job : jobs[j].status = "running" /\ expired(j) => expired(j)'
    BY <1>2 DEF expired, Down
<1>4. \A j \in Job : visible(j) # "running" => visible(j)' = visible(j)
    BY <1>2, <1>3 DEF visible
<1>5. \A j \in Job : visible(j) = "running" => visible(j)' \in {"running", "failed"}
    BY <1>2 DEF visible
<1>6. \A j \in Job : visible(j) = "running" => j = Newest
    BY <1>1 DEF visible, RowsInOrder
<1>7. CASE \E j \in Job : visible(j) = "running" /\ visible(j)' = "failed"
  <2>1. PICK j \in Job : visible(j) = "running" /\ visible(j)' = "failed"
      BY <1>7
  <2>2. \A i \in Job \ {j} : visible(i)' = visible(i)
      BY <1>4, <1>6, <2>1
  <2> QED BY <2>1, <2>2, SeenEnd DEF Ended
<1>8. CASE ~\E j \in Job : visible(j) = "running" /\ visible(j)' = "failed"
  <2>1. \A j \in Job : visible(j)' = visible(j)
      BY <1>4, <1>5, <1>8
  <2> QED BY <2>1, Unseen
<1> QED BY <1>7, <1>8

(* Every step is one of the board, or is not seen on it.                      *)
LEMMA NextOnBoard ==
    RefreshInv /\ [Next]_vars => Board!Next \/ UNCHANGED [j \in Job |-> visible(j)]
<1> SUFFICES ASSUME RefreshInv, [Next]_vars
             PROVE  Board!Next \/ UNCHANGED [j \in Job |-> visible(j)]
    OBVIOUS
<1>1. CASE jobs' = jobs
    BY <1>1, Unseen DEF visible, expired
<1>2. CASE Tick
    BY <1>2, TickIsSeen
<1>3. ASSUME NEW h \in Handler, Claim(h) \/ Report(h) \/ RunJob(h) \/ Crash(h)
      PROVE  Board!Next \/ UNCHANGED [j \in Job |-> visible(j)]
    BY <1>1, <1>3, ClaimStarts, ReportIsUnseen, RunJobIsSeen DEF Crash
<1> QED BY <1>1, <1>2, <1>3 DEF Next, vars, SessionEnds, ExternalTakes, ExternalReleases

(* Refinement: whatever the instances do, a reader sees one refresh at a time,  *)
(* and an end that was seen stays.  (That every running job is seen to end is   *)
(* liveness, which the refresh_jobs run checks.)                                *)
THEOREM TableShowsBoard ==
    ASSUME QuietStretchesFit
    PROVE  Spec => Board!Spec
<1>1. Init => Board!Init
    BY DEF Init, Board!Init, visible, NoJob
<1>2. RefreshInv /\ [Next]_vars => [Board!Next]_[j \in Job |-> visible(j)]
    BY NextOnBoard
<1>3. Spec => []RefreshInv
    BY QuietStretchesFit, RefreshIsOrdered
<1> QED BY <1>1, <1>2, <1>3, PTL DEF Spec, Board!Spec
=============================================================================
