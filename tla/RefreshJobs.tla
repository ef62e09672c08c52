---------------------------- MODULE RefreshJobs ----------------------------
(***************************************************************************)
(* dashboard.py: refresh(), its claim, its lease and run_job().  Several   *)
(* instances of the service share the refresh_jobs table; each request     *)
(* claims a job, works on it inside the request, and renews the job's      *)
(* lease only when it writes progress.  An expired job reads as failed and *)
(* is swept by the next claim.                                             *)
(*                                                                         *)
(* Time is counted in units (ten seconds in the checked instances).  A     *)
(* timestamp is kept as the time left to it, or since it.  A database      *)
(* statement takes no time at this scale; Grace is what the code allows    *)
(* for it.  A provider stage ends at any moment before its time is over.   *)
(***************************************************************************)
EXTENDS Integers, FiniteSets

CONSTANTS
    Handler,            \* requests served at one time, by any instance
    MaxJobs,            \* bound: refresh jobs ever created
    CycleBudget,        \* QuoteConfig.cycle_budget_seconds
    OperationTimeout,   \* QuoteConfig.operation_timeout_seconds
    Grace,              \* dashboard.LEASE_GRACE_SECONDS
    Cooldown,           \* dashboard.COOLDOWN_SECONDS
    Deadline,           \* RefreshConfig.deadline_seconds
    CatalogTime,        \* the longest catalog.fetch_all
    CatalogInRequest,   \* the listing may have to be fetched by the request
    Foreign,            \* the portfolio holds a currency that needs a rate
    BatchMarkets,       \* the most markets in one batch
    Batches,            \* the most batches of one refresh
    None

ASSUME RefreshAssumption ==
    /\ {MaxJobs, CycleBudget, OperationTimeout, Cooldown, Deadline, BatchMarkets}
         \subseteq Nat \ {0}
    /\ {Grace, CatalogTime, Batches} \subseteq Nat
    /\ {CatalogInRequest, Foreign} \subseteq BOOLEAN
    /\ None \notin Handler /\ {"orphan", "external"} \cap Handler = {}

VARIABLES
    jobs,      \* refresh_jobs: status, time left of the lease, time since creation
    lock,      \* the collector lock: a handler, "external" (a CLI collector),
               \* "orphan" (a dead handler's session), or None
    work       \* what each handler remembers

vars == <<jobs, lock, work>>

Job == 1..MaxJobs     \* in the order of created_at

Ended == {"succeeded", "failed"}    \* "partial" is counted as succeeded

NoJob == [status |-> "absent", lease |-> 0, age |-> 0]

\* phase: where run_job is; job: the claimed document; left: what the running
\* stage may still take; due: what is left of the deadline; rest: batches to
\* come; only: the listing is all that was asked for; result: the final status.
Idle == [phase |-> "idle", job |-> None, left |-> 0, due |-> 0, rest |-> 0,
         only |-> FALSE, result |-> "failed"]

Stages  == {"catalog", "fx", "batch"}
Instant == {"start", "lockCatalog", "lock", "rates", "batches", "final"}

Min(x, y) == IF x < y THEN x ELSE y

\* Mutant: the lease allows for one call instead of one cycle.
lease_of_a_call == OperationTimeout + Grace

lease_seconds == CycleBudget + OperationTimeout + Grace

Created == {j \in Job : jobs[j].status # "absent"}
Latest == CHOOSE j \in Created : \A i \in Created : i <= j

\* Mutant: the lease counts from the job's creation and is not renewed.
expired_by_age(j) == jobs[j].age >= Cooldown

expired(j) == jobs[j].lease = 0

\* Mutant: the row is shown as it is.
visible_as_stored(j) == jobs[j].status

\* visible: an expired lease reads as failed even before a claim sweeps it.
visible(j) == IF jobs[j].status = "running" /\ expired(j) THEN "failed" ELSE jobs[j].status

\* recover_jobs: only expired jobs are declared failed.
Swept == [j \in Job |-> IF jobs[j].status = "running" /\ expired(j)
                          THEN [jobs[j] EXCEPT !.status = "failed"] ELSE jobs[j]]

Init ==
    /\ jobs = [j \in Job |-> NoJob]
    /\ lock = None
    /\ work = [h \in Handler |-> Idle]

-----------------------------------------------------------------------------
(* refresh and claim *)

\* claim, when no live job is in the way: the sweep and the new row in one
\* transaction.  The acknowledgement may be lost, and the request fails.
Claim(h) ==
    /\ work[h].phase = "idle"
    /\ Created # Job
    /\ Created # {} => /\ Swept[Latest].status # "running"
                       /\ jobs[Latest].age >= Cooldown
    /\ LET j == Cardinality(Created) + 1 IN
          /\ jobs' = [Swept EXCEPT ![j] = [status |-> "running", lease |-> lease_seconds,
                                           age |-> 0]]
          /\ \/ \E only \in (IF CatalogInRequest THEN BOOLEAN ELSE {FALSE}) :
                   work' = [work EXCEPT ![h] = [Idle EXCEPT !.phase = "start", !.job = j,
                                !.due = Deadline, !.rest = Batches, !.only = only]]
             \/ UNCHANGED work
    /\ UNCHANGED lock

\* claim, when the latest job is live: it is reported and the sweep of the older
\* ones is committed.  (Inside the cooldown the claim raises, and the sweep is
\* rolled back with it: no state changes.)
Report(h) ==
    /\ work[h].phase = "idle"
    /\ Created # {} /\ Swept[Latest].status = "running"
    /\ jobs' = Swept
    /\ UNCHANGED <<lock, work>>

-----------------------------------------------------------------------------
(* run_job *)

Move(h, phase, left) ==
    work' = [work EXCEPT ![h].phase = phase, ![h].left = left]

\* Mutant: the failure is handled inside the Storage block.
FailInside(h) ==
    /\ work' = [work EXCEPT ![h].phase = "final", ![h].left = 0, ![h].result = "failed"]
    /\ UNCHANGED lock

\* A failure anywhere in run_job leaves the Storage block, and with it the lock.
Fail(h) ==
    /\ work' = [work EXCEPT ![h].phase = "final", ![h].left = 0, ![h].result = "failed"]
    /\ lock' = IF lock = h THEN None ELSE lock

\* put_job: the handler's document replaces the row, whatever the row says now.
Put(j, status, lease) == jobs' = [jobs EXCEPT ![j].status = status, ![j].lease = lease]

\* progress: renews the lease and goes on.
Progress(h, phase, left) ==
    /\ Put(work[h].job, "running", lease_seconds)
    /\ Move(h, phase, left)
    /\ UNCHANGED lock

\* The listing is valid, or refreshed elsewhere, or fetched first.
Start(h) ==
    /\ work[h].phase = "start"
    /\ \/ ~work[h].only /\ Move(h, "lock", 0) /\ UNCHANGED <<jobs, lock>>
       \/ CatalogInRequest /\ Progress(h, "lockCatalog", 0)

\* acquire_lock: busy means the job fails.
TakeLock(h) ==
    /\ work[h].phase \in {"lockCatalog", "lock"}
    /\ lock = None
    /\ lock' = h
    /\ IF work[h].phase = "lock" THEN Move(h, "rates", 0) ELSE Move(h, "catalog", CatalogTime)
    /\ UNCHANGED jobs

CatalogFetched(h) ==
    /\ work[h].phase = "catalog"
    /\ lock' = None
    /\ work' = [work EXCEPT ![h].phase = IF work[h].only THEN "final" ELSE "lock", ![h].left = 0,
                            ![h].result = "succeeded"]
    /\ UNCHANGED jobs

\* refresh_fx: one bounded call for the foreign currency, while time remains.
Rates(h) ==
    /\ work[h].phase = "rates"
    /\ IF Foreign /\ work[h].due > 0
         THEN Progress(h, "fx", Min(OperationTimeout, work[h].due))
         ELSE Move(h, "batches", 0) /\ UNCHANGED <<jobs, lock>>

RatesFetched(h) ==
    /\ work[h].phase = "fx"
    /\ Move(h, "batches", 0)
    /\ UNCHANGED <<jobs, lock>>

\* Mutant: only the time is asked for, not whether a batch is left.
NextBatchWhileTime(h) ==
    /\ work[h].phase = "batches" /\ work[h].due > 0
    /\ Move(h, "batch", Min(BatchMarkets * CycleBudget, work[h].due))
    /\ UNCHANGED <<jobs, lock>>

\* The next batch: each of its markets gets a cycle budget, within the deadline.
NextBatch(h) ==
    /\ work[h].phase = "batches"
    /\ work[h].rest > 0 /\ work[h].due > 0
    /\ Move(h, "batch", Min(BatchMarkets * CycleBudget, work[h].due))
    /\ UNCHANGED <<jobs, lock>>

BatchDone(h) ==
    /\ work[h].phase = "batch"
    /\ Put(work[h].job, "running", lease_seconds)
    /\ work' = [work EXCEPT ![h].phase = "batches", ![h].left = 0, ![h].rest = @ - 1]
    /\ UNCHANGED lock

\* No batch is left, or no time: the lock is released, then the job is closed.
Finish(h) ==
    /\ work[h].phase = "batches"
    /\ work[h].rest = 0 \/ work[h].due = 0
    /\ lock' = None
    /\ \E result \in Ended :
          work' = [work EXCEPT ![h].phase = "final", ![h].result = result]
    /\ UNCHANGED jobs

\* StorageError, a busy lock, or any other exception.
Failure(h) ==
    /\ work[h].phase \notin {"idle", "final"}
    /\ Fail(h)
    /\ UNCHANGED jobs

\* The finally clause.  When its own write fails the row stays as it was.
Close(h) ==
    /\ work[h].phase = "final"
    /\ \/ Put(work[h].job, work[h].result, jobs[work[h].job].lease)
       \/ UNCHANGED jobs
    /\ work' = [work EXCEPT ![h] = Idle]
    /\ UNCHANGED lock

-----------------------------------------------------------------------------
(* The environment *)

\* The instance is stopped, or the request's CPU is taken away.
Crash(h) ==
    /\ work[h].phase # "idle"
    /\ work' = [work EXCEPT ![h] = Idle]
    /\ lock' = IF lock = h THEN "orphan" ELSE lock
    /\ UNCHANGED jobs

SessionEnds == lock = "orphan" /\ lock' = None /\ UNCHANGED <<jobs, work>>

\* A quote command on the same schema.
ExternalTakes    == lock = None /\ lock' = "external" /\ UNCHANGED <<jobs, work>>
ExternalReleases == lock = "external" /\ lock' = None /\ UNCHANGED <<jobs, work>>

Down(n) == IF n = 0 THEN 0 ELSE n - 1

\* Time passes only when no handler has something to do at once.
Tick ==
    /\ \A h \in Handler : /\ work[h].phase \notin Instant
                          /\ work[h].phase \in Stages => work[h].left > 0
    /\ jobs' = [j \in Job |-> IF jobs[j].status = "absent" THEN jobs[j]
                              ELSE [jobs[j] EXCEPT !.lease = Down(@),
                                                   !.age = Min(@ + 1, Cooldown)]]
    /\ work' = [h \in Handler |-> [work[h] EXCEPT !.left = Down(@), !.due = Down(@)]]
    /\ UNCHANGED lock

RunJob(h) ==
    \/ Start(h) \/ TakeLock(h) \/ CatalogFetched(h) \/ Rates(h) \/ RatesFetched(h)
    \/ NextBatch(h) \/ BatchDone(h) \/ Finish(h) \/ Failure(h) \/ Close(h)

Next ==
    \/ Tick \/ SessionEnds \/ ExternalTakes \/ ExternalReleases
    \/ \E h \in Handler : Claim(h) \/ Report(h) \/ RunJob(h) \/ Crash(h)

Spec == Init /\ [][Next]_vars

\* Time passes, and a request that is being served goes on.
Fairness == WF_vars(Tick) /\ \A h \in Handler : WF_vars(RunJob(h))

FairSpec == Spec /\ Fairness
-----------------------------------------------------------------------------
(* Properties *)

Phase == {"idle"} \cup Stages \cup Instant

JobRow  == [status : {"absent", "running"} \cup Ended, lease : 0..lease_seconds, age : 0..Cooldown]
WorkRow == [phase : Phase, job : Job \cup {None}, left : Nat, due : 0..Deadline,
            rest : 0..Batches, only : BOOLEAN, result : Ended]

TypeOK ==
    /\ jobs \in [Job -> JobRow]
    /\ lock \in Handler \cup {None, "orphan", "external"}
    /\ work \in [Handler -> WorkRow]

Serving(h) == work[h].phase \notin {"idle", "final"}

\* "A lease has to outlast the quiet stretch between two progress writes"
\* (dashboard.py): while a request works on its job, everyone reads it as running.
WorkReadsAsRunning == \A h \in Handler : Serving(h) => visible(work[h].job) = "running"

\* No two requests, of whatever instances, work at the same time: not even one
\* that would only find the collector lock taken.
OneRequestWorks == \A g, h \in Handler : Serving(g) /\ Serving(h) => g = h

\* The collector lock is never left to a request that is over.
LockHasWorker == lock \in Handler => Serving(lock)

\* The job table implements the abstract board, as it is read through visible().
Board == INSTANCE JobBoard WITH board <- [j \in Job |-> visible(j)]
BoardSpec == Board!FairSpec

BatchTime   == Min(BatchMarkets * CycleBudget, Deadline)

=============================================================================
