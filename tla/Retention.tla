----------------------------- MODULE Retention -----------------------------
(***************************************************************************)
(* cloud_db.py: the two operations that delete rows, prune and purge, on   *)
(* the tables the collectors fill.  The rows are a compact image of        *)
(* CollectorStore's: a run with the cache keys it quoted, the run whose    *)
(* quote values each key, and the last answer of each source.              *)
(*                                                                         *)
(* Abstractions, named: a run has one cycle, and one quote per cache key   *)
(* (instrument, provider, ticker, currency, market); runs are numbered in  *)
(* the order they start, which the collector lock makes the order of       *)
(* received_at too; time is the day and the retention period only.  The    *)
(* foreign keys of 0001_initial.sql are left out on purpose: a DELETE that *)
(* they would refuse loses evidence here, and EvidenceIsWhole reports it.  *)
(***************************************************************************)
EXTENDS Naturals, FiniteSets

CONSTANTS
    Key,           \* cache keys
    Provider,
    SourceOf,      \* the provider of a cache key
    Keep,          \* quotes kept per cache key: 20 in the code
    KeepCatalogs,  \* generations kept: 2 in the code
    MaxRows,       \* bound: runs, jobs and generations ever created
    MaxManifest    \* bound: rows a purge manifest names

ASSUME SourceAssumption == SourceOf \in [Key -> Provider]
ASSUME BoundAssumption ==
    /\ MaxRows \in Nat /\ MaxManifest \in Nat
    /\ Keep \in Nat \ {0} /\ KeepCatalogs \in Nat \ {0}

VARIABLES
    runs,          \* tables runs, fetch_attempts, quotes and valuations
    jobs,          \* table refresh_jobs
    catalogs,      \* table instrument_catalog_generations
    created,       \* how many rows of each kind were ever created
    purging        \* what a purge has read before its transaction

vars == <<runs, jobs, catalogs, created, purging>>

Row == 1..MaxRows

\* A run that is completed or interrupted is "recent" or "old" by its ended_at
\* against the cutoff, or "recovered", with ended_at NULL.
RunRow ==
    [status : {"none", "running", "recovered", "recent", "old"},
     campaign : BOOLEAN,                       \* campaign_id IS NOT NULL
     quoted : SUBSET Key,                      \* keys with a quote of this run
     values : [Key -> 0..MaxRows],             \* run of the quote valuing the key
     answer : [Provider -> {"none", "clear", "cooling"}]]

NoRow == [status |-> "none", campaign |-> FALSE, quoted |-> {},
          values |-> [k \in Key |-> 0], answer |-> [p \in Provider |-> "none"]]

Idle == [active |-> FALSE, runs |-> {}, jobs |-> {}, cooling |-> {}]

TypeOK ==
    /\ runs \in [Row -> RunRow]
    /\ jobs \in [Row -> {"none", "live", "recent", "old"}]
    /\ catalogs \in [Row -> {"none", "valid", "expired", "old"}]
    /\ created \in [run : Nat, job : Nat, catalog : Nat]
    /\ created.run + created.job + created.catalog <= MaxRows
    /\ \A r \in Row : r > created.run => runs[r].status = "none"
    /\ \A r \in Row : runs[r].status = "none" => runs[r] = NoRow
    /\ purging \in [active : BOOLEAN, runs : SUBSET Row, jobs : SUBSET Row,
                    cooling : SUBSET Provider]
    /\ ~purging.active => purging = Idle

Init ==
    /\ runs = [r \in Row |-> NoRow]
    /\ jobs = [j \in Row |-> "none"]
    /\ catalogs = [g \in Row |-> "none"]
    /\ created = [run |-> 0, job |-> 0, catalog |-> 0]
    /\ purging = Idle

Exists(r) == runs[r].status # "none"
MoreRows == created.run + created.job + created.catalog < MaxRows

----------------------------------------------------------------------------
(* What the service reads. *)

\* cached_quotes: the runs that hold the latest Keep quotes of a key.
Window(k) ==
    {r \in Row : /\ k \in runs[r].quoted
                 /\ Cardinality({x \in Row : x > r /\ k \in runs[x].quoted}) < Keep}

\* The run of the latest completed attempt of a provider, or 0.
LastAttempt(p) ==
    LET asked == {r \in Row : runs[r].answer[p] # "none"}
    IN  IF asked = {} THEN 0 ELSE CHOOSE r \in asked : \A x \in asked : x <= r

\* provider_cooldowns: only the latest attempt counts, and only a 429.
provider_cooldowns ==
    {p \in Provider : LastAttempt(p) # 0 /\ runs[LastAttempt(p)].answer[p] = "cooling"}

\* load_instrument_catalog: the newest generation that has not expired.
Loaded ==
    LET valid == {g \in Row : catalogs[g] = "valid"}
    IN  {g \in valid : \A x \in valid : x <= g}

\* claim: the job created last, whose age is the cooldown of refreshes.
LastJob ==
    LET stored == {j \in Row : jobs[j] # "none"}
    IN  {j \in stored : \A x \in stored : x <= j}

----------------------------------------------------------------------------
(* The collectors.  A tenure of the collector lock is one step: nothing    *)
(* else in this module writes runs while the lock is held, and a purge's   *)
(* early read sees the same latest answers before or after it.             *)

\* recover_incomplete of the next collector: ended_at stays NULL.
Recover ==
    /\ \E r \in Row : runs[r].status = "running"
    /\ runs' = [r \in Row |-> IF runs[r].status = "running"
                              THEN [runs[r] EXCEPT !.status = "recovered"]
                              ELSE runs[r]]
    /\ UNCHANGED <<jobs, catalogs, created, purging>>

\* run_cycle: a quote of its own values a key; without one, any cached
\* candidate that is still good, or nothing.  A cycle that stops early
\* values nothing.
Values(r, quoted) ==
    {chosen \in [Key -> 0..MaxRows] :
        \A k \in Key : IF k \in quoted THEN chosen[k] = r ELSE chosen[k] \in Window(k) \cup {0}}

\* The keys quoted, the last answer of each source, the cycle that finished
\* or not, and the end: finish_run, interrupt_run, or a process that was
\* killed and left its run running.
Collect(campaign, quoted, answer, status) ==
    /\ MoreRows
    /\ \A r \in Row : runs[r].status # "running"
    /\ \A k \in quoted : answer[SourceOf[k]] # "none"
    /\ \A p \in Provider : answer[p] = "cooling" =>
          \E k \in Key \ quoted : SourceOf[k] = p
    /\ created' = [created EXCEPT !.run = @ + 1]
    /\ \E chosen \in Values(created'.run, quoted) \cup {NoRow.values} :
          runs' = [runs EXCEPT ![created'.run] =
                        [status |-> status, campaign |-> campaign,
                         quoted |-> quoted, values |-> chosen, answer |-> answer]]
    /\ UNCHANGED <<jobs, catalogs, purging>>

SaveCatalog ==
    /\ MoreRows
    /\ created' = [created EXCEPT !.catalog = @ + 1]
    /\ catalogs' = [catalogs EXCEPT ![created'.catalog] = "valid"]
    /\ UNCHANGED <<runs, jobs, purging>>

\* claim: a live job is returned as it is, never joined by another.
ClaimJob ==
    /\ MoreRows
    /\ \A j \in Row : jobs[j] # "live"
    /\ created' = [created EXCEPT !.job = @ + 1]
    /\ jobs' = [jobs EXCEPT ![created'.job] = "live"]
    /\ UNCHANGED <<runs, catalogs, purging>>

\* run_job writes the end of its job, or a later claim sweeps it.
EndJob ==
    /\ \E j \in Row : jobs[j] = "live" /\ jobs' = [jobs EXCEPT ![j] = "recent"]
    /\ UNCHANGED <<runs, catalogs, created, purging>>

----------------------------------------------------------------------------
(* Time.  A cooldown lasts at most 86 400 s and a generation 168 h; prune  *)
(* refuses a period of less than seven days, so both are over by then.     *)

AfterADay(row) ==
    [row EXCEPT !.answer = [p \in Provider |-> IF @[p] = "cooling" THEN "clear" ELSE @[p]]]

\* A day: every cooldown is over, and some generations expire (max_age_hours
\* may have changed between two of them, so the order is free).
DayPasses ==
    /\ runs' = [r \in Row |-> AfterADay(runs[r])]
    /\ \E stale \in SUBSET {g \in Row : catalogs[g] = "valid"} :
          catalogs' = [g \in Row |-> IF g \in stale THEN "expired" ELSE catalogs[g]]
    /\ UNCHANGED <<jobs, created, purging>>

\* The retention period, after the days it is made of.
PeriodPasses ==
    /\ \A r \in Row, p \in Provider : runs[r].answer[p] # "cooling"
    /\ \A g \in Row : catalogs[g] # "valid"
    /\ ~purging.active
    /\ runs' = [r \in Row |-> IF runs[r].status = "recent"
                              THEN [runs[r] EXCEPT !.status = "old"] ELSE runs[r]]
    /\ jobs' = [j \in Row |-> IF jobs[j] = "recent" THEN "old" ELSE jobs[j]]
    /\ catalogs' = [g \in Row |-> IF catalogs[g] = "expired" THEN "old" ELSE catalogs[g]]
    /\ UNCHANGED <<created, purging>>

----------------------------------------------------------------------------
(* prune, one transaction under the collector lock. *)

\* Mutant: by age alone, without the cache window.
ProtectedByAge ==
    {r \in Row : Exists(r) /\ (runs[r].campaign \/ runs[r].status # "old")}

Protected ==
    {r \in Row : /\ Exists(r)
                 /\ \/ runs[r].campaign
                    \/ runs[r].status # "old"
                    \/ \E k \in Key : r \in Window(k)}

Uses(r) == {runs[r].values[k] : k \in Key} \ {0}

Closed(S) == \A r \in S : Uses(r) \subseteq S

\* Mutant: without the runs that valuations rest on.
KeptWithoutEvidence == Protected

\* The recursive query: the least set that holds Protected and, with a run,
\* the runs its valuations rest on.
Kept ==
    LET closures == {S \in SUBSET Row : Protected \subseteq S /\ Closed(S)}
    IN  {r \in Row : \A S \in closures : r \in S}

Doomed ==
    {r \in Row : runs[r].status = "old" /\ ~runs[r].campaign} \ Kept

DoomedCatalogs ==
    {g \in Row : /\ catalogs[g] = "old"
                 /\ Cardinality({x \in Row : x > g /\ catalogs[x] # "none"}) >= KeepCatalogs}

DoomedJobs == {j \in Row : jobs[j] = "old"} \ LastJob

Prune ==
    /\ UNCHANGED <<created, purging>>
    /\ jobs' = [j \in Row |-> IF j \in DoomedJobs THEN "none" ELSE jobs[j]]
    /\ catalogs' = [g \in Row |-> IF g \in DoomedCatalogs THEN "none" ELSE catalogs[g]]
    /\ LET doomed == Doomed
       IN  runs' = [r \in Row |-> IF r \in doomed THEN NoRow ELSE runs[r]]

----------------------------------------------------------------------------
(* purge: the cooldowns are read first, in a snapshot of their own, and    *)
(* everything else is checked and deleted in one transaction under the     *)
(* lock.                                                                   *)

\* The manifest is printed by scripts/c76_probe.py after the refreshes it
\* names have returned, so its runs and jobs exist and have ended, or were
\* left by a process that died.
BeginPurge(R, J) ==
    /\ ~purging.active
    /\ R \cup J # {}
    /\ Cardinality(R) + Cardinality(J) <= MaxManifest
    /\ \A r \in R : Exists(r)
    /\ \A j \in J : jobs[j] # "none"
    /\ purging' = [active |-> TRUE, runs |-> R, jobs |-> J, cooling |-> provider_cooldowns]
    /\ UNCHANGED <<runs, jobs, catalogs, created>>

SharedEvidence(R) ==
    \E r \in Row \ R : Exists(r) /\ Uses(r) \cap R # {}

\* Mutant: a source is held only while every attempt of it would go.
HeldCooldownsOfAll(R) ==
    {p \in purging.cooling : \A r \in Row : runs[r].answer[p] # "none" => r \in R}

HeldCooldowns(R) ==
    {p \in purging.cooling : LastAttempt(p) \in R}

MayPurge ==
    /\ \A r \in purging.runs : Exists(r) /\ ~runs[r].campaign /\ runs[r].status # "running"
    /\ \A j \in purging.jobs : jobs[j] \notin {"none", "live"}
    /\ ~SharedEvidence(purging.runs)
    /\ HeldCooldowns(purging.runs) = {}

Purge ==
    /\ purging.active /\ MayPurge
    /\ runs' = [r \in Row |-> IF r \in purging.runs THEN NoRow ELSE runs[r]]
    /\ jobs' = [j \in Row |-> IF j \in purging.jobs THEN "none" ELSE jobs[j]]
    /\ purging' = Idle
    /\ UNCHANGED <<catalogs, created>>

\* Mutant: what was read is kept for the next purge.
LeavePurgeWithReading ==
    /\ purging.active
    /\ purging' = [purging EXCEPT !.active = FALSE]
    /\ UNCHANGED <<runs, jobs, catalogs, created>>

\* A check fails, the lock is taken, or the run was a preview: nothing is
\* deleted, the transaction is rolled back.
LeavePurge ==
    /\ purging.active
    /\ purging' = Idle
    /\ UNCHANGED <<runs, jobs, catalogs, created>>

Next ==
    \/ Recover
    \/ \E campaign \in BOOLEAN, quoted \in SUBSET Key, status \in {"running", "recent"},
          answer \in [Provider -> {"none", "clear", "cooling"}] :
          Collect(campaign, quoted, answer, status)
    \/ SaveCatalog \/ ClaimJob \/ EndJob
    \/ DayPasses \/ PeriodPasses
    \/ Prune
    \/ \E R, J \in SUBSET Row : BeginPurge(R, J)
    \/ Purge \/ LeavePurge

Spec == Init /\ [][Next]_vars

----------------------------------------------------------------------------
(* Every valuation that is kept still has the quote it rests on, with the
   run that fetched it, whatever was pruned or purged: the foreign keys
   never have to refuse a DELETE, and a report can always recompute. *)
EvidenceIsWhole ==
    \A r \in Row, k \in Key :
        LET v == runs[r].values[k]
        IN  v # 0 => Exists(v) /\ k \in runs[v].quoted

(* A prune changes nothing the service reads: the cache candidates of every
   key, the loaded listing, the job the refresh cooldown is counted from and
   the cooldowns of the sources. *)
PruneIsInvisible ==
    [][Prune => /\ \A k \in Key : Window(k)' = Window(k)
                /\ Loaded' = Loaded
                /\ LastJob' = LastJob
                /\ provider_cooldowns' = provider_cooldowns]_vars

(* A purge never lets the next refresh ignore a cooldown that is still in
   force, although it read the cooldowns before it had the lock and other
   collectors came in between. *)
CooldownSurvivesPurge ==
    [][Purge => provider_cooldowns \subseteq provider_cooldowns']_vars

=============================================================================
