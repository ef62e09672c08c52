--------------------------- MODULE ProviderPacing ---------------------------
(***************************************************************************)
(* How often a source is called: QuoteRunner.collect with its deadline,    *)
(* spacing, retries and cooldowns, and storage.provider_cooldowns, which   *)
(* rebuilds the cooldowns for the next runner from the saved attempts.     *)
(* What a call may return is defined in Sources.                           *)
(*                                                                         *)
(* There is one runner at a time (Collectors.tla).  Points in time are     *)
(* kept as the time left until them, 0 once they are past.  The clocks of  *)
(* the code are finer than a second, and so are the ticks of the model.    *)
(***************************************************************************)
EXTENDS Sources

CONSTANTS
    Provider,
    Second,             \* ticks in a second; every time below is in ticks
    Budgets,            \* times a cycle may be given
    OperationTimeout,   \* QuoteConfig.operation_timeout_seconds
    MaxAttempts,        \* QuoteConfig.max_retries + 1
    DefaultWait         \* the wait after a 429 that names none (60 s)

ASSUME PacingAssumption ==
    /\ {Second, OperationTimeout, MaxAttempts, DefaultWait} \subseteq Nat \ {0}
    /\ Budgets \subseteq Nat
    /\ None \notin Provider

VARIABLES
    phase,        \* where the runner is
    visit,        \* the provider being asked, and the attempt number
    due,          \* time left of the cycle's deadline
    left,         \* longest the present phase may last
    cooldown,     \* QuoteRunner.cooldown
    next_operation,   \* QuoteRunner.next_operation
    restored,     \* whether the runner was given the saved cooldowns
    saved,        \* the last completed attempt of each provider in the database
    asked,        \* what the providers asked of this runner (not in the code)
    promised      \* what the last answer of a provider asks of every runner, when
                  \* that was a 429 (not in the code)

runner == <<cooldown, next_operation, restored, asked>>
vars == <<phase, visit, due, left, runner, saved, promised>>

Instant == {"decide", "spaced", "waited"}
Timed   == {"spacing", "calling", "waiting"}
Phase   == {"off", "idle", "cycle"} \cup Instant \cup Timed

\* An attempt that is open in the database.
Open == phase \in {"decide", "spacing", "spaced", "calling"}

p == visit.provider
NoVisit == [provider |-> None, number |-> 0]
Nothing == [q \in Provider |-> 0]

Init ==
    /\ phase = "off" /\ visit = NoVisit /\ due = 0 /\ left = 0
    /\ cooldown = Nothing /\ next_operation = Nothing /\ restored = FALSE
    /\ saved = [q \in Provider |-> [status |-> "none", left |-> 0]]
    /\ asked = Nothing /\ promised = Nothing

-----------------------------------------------------------------------------
(* The database *)

\* finish_attempt: the attempt becomes the provider's last completed one.  Of a
\* status that nobody reads again only "other" is kept.
Save(q, status, wait) ==
    saved' = [saved EXCEPT ![q] = IF status = "rate_limited"
                                    THEN [status |-> status, left |-> wait]
                                    ELSE [status |-> "other", left |-> 0]]

\* provider_cooldowns looks at the last completed attempt of each provider only.
provider_cooldowns ==
    [q \in Provider |-> IF saved[q].status = "rate_limited" THEN saved[q].left ELSE 0]

-----------------------------------------------------------------------------
(* Runners and cycles *)

StartRunner(waits, again) ==
    /\ phase = "off"
    /\ phase' = "idle"
    /\ cooldown' = waits /\ restored' = again
    /\ next_operation' = Nothing /\ asked' = Nothing
    /\ UNCHANGED <<visit, due, left, saved, promised>>

\* quote: the runner knows nothing of earlier ones.
NewRunner == StartRunner(Nothing, FALSE)

\* monitor, and refresh for each of its batches: restore_cooldowns.
RestoredRunner == StartRunner(provider_cooldowns, TRUE)

BeginCycle ==
    /\ phase = "idle"
    /\ phase' = "cycle"
    /\ due' \in Budgets
    /\ UNCHANGED <<visit, left, runner, saved, promised>>

EndCycle ==
    /\ phase = "cycle"
    /\ phase' = "idle" /\ due' = 0
    /\ UNCHANGED <<visit, left, runner, saved, promised>>

Gone ==
    /\ phase' = "off" /\ visit' = NoVisit /\ due' = 0 /\ left' = 0
    /\ cooldown' = Nothing /\ next_operation' = Nothing
    /\ restored' = FALSE /\ asked' = Nothing

\* The runner is done with, or its process killed: an attempt that was open is
\* interrupted by the next recovery, without a completion time.
RunnerEnds ==
    /\ phase # "off"
    /\ Gone
    /\ UNCHANGED <<saved, promised>>

\* A stop request or an exception in a visit: run_cycle stops the cycle, which
\* completes the open attempt as interrupted.
CycleInterrupted ==
    /\ Open
    /\ Save(p, "other", 0)
    /\ Gone
    /\ UNCHANGED promised

-----------------------------------------------------------------------------
(* collect *)

\* start_attempt, for the next holding that provider q applies to.
Visit(q) ==
    /\ phase = "cycle"
    /\ phase' = "decide" /\ visit' = [provider |-> q, number |-> 1]
    /\ UNCHANGED <<due, left, runner, saved, promised>>

\* run_cycle records a holding it cannot resolve without asking anyone.
Unresolved(q) ==
    /\ phase = "cycle"
    /\ Save(q, "other", 0)
    /\ UNCHANGED <<phase, visit, due, left, runner, promised>>

VisitOver == phase' = "cycle" /\ visit' = NoVisit /\ left' = 0

\* Mutant: the deadline is not looked at again after the spacing.
OutOfBudgetAtFirst ==
    /\ phase = "decide" /\ due = 0
    /\ Save(p, "other", 0)
    /\ VisitOver
    /\ UNCHANGED <<due, runner, promised>>

\* The two ways to close an attempt without a call.
OutOfBudget ==
    /\ phase \in {"decide", "spaced"} /\ due = 0
    /\ Save(p, "other", 0)
    /\ VisitOver
    /\ UNCHANGED <<due, runner, promised>>

\* Mutant: a refusal is saved as if it asked for no more than a second.
OneSecond(q) == {Second}

\* What is saved of a refusal: at least a second, although the runner keeps its
\* cooldown as it was; and the default when the cooldown runs out between the two
\* looks at the clock.
Effective(q) ==
    {Max(Second, cooldown[q])} \cup (IF cooldown[q] = 1 THEN {DefaultWait} ELSE {})

CoolingDown ==
    /\ phase = "decide" /\ due > 0 /\ cooldown[p] > 0
    /\ \E wait \in Effective(p) : Save(p, "rate_limited", wait)
    /\ VisitOver
    /\ UNCHANGED <<due, runner, promised>>

SpaceOut ==
    /\ phase = "decide" /\ due > 0 /\ cooldown[p] = 0 /\ next_operation[p] > 0
    /\ phase' = "spacing" /\ left' = Min(next_operation[p], due)
    /\ UNCHANGED <<visit, due, runner, saved, promised>>

\* Mutant: the cooldown is not looked at before a call.
CallAnyway ==
    /\ due > 0
    /\ \/ phase = "decide" /\ next_operation[p] = 0
       \/ phase = "spaced"
    /\ phase' = "calling" /\ left' = Min(due, OperationTimeout)
    /\ next_operation' = [next_operation EXCEPT ![p] = Second]
    /\ UNCHANGED <<visit, due, cooldown, restored, saved, asked, promised>>

Call ==
    /\ due > 0
    /\ \/ phase = "decide" /\ cooldown[p] = 0 /\ next_operation[p] = 0
       \/ phase = "spaced"
    /\ phase' = "calling" /\ left' = Min(due, OperationTimeout)
    /\ next_operation' = [next_operation EXCEPT ![p] = Second]
    /\ UNCHANGED <<visit, due, cooldown, restored, saved, asked, promised>>

\* The wait before a retry, without the random part below a quarter second.
Backoff == Second * 2 ^ (visit.number - 1)

Retryable == {"timeout", "network_error", "rate_limited"}

\* A retry must be allowed by the status, the count and the deadline.
WorthRetry(status, delay) ==
    status \in Retryable /\ visit.number < MaxAttempts /\ delay < due

\* What fetch_one can return about source q.
Operations(q) == {fetch_one(q, r) : r \in Responses(q)}

\* An Operation arrives: a quote or an error.  Any error may carry a Retry-After,
\* also one of 0; a 429 without one asks for the default.
Answer(op) ==
    /\ phase = "calling"
    /\ LET wait  == IF op.status = "rate_limited" /\ op.retry_after = None
                      THEN DefaultWait ELSE op.retry_after
           known == IF wait = None THEN 0 ELSE wait
           delay == Max(known, Backoff)
       IN /\ Save(p, op.status, known)
          /\ cooldown' = IF wait = None THEN cooldown ELSE [cooldown EXCEPT ![p] = wait]
          /\ asked' = [asked EXCEPT ![p] = Max(@, known)]
          /\ promised' = [promised EXCEPT ![p] = IF op.status = "rate_limited" THEN known ELSE 0]
          /\ IF WorthRetry(op.status, delay)
               THEN phase' = "waiting" /\ left' = delay /\ UNCHANGED visit
               ELSE VisitOver
    /\ UNCHANGED <<due, next_operation, restored>>

\* start_attempt of the next number, after the whole delay.
Retry ==
    /\ phase = "waited"
    /\ phase' = "decide" /\ visit' = [visit EXCEPT !.number = @ + 1]
    /\ UNCHANGED <<due, left, runner, saved, promised>>

-----------------------------------------------------------------------------
Down(n) == IF n = 0 THEN 0 ELSE n - 1
AllDown(f) == [q \in Provider |-> Down(f[q])]

\* sleep() ends when its time is over; a call is cut off at its limit.
Tick ==
    /\ phase \notin Instant
    /\ phase \in Timed => left > 0
    /\ due' = Down(due) /\ left' = Down(left)
    /\ cooldown' = AllDown(cooldown) /\ next_operation' = AllDown(next_operation)
    /\ saved' = [q \in Provider |-> [saved[q] EXCEPT !.left = Down(@)]]
    /\ asked' = AllDown(asked) /\ promised' = AllDown(promised)
    /\ UNCHANGED <<phase, visit, restored>>

Awake ==
    /\ phase \in {"spacing", "waiting"} /\ left = 0
    /\ phase' = IF phase = "spacing" THEN "spaced" ELSE "waited"
    /\ UNCHANGED <<visit, due, left, runner, saved, promised>>

Collect ==
    \/ OutOfBudget \/ CoolingDown \/ SpaceOut \/ Call \/ Retry \/ Awake
    \/ phase = "calling" /\ \E op \in Operations(p) : Answer(op)

Next ==
    \/ Tick \/ NewRunner \/ RestoredRunner \/ RunnerEnds
    \/ BeginCycle \/ EndCycle \/ CycleInterrupted
    \/ \E q \in Provider : Visit(q) \/ Unresolved(q)
    \/ Collect

Spec == Init /\ [][Next]_vars

FairSpec == Spec /\ WF_vars(Tick) /\ WF_vars(Collect)
-----------------------------------------------------------------------------
(* Properties *)

\* The longest wait that can be asked for, or is assumed.
LongestWait == Max(Longest, Max(DefaultWait, Second))

\* Types; no source, whatever its header says, is left alone for longer than the
\* longest wait that is believed.
TypeOK ==
    /\ phase \in Phase
    /\ visit \in [provider : Provider \cup {None}, number : 0..MaxAttempts]
    /\ {due, left} \subseteq Nat
    /\ \A f \in {cooldown, asked, promised} : f \in [Provider -> 0..LongestWait]
    /\ next_operation \in [Provider -> 0..Second]
    /\ restored \in BOOLEAN

Calling == phase # "calling" /\ phase' = "calling"

\* A runner never calls a source before the longest wait that source asked of it
\* is over, although a later answer overwrites the cooldown.
RunnerHonoursWaits == [][Calling => asked[p] = 0]_vars

\* A runner that was given the saved cooldowns, of monitor or refresh, calls no
\* source while that source's last answer, a 429 to this or an earlier runner, of
\* quote also, still asks to wait, unless an attempt of another status is the last
\* one completed: however many refusals were saved over the 429 since, and
\* whatever crashed in between.
LastCooldownHolds ==
    [][Calling /\ restored /\ saved[p].status = "rate_limited" => promised[p] = 0]_vars

\* A visit to a source always ends.
VisitEnds == phase \in Instant \cup Timed ~> phase \in {"off", "cycle"}

\* "The cooldown carries over across cycles and restarts" (architecture.md, on the
\* last rate_limited attempt of each source, which the monitor loads as it starts):
\* such a runner calls no source whose last answer was a 429 that still asks to wait.
CooldownOutlivesRunner == [][Calling /\ restored => promised[p] = 0]_vars

=============================================================================
