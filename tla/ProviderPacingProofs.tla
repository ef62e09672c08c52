------------------------ MODULE ProviderPacingProofs ------------------------
(* No source is called before the wait it asked for is over: proved for any   *)
(* sources, headers, budgets and times.                                       *)
EXTENDS ProviderPacing, TLAPS

-----------------------------------------------------------------------------
(* Why the properties hold: the inductive invariant.                          *)

(* The phases outside a visit.                                                *)
Between == {"off", "idle", "cycle"}

(* The type of what is saved.                                                 *)
SavedType ==
    saved \in [Provider -> [status : {"none", "rate_limited", "other"}, left : 0..LongestWait]]

(* Outside a visit nobody is asked; a visit waits only for an attempt it may  *)
(* still make.                                                                *)
VisitFits ==
    /\ phase \in Between => visit = NoVisit
    /\ phase \notin Between => p \in Provider /\ visit.number \in 1..MaxAttempts
    /\ phase \in {"waiting", "waited"} => visit.number < MaxAttempts

(* A saved 429 or refusal covers what the source asked with its last answer,  *)
(* and is never shorter for having been rounded.                              *)
SavedCovers ==
    \A q \in Provider : saved[q].status = "rate_limited" => promised[q] <= saved[q].left

(* The runner's cooldown covers what the source asked of this runner; while   *)
(* it lasts, what the source's last answer asks; and when the saved cooldowns *)
(* were restored, that also as long as a 429 or a refusal is saved last.      *)
CooldownCovers ==
    \A q \in Provider :
       /\ asked[q] <= cooldown[q]
       /\ cooldown[q] > 0 => promised[q] <= cooldown[q]
       /\ restored /\ saved[q].status = "rate_limited" => promised[q] <= cooldown[q]

(* The cooldown was over when the visit went on to its spacing, and none has  *)
(* begun since.                                                               *)
NoCooldown == phase \in {"spacing", "spaced", "calling"} => cooldown[p] = 0

(* The inductive invariant.                                                   *)
PacingInv == TypeOK /\ SavedType /\ VisitFits /\ SavedCovers /\ CooldownCovers /\ NoCooldown

-----------------------------------------------------------------------------

(* The waits a source can ask for, with none.                                 *)
Waits == 0..LongestWait

(* The values of visit.                                                       *)
VisitRow == [provider : Provider \cup {None}, number : 0..MaxAttempts]

(* The times and numbers are what they should be.                             *)
LEMMA Numbers ==
    /\ {Longest, DefaultWait, Second, 0} \subseteq Waits /\ LongestWait \in Nat
    /\ DefaultWait > 0 /\ Second \in Nat \ {0} /\ Budgets \subseteq Nat
    /\ OperationTimeout \in Nat /\ MaxAttempts \in Nat \ {0} /\ None \notin Int
BY PacingAssumption, SourceAssumption DEF Waits, LongestWait, Max

-----------------------------------------------------------------------------
(* What a call can ask for *)

(* retry_after believes no more than the longest wait, and nothing below 0.   *)
LEMMA HeadersAreBelieved ==
    ASSUME NEW header \in Headers \cup {None}
    PROVE  retry_after(header) \in Waits \cup {None}
BY SourceAssumption, Numbers DEF retry_after, Waits, LongestWait, Max, Min

(* An operation asks for no wait, or for one that is believed.                *)
LEMMA OperationsAsk ==
    ASSUME NEW q, NEW op \in Operations(q)
    PROVE  op.retry_after \in Waits \cup {None}
<1>1. PICK r \in Responses(q) : op = fetch_one(q, r)
    BY DEF Operations
<1>2. r.kind = "refused" => r.header \in Headers \cup {None}
    BY DEF Responses, Refusals, Payloads, Exceptions
<1>3. worker(q, r).retry_after \in Waits \cup {None}
  <2>1. CASE r.kind = "refused"
    <3>1. worker(q, r).retry_after = retry_after(r.header)
        BY <2>1 DEF worker, Worker
    <3> QED BY <1>2, <2>1, <3>1, HeadersAreBelieved
  <2>2. CASE r.kind # "refused"
    <3>1. worker(q, r).retry_after = None
        BY <2>2 DEF worker, Worker
    <3> QED BY <3>1
  <2> QED BY <2>1, <2>2
<1>4. op.retry_after \in {None, worker(q, r).retry_after}
  <2>1. CASE r.kind = "late" \/ r.kind = "died"
      BY <1>1, <2>1 DEF fetch_one, Worker
  <2>2. CASE r.kind = "payload" /\ worker(q, r).status = "success"
      BY <1>1, <2>2 DEF fetch_one, Worker
  <2>3. CASE /\ r.kind \notin {"late", "died"}
             /\ ~(r.kind = "payload" /\ worker(q, r).status = "success")
      BY <1>1, <2>3 DEF fetch_one
  <2> QED BY <2>1, <2>2, <2>3
<1> QED BY <1>3, <1>4

-----------------------------------------------------------------------------
(* The types, one variable each.                                              *)
LEMMA PacingTypes ==
    ASSUME PacingInv
    PROVE  /\ phase \in Phase /\ visit \in VisitRow
           /\ due \in Nat /\ left \in Nat
           /\ cooldown \in [Provider -> Waits] /\ asked \in [Provider -> Waits]
           /\ promised \in [Provider -> Waits] /\ next_operation \in [Provider -> 0..Second]
           /\ restored \in BOOLEAN
           /\ \A q \in Provider : saved[q].left \in Waits
BY DEF PacingInv, TypeOK, SavedType, Waits, VisitRow

(* The types hold after a step that keeps those of its parts.                 *)
LEMMA TypesOfNext ==
    ASSUME phase' \in Phase, visit' \in VisitRow,
           due' \in Nat, left' \in Nat,
           cooldown' \in [Provider -> Waits], asked' \in [Provider -> Waits],
           promised' \in [Provider -> Waits], next_operation' \in [Provider -> 0..Second],
           restored' \in BOOLEAN
    PROVE  TypeOK'
BY DEF TypeOK, Waits, VisitRow

(* No visit is a visit's value.                                               *)
LEMMA NoVisitType == NoVisit \in VisitRow
BY Numbers DEF NoVisit, VisitRow

(* The invariant holds before the first runner.                               *)
LEMMA InitPacing == Init => PacingInv
<1> SUFFICES ASSUME Init PROVE PacingInv
    OBVIOUS
<1> USE Numbers DEF Init
<1>1. Nothing \in [Provider -> Waits] /\ Nothing \in [Provider -> 0..Second]
    BY DEF Nothing
<1>2. TypeOK
  <2>1. /\ phase \in Phase /\ visit \in VisitRow /\ due \in Nat /\ left \in Nat
        /\ restored \in BOOLEAN
      BY NoVisitType DEF Phase
  <2> QED BY <1>1, <2>1 DEF TypeOK, Waits, VisitRow
<1>3. SavedType
    BY DEF SavedType, Waits
<1>4. VisitFits /\ SavedCovers /\ CooldownCovers /\ NoCooldown
    BY DEF VisitFits, SavedCovers, CooldownCovers, NoCooldown, Between, Nothing
<1> QED BY <1>2, <1>3, <1>4 DEF PacingInv

(* finish_attempt, with a wait that is believed. *)
LEMMA Saved ==
    ASSUME PacingInv, NEW q \in Provider, NEW status, NEW wait \in Waits, Save(q, status, wait)
    PROVE  /\ SavedType'
           /\ \A r \in Provider \ {q} : saved'[r] = saved[r]
           /\ saved'[q].status = "rate_limited" => status = "rate_limited" /\ saved'[q].left = wait
<1> DEFINE row == IF status = "rate_limited" THEN [status |-> status, left |-> wait]
                  ELSE [status |-> "other", left |-> 0]
           Row == [status : {"none", "rate_limited", "other"}, left : Waits]
<1>1. row \in Row /\ (row.status = "rate_limited" => status = "rate_limited" /\ row.left = wait)
    BY Numbers
<1>2. saved \in [Provider -> Row]
    BY DEF PacingInv, SavedType, Waits
<1>3. saved' = [saved EXCEPT ![q] = row]
    BY DEF Save
<1> HIDE DEF row, Row
<1>4. saved' \in [Provider -> Row] /\ saved'[q] = row
      /\ \A r \in Provider \ {q} : saved'[r] = saved[r]
    BY <1>1, <1>2, <1>3
<1>5. SavedType'
    BY <1>4 DEF SavedType, Waits, Row
<1> QED BY <1>1, <1>4, <1>5

(* An attempt saved without an answer promises no less, and restores what it    *)
(* did: a refusal asks for what is left of the cooldown, or more.               *)
LEMMA SaveKeeps ==
    ASSUME PacingInv, NEW q \in Provider, NEW status, NEW wait \in Waits, Save(q, status, wait),
           UNCHANGED <<runner, promised>>,
           status = "rate_limited" => cooldown[q] > 0 /\ cooldown[q] <= wait
    PROVE  SavedType' /\ SavedCovers' /\ CooldownCovers'
<1>1. SavedType' /\ (\A r \in Provider \ {q} : saved'[r] = saved[r])
      /\ (saved'[q].status = "rate_limited" => status = "rate_limited" /\ saved'[q].left = wait)
    BY Saved
<1>2. UNCHANGED <<cooldown, restored, asked, promised>>
    BY DEF runner
<1>3. status = "rate_limited" => promised[q] <= cooldown[q] /\ promised[q] <= wait
    BY PacingTypes DEF PacingInv, CooldownCovers, Waits
<1>4. SavedCovers'
    BY <1>1, <1>2, <1>3 DEF PacingInv, SavedCovers
<1>5. CooldownCovers'
    BY <1>1, <1>2, <1>3 DEF PacingInv, CooldownCovers
<1> QED BY <1>1, <1>4, <1>5

-----------------------------------------------------------------------------

(* The end of a visit without a call keeps the invariant.                     *)
LEMMA VisitOverInv ==
    ASSUME PacingInv, phase \notin Between, NEW status, NEW wait \in Waits,
           Save(p, status, wait), VisitOver, UNCHANGED <<due, runner, promised>>,
           status = "rate_limited" => cooldown[p] > 0 /\ cooldown[p] <= wait
    PROVE  PacingInv'
<1>1. p \in Provider
    BY DEF PacingInv, VisitFits, Between
<1>2. SavedType' /\ SavedCovers' /\ CooldownCovers'
    BY <1>1, SaveKeeps
<1>3. TypeOK'
    BY PacingTypes, TypesOfNext, NoVisitType, Numbers DEF VisitOver, Phase, runner
<1>4. VisitFits' /\ NoCooldown'
    BY DEF VisitOver, VisitFits, NoCooldown, Between
<1> QED BY <1>2, <1>3, <1>4 DEF PacingInv

(* Nothing is saved, and no cooldown begins: only the visit moves on. *)
LEMMA MoveInv ==
    ASSUME PacingInv, UNCHANGED <<cooldown, restored, saved, asked, promised>>, phase # "off",
           phase' \in Phase \ {"off"}, due' \in Nat, left' \in Nat,
           next_operation' \in [Provider -> 0..Second],
           phase' \in Between => visit' = NoVisit,
           phase' \notin Between => /\ visit'.provider \in Provider
                                    /\ visit'.number \in 1..MaxAttempts,
           visit' \in VisitRow,
           phase' \in {"waiting", "waited"} => visit'.number < MaxAttempts,
           phase' \in {"spacing", "spaced", "calling"} => cooldown[visit'.provider] = 0
    PROVE  PacingInv'
<1>1. TypeOK'
    BY PacingTypes, TypesOfNext
<1>2. SavedType' /\ SavedCovers' /\ CooldownCovers'
    BY DEF PacingInv, SavedType, SavedCovers, CooldownCovers
<1>3. VisitFits' /\ NoCooldown'
    BY DEF VisitFits, NoCooldown, p
<1> QED BY <1>1, <1>2, <1>3 DEF PacingInv

(* The runner is gone, and all it kept in memory. *)
LEMMA GoneInv ==
    ASSUME PacingInv, Gone, SavedType', SavedCovers', UNCHANGED promised
    PROVE  PacingInv'
<1>1. Nothing \in [Provider -> Waits] /\ Nothing \in [Provider -> 0..Second]
    BY Numbers DEF Nothing
<1>2. TypeOK'
    BY <1>1, Numbers, PacingTypes, TypesOfNext, NoVisitType DEF Gone, Phase
<1>3. CooldownCovers'
    BY DEF Gone, CooldownCovers, Nothing
<1>4. VisitFits' /\ NoCooldown'
    BY DEF Gone, VisitFits, NoCooldown, Between
<1> QED BY <1>2, <1>3, <1>4 DEF PacingInv

(* A new runner knows nothing, or what the saved attempts ask.                *)
LEMMA StartRunnerInv ==
    ASSUME PacingInv, NEW again \in BOOLEAN, NEW waits \in [Provider -> Waits],
           StartRunner(waits, again),
           \A q \in Provider : waits[q] > 0 => promised[q] <= waits[q],
           again => \A q \in Provider :
                       saved[q].status = "rate_limited" => promised[q] <= waits[q]
    PROVE  PacingInv'
<1>1. visit' = NoVisit /\ phase' = "idle"
    BY DEF StartRunner, PacingInv, VisitFits, Between
<1>2. Nothing \in [Provider -> Waits] /\ Nothing \in [Provider -> 0..Second]
    BY Numbers DEF Nothing
<1>3. TypeOK'
    BY <1>1, <1>2, PacingTypes, TypesOfNext, NoVisitType, Numbers DEF StartRunner, Phase
<1>4. SavedType' /\ SavedCovers'
    BY DEF StartRunner, PacingInv, SavedType, SavedCovers
<1>5. CooldownCovers'
    BY DEF StartRunner, CooldownCovers, Nothing, Waits
<1>6. VisitFits' /\ NoCooldown'
    BY <1>1 DEF VisitFits, NoCooldown, Between
<1> QED BY <1>3, <1>4, <1>5, <1>6 DEF PacingInv

(* quote: nothing is known, and nothing promised of it.                       *)
LEMMA NewRunnerInv ==
    ASSUME PacingInv, NewRunner
    PROVE  PacingInv'
<1>1. Nothing \in [Provider -> Waits] /\ \A q \in Provider : ~(Nothing[q] > 0)
    BY Numbers DEF Nothing
<1> QED BY <1>1, StartRunnerInv DEF NewRunner

(* provider_cooldowns covers what is promised of the sources whose 429 or     *)
(* refusal was saved last.                                                    *)
LEMMA RestoredRunnerInv ==
    ASSUME PacingInv, RestoredRunner
    PROVE  PacingInv'
<1>1. provider_cooldowns \in [Provider -> Waits]
    BY PacingTypes, Numbers DEF provider_cooldowns
<1>2. ASSUME NEW q \in Provider
      PROVE  /\ provider_cooldowns[q] > 0 => saved[q].status = "rate_limited"
             /\ saved[q].status = "rate_limited" => promised[q] <= provider_cooldowns[q]
  <2>1. provider_cooldowns[q] = IF saved[q].status = "rate_limited" THEN saved[q].left ELSE 0
      BY DEF provider_cooldowns
  <2> QED BY <2>1 DEF PacingInv, SavedCovers
<1> QED BY <1>1, <1>2, StartRunnerInv DEF RestoredRunner

(* An answer: whatever it asks for becomes the cooldown, which was over.      *)
LEMMA AnswerInv ==
    ASSUME PacingInv, NEW op \in Operations(p), Answer(op)
    PROVE  PacingInv'
<1> DEFINE wait  == IF op.status = "rate_limited" /\ op.retry_after = None
                      THEN DefaultWait ELSE op.retry_after
           known == IF wait = None THEN 0 ELSE wait
           delay == Max(known, Backoff)
<1>1. /\ p \in Provider /\ visit.number \in 1..MaxAttempts /\ cooldown[p] = 0
    BY DEF Answer, PacingInv, VisitFits, NoCooldown, Between
<1>2. asked[p] = 0
    BY <1>1, PacingTypes DEF PacingInv, CooldownCovers, Waits
<1>3. wait \in Waits \cup {None} /\ known \in Waits /\ (op.status = "rate_limited" => wait \in Waits)
    BY OperationsAsk, Numbers DEF Waits
<1>4. /\ phase = "calling" /\ Save(p, op.status, known)
      /\ cooldown' = IF wait = None THEN cooldown ELSE [cooldown EXCEPT ![p] = wait]
      /\ asked' = [asked EXCEPT ![p] = Max(asked[p], known)]
      /\ promised' = [promised EXCEPT ![p] = IF op.status = "rate_limited" THEN known ELSE 0]
      /\ IF WorthRetry(op.status, delay)
           THEN phase' = "waiting" /\ left' = delay /\ UNCHANGED visit
           ELSE VisitOver
      /\ UNCHANGED <<due, next_operation, restored>>
    BY DEF Answer
<1>5. delay \in Nat
  <2>1. Backoff \in Int
    <3>1. 2 ^ (visit.number - 1) \in Int
        BY <1>1, Numbers
    <3> QED BY <3>1, Numbers DEF Backoff
  <2>2. known \in Nat
      BY <1>3 DEF Waits
  <2> HIDE DEF known
  <2> QED BY <2>1, <2>2 DEF Max
<1> HIDE DEF delay
<1>6. SavedType'
      /\ (\A q \in Provider \ {p} : saved'[q] = saved[q])
      /\ (saved'[p].status = "rate_limited" => op.status = "rate_limited" /\ saved'[p].left = known)
    BY <1>1, <1>3, <1>4, Saved
<1> HIDE DEF wait
<1>7. /\ cooldown' \in [Provider -> Waits] /\ \A q \in Provider \ {p} : cooldown'[q] = cooldown[q]
      /\ cooldown'[p] = known
    BY <1>1, <1>3, <1>4, PacingTypes
<1> HIDE DEF known
<1>8. /\ asked' \in [Provider -> Waits] /\ \A q \in Provider \ {p} : asked'[q] = asked[q]
      /\ asked'[p] = known
  <2>1. Max(asked[p], known) = known
      BY <1>2, <1>3 DEF Max, Waits
  <2> QED BY <1>1, <1>3, <1>4, <2>1, PacingTypes
<1>9. /\ promised' \in [Provider -> Waits]
      /\ \A q \in Provider \ {p} : promised'[q] = promised[q]
      /\ promised'[p] <= known
    BY <1>1, <1>3, <1>4, PacingTypes, Numbers DEF Waits
<1>10. SavedCovers' /\ CooldownCovers'
  <2>1. PICK q \in Provider : q = p
      BY <1>1
  <2>2. \A r \in Provider \ {q} : /\ asked'[r] = asked[r] /\ cooldown'[r] = cooldown[r]
                                  /\ saved'[r] = saved[r] /\ promised'[r] = promised[r]
      BY <1>6, <1>7, <1>8, <1>9, <2>1
  <2>3. asked'[q] = known /\ cooldown'[q] = known /\ promised'[q] <= known
        /\ (saved'[q].status = "rate_limited" => saved'[q].left = known)
      BY <1>6, <1>7, <1>8, <1>9, <2>1
  <2>4. SavedCovers'
      BY <1>3, <2>2, <2>3 DEF PacingInv, SavedCovers, Waits
  <2>5. CooldownCovers'
      BY <1>3, <1>4, <2>2, <2>3 DEF PacingInv, CooldownCovers, Waits
  <2> QED BY <2>4, <2>5
<1>11. CASE WorthRetry(op.status, delay)
  <2>1. phase' = "waiting" /\ left' \in Nat /\ visit' = visit /\ visit.number < MaxAttempts
      BY <1>4, <1>5, <1>11 DEF WorthRetry
  <2>2. TypeOK'
      BY <1>4, <1>7, <1>8, <1>9, <2>1, PacingTypes, TypesOfNext DEF Phase, Timed
  <2>3. VisitFits' /\ NoCooldown'
      BY <1>1, <2>1 DEF VisitFits, NoCooldown, Between, p
  <2> QED BY <1>6, <1>10, <2>2, <2>3 DEF PacingInv
<1>12. CASE ~WorthRetry(op.status, delay)
  <2>1. VisitOver
      BY <1>4, <1>12
  <2>2. TypeOK'
      BY <1>4, <1>7, <1>8, <1>9, <2>1, PacingTypes, TypesOfNext, NoVisitType, Numbers
         DEF VisitOver, Phase
  <2>3. VisitFits' /\ NoCooldown'
      BY <2>1 DEF VisitOver, VisitFits, NoCooldown, Between
  <2> QED BY <1>6, <1>10, <2>2, <2>3 DEF PacingInv
<1> QED BY <1>11, <1>12

(* All waits pass alike. *)
LEMMA TickInv ==
    ASSUME PacingInv, Tick
    PROVE  PacingInv'
<1>1. \A n \in Nat : Down(n) \in Nat /\ Down(n) <= n
    BY DEF Down
<1>2. \A n \in Waits : Down(n) \in Waits
    BY Numbers DEF Down, Waits
<1>3. \A m, n \in Nat : m <= n => Down(m) <= Down(n)
    BY DEF Down
<1>4. ASSUME NEW f \in [Provider -> Waits] PROVE AllDown(f) \in [Provider -> Waits]
    BY <1>2 DEF AllDown
<1>5. AllDown(next_operation) \in [Provider -> 0..Second]
  <2>1. \A n \in 0..Second : Down(n) \in 0..Second
      BY Numbers DEF Down
  <2> QED BY <2>1, PacingTypes DEF AllDown
<1>6. TypeOK'
  <2>1. cooldown \in [Provider -> Waits] /\ asked \in [Provider -> Waits]
        /\ promised \in [Provider -> Waits]
      BY PacingTypes
  <2>2. /\ AllDown(cooldown) \in [Provider -> Waits] /\ AllDown(asked) \in [Provider -> Waits]
        /\ AllDown(promised) \in [Provider -> Waits]
      BY <1>4, <2>1
  <2>3. Down(due) \in Nat /\ Down(left) \in Nat
      BY <1>1, PacingTypes
  <2> QED BY <1>5, <2>2, <2>3, PacingTypes, TypesOfNext DEF Tick
<1>7. \A q \in Provider : /\ saved'[q].status = saved[q].status
                          /\ saved'[q].left = Down(saved[q].left)
                          /\ saved'[q] \in [status : {"none", "rate_limited", "other"},
                                            left : Waits]
  <2> SUFFICES ASSUME NEW q \in Provider
               PROVE  /\ saved'[q].status = saved[q].status
                      /\ saved'[q].left = Down(saved[q].left)
                      /\ saved'[q] \in [status : {"none", "rate_limited", "other"}, left : Waits]
      OBVIOUS
  <2>1. saved[q] \in [status : {"none", "rate_limited", "other"}, left : Waits]
      BY DEF PacingInv, SavedType, Waits
  <2>2. saved'[q] = [saved[q] EXCEPT !.left = Down(saved[q].left)]
      BY DEF Tick
  <2>3. Down(saved[q].left) \in Waits
      BY <1>2, <2>1
  <2> QED BY <2>1, <2>2, <2>3
<1>8. SavedType'
  <2>1. saved' = [q \in Provider |-> saved'[q]]
      BY DEF Tick
  <2> QED BY <1>7, <2>1 DEF SavedType, Waits
<1>9. SavedCovers' /\ CooldownCovers'
  <2> SUFFICES ASSUME NEW q \in Provider
               PROVE  /\ saved'[q].status = "rate_limited" => promised'[q] <= saved'[q].left
                      /\ asked'[q] <= cooldown'[q]
                      /\ cooldown'[q] > 0 => promised'[q] <= cooldown'[q]
                      /\ restored' /\ saved'[q].status = "rate_limited"
                           => promised'[q] <= cooldown'[q]
      BY DEF SavedCovers, CooldownCovers
  <2>1. /\ asked'[q] = Down(asked[q]) /\ cooldown'[q] = Down(cooldown[q])
        /\ promised'[q] = Down(promised[q]) /\ restored' = restored
      BY DEF Tick, AllDown
  <2>2. {asked[q], cooldown[q], promised[q], saved[q].left} \subseteq Nat
      BY PacingTypes DEF Waits
  <2>3. Down(cooldown[q]) > 0 => cooldown[q] > 0
      BY <2>2 DEF Down
  <2>4. /\ saved[q].status = "rate_limited" => promised[q] <= saved[q].left
        /\ asked[q] <= cooldown[q] /\ (cooldown[q] > 0 => promised[q] <= cooldown[q])
        /\ restored /\ saved[q].status = "rate_limited" => promised[q] <= cooldown[q]
      BY DEF PacingInv, SavedCovers, CooldownCovers
  <2> QED BY <1>3, <1>7, <2>1, <2>2, <2>3, <2>4
<1>10. VisitFits'
    BY DEF Tick, PacingInv, VisitFits, p
<1>11. NoCooldown'
  <2> SUFFICES ASSUME phase' \in {"spacing", "spaced", "calling"}
               PROVE  cooldown'[visit'.provider] = 0
      BY DEF NoCooldown, p
  <2>1. visit' = visit /\ phase' = phase
      BY DEF Tick
  <2>2. visit.provider \in Provider /\ cooldown[visit.provider] = 0
      BY <2>1 DEF PacingInv, VisitFits, NoCooldown, Between, p
  <2> QED BY <2>1, <2>2 DEF Tick, AllDown, Down
<1> QED BY <1>6, <1>8, <1>9, <1>10, <1>11 DEF PacingInv

(* The invariant is inductive.                                                *)
LEMMA NextPacing == PacingInv /\ [Next]_vars => PacingInv'
<1> SUFFICES ASSUME PacingInv, [Next]_vars PROVE PacingInv'
    OBVIOUS
<1>1. /\ phase \in Between => visit = NoVisit
      /\ phase \notin Between => p \in Provider /\ visit.number \in 1..MaxAttempts
      /\ phase \in {"waiting", "waited"} => visit.number < MaxAttempts
      /\ phase \in {"spacing", "spaced", "calling"} => cooldown[p] = 0
    BY DEF PacingInv, VisitFits, NoCooldown
<1>2. CASE UNCHANGED vars
  <2>1. UNCHANGED p
      BY <1>2 DEF vars, p
  <2> QED BY <1>2, <2>1 DEF vars, runner, PacingInv, TypeOK, SavedType, VisitFits,
         SavedCovers, CooldownCovers, NoCooldown
<1>3. CASE NewRunner \/ RestoredRunner
    BY <1>3, NewRunnerInv, RestoredRunnerInv
<1>4. CASE BeginCycle
    BY <1>1, <1>4, MoveInv, PacingTypes, Numbers DEF BeginCycle, runner, Phase, Between
<1>5. CASE EndCycle
    BY <1>1, <1>5, MoveInv, PacingTypes DEF EndCycle, runner, Phase, Between
<1>6. CASE RunnerEnds
  <2>1. SavedType' /\ SavedCovers'
      BY <1>6 DEF RunnerEnds, PacingInv, SavedType, SavedCovers
  <2> QED BY <1>6, <2>1, GoneInv DEF RunnerEnds
<1>7. CASE CycleInterrupted
  <2>1. p \in Provider /\ Save(p, "other", 0) /\ Gone /\ UNCHANGED promised
      BY <1>1, <1>7 DEF CycleInterrupted, Open, Between
  <2>2. SavedType' /\ saved'[p].status # "rate_limited"
        /\ \A q \in Provider \ {p} : saved'[q] = saved[q]
      BY <2>1, Saved, Numbers
  <2>3. SavedCovers'
      BY <2>1, <2>2 DEF PacingInv, SavedCovers
  <2> QED BY <2>1, <2>2, <2>3, GoneInv
<1>8. ASSUME NEW q \in Provider, Visit(q) PROVE PacingInv'
  <2>1. /\ phase' = "decide" /\ visit' = [provider |-> q, number |-> 1]
        /\ UNCHANGED <<due, left, cooldown, next_operation, restored, saved, asked, promised>>
        /\ phase = "cycle"
      BY <1>8 DEF Visit, runner
  <2>2. visit' \in VisitRow /\ visit'.provider = q /\ visit'.number = 1
      BY <2>1, Numbers DEF VisitRow
  <2> QED BY <2>1, <2>2, MoveInv, PacingTypes, Numbers DEF Phase, Instant, Between
<1>9. ASSUME NEW q \in Provider, Unresolved(q) PROVE PacingInv'
  <2>1. /\ Save(q, "other", 0) /\ phase = "cycle"
        /\ UNCHANGED <<phase, visit, due, left, runner, promised>>
      BY <1>9 DEF Unresolved
  <2>2. SavedType' /\ SavedCovers' /\ CooldownCovers'
      BY <2>1, SaveKeeps, Numbers
  <2>3. TypeOK'
      BY <2>1, PacingTypes, TypesOfNext DEF runner
  <2>4. VisitFits' /\ NoCooldown'
      BY <1>1, <2>1 DEF VisitFits, NoCooldown, p, Between
  <2> QED BY <2>2, <2>3, <2>4 DEF PacingInv
<1>10. CASE OutOfBudget
    BY <1>10, VisitOverInv, Numbers DEF OutOfBudget, Between
<1>11. CASE CoolingDown
  <2>1. cooldown[p] \in Waits /\ cooldown[p] > 0
      BY <1>1, <1>11, PacingTypes DEF CoolingDown, Between
  <2>2. PICK wait \in Effective(p) : Save(p, "rate_limited", wait)
      BY <1>11 DEF CoolingDown
  <2>3. Max(Second, cooldown[p]) \in Waits /\ cooldown[p] <= Max(Second, cooldown[p])
      BY <2>1, Numbers DEF Max, Waits
  <2>4. wait = Max(Second, cooldown[p]) \/ (wait = DefaultWait /\ cooldown[p] = 1)
      BY DEF Effective
  <2>5. wait \in Waits /\ cooldown[p] <= wait
      BY <2>3, <2>4, Numbers DEF Waits
  <2> QED BY <1>11, <2>1, <2>2, <2>5, VisitOverInv DEF CoolingDown, Between
<1>12. CASE SpaceOut
  <2>1. Min(next_operation[p], due) \in Nat
      BY <1>1, <1>12, PacingTypes DEF SpaceOut, Min, Between
  <2> QED BY <1>1, <1>12, <2>1, MoveInv, PacingTypes
         DEF SpaceOut, runner, Phase, Timed, Between, p
<1>13. CASE Call
  <2>1. Min(due, OperationTimeout) \in Nat
      BY PacingTypes, Numbers DEF Min
  <2>2. next_operation' \in [Provider -> 0..Second]
    <3>1. next_operation' = [next_operation EXCEPT ![p] = Second]
        BY <1>13 DEF Call
    <3>2. next_operation \in [Provider -> 0..Second] /\ Second \in 0..Second
        BY PacingTypes, Numbers
    <3> QED BY <3>1, <3>2
  <2>3. phase \in {"decide", "spaced"} /\ cooldown[p] = 0
      BY <1>1, <1>13 DEF Call
  <2>4. /\ phase' = "calling" /\ left' \in Nat /\ UNCHANGED <<visit, due>>
        /\ UNCHANGED <<cooldown, restored, saved, asked, promised>>
      BY <1>13, <2>1 DEF Call
  <2> QED BY <1>1, <2>2, <2>3, <2>4, MoveInv, PacingTypes DEF Phase, Timed, Between, p
<1>14. CASE Retry
  <2>1. /\ phase = "waited" /\ phase' = "decide" /\ visit' = [visit EXCEPT !.number = @ + 1]
        /\ UNCHANGED <<due, left, cooldown, next_operation, restored, saved, asked, promised>>
      BY <1>14 DEF Retry, runner
  <2>2. visit'.provider \in Provider /\ visit'.number \in 1..MaxAttempts /\ visit' \in VisitRow
      BY <1>1, <2>1, PacingTypes, Numbers DEF Between, p, VisitRow
  <2> QED BY <2>1, <2>2, MoveInv, PacingTypes DEF Phase, Instant, Between
<1>15. CASE Awake
    BY <1>1, <1>15, MoveInv, PacingTypes DEF Awake, runner, Phase, Instant, Between, p
<1>16. ASSUME NEW op \in Operations(p), Answer(op) PROVE PacingInv'
    BY <1>16, AnswerInv
<1>17. CASE Tick
    BY <1>17, TickInv
<1> QED BY <1>2, <1>3, <1>4, <1>5, <1>6, <1>7, <1>8, <1>9, <1>10, <1>11, <1>12, <1>13, <1>14,
           <1>15, <1>16, <1>17 DEF Next, Collect

(* Through every runner, cycle, retry and crash: a runner's cooldowns cover     *)
(* what the sources asked of it, what is saved of a 429 or a refusal covers     *)
(* what the source's last answer asks, and so do the cooldowns of a runner that *)
(* restored it, but not those of a quote, which restores nothing.               *)
THEOREM PacingIsKept == Spec => []PacingInv
<1>1. Init => PacingInv
    BY InitPacing
<1>2. PacingInv /\ [Next]_vars => PacingInv'
    BY NextPacing
<1> QED BY <1>1, <1>2, PTL DEF Spec

(* Types; no source is left alone for longer than the longest wait that is     *)
(* believed, whatever its header says.                                         *)
THEOREM PacingTypeCorrect == Spec => []TypeOK
<1>1. PacingInv => TypeOK
    BY DEF PacingInv
<1> QED BY <1>1, PacingIsKept, PTL

(* The step that begins a call finds the cooldown of its source over. *)
LEMMA CallsWithoutCooldown ==
    ASSUME PacingInv, [Next]_vars, Calling
    PROVE  p \in Provider /\ cooldown[p] = 0
<1>1. Call
    BY DEF Calling, Next, vars, NewRunner, RestoredRunner, StartRunner, BeginCycle, EndCycle,
           RunnerEnds, CycleInterrupted, Gone, Visit, Unresolved, Collect, OutOfBudget, CoolingDown, SpaceOut, VisitOver, Retry, Awake,
           Answer, Tick
<1> QED BY <1>1 DEF Call, PacingInv, VisitFits, NoCooldown, Between

(* A runner never calls a source before the longest wait that source asked of  *)
(* it is over, although a later answer overwrites the cooldown.                *)
THEOREM WaitsAreHonoured == Spec => RunnerHonoursWaits
<1>1. PacingInv /\ [Next]_vars => [Calling => asked[p] = 0]_vars
  <2> SUFFICES ASSUME PacingInv, [Next]_vars, Calling PROVE asked[p] = 0
      OBVIOUS
  <2>1. p \in Provider /\ cooldown[p] = 0
      BY CallsWithoutCooldown
  <2> QED BY <2>1, PacingTypes DEF PacingInv, CooldownCovers, Waits
<1> QED BY <1>1, PacingIsKept, PTL DEF Spec, RunnerHonoursWaits

(* A runner of monitor or refresh calls no source whose last answer was a 429  *)
(* that still asks to wait, as long as a 429 or a refusal is the last attempt  *)
(* saved: through any runners, refusals and crashes since.                     *)
THEOREM CooldownsAreRestored == Spec => LastCooldownHolds
<1>1. PacingInv /\ [Next]_vars
        => [Calling /\ restored /\ saved[p].status = "rate_limited" => promised[p] = 0]_vars
  <2> SUFFICES ASSUME PacingInv, [Next]_vars, Calling, restored, saved[p].status = "rate_limited"
               PROVE  promised[p] = 0
      OBVIOUS
  <2>1. p \in Provider /\ cooldown[p] = 0
      BY CallsWithoutCooldown
  <2> QED BY <2>1, PacingTypes DEF PacingInv, CooldownCovers, Waits
<1> QED BY <1>1, PacingIsKept, PTL DEF Spec, LastCooldownHolds
=============================================================================
