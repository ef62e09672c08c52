--------------------------- MODULE CalendarProofs ---------------------------
(***************************************************************************)
(* What holds of every quote, calendar and time: a stored quote can be     *)
(* looked at again at any time without a loss, it never gets fresher by    *)
(* waiting, its price counts or does not count for ever, and the plan of a *)
(* campaign is a stretch of one grid.                                      *)
(***************************************************************************)
EXTENDS Quality, Schedule, TLAPS

(* ---------------------------------------------------------------------- *)
(* The assessment of quotes *)

(* What an assessment leaves of a quote, and what it derives.                 *)
LEMMA AssessedQuote ==
    ASSUME NEW sessions, NEW rule \in Rule, NEW q \in Quote, NEW now
    PROVE  /\ assess(sessions, rule, q, now) \in Quote
           /\ assess(sessions, rule, q, now).timed = q.timed
           /\ assess(sessions, rule, q, now).stamp = q.stamp
           /\ assess(sessions, rule, q, now).exact = q.exact
           /\ assess(sessions, rule, q, now).received = q.received
           /\ assess(sessions, rule, q, now).declared = q.declared
           /\ assess(sessions, rule, q, now).delay = q.delay
           /\ assess(sessions, rule, q, now).foreign = q.foreign
           /\ assess(sessions, rule, q, now).kind = q.kind
           /\ assess(sessions, rule, q, now).session = SessionOf(sessions, rule, q, now)
           /\ assess(sessions, rule, q, now).date
                = IF q.timed THEN q.stamp \div rule.day ELSE q.date
           /\ assess(sessions, rule, q, now).flags
                = (q.flags \ {"market_closed", "stale"}) \cup Found(sessions, rule, q, now)
<1>1. SessionOf(sessions, rule, q, now) \in Sessions
  BY DEF SessionOf, Sessions, Quote
<1>2. (IF q.timed THEN q.stamp \div rule.day ELSE q.date) \in Int
  BY DEF Quote, Rule
<1>3. ((q.flags \ {"market_closed", "stale"}) \cup Found(sessions, rule, q, now)) \in SUBSET Flags
  BY DEF Found, Quote
<1> QED
  BY <1>1, <1>2, <1>3 DEF assess, Quote

(* A second assessment sees the same session to be misplaced. *)
LEMMA SessionAgain ==
    ASSUME NEW sessions, NEW rule \in Rule, NEW again \in Rule, again.skew = rule.skew,
           NEW q \in Quote, NEW a, NEW b
    PROVE  SessionOf(sessions, again, assess(sessions, rule, q, a), b)
             = SessionOf(sessions, again, q, b)
<1> DEFINE o == assess(sessions, rule, q, a)
<1>1. /\ o.timed = q.timed /\ o.stamp = q.stamp
      /\ o.session = SessionOf(sessions, rule, q, a)
  BY AssessedQuote
<1>2. Misplaced(sessions, again, o) <=> Misplaced(sessions, again, q)
  BY <1>1 DEF Misplaced
<1>3. Misplaced(sessions, again, q) <=> Misplaced(sessions, rule, q)
  BY DEF Misplaced
<1>4. CASE Misplaced(sessions, again, q)
  BY <1>2, <1>4 DEF SessionOf
<1>5. CASE ~Misplaced(sessions, again, q)
  <2>1. o.session \in {"pre_market", "post_market", "unknown"}
          <=> q.session \in {"pre_market", "post_market", "unknown"}
    BY <1>1, <1>3, <1>5 DEF SessionOf
  <2>2. q.session \in {"pre_market", "post_market", "unknown"} => o.session = q.session
    BY <1>1, <1>3, <1>5 DEF SessionOf
  <2> QED
    BY <1>2, <1>5, <2>1, <2>2 DEF SessionOf
<1> QED
  BY <1>4, <1>5

(* A stored quote loses nothing by having been assessed before: to look at it again,
   at any later time and for any polling interval, is to look at the response itself. *)
THEOREM ReassessmentIsExact ==
    ASSUME NEW sessions, NEW rule \in Rule, NEW again \in Rule, again.skew = rule.skew,
           again.day = rule.day, NEW q \in Quote, NEW a, NEW b
    PROVE  assess(sessions, again, assess(sessions, rule, q, a), b)
             = assess(sessions, again, q, b)
<1> SUFFICES ASSUME NEW o, o = assess(sessions, rule, q, a),
                    NEW x, x = assess(sessions, again, o, b),
                    NEW y, y = assess(sessions, again, q, b)
             PROVE  x = y
  OBVIOUS
<1> DEFINE f(z) == [timed |-> z.timed, stamp |-> z.stamp, exact |-> z.exact,
                    received |-> z.received, declared |-> z.declared, delay |-> z.delay,
                    foreign |-> z.foreign, kind |-> z.kind, session |-> z.session,
                    date |-> z.date, flags |-> z.flags]
<1>0. o \in Quote
  BY AssessedQuote
<1>1. x \in Quote /\ y \in Quote
  BY <1>0, AssessedQuote
<1>2. /\ o.timed = q.timed /\ o.stamp = q.stamp /\ o.exact = q.exact
      /\ o.received = q.received /\ o.declared = q.declared /\ o.delay = q.delay
      /\ o.foreign = q.foreign /\ o.kind = q.kind
  BY DEF assess, Quote
<1>3. /\ x.timed = q.timed /\ x.stamp = q.stamp /\ x.exact = q.exact
      /\ x.received = q.received /\ x.declared = q.declared /\ x.delay = q.delay
      /\ x.foreign = q.foreign /\ x.kind = q.kind
  <2>1. /\ x.timed = o.timed /\ x.stamp = o.stamp /\ x.exact = o.exact
        /\ x.received = o.received /\ x.declared = o.declared /\ x.delay = o.delay
        /\ x.foreign = o.foreign /\ x.kind = o.kind
    BY <1>0 DEF assess, Quote
  <2> QED
    BY <1>2, <2>1
<1>4. /\ y.timed = q.timed /\ y.stamp = q.stamp /\ y.exact = q.exact
      /\ y.received = q.received /\ y.declared = q.declared /\ y.delay = q.delay
      /\ y.foreign = q.foreign /\ y.kind = q.kind
  BY DEF assess, Quote
<1>5. x.session = y.session
  <2>1. x.session = SessionOf(sessions, again, o, b)
    BY <1>0 DEF assess, Quote
  <2>2. y.session = SessionOf(sessions, again, q, b)
    BY DEF assess, Quote
  <2> QED
    BY <2>1, <2>2, SessionAgain
<1>6. x.date = y.date
  <2>1. CASE q.timed
    <3>1. x.date = o.stamp \div again.day
      BY <1>0, <1>2, <2>1 DEF assess, Quote
    <3>2. y.date = q.stamp \div again.day
      BY <2>1 DEF assess, Quote
    <3> QED
      BY <1>2, <3>1, <3>2
  <2>2. CASE ~q.timed
    BY <1>0, <1>2, <2>2 DEF assess, Quote
  <2> QED
    BY <2>1, <2>2
<1>7. x.flags = y.flags
  <2>1. Found(sessions, again, o, b) = Found(sessions, again, q, b)
    <3>1. SessionOf(sessions, again, o, b) = SessionOf(sessions, again, q, b)
      BY SessionAgain
    <3> QED
      BY <1>2, <3>1 DEF Found, outdated
  <2>2. o.flags = (q.flags \ {"market_closed", "stale"}) \cup Found(sessions, rule, q, a)
    BY AssessedQuote
  <2>3. Found(sessions, rule, q, a) \ {"market_closed", "stale"}
          \subseteq Found(sessions, again, q, b)
    <3>1. SessionOf(sessions, rule, q, a) = "unknown" => SessionOf(sessions, again, q, b) = "unknown"
      BY DEF SessionOf, Misplaced
    <3> QED
      BY <3>1 DEF Found
  <2>4. x.flags = (o.flags \ {"market_closed", "stale"}) \cup Found(sessions, again, o, b)
    BY <1>0, AssessedQuote
  <2>5. y.flags = (q.flags \ {"market_closed", "stale"}) \cup Found(sessions, again, q, b)
    BY AssessedQuote
  <2> QED
    BY <2>1, <2>2, <2>3, <2>4, <2>5
<1>8. x = f(x) /\ y = f(y)
  BY <1>1 DEF Quote
<1>9. f(x) = f(y)
  BY <1>3, <1>4, <1>5, <1>6, <1>7
<1> QED
  BY <1>8, <1>9

(* Whether a quote can be priced is settled when it is stored: the time at which it is
   looked at again makes no difference. *)
THEOREM PricingIsStable ==
    ASSUME NEW sessions, NEW rule \in Rule, NEW q \in Quote, NEW a, NEW b
    PROVE  IsPriced(rule, assess(sessions, rule, assess(sessions, rule, q, a), b))
             <=> IsPriced(rule, assess(sessions, rule, q, a))
<1> SUFFICES ASSUME NEW x, x = assess(sessions, rule, q, a),
                    NEW y, y = assess(sessions, rule, q, b)
             PROVE  Reasons(rule, x) = Reasons(rule, y)
  BY ReassessmentIsExact DEF IsPriced
<1>1. /\ x.timed = q.timed /\ x.stamp = q.stamp /\ x.received = q.received
      /\ x.foreign = q.foreign /\ x.kind = q.kind
      /\ y.timed = q.timed /\ y.stamp = q.stamp /\ y.received = q.received
      /\ y.foreign = q.foreign /\ y.kind = q.kind
  BY DEF assess, Quote
<1>2. /\ x.flags = (q.flags \ {"market_closed", "stale"}) \cup Found(sessions, rule, q, a)
      /\ y.flags = (q.flags \ {"market_closed", "stale"}) \cup Found(sessions, rule, q, b)
  BY DEF assess, Quote
<1>3. \A f \in {"currency_mismatch", "future_time", "price_kind_mismatch"} :
         f \in Found(sessions, rule, q, a) <=> f \in Found(sessions, rule, q, b)
  BY DEF Found
<1>4. x.session \in {"pre_market", "post_market"} <=> y.session \in {"pre_market", "post_market"}
  <2>1. /\ x.session = SessionOf(sessions, rule, q, a)
        /\ y.session = SessionOf(sessions, rule, q, b)
    BY DEF assess, Quote
  <2> QED
    BY <2>1 DEF SessionOf, Misplaced
<1> QED
  BY <1>1, <1>2, <1>3, <1>4 DEF Reasons

(* What choose_cache takes, finish_cycle can price, although it reads the stored quote
   again instead of the one that choose_cache looked at. *)
THEOREM ReusedQuoteIsPriced ==
    ASSUME NEW sessions, NEW rule \in Rule, NEW q \in Quote, NEW now,
           reusable(sessions, rule, q, now)
    PROVE  IsPriced(rule, Reuse(sessions, rule, q, now))
<1> SUFFICES ASSUME NEW x, x = assess(sessions, rule, q, now),
                    NEW y, y = Reuse(sessions, rule, q, now)
             PROVE  Reasons(rule, y) = {}
  BY DEF IsPriced
<1>1. Reasons(rule, x) = {} /\ x.flags \cap {"session_unknown"} = {}
  BY DEF reusable, IsPriced
<1>2. /\ x.timed = q.timed /\ x.stamp = q.stamp /\ x.received = q.received
      /\ x.foreign = q.foreign /\ x.kind = q.kind
  BY DEF assess, Quote
<1>3. /\ y.timed = q.timed /\ y.stamp = q.stamp /\ y.received = q.received
      /\ y.foreign = q.foreign /\ y.kind = q.kind /\ y.session = q.session
      /\ y.flags = q.flags \cup x.flags \cup {"cached", "stale"}
  BY DEF Reuse, Quote
<1>4. /\ x.flags = (q.flags \ {"market_closed", "stale"}) \cup Found(sessions, rule, q, now)
      /\ x.session = SessionOf(sessions, rule, q, now)
  BY DEF assess, Quote
<1>5. x.session # "unknown"
  BY <1>1, <1>4 DEF Found, Flags
<1>6. q.session \notin {"pre_market", "post_market"}
  <2>1. SUFFICES ASSUME q.session \in {"pre_market", "post_market"} PROVE FALSE
    OBVIOUS
  <2>2. x.session = q.session
    BY <1>4, <1>5, <2>1 DEF SessionOf
  <2> QED
    BY <1>1, <2>1, <2>2 DEF Reasons
<1>7. y.flags \cap {"currency_mismatch", "future_time", "price_kind_mismatch"} = {}
  <2>1. x.flags \cap {"currency_mismatch", "future_time", "price_kind_mismatch"} = {}
    BY <1>1 DEF Reasons
  <2> QED
    BY <1>3, <1>4, <2>1
<1> QED
  BY <1>1, <1>2, <1>3, <1>6, <1>7 DEF Reasons

(* A quote that is stale stays stale: neither the delay of its source nor the night
   between two sessions makes it fresh again. *)
THEOREM StaleStays ==
    ASSUME NEW sessions, Calendar(sessions), NEW rule \in Rule, NEW q \in Quote,
           NEW a \in Int, NEW b \in Int, a <= b,
           \E s : LastOpened(sessions, s, b - q.delay),
           q.timed, q.declared, outdated(sessions, rule, q, a)
    PROVE  outdated(sessions, rule, q, b)
<1>1. CASE q.delay > rule.delay
  BY <1>1 DEF outdated
<1>2. CASE ~(q.delay > rule.delay)
  <2>1. PICK s \in sessions : /\ LastOpened(sessions, s, a - q.delay)
                              /\ q.stamp < a - q.delay - rule.slack
                              /\ q.stamp < s.close - rule.slack
    BY <1>2 DEF outdated
  <2>2. PICK u : LastOpened(sessions, u, b - q.delay)
    OBVIOUS
  <2>3. q.delay \in Int /\ q.stamp \in Int /\ rule.slack \in Int
    BY DEF Quote, Rule
  <2>4. /\ u \in sessions /\ s.open \in Int /\ s.close \in Int /\ u.open \in Int /\ u.close \in Int
    BY <2>2 DEF LastOpened, Calendar
  <2>5. s.open <= u.open
    BY <2>1, <2>2, <2>3, <2>4 DEF LastOpened
  <2>6. s.close <= u.close
    <3>1. s = u \/ s.close < u.open \/ u.close < s.open
      BY <2>4 DEF Calendar
    <3>2. s.open <= s.close /\ u.open <= u.close
      BY <2>4 DEF Calendar
    <3> QED
      BY <2>4, <2>5, <3>1, <3>2
  <2>7. q.stamp < b - q.delay - rule.slack /\ q.stamp < u.close - rule.slack
    BY <2>1, <2>3, <2>4, <2>6
  <2> QED
    BY <2>2, <2>4, <2>7 DEF outdated
<1> QED
  BY <1>1, <1>2

(* Only what could be priced is compared: normalize reads no session before or after
   the regular one, and of such quotes two that are aligned have no reason against
   their price. *)
THEOREM AlignedArePriced ==
    ASSUME NEW sessions, NEW rule \in Rule, NEW official \in BOOLEAN,
           NEW p \in Quote, p.session \in {"regular", "closed", "unknown"}, NEW a,
           NEW q \in Quote, q.session \in {"regular", "closed", "unknown"}, NEW b,
           aligned(sessions, rule, official, assess(sessions, rule, p, a),
                   assess(sessions, rule, q, b))
    PROVE  /\ IsPriced(rule, assess(sessions, rule, p, a))
           /\ IsPriced(rule, assess(sessions, rule, q, b))
<1>1. ASSUME NEW r \in Quote, r.session \in {"regular", "closed", "unknown"}, NEW now,
             assess(sessions, rule, r, now).flags \cap Incomparable = {}
      PROVE  IsPriced(rule, assess(sessions, rule, r, now))
  <2> SUFFICES ASSUME NEW x, x = assess(sessions, rule, r, now)
               PROVE  Reasons(rule, x) = {}
    BY DEF IsPriced
  <2>1. /\ x.timed = r.timed /\ x.stamp = r.stamp /\ x.received = r.received
        /\ x.foreign = r.foreign /\ x.kind = r.kind
        /\ x.flags = (r.flags \ {"market_closed", "stale"}) \cup Found(sessions, rule, r, now)
        /\ x.session = SessionOf(sessions, rule, r, now)
    BY DEF assess, Quote
  <2>2. x.session \notin {"pre_market", "post_market"}
    BY <1>1, <2>1 DEF SessionOf
  <2>3. ~r.foreign /\ r.kind # "bar_close" /\ ~(r.timed /\ r.stamp > r.received + rule.skew)
    BY <1>1, <2>1 DEF Found, Flags, Incomparable
  <2>4. r.timed => ~(r.stamp - r.received > rule.skew)
    BY <2>3 DEF Quote, Rule
  <2> QED
    BY <1>1, <2>1, <2>2, <2>3, <2>4 DEF Reasons, Incomparable
<1> QED
  BY <1>1 DEF aligned

(* ---------------------------------------------------------------------- *)
(* The plan of a campaign *)

(* Division with remainder. *)
LEMMA Remainder ==
    ASSUME NEW n \in Int, NEW d \in Nat \ {0}
    PROVE  /\ n \div d \in Int /\ n % d \in 0..(d - 1)
           /\ n - d * (n \div d) = n % d
<1>1. n \div d \in Int /\ n % d \in 0..(d - 1)
  OBVIOUS
<1>2. n - d * (n \div d) = n % d
  BY SMTT(30)
<1> QED
  BY <1>1, <1>2, Zenon

(* Multiplying by a positive number keeps the order.                          *)
LEMMA Multiples ==
    ASSUME NEW a \in Int, NEW b \in Int, NEW d \in Nat \ {0}
    PROVE  a <= b <=> d * a <= d * b
<1>1. d * (b - a) = d * b - d * a
  OBVIOUS
<1>2. b - a >= 0 => d * (b - a) >= 0
  OBVIOUS
<1>3. b - a < 0 => d * (b - a) < 0
  OBVIOUS
<1> QED
  BY <1>1, <1>2, <1>3

(* Ceiling(n, d) is the least number of intervals that reaches n. *)
LEMMA LeastMultiple ==
    ASSUME NEW n \in Int, NEW d \in Nat \ {0}, NEW k \in Int
    PROVE  Ceiling(n, d) \in Int /\ (Ceiling(n, d) <= k <=> n <= d * k)
<1> DEFINE c == Ceiling(n, d)
           r == (-n) % d
<1>1. c \in Int /\ r \in 0..(d - 1) /\ (-n) - d * (-c) = r
  <2>1. -n \in Int
    OBVIOUS
  <2>2. (-n) \div d \in Int /\ r \in 0..(d - 1) /\ (-n) - d * ((-n) \div d) = r
    BY <2>1, Remainder
  <2>3. c \in Int /\ -c = (-n) \div d
    BY <2>2 DEF Ceiling
  <2> HIDE DEF c, r
  <2> QED
    BY <2>2, <2>3
<1> HIDE DEF c, r
<1>2. d * (-c) = -(d * c) /\ d * (c - 1) = d * c - d /\ d * c \in Int
  BY <1>1
<1>3. c <= k => n <= d * k
  BY <1>1, <1>2, Multiples
<1>4. ~(c <= k) => ~(n <= d * k)
  <2>1. ~(c <= k) => d * k <= d * (c - 1)
    BY <1>1, Multiples
  <2> QED
    BY <1>1, <1>2, <2>1
<1> QED
  BY <1>1, <1>3, <1>4 DEF c

(* The first tick of a session is a time.                                     *)
LEMMA FirstTickType ==
    ASSUME NEW s \in [open : Int, close : Int], NEW interval \in Nat \ {0}, NEW start \in Int
    PROVE  FirstTick(s, interval, start) \in Int
<1>1. s.open \in Int /\ start - s.open \in Int
  OBVIOUS
<1>2. Ceiling(start - s.open, interval) \in Int
  BY <1>1, LeastMultiple
<1> QED
  BY <1>1, <1>2 DEF FirstTick

(* The ticks of a window are the points of the grid of its session in it. *)
LEMMA TicksOfTheGrid ==
    ASSUME NEW s \in [open : Int, close : Int], NEW interval \in Nat \ {0}, NEW after \in Int,
           NEW start \in Int, NEW end \in Int, NEW t \in Int
    PROVE  t \in Ticks(s, after, interval, start, end)
             <=> /\ start <= t /\ t < end
                 /\ s.open <= t /\ t < s.close + after
                 /\ (t - s.open) % interval = 0
<1> DEFINE k == (t - s.open) \div interval
           c == Ceiling(start - s.open, interval)
<1>1. s.open \in Int /\ s.close \in Int
  OBVIOUS
<1>2. SUFFICES ASSUME (t - s.open) % interval = 0
               PROVE  FirstTick(s, interval, start) <= t <=> start <= t /\ s.open <= t
  BY <1>1, FirstTickType DEF Ticks
<1>3. k \in Int /\ (t - s.open) - interval * k = 0
  <2>1. t - s.open \in Int
    BY <1>1
  <2> QED
    BY <1>2, <2>1, Remainder
<1>4. CASE start <= s.open
  BY <1>1, <1>4 DEF FirstTick
<1>5. CASE s.open < start
  <2>1. c \in Int /\ (c <= k <=> start - s.open <= interval * k)
    BY <1>1, <1>3, LeastMultiple
  <2>2. FirstTick(s, interval, start) = s.open + interval * c
    BY <1>1, <1>5 DEF FirstTick
  <2>3. c <= k <=> interval * c <= interval * k
    BY <1>3, <2>1, Multiples
  <2>4. interval * c \in Int /\ interval * k \in Int
    BY <1>3, <2>1
  <2> HIDE DEF c, k
  <2> QED
    BY <1>1, <1>3, <1>5, <2>1, <2>2, <2>3, <2>4
<1> QED
  BY <1>1, <1>4, <1>5

(* A campaign that starts late, or ends early, has the opportunities of a longer one
   that fall into its own period, at the same times and in the same windows: a plan is
   a stretch of one grid, wherever in a session it starts. *)
THEOREM ScheduleIsClipped ==
    ASSUME NEW sessions \in SUBSET [open : Int, close : Int], NEW opening_delay \in Int,
           NEW after \in Int, NEW interval \in Nat \ {0},
           NEW lo \in Int, NEW start \in Int, NEW end \in Int, NEW hi \in Int,
           lo <= start, end <= hi
    PROVE  build_schedule(sessions, opening_delay, after, interval, start, end)
             = {x \in build_schedule(sessions, opening_delay, after, interval, lo, hi) :
                  start <= x.scheduled_at /\ x.scheduled_at < end}
<1>1. ASSUME NEW s \in sessions, NEW t
      PROVE  t \in Ticks(s, after, interval, start, end)
               <=> t \in Ticks(s, after, interval, lo, hi) /\ start <= t /\ t < end
  <2>1. CASE t \in Int
    BY <2>1, TicksOfTheGrid
  <2>2. CASE t \notin Int
    BY <2>2, FirstTickType DEF Ticks
  <2> QED
    BY <2>1, <2>2
<1> QED
  BY <1>1 DEF build_schedule
=============================================================================
