------------------------------ MODULE Quality ------------------------------
(***************************************************************************)
(* What a quote is worth: quality.assess against the exchange calendar,    *)
(* the reasons valuation.value_holding has not to price it, whether        *)
(* QuoteRunner.choose_cache reuses it, and when quoting.compare sets it    *)
(* beside a quote of another source.                                       *)
(*                                                                         *)
(* Times are seconds.  A calendar is a set of sessions, each within one    *)
(* day of its market; a rule holds the limits: skew (5 s), delay (1200 s), *)
(* slack (the polling interval and 10 s) and the length of a day.          *)
(***************************************************************************)
EXTENDS Integers

Flags == {"market_closed", "stale", "currency_mismatch", "price_kind_mismatch",
          "session_unknown", "time_unknown", "future_time", "freshness_unknown", "cached"}
Sessions == {"regular", "closed", "unknown", "pre_market", "post_market"}

\* timed: quote_time is known (stamp), exact: to the second; declared: the source says
\* by how much it is delayed; foreign: the currency is not the holding's; date: the
\* trading date.  Its price, and whose quote it is, are in order (Sources!Checked).
Quote == [timed : BOOLEAN, stamp : Int, exact : BOOLEAN, received : Int, declared : BOOLEAN,
          delay : Nat, foreign : BOOLEAN, kind : {"last_trade", "close", "bar_close"},
          session : Sessions, date : Int, flags : SUBSET Flags]

Rule == [skew : Nat, delay : Nat, slack : Nat, day : Nat \ {0}]

Calendar(sessions) ==
    /\ sessions \subseteq [open : Int, close : Int]
    /\ \A s \in sessions : s.open <= s.close
    /\ \A s, u \in sessions : s = u \/ s.close < u.open \/ u.close < s.open

-----------------------------------------------------------------------------
(* assess *)

InSession(sessions, t, skew) == \E s \in sessions : s.open <= t /\ t <= s.close + skew

\* The session that opened last: date_to_session, or previous_session before the
\* opening.
LastOpened(sessions, s, t) ==
    s \in sessions /\ s.open <= t /\ \A u \in sessions : u.open <= t => u.open <= s.open

\* A quote is stale when the source admits too long a delay, or when it is older than
\* what it should show by now: the delayed present, or the last close.
outdated(sessions, rule, q, now) ==
    \/ q.delay > rule.delay
    \/ \E s \in sessions :
          /\ LastOpened(sessions, s, now - q.delay)
          /\ q.stamp < now - q.delay - rule.slack
          /\ q.stamp < s.close - rule.slack

Misplaced(sessions, rule, q) == q.timed /\ ~InSession(sessions, q.stamp, rule.skew)

SessionOf(sessions, rule, q, now) ==
    CASE Misplaced(sessions, rule, q) -> "unknown"
      [] ~Misplaced(sessions, rule, q) /\ q.session \in {"pre_market", "post_market", "unknown"}
           -> q.session
      [] OTHER -> IF InSession(sessions, now, 0) THEN "regular" ELSE "closed"

Found(sessions, rule, q, now) ==
    {f \in Flags :
        \/ f = "market_closed" /\ ~InSession(sessions, now, 0)
        \/ f = "currency_mismatch" /\ q.foreign
        \/ f = "price_kind_mismatch" /\ q.kind = "bar_close"
        \/ f = "session_unknown" /\ SessionOf(sessions, rule, q, now) = "unknown"
        \/ f = "time_unknown" /\ ~(q.timed /\ q.exact)
        \/ f = "future_time" /\ q.timed /\ q.stamp > q.received + rule.skew
        \/ f = "freshness_unknown" /\ q.timed /\ ~q.declared
        \/ f = "stale" /\ q.timed /\ q.declared /\ outdated(sessions, rule, q, now)}

\* Only the two flags that depend on the present are taken back.
assess(sessions, rule, q, now) ==
    [q EXCEPT !.session = SessionOf(sessions, rule, q, now),
              !.date = IF q.timed THEN q.stamp \div rule.day ELSE q.date,
              !.flags = (q.flags \ {"market_closed", "stale"}) \cup Found(sessions, rule, q, now)]

-----------------------------------------------------------------------------
(* value_holding *)

\* The reasons not to price a quote, those of its flags and those read from it anew.
Reasons(rule, q) ==
    (q.flags \cap {"currency_mismatch", "future_time", "price_kind_mismatch"})
        \cup {r \in {"currency_mismatch", "future_time", "price_kind_mismatch",
                     "outside_regular_session"} :
                 \/ r = "currency_mismatch" /\ q.foreign
                 \/ r = "future_time" /\ q.timed /\ q.stamp - q.received > rule.skew
                 \/ r = "price_kind_mismatch" /\ q.kind = "bar_close"
                 \/ r = "outside_regular_session" /\ q.session \in {"pre_market", "post_market"}}

IsPriced(rule, q) == Reasons(rule, q) = {}

-----------------------------------------------------------------------------
(* choose_cache, and what finish_cycle makes of the choice *)

\* A stored quote is looked at as of now.
reusable(sessions, rule, q, now) ==
    LET checked == assess(sessions, rule, q, now)
    IN /\ q.timed /\ q.received <= now
       /\ IsPriced(rule, checked)
       /\ checked.flags \cap {"session_unknown", "time_unknown", "freshness_unknown"} = {}

\* finish_cycle reads the stored quote again, and adds the flags of this use to those
\* it was stored with; choose_cache calls every reused quote stale.
Reuse(sessions, rule, q, now) ==
    [q EXCEPT !.flags = @ \cup assess(sessions, rule, q, now).flags \cup {"cached", "stale"}]

-----------------------------------------------------------------------------
(* compare *)

Incomparable == {"future_time", "currency_mismatch", "session_unknown", "price_kind_mismatch"}

\* Two last trades of the same second; or a trade within seconds of the close, for a
\* source that gives the official close of the day.
aligned(sessions, rule, official, main, other) ==
    /\ ~main.foreign /\ ~other.foreign
    /\ Incomparable \cap (main.flags \cup other.flags) = {}
    /\ main.timed /\ main.date = other.date
    /\ IF official
         THEN \E s \in sessions : /\ s.open \div rule.day = main.date
                                  /\ s.close - rule.skew <= main.stamp
                                  /\ main.stamp <= s.close + rule.skew
         ELSE other.timed /\ main.stamp = other.stamp /\ main.kind = other.kind
=============================================================================
