------------------------------ MODULE Schedule ------------------------------
(***************************************************************************)
(* monitor.build_schedule: the opportunities of one market in a campaign,  *)
(* from the sessions of the exchange calendar.  Times are whole seconds.   *)
(***************************************************************************)
EXTENDS Integers

\* _post_close_seconds: how long a market is watched after its close.  A compared
\* source without a confirmed delay (official closes, Finnhub) costs the configured
\* observation.
post_close(declared, interval, observation, unconfirmed) ==
    IF unconfirmed THEN observation ELSE declared + 2 * interval

window_type(s, opening_delay, t) ==
    CASE s.close < t                                -> "post_close"
      [] t <= s.close /\ t < s.open + opening_delay -> "opening_delay"
      [] OTHER                                      -> "regular"

\* math.ceil
Ceiling(n, d) == -((-n) \div d)

\* The first tick in a window: the grid is anchored at the opening, also when the
\* campaign starts during the session.
FirstTick(s, interval, start) ==
    s.open + interval * (IF start <= s.open THEN 0 ELSE Ceiling(start - s.open, interval))

Ticks(s, after, interval, start, end) ==
    {t \in FirstTick(s, interval, start)..(end - 1) :
        (t - s.open) % interval = 0 /\ t < s.close + after}

build_schedule(sessions, opening_delay, after, interval, start, end) ==
    UNION {{[scheduled_at |-> t, window_type |-> window_type(s, opening_delay, t)] :
              t \in Ticks(s, after, interval, start, end)} : s \in sessions}
=============================================================================
