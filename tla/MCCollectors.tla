---------------------------- MODULE MCCollectors ----------------------------
(***************************************************************************)
(* Collectors on small schemas: one or two markets, the valuation source   *)
(* and, for the US ticker, one comparison source.  Every market has one    *)
(* session; it is polled when build_schedule says so.                      *)
(***************************************************************************)
EXTENDS Totals, Schedule, TLC

CONSTANTS tw, us, tTW, tUS, tNew, yahoo, finnhub,
          Opening, Closing, OpeningDelay, Observation

\* The processes are alike (the runs with this symmetry check invariants only; AnyOf
\* chooses among rows, never among processes).
MCSymmetry == Permutations(Client)

MCMarketOf == [t \in Ticker |-> IF t = tUS THEN us ELSE tw]
MCSlot == Provider \X (1..MaxAttempts)
MCSourcesOf == [t \in Ticker |-> IF t = tUS THEN Provider ELSE {yahoo}]
MCOpportunity == Campaign \X Market \X (0..MaxTime)

\* Over the whole time of the model: a campaign's own plan is the stretch of it in its
\* period (ScheduleIsClipped).
MCSchedule == build_schedule({[open |-> Opening, close |-> Closing]}, OpeningDelay,
                             post_close(0, Poll, Observation, TRUE), Poll, 0, MaxTime + 1)

MCOpens == [m \in Market |-> {x.scheduled_at : x \in MCSchedule}]

\* The plan from a later start or to an earlier end is a stretch of the same grid, with
\* other sessions, delays and intervals as well.
ASSUME ScheduleIsOneGrid ==
    \A open \in 0..3, interval \in 1..3, start \in 0..6 : \A close \in open..5, end \in start..7 :
       LET Plan(a, b) == build_schedule({[open |-> open, close |-> close],
                                         [open |-> close + 2, close |-> close + 3]},
                                        1, 2, interval, a, b)
       IN Plan(start, end) = {x \in Plan(0, 7) : start <= x.scheduled_at /\ x.scheduled_at < end}
=============================================================================
