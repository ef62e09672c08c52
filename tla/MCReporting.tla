---------------------------- MODULE MCReporting ----------------------------
(***************************************************************************)
(* Reports over the small schemas of MCCollectors: one campaign of one     *)
(* market.  Quality is evaluated on its own, over small sets of quotes.    *)
(***************************************************************************)
EXTENDS MCCollectors, Reporting, Quality

MCRegular == Market \X {x.scheduled_at : x \in {y \in MCSchedule : y.window_type = "regular"}}

\* Two sessions on two days of ten seconds.
MCSessions == {[open |-> 2, close |-> 4], [open |-> 12, close |-> 13]}
MCRule == [skew |-> 1, delay |-> 3, slack |-> 1, day |-> 10]
MCQuotes == [timed : BOOLEAN, stamp : {3, 5, 12}, exact : {TRUE}, received : {3, 12},
             declared : BOOLEAN, delay : {0, 2}, foreign : BOOLEAN,
             kind : {"last_trade", "bar_close"}, session : {"regular", "unknown", "post_market"},
             date : {0}, flags : {{}, {"stale"}}]

ASSUME AssessedInPlace ==
    /\ Calendar(MCSessions) /\ MCRule \in Rule /\ MCQuotes \subseteq Quote
    /\ \A q \in MCQuotes, a, b \in {4, 12, 17} :
          LET stored == assess(MCSessions, MCRule, q, a)
              later  == assess(MCSessions, MCRule, stored, b)
          IN /\ stored \in Quote
             /\ later = assess(MCSessions, MCRule, q, b)
             /\ IsPriced(MCRule, later) = IsPriced(MCRule, stored)
             /\ a <= b /\ "stale" \in stored.flags => "stale" \in later.flags
             /\ reusable(MCSessions, MCRule, stored, b)
                   => IsPriced(MCRule, Reuse(MCSessions, MCRule, stored, b))

\* A quote that was in time when it was stored is reused when it is stale.
ASSUME StaleIsReused ==
    \E q \in MCQuotes : LET stored == assess(MCSessions, MCRule, q, 3)
                        IN /\ "stale" \notin stored.flags
                           /\ "stale" \in assess(MCSessions, MCRule, stored, 17).flags
                           /\ reusable(MCSessions, MCRule, stored, 17)
=============================================================================
