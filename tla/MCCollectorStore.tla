-------------------------- MODULE MCCollectorStore --------------------------
(* A small schema for TLC: two clients, two markets of one ticker each. *)
EXTENDS CollectorStore, TLC

CONSTANTS tw, us, tTW, tUS

MCMarketOf == [t \in Ticker |-> IF t = tUS THEN us ELSE tw]

\* The rows of each table are interchangeable, and so are the clients.
MCSymmetry ==
    Permutations(Client) \cup Permutations(Run) \cup Permutations(Cycle)
        \cup Permutations(Attempt)
=============================================================================
