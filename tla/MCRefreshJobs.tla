--------------------------- MODULE MCRefreshJobs ---------------------------
(* RefreshJobs with interchangeable requests, in units of ten seconds. *)
EXTENDS RefreshJobs, TLC

MCSymmetry == Permutations(Handler)
=============================================================================
