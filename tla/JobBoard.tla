------------------------------ MODULE JobBoard ------------------------------
(***************************************************************************)
(* What a reader of dashboard.py's refresh jobs is promised, whichever     *)
(* instances serve the requests: one refresh at a time, every job that was *)
(* seen running is seen to end, and an end that was seen stays.            *)
(***************************************************************************)
CONSTANT Job

VARIABLE board

Ended == {"succeeded", "failed"}

TypeOK == board \in [Job -> {"absent", "running"} \cup Ended]

Init == board = [j \in Job |-> "absent"]

Start(j) ==
    /\ board[j] = "absent"
    /\ \A i \in Job : board[i] # "running"
    /\ board' = [board EXCEPT ![j] = "running"]

End(j) ==
    /\ board[j] = "running"
    /\ \E result \in Ended : board' = [board EXCEPT ![j] = result]

Next == \E j \in Job : Start(j) \/ End(j)

Spec == Init /\ [][Next]_board

FairSpec == Spec /\ \A j \in Job : WF_board(End(j))
=============================================================================
