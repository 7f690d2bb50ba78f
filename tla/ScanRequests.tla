---------------------------- MODULE ScanRequests ----------------------------
(***************************************************************************)
(* What the scan queue promises (modules/security/models.py,               *)
(* PendingScanRequest; get_pending_scans' docstring): a request moves one  *)
(* way, from the queue to the scanner to a recorded result.  It is lost at *)
(* the earliest by the poll that claims it, and once handed over, recorded *)
(* or lost it is never handed over again.                                  *)
(***************************************************************************)
CONSTANT Requests

VARIABLE stage

Stages == {"none", "queued", "handed", "done", "lost"}

Init == stage = [r \in Requests |-> "none"]

Queue == \E r \in Requests :
    /\ stage[r] = "none"
    /\ stage' = [stage EXCEPT ![r] = "queued"]

\* One poll claims the requests S; those in T reach the scanner.
Claim == \E S \in SUBSET Requests : \E T \in SUBSET S :
    /\ \A r \in S : stage[r] = "queued"
    /\ stage' = [r \in Requests |->
                    IF r \in T THEN "handed" ELSE IF r \in S THEN "lost" ELSE stage[r]]

Record == \E r \in Requests :
    /\ stage[r] = "handed"
    /\ stage' = [stage EXCEPT ![r] = "done"]

Lose == \E S \in SUBSET Requests :
    /\ \A r \in S : stage[r] = "handed"
    /\ stage' = [r \in Requests |-> IF r \in S THEN "lost" ELSE stage[r]]

Next == Queue \/ Claim \/ Record \/ Lose

Spec == Init /\ [][Next]_stage
=============================================================================
