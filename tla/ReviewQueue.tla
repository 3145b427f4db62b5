------------------------------ MODULE ReviewQueue ------------------------------
(***************************************************************************)
(* What the webhook intake promises, without threads, executors or locks:  *)
(* a delivery is declined or it waits; a waiting one is reviewed, never    *)
(* together with another of its repository, or dropped; a review that has  *)
(* begun is never dropped, and nothing happens twice.                      *)
(***************************************************************************)
CONSTANTS
    Jobs,    \* webhook deliveries
    RepoOf   \* the repository each names

VARIABLE status

Statuses == {"new", "declined", "waiting", "reviewing", "done", "dropped"}

Init == status = [j \in Jobs |-> "new"]

Move(j, from, to) ==
    /\ status[j] = from
    /\ status' = [status EXCEPT ![j] = to]

Decline(j) == Move(j, "new", "declined")
Enqueue(j) == Move(j, "new", "waiting")
Drop(j) == Move(j, "waiting", "dropped")
EndReview(j) == Move(j, "reviewing", "done")

StartReview(j) ==
    /\ \A k \in Jobs : status[k] = "reviewing" => RepoOf[k] # RepoOf[j]
    /\ Move(j, "waiting", "reviewing")

Next ==
    \E j \in Jobs :
        Decline(j) \/ Enqueue(j) \/ Drop(j) \/ StartReview(j) \/ EndReview(j)

Spec == Init /\ [][Next]_status

\* A delivery that may leave the queue does, and a review ends.
FairSpec ==
    /\ Spec
    /\ \A j \in Jobs : /\ WF_status(StartReview(j) \/ Drop(j))
                       /\ WF_status(EndReview(j))
=============================================================================
