------------------------------ MODULE MCWebhook ------------------------------
(* Instances of WebhookHandler for TLC: two or three deliveries, two of them *)
(* for the same repository.                                                  *)
EXTENDS WebhookInvariants, TLC

CONSTANTS j1, j2, j3, r1, r2, d1, d2, d3

TwoJobs == {j1, j2}
ThreeJobs == {j1, j2, j3}
TwoRepos == {r1, r2}
ThreeDeliveries == {d1, d2, d3}

\* j1 and j2 are for r1, j3 is for r2.
SharedRepo == [j \in Jobs |-> IF j = j3 THEN r2 ELSE r1]

OwnDelivery == [j \in Jobs |-> IF j = j1 THEN d1 ELSE IF j = j2 THEN d2 ELSE d3]

\* GitHub's "Redeliver" repeats the delivery id: j1 and j2 have the same one.
Redelivered == [j \in Jobs |-> IF j = j3 THEN d3 ELSE d1]

Reviewable == [signed |-> TRUE, json |-> TRUE, event |-> "pull_request",
               dict |-> TRUE, supported |-> TRUE, draft |-> FALSE,
               identified |-> TRUE]
AllReviewable == [j \in Jobs |-> Reviewable]
OneDraft == [j \in Jobs |-> IF j = j3 THEN [Reviewable EXCEPT !.draft = TRUE]
                            ELSE Reviewable]
=============================================================================
