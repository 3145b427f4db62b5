----------------------------- MODULE ReviewService -----------------------------
(***************************************************************************)
(* The service as the author of a pull request meets it: events become     *)
(* deliveries, deliveries wait in the queue of ReviewQueue, and a review   *)
(* runs under its repository's lock, from the fetch of the head to the     *)
(* post.  Composed from what the other modules establish: WebhookHandler   *)
(* implements the queue, PrSnapshot hands on one commit's data, so that a  *)
(* fetch is one step here.  Comments keep their lines: what GitHub does to *)
(* them after a push is in ReviewHistory.                                  *)
(***************************************************************************)
EXTENDS Integers, Sequences

CONSTANTS
    Pulls,      \* pull requests
    Repository, \* the repository of each
    MaxEvents,  \* bound: events of each
    Alarms      \* what a review may find that is worth blocking a merge for

ASSUME EventBoundsNat == MaxEvents \in [Pulls -> Nat]

\* A delivery is known by its pull request and its place among the events of it.
Jobs == UNION {{p} \X (1..MaxEvents[p]) : p \in Pulls}

PullOf(j) == j[1]
RepoOf == [j \in Jobs |-> Repository[PullOf(j)]]

\* Mutant: a draft that becomes ready announces nothing.
SupportedActionsUnready == {"opened", "synchronize", "reopened"}

SupportedActions == {"opened", "synchronize", "reopened", "ready_for_review"}

VARIABLES
    head,    \* GitHub: the head of each pull request, 0 before it is opened
    draft,   \* GitHub: whether it is a draft
    events,  \* GitHub: the payloads it sent for each pull request
    reviews, \* GitHub: the reviews the App created on each, oldest first
    status,  \* of each delivery, as in ReviewQueue
    step,    \* where its review is: "idle" when it is not under way
    prHead,  \* pr.head_sha
    found,   \* result.findings: blocking as the model has them
    demoted, \* those Layer D took the severity from
    checked, \* whether Layer D saw the earlier comments (history)
    missed   \* deliveries whose review raised or was only a notice (history)

Queue == INSTANCE ReviewQueue

github == <<head, draft, events, reviews>>
result == <<found, demoted, checked>>
vars == <<github, status, step, prHead, result, missed>>

Init ==
    /\ head = [p \in Pulls |-> 0]
    /\ draft \in [Pulls -> BOOLEAN]
    /\ events = [p \in Pulls |-> <<>>]
    /\ reviews = [p \in Pulls |-> <<>>]
    /\ Queue!Init
    /\ step = [j \in Jobs |-> "idle"]
    /\ prHead = [j \in Jobs |-> 0]
    /\ found = [j \in Jobs |-> {}]
    /\ demoted = [j \in Jobs |-> {}]
    /\ checked = [j \in Jobs |-> FALSE]
    /\ missed = {}

-----------------------------------------------------------------------------
(* The author, and what GitHub tells of it.                                 *)

Announce(p, action) ==
    /\ Len(events[p]) < MaxEvents[p]
    /\ events' = [events EXCEPT ![p] =
                    Append(@, [action |-> action, draft |-> draft'[p], head |-> head'[p]])]
    /\ UNCHANGED <<reviews, status, step, prHead, result, missed>>

Push(p) ==
    /\ head' = [head EXCEPT ![p] = @ + 1]
    /\ UNCHANGED draft
    /\ Announce(p, IF head[p] = 0 THEN "opened" ELSE "synchronize")

Reopen(p) ==
    /\ head[p] # 0
    /\ UNCHANGED <<head, draft>>
    /\ Announce(p, "reopened")

MarkReady(p) ==
    /\ head[p] # 0 /\ draft[p]
    /\ draft' = [draft EXCEPT ![p] = FALSE]
    /\ UNCHANGED head
    /\ Announce(p, "ready_for_review")

\* converted_to_draft is not among the actions accept() knows.
MarkDraft(p) ==
    /\ head[p] # 0 /\ ~draft[p]
    /\ draft' = [draft EXCEPT ![p] = TRUE]
    /\ UNCHANGED <<head, events, reviews, status, step, prHead, result, missed>>

-----------------------------------------------------------------------------
(* The intake: deliveries come in any order.                                *)

Sent(j) == j[2] <= Len(events[PullOf(j)])
Payload(j) == events[PullOf(j)][j[2]]
\* Mutant: a head that had an event before is not looked at again.
WantedOncePerHead(j) ==
    /\ Payload(j).action \in SupportedActions /\ ~Payload(j).draft
    /\ \A i \in 1..j[2] - 1 : events[PullOf(j)][i].head # Payload(j).head

Wanted(j) == Payload(j).action \in SupportedActions /\ ~Payload(j).draft

Enqueue(j) ==
    /\ Sent(j) /\ Wanted(j)
    /\ Queue!Enqueue(j)
    /\ UNCHANGED <<github, step, prHead, result, missed>>

Decline(j) ==
    /\ Sent(j) /\ ~Wanted(j)
    /\ Queue!Decline(j)
    /\ UNCHANGED <<github, step, prHead, result, missed>>

\* 503 before start() and after stop(), or the delivery got lost on its way.
NotRunning(j) ==
    /\ Sent(j) /\ Wanted(j)
    /\ Queue!Decline(j)
    /\ missed' = missed \cup {j}
    /\ UNCHANGED <<github, step, prHead, result>>

\* stop() cancelled it.
Drop(j) ==
    /\ Queue!Drop(j)
    /\ missed' = missed \cup {j}
    /\ UNCHANGED <<github, step, prHead, result>>

-----------------------------------------------------------------------------
(* The review.                                                              *)

GoTo(j, place) == step' = [step EXCEPT ![j] = place]

\* The jobs of S return from their review, or die in it.
Return(S, place) ==
    /\ step' = [j \in Jobs |-> IF j \in S THEN place ELSE step[j]]
    /\ prHead' = [j \in Jobs |-> IF j \in S THEN 0 ELSE prHead[j]]
    /\ found' = [j \in Jobs |-> IF j \in S THEN {} ELSE found[j]]
    /\ demoted' = [j \in Jobs |-> IF j \in S THEN {} ELSE demoted[j]]
    /\ checked' = [j \in Jobs |-> checked[j] /\ j \notin S]

StartReview(j) ==
    /\ Queue!StartReview(j)
    /\ GoTo(j, "fetch")
    /\ UNCHANGED <<github, prHead, result, missed>>

\* Mutant: the review is of the head the payload names.
FetchPayloadHead(j) ==
    /\ step[j] = "fetch" /\ ~draft[PullOf(j)]
    /\ prHead' = [prHead EXCEPT ![j] = Payload(j).head]
    /\ GoTo(j, "engine")
    /\ UNCHANGED <<github, status, result, missed>>

FetchPull(j) ==
    /\ step[j] = "fetch" /\ ~draft[PullOf(j)]
    /\ prHead' = [prHead EXCEPT ![j] = head[PullOf(j)]]
    /\ GoTo(j, "engine")
    /\ UNCHANGED <<github, status, result, missed>>

\* The pull request has become a draft.
SkipDraft(j) ==
    /\ step[j] = "fetch" /\ draft[PullOf(j)]
    /\ Return({j}, "leave")
    /\ UNCHANGED <<github, status, missed>>

RunEngine(j) ==
    /\ step[j] = "engine"
    /\ \E answer \in SUBSET Alarms : found' = [found EXCEPT ![j] = answer]
    /\ GoTo(j, "dedupe")
    /\ UNCHANGED <<github, status, prHead, demoted, checked, missed>>

\* Mutant: "earlier push" is taken at its word.
CommentedOfEarlierHeads(j) ==
    UNION {r.comments : r \in {reviews[PullOf(j)][i] : i \in
             {k \in DOMAIN reviews[PullOf(j)] : reviews[PullOf(j)][k].head < prHead[j]}}}

\* What the App's comments on the pull request say.
Commented(j) == UNION {reviews[PullOf(j)][i].comments : i \in DOMAIN reviews[PullOf(j)]}

Dedupe(j) ==
    /\ step[j] = "dedupe" /\ found[j] # {}
    /\ demoted' = [demoted EXCEPT ![j] = found[j] \cap Commented(j)]
    /\ checked' = [checked EXCEPT ![j] = TRUE]
    /\ GoTo(j, "post")
    /\ UNCHANGED <<github, status, prHead, found, missed>>

\* Nothing to compare, or the listing failed.
SkipDedupe(j) ==
    /\ step[j] = "dedupe"
    /\ GoTo(j, "post")
    /\ UNCHANGED <<github, status, prHead, result, missed>>

\* Comments on the lines of the diff; none if GitHub refuses them.  The caller
\* may see an error although the review was created.
PostReview(j) ==
    /\ step[j] = "post"
    /\ \E inline \in SUBSET found[j] :
         reviews' = [reviews EXCEPT ![PullOf(j)] =
                       Append(@, [head |-> prHead[j], comments |-> inline,
                                  alarms |-> found[j] \ demoted[j],
                                  checked |-> checked[j]])]
    /\ Return({j}, "leave")
    /\ UNCHANGED <<head, draft, events, status, missed>>

\* An exception, or a notice in the review's place.
Miss(j) ==
    /\ step[j] \in {"fetch", "engine", "post"}
    /\ missed' = missed \cup {j}
    /\ Return({j}, "leave")
    /\ UNCHANGED <<github, status>>

\* The repository's lock is given back.
EndReview(j) ==
    /\ step[j] = "leave"
    /\ Queue!EndReview(j)
    /\ GoTo(j, "idle")
    /\ UNCHANGED <<github, prHead, result, missed>>

\* The process dies and another is started: nothing was persisted.
Die ==
    LET lost == {j \in Jobs : status[j] \in {"waiting", "reviewing"}} IN
    /\ lost # {}
    /\ status' = [j \in Jobs |-> IF j \in lost THEN "dropped" ELSE status[j]]
    /\ missed' = missed \cup lost
    /\ Return(lost, "idle")
    /\ UNCHANGED github

ReviewStep(j) ==
    \/ FetchPull(j) \/ SkipDraft(j) \/ RunEngine(j) \/ Dedupe(j)
    \/ SkipDedupe(j) \/ PostReview(j) \/ Miss(j) \/ EndReview(j)

Intake(j) == Enqueue(j) \/ Decline(j) \/ NotRunning(j)

Next ==
    \/ \E p \in Pulls : Push(p) \/ Reopen(p) \/ MarkReady(p) \/ MarkDraft(p)
    \/ \E j \in Jobs : Intake(j) \/ Drop(j) \/ StartReview(j) \/ ReviewStep(j)
    \/ Die

Spec == Init /\ [][Next]_vars

\* What FairSpec of ReviewQueue promises, and the steps of a review that has begun.
FairSpec ==
    /\ Spec
    /\ \A j \in Jobs : /\ WF_vars(Intake(j))
                       /\ WF_vars(StartReview(j) \/ Drop(j))
                       /\ WF_vars(ReviewStep(j))

-----------------------------------------------------------------------------
\* The reviews of a pull request follow its history: none is of an older head than
\* one before it, in whatever order its deliveries came and took the lock, because
\* the head is fetched under the lock and not taken from the payload (_process).
ReviewsGoForward ==
    \A p \in Pulls : \A i, k \in DOMAIN reviews[p] :
        i < k => reviews[p][i].head <= reviews[p][k].head

\* What one review put on a line as a comment no later one raises as an alarm again,
\* unless it could not list the comments: between its listing and its post no other
\* review of the pull request creates any (dedupe, then post_review, _process).
AlarmOnce ==
    \A p \in Pulls : \A i, k \in DOMAIN reviews[p] :
        i < k /\ reviews[p][k].checked =>
            reviews[p][i].comments \cap reviews[p][k].alarms = {}

\* No head is forgotten: once the intake and the reviews are through with a pull
\* request that is ready, its head was reviewed, or a delivery that announced that
\* head failed.  What accept() declines, and a review that finds a draft, leave
\* nothing behind that no other delivery takes care of (accept, _process).
NoHeadForgotten ==
    \A p \in Pulls :
        LET through == \A j \in Jobs : PullOf(j) = p /\ Sent(j) =>
                           status[j] \in {"declined", "done", "dropped"} IN
        head[p] # 0 /\ ~draft[p] /\ through =>
            \/ \E i \in DOMAIN reviews[p] : reviews[p][i].head = head[p]
            \/ \E j \in missed : PullOf(j) = p /\ Sent(j) /\ Payload(j).head = head[p]

\* A head that is ready for review is reviewed, or a later one is, or the pull
\* request becomes a draft again; unless the delivery that announced it is the one
\* that failed.  The two draft checks, of the payload and of the fetched pull
\* request, pass over none between them (accept and _process).
ReadyHeadReviewed ==
    \A p \in Pulls : \A h \in 1..MaxEvents[p] :
        (head[p] = h /\ ~draft[p]) ~>
            \/ draft[p]
            \/ \E i \in DOMAIN reviews[p] : reviews[p][i].head >= h
            \/ \E j \in missed : PullOf(j) = p /\ Payload(j).head >= h
=============================================================================
