-------------------------- MODULE ReviewServiceProofs --------------------------
(***************************************************************************)
(* What holds of ReviewService for every set of pull requests, however     *)
(* many share a repository and however many events each has.               *)
(***************************************************************************)
EXTENDS ReviewService, TLAPS

Steps == {"idle", "fetch", "engine", "dedupe", "post", "leave"}

Review == [head : Nat, comments : SUBSET Alarms, alarms : SUBSET Alarms,
           checked : BOOLEAN]

TypeInv ==
    /\ head \in [Pulls -> Nat]
    /\ draft \in [Pulls -> BOOLEAN]
    /\ events \in [Pulls -> Seq([action : SupportedActions, draft : BOOLEAN, head : Nat])]
    /\ reviews \in [Pulls -> Seq(Review)]
    /\ status \in [Jobs -> Queue!Statuses]
    /\ step \in [Jobs -> Steps]
    /\ prHead \in [Jobs -> Nat]
    /\ found \in [Jobs -> SUBSET Alarms]
    /\ demoted \in [Jobs -> SUBSET Alarms]
    /\ checked \in [Jobs -> BOOLEAN]
    /\ missed \in SUBSET Jobs

\* A review is under way exactly while its delivery holds its repository's lock,
\* and one delivery of a repository holds it.
LockInv ==
    /\ \A j \in Jobs : step[j] # "idle" <=> status[j] = "reviewing"
    /\ \A j, k \in Jobs :
         status[j] = "reviewing" /\ status[k] = "reviewing" /\ RepoOf[j] = RepoOf[k]
            => j = k

\* The reviews are of heads the pull request had, and the head a review under way
\* has fetched is no older than any of theirs.
HeadInv ==
    /\ \A p \in Pulls : \A i \in DOMAIN reviews[p] : reviews[p][i].head <= head[p]
    /\ \A j \in Jobs : step[j] \in {"engine", "dedupe", "post"} =>
         /\ prHead[j] <= head[PullOf(j)]
         /\ \A i \in DOMAIN reviews[PullOf(j)] : reviews[PullOf(j)][i].head <= prHead[j]

\* A finding that was compared with the comments and kept its severity is in none
\* of them, also by the time it is posted.
KeptInv ==
    \A j \in Jobs : checked[j] =>
        step[j] = "post" /\ (found[j] \ demoted[j]) \cap Commented(j) = {}

IndInv == TypeInv /\ LockInv /\ HeadInv /\ KeptInv /\ ReviewsGoForward /\ AlarmOnce

-----------------------------------------------------------------------------
(* A delivery names its pull request.                                       *)

LEMMA JobPull ==
    ASSUME NEW j \in Jobs
    PROVE  PullOf(j) \in Pulls /\ RepoOf[j] = Repository[PullOf(j)]
<1>1. PICK p \in Pulls : j \in {p} \X (1..MaxEvents[p])
  BY DEF Jobs
<1> QED
  BY <1>1 DEF PullOf, RepoOf

\* Two reviews under way are of different pull requests.
LEMMA OneReviewOfPull ==
    ASSUME LockInv, NEW j \in Jobs, NEW k \in Jobs,
           step[j] # "idle", step[k] # "idle", PullOf(j) = PullOf(k)
    PROVE  j = k
BY JobPull DEF LockInv

\* No step of the review is under way in the initial state.
LEMMA InitInv == Init => IndInv
<1> SUFFICES ASSUME Init PROVE IndInv
  OBVIOUS
<1>1. TypeInv
  BY DEF Init, TypeInv, Queue!Init, Queue!Statuses, Steps
<1>2. \A p \in Pulls : DOMAIN reviews[p] = {}
  <2> SUFFICES ASSUME NEW p \in Pulls PROVE DOMAIN reviews[p] = {}
    OBVIOUS
  <2>1. reviews[p] = <<>>
    BY DEF Init
  <2>2. reviews[p] \in Seq(Review) /\ Len(reviews[p]) = 0
    BY <2>1
  <2> QED
    BY <2>2
<1>3. LockInv /\ KeptInv
  BY DEF Init, LockInv, KeptInv, Queue!Init
<1>4. HeadInv /\ ReviewsGoForward /\ AlarmOnce
  BY <1>2 DEF Init, HeadInv, ReviewsGoForward, AlarmOnce
<1> QED
  BY <1>1, <1>3, <1>4 DEF IndInv

-----------------------------------------------------------------------------
(* The steps, each against the parts of the invariant it may disturb.       *)

\* The author's steps only move heads on.
LEMMA AuthorInv ==
    ASSUME IndInv, NEW p \in Pulls,
           Push(p) \/ Reopen(p) \/ MarkReady(p) \/ MarkDraft(p)
    PROVE  IndInv'
<1>1. /\ UNCHANGED <<reviews, status, step, prHead, result, missed>>
      /\ head' \in [Pulls -> Nat] /\ draft' \in [Pulls -> BOOLEAN]
      /\ \A q \in Pulls : head[q] <= head'[q]
  <2>1. /\ head \in [Pulls -> Nat] /\ draft \in [Pulls -> BOOLEAN]
    BY DEF IndInv, TypeInv
  <2>2. UNCHANGED <<reviews, status, step, prHead, result, missed>>
    BY DEF Push, Reopen, MarkReady, MarkDraft, Announce
  <2>3. head' = head \/ head' = [head EXCEPT ![p] = @ + 1]
    BY DEF Push, Reopen, MarkReady, MarkDraft
  <2>4. draft' = draft \/ draft' = [draft EXCEPT ![p] = FALSE]
          \/ draft' = [draft EXCEPT ![p] = TRUE]
    BY DEF Push, Reopen, MarkReady, MarkDraft
  <2>5. draft' \in [Pulls -> BOOLEAN]
    BY <2>1, <2>4, Zenon
  <2>6. head' \in [Pulls -> Nat] /\ \A q \in Pulls : head[q] <= head'[q]
    BY <2>1, <2>3
  <2> QED
    BY <2>2, <2>5, <2>6
<1>2. events' \in [Pulls -> Seq([action : SupportedActions, draft : BOOLEAN, head : Nat])]
  <2>1. CASE MarkDraft(p)
    BY <2>1 DEF IndInv, TypeInv, MarkDraft
  <2>2. CASE Push(p) \/ Reopen(p) \/ MarkReady(p)
    <3>1. PICK a \in SupportedActions : Announce(p, a)
      BY <2>2 DEF Push, Reopen, MarkReady, SupportedActions
    <3> DEFINE Event == [action : SupportedActions, draft : BOOLEAN, head : Nat]
               new == [action |-> a, draft |-> draft'[p], head |-> head'[p]]
    <3>2. new \in Event
      BY <1>1
    <3>3. events \in [Pulls -> Seq(Event)] /\ events' = [events EXCEPT ![p] = Append(@, new)]
      BY <3>1 DEF IndInv, TypeInv, Announce
    <3> HIDE DEF Event, new
    <3>4. events' \in [Pulls -> Seq(Event)]
      BY <3>2, <3>3
    <3> QED
      BY <3>4 DEF Event
  <2> QED
    BY <2>1, <2>2
<1>3. TypeInv'
  BY <1>1, <1>2 DEF IndInv, TypeInv, result
<1>4. LockInv' /\ KeptInv' /\ ReviewsGoForward' /\ AlarmOnce'
  BY <1>1 DEF IndInv, LockInv, KeptInv, ReviewsGoForward, AlarmOnce, Commented, result
<1>5. HeadInv'
  <2>1. /\ \A q \in Pulls : head[q] \in Nat /\ head'[q] \in Nat
        /\ \A q \in Pulls : \A i \in DOMAIN reviews[q] : reviews[q][i].head \in Nat
        /\ \A j \in Jobs : prHead[j] \in Nat
    <3>1. \A q \in Pulls : head[q] \in Nat /\ head'[q] \in Nat
      BY <1>1 DEF IndInv, TypeInv
    <3>2. \A q \in Pulls : \A i \in DOMAIN reviews[q] : reviews[q][i] \in Review
      BY DEF IndInv, TypeInv
    <3>3. \A j \in Jobs : prHead[j] \in Nat
      BY DEF IndInv, TypeInv
    <3> QED
      BY <3>1, <3>2, <3>3 DEF Review
  <2> QED
    BY <1>1, <2>1, JobPull DEF IndInv, HeadInv
<1> QED
  BY <1>3, <1>4, <1>5 DEF IndInv

\* A delivery outside its review moves to where no review is under way either.
LEMMA IntakeInv ==
    ASSUME IndInv, NEW j \in Jobs, Intake(j) \/ Drop(j)
    PROVE  IndInv'
<1>1. PICK s \in Queue!Statuses \ {"reviewing"} :
         /\ UNCHANGED <<github, step, prHead, result>>
         /\ missed' \in SUBSET Jobs
         /\ status[j] # "reviewing"
         /\ status' = [status EXCEPT ![j] = s]
  BY DEF IndInv, TypeInv, Intake, Enqueue, Decline, NotRunning, Drop, Queue!Enqueue,
         Queue!Decline, Queue!Drop, Queue!Move, Queue!Statuses
<1>2. TypeInv'
  BY <1>1 DEF IndInv, TypeInv, github, result
<1>3. LockInv'
  BY <1>1 DEF IndInv, TypeInv, LockInv
<1>4. HeadInv' /\ KeptInv' /\ ReviewsGoForward' /\ AlarmOnce'
  BY <1>1 DEF IndInv, HeadInv, KeptInv, ReviewsGoForward, AlarmOnce, Commented, github,
              result
<1> QED
  BY <1>2, <1>3, <1>4 DEF IndInv

\* The lock is taken when no other delivery of the repository holds it.
LEMMA StartInv == ASSUME IndInv, NEW j \in Jobs, StartReview(j) PROVE IndInv'
<1>1. /\ UNCHANGED <<github, prHead, result, missed>>
      /\ status[j] = "waiting" /\ status' = [status EXCEPT ![j] = "reviewing"]
      /\ step' = [step EXCEPT ![j] = "fetch"]
      /\ \A k \in Jobs : status[k] = "reviewing" => RepoOf[k] # RepoOf[j]
  BY DEF StartReview, GoTo, Queue!StartReview, Queue!Move
<1>2. TypeInv'
  BY <1>1 DEF IndInv, TypeInv, github, result, Queue!Statuses, Steps
<1>3. LockInv'
  BY <1>1 DEF IndInv, TypeInv, LockInv
<1>4. ~checked[j]
  BY <1>1 DEF IndInv, LockInv, KeptInv
<1>5. HeadInv' /\ KeptInv' /\ ReviewsGoForward' /\ AlarmOnce'
  BY <1>1, <1>4 DEF IndInv, TypeInv, HeadInv, KeptInv, ReviewsGoForward, AlarmOnce,
                    Commented, github, result
<1> QED
  BY <1>2, <1>3, <1>5 DEF IndInv

\* The head is fetched under the lock: it is the newest, of all reviews too.
LEMMA FetchInv == ASSUME IndInv, NEW j \in Jobs, FetchPull(j) PROVE IndInv'
<1>1. /\ UNCHANGED <<github, status, result, missed>> /\ step[j] = "fetch"
      /\ prHead' = [prHead EXCEPT ![j] = head[PullOf(j)]]
      /\ step' = [step EXCEPT ![j] = "engine"]
  BY DEF FetchPull, GoTo
<1>2. TypeInv'
  BY <1>1, JobPull DEF IndInv, TypeInv, github, result, Steps
<1>3. LockInv'
  BY <1>1 DEF IndInv, TypeInv, LockInv
<1>4. HeadInv'
  BY <1>1, JobPull DEF IndInv, TypeInv, HeadInv, github
<1>5. KeptInv' /\ ReviewsGoForward' /\ AlarmOnce'
  BY <1>1 DEF IndInv, TypeInv, KeptInv, ReviewsGoForward, AlarmOnce, Commented, github,
              result
<1> QED
  BY <1>2, <1>3, <1>4, <1>5 DEF IndInv

\* The engine's answer has not been compared with anything.
LEMMA EngineInv == ASSUME IndInv, NEW j \in Jobs, RunEngine(j) PROVE IndInv'
<1>1. PICK answer \in SUBSET Alarms :
         /\ UNCHANGED <<github, status, prHead, demoted, checked, missed>>
         /\ step[j] = "engine" /\ step' = [step EXCEPT ![j] = "dedupe"]
         /\ found' = [found EXCEPT ![j] = answer]
  BY DEF RunEngine, GoTo
<1>2. TypeInv'
  BY <1>1 DEF IndInv, TypeInv, github, Steps
<1>3. LockInv' /\ HeadInv'
  BY <1>1 DEF IndInv, TypeInv, LockInv, HeadInv, github
<1>4. KeptInv' /\ ReviewsGoForward' /\ AlarmOnce'
  BY <1>1 DEF IndInv, TypeInv, KeptInv, ReviewsGoForward, AlarmOnce, Commented, github
<1> QED
  BY <1>2, <1>3, <1>4 DEF IndInv

\* Layer D: what is left at its severity is in no comment of now.
LEMMA DedupeInv ==
    ASSUME IndInv, NEW j \in Jobs, Dedupe(j) \/ SkipDedupe(j)
    PROVE  IndInv'
<1>1. /\ UNCHANGED <<github, status, prHead, found, missed>>
      /\ step[j] = "dedupe" /\ step' = [step EXCEPT ![j] = "post"]
  BY DEF Dedupe, SkipDedupe, GoTo, result
<1>2. \/ /\ demoted' = [demoted EXCEPT ![j] = found[j] \cap Commented(j)]
         /\ checked' = [checked EXCEPT ![j] = TRUE]
      \/ UNCHANGED <<demoted, checked>>
  BY DEF Dedupe, SkipDedupe, result
<1>3. TypeInv'
  BY <1>1, <1>2 DEF IndInv, TypeInv, github, Steps
<1>4. LockInv' /\ HeadInv' /\ ReviewsGoForward' /\ AlarmOnce'
  BY <1>1 DEF IndInv, TypeInv, LockInv, HeadInv, ReviewsGoForward, AlarmOnce, github
<1>5. KeptInv'
  <2> SUFFICES ASSUME NEW k \in Jobs, checked'[k]
               PROVE  /\ step'[k] = "post"
                      /\ (found'[k] \ demoted'[k]) \cap Commented(k)' = {}
    BY DEF KeptInv
  <2>1. Commented(k)' = Commented(k) /\ ~checked[j]
    BY <1>1 DEF Commented, github, IndInv, KeptInv
  <2> QED
    BY <1>1, <1>2, <2>1 DEF IndInv, TypeInv, KeptInv
<1> QED
  BY <1>3, <1>4, <1>5 DEF IndInv

-----------------------------------------------------------------------------
(* Leaving a review.                                                        *)

\* Reviews that end without a post leave GitHub as it was, whether their lock is
\* still to be given back ("leave") or gone with the process ("idle").
LEMMA ReturnInv ==
    ASSUME IndInv, NEW S \in SUBSET Jobs, NEW place \in {"leave", "idle"},
           Return(S, place), UNCHANGED github
    PROVE  HeadInv' /\ KeptInv' /\ ReviewsGoForward' /\ AlarmOnce'
<1>1. \A k \in Jobs : /\ step'[k] = IF k \in S THEN place ELSE step[k]
                      /\ k \notin S => /\ prHead'[k] = prHead[k] /\ found'[k] = found[k]
                                       /\ demoted'[k] = demoted[k]
                      /\ checked'[k] <=> checked[k] /\ k \notin S
  BY DEF Return
<1> QED
  BY <1>1 DEF IndInv, HeadInv, KeptInv, ReviewsGoForward, AlarmOnce, Commented, github

\* Returning keeps the types.
LEMMA ReturnType ==
    ASSUME TypeInv, NEW S \in SUBSET Jobs, NEW place \in {"leave", "idle"},
           Return(S, place)
    PROVE  /\ step' \in [Jobs -> Steps] /\ prHead' \in [Jobs -> Nat]
           /\ found' \in [Jobs -> SUBSET Alarms] /\ demoted' \in [Jobs -> SUBSET Alarms]
           /\ checked' \in [Jobs -> BOOLEAN]
<1>1. step' \in [Jobs -> Steps]
  BY DEF TypeInv, Return, Steps
<1>2. prHead' \in [Jobs -> Nat]
  BY DEF TypeInv, Return
<1>3. found' \in [Jobs -> SUBSET Alarms] /\ demoted' \in [Jobs -> SUBSET Alarms]
  BY DEF TypeInv, Return
<1>4. checked' \in [Jobs -> BOOLEAN]
  BY Zenon DEF TypeInv, Return
<1> QED
  BY <1>1, <1>2, <1>3, <1>4

\* A review that is left without a post.
LEMMA LeaveInv ==
    ASSUME IndInv, NEW j \in Jobs, SkipDraft(j) \/ Miss(j)
    PROVE  IndInv'
<1>1. /\ UNCHANGED <<github, status>> /\ missed' \in SUBSET Jobs
      /\ step[j] # "idle" /\ Return({j}, "leave")
  BY DEF SkipDraft, Miss, IndInv, TypeInv
<1>2. TypeInv'
  BY <1>1, ReturnType DEF IndInv, TypeInv, github
<1>3. LockInv'
  BY <1>1 DEF IndInv, LockInv, Return
<1> QED
  BY <1>1, <1>2, <1>3, ReturnInv DEF IndInv

\* The lock is given back when the review has been left.
LEMMA EndInv == ASSUME IndInv, NEW j \in Jobs, EndReview(j) PROVE IndInv'
<1>1. /\ UNCHANGED <<github, prHead, result, missed>> /\ step[j] = "leave"
      /\ status' = [status EXCEPT ![j] = "done"]
      /\ step' = [step EXCEPT ![j] = "idle"]
  BY DEF EndReview, GoTo, Queue!EndReview, Queue!Move
<1>2. TypeInv'
  BY <1>1 DEF IndInv, TypeInv, github, result, Queue!Statuses, Steps
<1>3. LockInv'
  BY <1>1 DEF IndInv, TypeInv, LockInv
<1>4. HeadInv' /\ KeptInv' /\ ReviewsGoForward' /\ AlarmOnce'
  BY <1>1 DEF IndInv, TypeInv, HeadInv, KeptInv, ReviewsGoForward, AlarmOnce, Commented,
              github, result
<1> QED
  BY <1>2, <1>3, <1>4 DEF IndInv

\* A crash ends every review with its lock.
LEMMA DieInv == ASSUME IndInv, Die PROVE IndInv'
<1> DEFINE lost == {j \in Jobs : status[j] \in {"waiting", "reviewing"}}
<1>1. /\ UNCHANGED github /\ missed' = missed \cup lost
      /\ status' = [j \in Jobs |-> IF j \in lost THEN "dropped" ELSE status[j]]
      /\ Return(lost, "idle") /\ lost \in SUBSET Jobs
  BY DEF Die
<1>2. TypeInv'
  <2>1. status' \in [Jobs -> Queue!Statuses]
    BY <1>1 DEF IndInv, TypeInv, Queue!Statuses
  <2> HIDE DEF lost
  <2> QED
    BY <1>1, <2>1, ReturnType DEF IndInv, TypeInv, github
<1>3. LockInv'
  BY <1>1 DEF IndInv, LockInv, Return
<1> HIDE DEF lost
<1> QED
  BY <1>1, <1>2, <1>3, ReturnInv DEF IndInv

\* The review is added at the end: of a head no earlier than the others', with
\* alarms that are in none of their comments, when no other review of the pull
\* request is under way.
LEMMA PostInv == ASSUME IndInv, NEW j \in Jobs, PostReview(j) PROVE IndInv'
<1> DEFINE p == PullOf(j)
<1>1. PICK inline \in SUBSET found[j] :
         reviews' = [reviews EXCEPT ![p] =
                       Append(@, [head |-> prHead[j], comments |-> inline,
                                  alarms |-> found[j] \ demoted[j],
                                  checked |-> checked[j]])]
  BY DEF PostReview
<1> DEFINE new == [head |-> prHead[j], comments |-> inline,
                   alarms |-> found[j] \ demoted[j], checked |-> checked[j]]
           s == reviews[p]
<1>2. /\ step[j] = "post" /\ UNCHANGED <<head, draft, events, status, missed>>
      /\ Return({j}, "leave")
  BY DEF PostReview
<1>3. /\ p \in Pulls /\ s \in Seq(Review) /\ new \in Review
      /\ reviews'[p] = Append(s, new)
      /\ \A q \in Pulls : q # p => reviews'[q] = reviews[q]
      /\ reviews' \in [Pulls -> Seq(Review)]
  <2>1. p \in Pulls /\ s \in Seq(Review)
    BY JobPull DEF IndInv, TypeInv
  <2>2. new \in Review
    BY DEF IndInv, TypeInv, Review
  <2> HIDE DEF new
  <2> QED
    BY <1>1, <2>1, <2>2 DEF new, IndInv, TypeInv
<1> HIDE DEF new
<1>4. /\ DOMAIN reviews'[p] = 1..(Len(s) + 1)
      /\ \A i \in 1..Len(s) : reviews'[p][i] = s[i]
      /\ reviews'[p][Len(s) + 1] = new
      /\ DOMAIN s = 1..Len(s) /\ Len(s) \in Nat
  BY <1>3
<1>5. /\ \A i \in DOMAIN s : s[i].head <= prHead[j]
      /\ prHead[j] <= head[p]
  BY <1>2 DEF IndInv, HeadInv
<1>6. checked[j] => \A i \in DOMAIN s : s[i].comments \cap (found[j] \ demoted[j]) = {}
  BY DEF IndInv, KeptInv, Commented
<1>7. new.head = prHead[j] /\ new.alarms = found[j] \ demoted[j] /\ new.checked = checked[j]
  BY DEF new
<1>8. \A k \in Jobs : k # j /\ step[k] # "idle" => reviews'[PullOf(k)] = reviews[PullOf(k)]
  BY <1>2, <1>3, JobPull, OneReviewOfPull DEF IndInv
<1>9. TypeInv'
  BY <1>2, <1>3, ReturnType DEF IndInv, TypeInv
<1>10. LockInv'
  BY <1>2 DEF IndInv, LockInv, Return
<1>11. HeadInv'
  <2>1. ASSUME NEW q \in Pulls, NEW i \in DOMAIN reviews'[q]
        PROVE  reviews'[q][i].head <= head'[q]
    <3>1. CASE q # p
      BY <1>2, <1>3, <2>1, <3>1 DEF IndInv, HeadInv
    <3>2. CASE q = p
      <4>1. i \in 1..(Len(s) + 1) /\ head'[q] = head[p]
        BY <1>2, <1>4, <2>1, <3>2
      <4>2. CASE i \in 1..Len(s)
        BY <1>4, <3>2, <4>1, <4>2 DEF IndInv, HeadInv
      <4>3. CASE i = Len(s) + 1
        BY <1>4, <1>5, <1>7, <3>2, <4>1, <4>3
      <4> QED
        BY <1>4, <4>1, <4>2, <4>3
    <3> QED
      BY <3>1, <3>2
  <2>2. ASSUME NEW k \in Jobs, step'[k] \in {"engine", "dedupe", "post"}
        PROVE  /\ prHead'[k] <= head'[PullOf(k)]
               /\ \A i \in DOMAIN reviews'[PullOf(k)] :
                    reviews'[PullOf(k)][i].head <= prHead'[k]
    <3>1. k # j /\ step'[k] = step[k] /\ prHead'[k] = prHead[k]
      BY <1>2, <2>2 DEF Return
    <3>2. reviews'[PullOf(k)] = reviews[PullOf(k)]
      BY <1>8, <2>2, <3>1
    <3> QED
      BY <1>2, <2>2, <3>1, <3>2 DEF IndInv, HeadInv
  <2> QED
    BY <2>1, <2>2 DEF HeadInv
<1>12. KeptInv'
  <2> SUFFICES ASSUME NEW k \in Jobs, checked'[k]
               PROVE  /\ step'[k] = "post"
                      /\ (found'[k] \ demoted'[k]) \cap Commented(k)' = {}
    BY DEF KeptInv
  <2>1. /\ k # j /\ checked[k] /\ step'[k] = step[k] /\ found'[k] = found[k]
        /\ demoted'[k] = demoted[k]
    BY <1>2 DEF Return
  <2>2. step[k] = "post" /\ (found[k] \ demoted[k]) \cap Commented(k) = {}
    BY <2>1 DEF IndInv, KeptInv
  <2>3. Commented(k)' = Commented(k)
    BY <1>8, <2>1, <2>2 DEF Commented
  <2> QED
    BY <2>1, <2>2, <2>3
<1>13. ReviewsGoForward'
  <2> SUFFICES ASSUME NEW q \in Pulls, NEW i \in DOMAIN reviews'[q],
                      NEW k \in DOMAIN reviews'[q], i < k
               PROVE  reviews'[q][i].head <= reviews'[q][k].head
    BY DEF ReviewsGoForward
  <2>1. CASE q # p
    BY <1>3, <2>1 DEF IndInv, ReviewsGoForward
  <2>2. CASE q = p
    <3>1. i \in 1..Len(s) /\ k \in 1..(Len(s) + 1)
      BY <1>4, <2>2
    <3>2. CASE k = Len(s) + 1
      <4>1. i \in 1..Len(s)
        BY <1>4, <3>1, <3>2
      <4> QED
        BY <1>4, <1>5, <1>7, <2>2, <3>2, <4>1
    <3>3. CASE k \in 1..Len(s)
      <4>1. i \in 1..Len(s)
        BY <1>4, <3>1, <3>3
      <4> QED
        BY <1>3, <1>4, <2>2, <3>3, <4>1 DEF IndInv, ReviewsGoForward
    <3> QED
      BY <1>4, <3>1, <3>2, <3>3
  <2> QED
    BY <2>1, <2>2
<1>14. AlarmOnce'
  <2> SUFFICES ASSUME NEW q \in Pulls, NEW i \in DOMAIN reviews'[q],
                      NEW k \in DOMAIN reviews'[q], i < k, reviews'[q][k].checked
               PROVE  reviews'[q][i].comments \cap reviews'[q][k].alarms = {}
    BY DEF AlarmOnce
  <2>1. CASE q # p
    BY <1>3, <2>1 DEF IndInv, AlarmOnce
  <2>2. CASE q = p
    <3>1. i \in 1..Len(s) /\ k \in 1..(Len(s) + 1)
      BY <1>4, <2>2
    <3>2. CASE k = Len(s) + 1
      BY <1>3, <1>4, <1>6, <1>7, <2>2, <3>1, <3>2
    <3>3. CASE k \in 1..Len(s)
      BY <1>3, <1>4, <2>2, <3>1, <3>3 DEF IndInv, AlarmOnce
    <3> QED
      BY <1>4, <3>1, <3>2, <3>3
  <2> QED
    BY <2>1, <2>2
<1> QED
  BY <1>9, <1>10, <1>11, <1>12, <1>13, <1>14 DEF IndInv

-----------------------------------------------------------------------------
\* Every reachable state satisfies the inductive invariant.
THEOREM ServiceInvariance == Spec => []IndInv
<1>1. Init => IndInv
  BY InitInv
<1>2. IndInv /\ [Next]_vars => IndInv'
  <2> SUFFICES ASSUME IndInv, [Next]_vars PROVE IndInv'
    OBVIOUS
  <2>1. CASE UNCHANGED vars
    <3>1. TypeInv' /\ LockInv' /\ HeadInv'
      BY <2>1 DEF IndInv, TypeInv, LockInv, HeadInv, vars, github, result
    <3>2. KeptInv' /\ ReviewsGoForward' /\ AlarmOnce'
      BY <2>1 DEF IndInv, KeptInv, ReviewsGoForward, AlarmOnce, Commented, vars, github,
                  result
    <3> QED
      BY <3>1, <3>2 DEF IndInv
  <2>2. ASSUME NEW p \in Pulls, Push(p) \/ Reopen(p) \/ MarkReady(p) \/ MarkDraft(p)
        PROVE  IndInv'
    BY <2>2, AuthorInv
  <2>3. ASSUME NEW j \in Jobs, Intake(j) \/ Drop(j) PROVE IndInv'
    BY <2>3, IntakeInv
  <2>4. ASSUME NEW j \in Jobs, StartReview(j) PROVE IndInv'
    BY <2>4, StartInv
  <2>5. ASSUME NEW j \in Jobs, ReviewStep(j) PROVE IndInv'
    BY <2>5, FetchInv, LeaveInv, EngineInv, DedupeInv, PostInv, EndInv DEF ReviewStep
  <2>6. CASE Die
    BY <2>6, DieInv
  <2> QED
    BY <2>1, <2>2, <2>3, <2>4, <2>5, <2>6 DEF Next
<1> QED
  BY <1>1, <1>2, PTL DEF Spec

\* However the deliveries of a pull request are ordered, lost or cut off by a
\* restart, its reviews are of heads that never go back (_process).
THEOREM GoesForward == Spec => []ReviewsGoForward
<1>1. IndInv => ReviewsGoForward
  BY DEF IndInv
<1> QED
  BY <1>1, ServiceInvariance, PTL

\* Between Layer D's listing and the post nobody comments: what a review says on a
\* line no later one raises as an alarm again (_process, per-repository lock).
THEOREM NoSecondAlarm == Spec => []AlarmOnce
<1>1. IndInv => AlarmOnce
  BY DEF IndInv
<1> QED
  BY <1>1, ServiceInvariance, PTL

\* One review of a pull request is under way at a time, and only under its lock.
THEOREM ReviewsExclude == Spec => []LockInv
<1>1. IndInv => LockInv
  BY DEF IndInv
<1> QED
  BY <1>1, ServiceInvariance, PTL
-----------------------------------------------------------------------------
(* No head is forgotten.                                                    *)

Announcing(j) == Sent(j) /\ Wanted(j) /\ Payload(j).head = head[PullOf(j)]

\* A delivery is on its way to a review of the head, failed, or led to one.
Covered(j) ==
    \/ j \in missed
    \/ status[j] \in {"new", "waiting"}
    \/ step[j] = "fetch"
    \/ step[j] \in {"engine", "dedupe", "post"} /\ prHead[j] = head[PullOf(j)]
    \/ \E i \in DOMAIN reviews[PullOf(j)] : reviews[PullOf(j)][i].head = head[PullOf(j)]

AnnouncedInv ==
    /\ \A j \in Jobs : ~Sent(j) => status[j] = "new"
    /\ \A p \in Pulls : head[p] # 0 /\ ~draft[p] =>
         \E j \in Jobs : PullOf(j) = p /\ Announcing(j) /\ Covered(j)

\* A step that is not the author's keeps the invariant when it moves no delivery
\* that GitHub has not sent and leaves every delivery covered.
LEMMA StayCovered ==
    ASSUME AnnouncedInv, UNCHANGED <<head, draft, events>>,
           \A j \in Jobs : ~Sent(j) => status'[j] = status[j],
           \A j \in Jobs : ~draft[PullOf(j)] /\ Announcing(j) /\ Covered(j) => Covered(j)'
    PROVE  AnnouncedInv'
<1>1. \A j \in Jobs : /\ Sent(j)' <=> Sent(j)
                      /\ Announcing(j)' <=> Announcing(j)
  BY DEF Sent, Announcing, Wanted, Payload
<1>2. \A j \in Jobs : ~Sent(j)' => status'[j] = "new"
  BY <1>1 DEF AnnouncedInv
<1>3. ASSUME NEW p \in Pulls, head'[p] # 0, ~draft'[p]
      PROVE  \E j \in Jobs : PullOf(j) = p /\ Announcing(j)' /\ Covered(j)'
  <2>1. PICK j \in Jobs : PullOf(j) = p /\ Announcing(j) /\ Covered(j)
    BY <1>3 DEF AnnouncedInv
  <2> QED
    BY <1>1, <1>3, <2>1
<1> QED
  BY <1>2, <1>3 DEF AnnouncedInv

\* An event that is sent is a new delivery, and takes none back.
LEMMA AnnounceFacts ==
    ASSUME IndInv, NEW p \in Pulls, NEW a, Announce(p, a)
    PROVE  /\ \E j \in Jobs :
                /\ PullOf(j) = p /\ ~Sent(j) /\ Sent(j)'
                /\ Payload(j)' = [action |-> a, draft |-> draft'[p], head |-> head'[p]]
           /\ \A j \in Jobs : Sent(j) => Sent(j)' /\ Payload(j)' = Payload(j)
<1> DEFINE new == [action |-> a, draft |-> draft'[p], head |-> head'[p]]
           Event == [action : SupportedActions, draft : BOOLEAN, head : Nat]
<1>1. /\ events \in [Pulls -> Seq(Event)] /\ Len(events[p]) < MaxEvents[p]
      /\ events' = [events EXCEPT ![p] = Append(@, new)]
  BY DEF IndInv, TypeInv, Announce
<1>n. PICK n : n = Len(events[p]) + 1
  OBVIOUS
<1> HIDE DEF Event, new
<1>2. /\ events[p] \in Seq(Event) /\ Len(events[p]) \in Nat /\ MaxEvents[p] \in Nat
      /\ n = Len(events[p]) + 1
      /\ events'[p] = Append(events[p], new)
      /\ \A q \in Pulls : q # p => events'[q] = events[q]
  <2>1. events[p] \in Seq(Event)
    BY <1>1
  <2>2. Len(events[p]) \in Nat
    BY <2>1
  <2>3. MaxEvents[p] \in Nat
    BY EventBoundsNat
  <2>4. events'[p] = Append(events[p], new) /\ \A q \in Pulls : q # p => events'[q] = events[q]
    BY <1>1
  <2> QED
    BY <1>n, <2>1, <2>2, <2>3, <2>4
<1>3. /\ Len(events'[p]) = n /\ events'[p][n] = new
      /\ \A i \in 1..Len(events[p]) : events'[p][i] = events[p][i]
  BY <1>2
<1>4. n \in 1..MaxEvents[p]
  BY <1>1, <1>2
<1>5. <<p, n>> \in Jobs
  BY <1>4 DEF Jobs
<1>6. PICK k \in Jobs : k = <<p, n>> /\ PullOf(k) = p /\ k[2] = n
  BY <1>5 DEF PullOf
<1>7. ASSUME NEW j \in Jobs, Sent(j) PROVE Sent(j)' /\ Payload(j)' = Payload(j)
  <2>1. PullOf(j) \in Pulls /\ j[2] \in Nat /\ j[2] >= 1
    <3>1. PICK q \in Pulls : j \in {q} \X (1..MaxEvents[q])
      BY DEF Jobs
    <3> QED
      BY <3>1, JobPull, EventBoundsNat
  <2>2. j[2] <= Len(events[PullOf(j)])
    BY <1>7 DEF Sent
  <2>3. CASE PullOf(j) # p
    BY <1>2, <2>1, <2>2, <2>3 DEF Sent, Payload
  <2>4. CASE PullOf(j) = p
    <3>1. j[2] \in 1..Len(events[p]) /\ j[2] <= n
      BY <1>2, <2>1, <2>2, <2>4
    <3> QED
      BY <1>3, <2>4, <3>1 DEF Sent, Payload
  <2> QED
    BY <2>3, <2>4
<1>8. ~Sent(k) /\ Sent(k)' /\ Payload(k)' = new
  <2>1. ~(n <= Len(events[p])) /\ n <= Len(events'[p])
    BY <1>2, <1>3
  <2>2. ~Sent(k) /\ Sent(k)'
    BY <1>6, <2>1 DEF Sent
  <2>3. Payload(k)' = new
    BY <1>3, <1>6 DEF Payload
  <2> QED
    BY <2>2, <2>3
<1> QED
  BY <1>5, <1>6, <1>7, <1>8 DEF new

\* Whatever makes a head ready is an event that accept() wants.
LEMMA AuthorAnnounces ==
    ASSUME IndInv, AnnouncedInv, NEW p \in Pulls,
           Push(p) \/ Reopen(p) \/ MarkReady(p) \/ MarkDraft(p)
    PROVE  AnnouncedInv'
<1>1. /\ UNCHANGED <<reviews, status, step, prHead, missed>>
      /\ \A q \in Pulls : q # p => /\ head'[q] = head[q] /\ draft'[q] = draft[q]
                                   /\ events'[q] = events[q]
  <2>1. UNCHANGED <<reviews, status, step, prHead, missed>>
    BY DEF Push, Reopen, MarkReady, MarkDraft, Announce, result
  <2>2. /\ head \in [Pulls -> Nat] /\ draft \in [Pulls -> BOOLEAN]
        /\ events \in [Pulls -> Seq([action : SupportedActions, draft : BOOLEAN, head : Nat])]
    BY DEF IndInv, TypeInv
  <2>3. /\ head' = head \/ head' = [head EXCEPT ![p] = @ + 1]
        /\ \/ draft' = draft
           \/ draft' = [draft EXCEPT ![p] = FALSE]
           \/ draft' = [draft EXCEPT ![p] = TRUE]
    BY DEF Push, Reopen, MarkReady, MarkDraft
  <2>4. \A q \in Pulls : q # p => events'[q] = events[q]
    BY <2>2 DEF Push, Reopen, MarkReady, MarkDraft, Announce
  <2> QED
    BY <2>1, <2>2, <2>3, <2>4
<1>2. ASSUME NEW j \in Jobs, Sent(j) PROVE Sent(j)' /\ Payload(j)' = Payload(j)
  <2>1. CASE MarkDraft(p)
    BY <1>2, <2>1 DEF MarkDraft, Sent, Payload
  <2>2. CASE Push(p) \/ Reopen(p) \/ MarkReady(p)
    BY <1>2, <2>2, AnnounceFacts DEF Push, Reopen, MarkReady
  <2> QED
    BY <2>1, <2>2
<1>3. \A j \in Jobs : ~Sent(j)' => status'[j] = "new"
  BY <1>1, <1>2 DEF AnnouncedInv
<1>4. ASSUME NEW q \in Pulls, q # p, head'[q] # 0, ~draft'[q]
      PROVE  \E j \in Jobs : PullOf(j) = q /\ Announcing(j)' /\ Covered(j)'
  <2>1. PICK j \in Jobs : PullOf(j) = q /\ Announcing(j) /\ Covered(j)
    BY <1>1, <1>4 DEF AnnouncedInv
  <2>2. Announcing(j)'
    BY <1>1, <1>2, <1>4, <2>1 DEF Announcing, Wanted
  <2>3. Covered(j)'
    BY <1>1, <1>4, <2>1 DEF Covered
  <2> QED
    BY <2>1, <2>2, <2>3
<1>5. ASSUME head'[p] # 0, ~draft'[p]
      PROVE  \E j \in Jobs : PullOf(j) = p /\ Announcing(j)' /\ Covered(j)'
  <2>1. ~MarkDraft(p)
    BY <1>5 DEF MarkDraft, IndInv, TypeInv
  <2>2. PICK a \in SupportedActions : Announce(p, a)
    BY <2>1 DEF Push, Reopen, MarkReady, SupportedActions
  <2>3. PICK j \in Jobs :
           /\ PullOf(j) = p /\ ~Sent(j) /\ Sent(j)'
           /\ Payload(j)' = [action |-> a, draft |-> draft'[p], head |-> head'[p]]
    BY <2>2, AnnounceFacts
  <2>4. Announcing(j)'
    BY <1>5, <2>3 DEF Announcing, Wanted
  <2>5. Covered(j)'
    BY <1>1, <2>3 DEF AnnouncedInv, Covered
  <2> QED
    BY <2>3, <2>4, <2>5
<1> QED
  BY <1>3, <1>4, <1>5 DEF AnnouncedInv

\* What is declined was not wanted, and what is dropped is recorded.
LEMMA IntakeCovers ==
    ASSUME IndInv, AnnouncedInv, NEW j \in Jobs, Intake(j) \/ Drop(j) \/ StartReview(j)
    PROVE  AnnouncedInv'
<1>1. /\ UNCHANGED <<head, draft, events, reviews, prHead>> /\ missed \subseteq missed'
      /\ Sent(j) /\ \A k \in Jobs : k # j => status'[k] = status[k] /\ step'[k] = step[k]
      /\ Announcing(j) => j \in missed' \/ status'[j] = "waiting" \/ step'[j] = "fetch"
  <2>1. status \in [Jobs -> Queue!Statuses] /\ step \in [Jobs -> Steps]
    BY DEF IndInv, TypeInv
  <2>2. CASE Intake(j)
    BY <2>1, <2>2 DEF Intake, Enqueue, Decline, NotRunning, Queue!Enqueue, Queue!Decline,
                      Queue!Move, github, Announcing
  <2>3. CASE Drop(j)
    BY <2>1, <2>3 DEF Drop, Queue!Drop, Queue!Move, github, AnnouncedInv
  <2>4. CASE StartReview(j)
    BY <2>1, <2>4 DEF StartReview, GoTo, Queue!StartReview, Queue!Move, github, AnnouncedInv
  <2> QED
    BY <2>2, <2>3, <2>4
<1>2. \A k \in Jobs : ~Sent(k) => status'[k] = status[k]
  BY <1>1
<1>3. ASSUME NEW k \in Jobs, Announcing(k), Covered(k) PROVE Covered(k)'
  <2>1. CASE k = j
    BY <1>1, <1>3, <2>1 DEF Covered
  <2>2. CASE k # j
    BY <1>1, <1>3, <2>2 DEF Covered
  <2> QED
    BY <2>1, <2>2
<1> QED
  BY <1>1, <1>2, <1>3, StayCovered

\* The review of a delivery goes on to the head it fetched, and passes over no
\* head but a draft's.
LEMMA ReviewCovers ==
    ASSUME IndInv, AnnouncedInv, NEW j \in Jobs, ReviewStep(j)
    PROVE  AnnouncedInv'
<1>1. UNCHANGED <<head, draft, events>> /\ missed \subseteq missed'
  BY DEF ReviewStep, FetchPull, SkipDraft, RunEngine, Dedupe, SkipDedupe, PostReview, Miss,
         EndReview, github
<1>2. /\ status[j] = "reviewing" /\ step[j] # "idle"
      /\ \A k \in Jobs : k # j => /\ status'[k] = status[k] /\ step'[k] = step[k]
                                  /\ prHead'[k] = prHead[k]
  <2>1. /\ status \in [Jobs -> Queue!Statuses] /\ step \in [Jobs -> Steps]
        /\ prHead \in [Jobs -> Nat]
    BY DEF IndInv, TypeInv
  <2>2. step[j] # "idle"
    BY DEF ReviewStep, FetchPull, SkipDraft, RunEngine, Dedupe, SkipDedupe, PostReview,
           Miss, EndReview
  <2>3. ASSUME NEW k \in Jobs, k # j
        PROVE  status'[k] = status[k] /\ step'[k] = step[k] /\ prHead'[k] = prHead[k]
    BY <2>1, <2>3 DEF ReviewStep, FetchPull, SkipDraft, RunEngine, Dedupe, SkipDedupe,
         PostReview, Miss, EndReview, GoTo, Return, Queue!EndReview, Queue!Move, result
  <2> QED
    BY <2>2, <2>3 DEF IndInv, LockInv
<1>3. \A p \in Pulls : \A i \in DOMAIN reviews[p] :
        i \in DOMAIN reviews'[p] /\ reviews'[p][i] = reviews[p][i]
  <2>1. CASE PostReview(j)
    <3>1. PICK new : reviews' = [reviews EXCEPT ![PullOf(j)] = Append(@, new)]
      BY <2>1 DEF PostReview
    <3>2. \A p \in Pulls : reviews[p] \in Seq(Review)
      BY DEF IndInv, TypeInv
    <3>3. ASSUME NEW p \in Pulls, NEW i \in DOMAIN reviews[p]
          PROVE  i \in DOMAIN reviews'[p] /\ reviews'[p][i] = reviews[p][i]
      <4>1. reviews'[p] = IF p = PullOf(j) THEN Append(reviews[p], new) ELSE reviews[p]
        BY <3>1, <3>3 DEF IndInv, TypeInv
      <4>2. reviews[p] \in Seq(Review)
        BY <3>2
      <4> QED
        BY <3>3, <4>1, <4>2
    <3> QED
      BY <3>3
  <2>2. CASE ~PostReview(j)
    BY <2>2 DEF ReviewStep, FetchPull, SkipDraft, RunEngine, Dedupe, SkipDedupe, Miss,
                EndReview, github
  <2> QED
    BY <2>1, <2>2
<1>4. \A k \in Jobs : ~Sent(k) => status'[k] = status[k]
  BY <1>2 DEF AnnouncedInv
<1>5. ASSUME NEW k \in Jobs, k # j, Covered(k) PROVE Covered(k)'
  BY <1>1, <1>2, <1>3, <1>5, JobPull DEF Covered
<1>6. ASSUME ~draft[PullOf(j)], Announcing(j), Covered(j) PROVE Covered(j)'
  <2>1. CASE j \in missed
    BY <1>1, <2>1 DEF Covered
  <2>2. CASE \E i \in DOMAIN reviews[PullOf(j)] :
               reviews[PullOf(j)][i].head = head[PullOf(j)]
    BY <1>1, <1>3, <2>2, JobPull DEF Covered
  <2>3. CASE step[j] = "fetch"
    <3>1. CASE FetchPull(j)
      BY <1>1, <3>1 DEF FetchPull, GoTo, Covered, IndInv, TypeInv
    <3>2. CASE Miss(j)
      BY <3>2 DEF Miss, Covered
    <3> QED
      BY <1>6, <2>3, <3>1, <3>2 DEF ReviewStep, SkipDraft, RunEngine, Dedupe, SkipDedupe,
                                    PostReview, EndReview
  <2>4. CASE step[j] \in {"engine", "dedupe", "post"} /\ prHead[j] = head[PullOf(j)]
    <3>1. CASE RunEngine(j) \/ Dedupe(j) \/ SkipDedupe(j)
      BY <1>1, <2>4, <3>1 DEF RunEngine, Dedupe, SkipDedupe, GoTo, Covered, IndInv, TypeInv
    <3>2. CASE Miss(j)
      BY <3>2 DEF Miss, Covered
    <3>3. CASE PostReview(j)
      <4> DEFINE s == reviews[PullOf(j)]
      <4>1. PICK inline :
               reviews' = [reviews EXCEPT ![PullOf(j)] =
                             Append(@, [head |-> prHead[j], comments |-> inline,
                                        alarms |-> found[j] \ demoted[j],
                                        checked |-> checked[j]])]
        BY <3>3 DEF PostReview
      <4> DEFINE new == [head |-> prHead[j], comments |-> inline,
                         alarms |-> found[j] \ demoted[j], checked |-> checked[j]]
      <4>5. new.head = prHead[j]
        OBVIOUS
      <4> HIDE DEF new
      <4>2. PullOf(j) \in Pulls /\ s \in Seq(Review)
        BY JobPull DEF IndInv, TypeInv
      <4>3. reviews'[PullOf(j)] = Append(s, new)
        BY <4>1, <4>2 DEF IndInv, TypeInv, new
      <4>4. Len(s) + 1 \in DOMAIN reviews'[PullOf(j)] /\ reviews'[PullOf(j)][Len(s) + 1] = new
        BY <4>2, <4>3
      <4> QED
        BY <1>1, <2>4, <4>4, <4>5 DEF Covered
    <3> QED
      BY <2>4, <3>1, <3>2, <3>3 DEF ReviewStep, FetchPull, SkipDraft, EndReview
  <2> QED
    BY <1>2, <1>6, <2>1, <2>2, <2>3, <2>4 DEF Covered
<1> QED
  BY <1>1, <1>4, <1>5, <1>6, StayCovered

\* A death of the process records what it loses.
LEMMA DieCovers == ASSUME IndInv, AnnouncedInv, Die PROVE AnnouncedInv'
<1> DEFINE lost == {j \in Jobs : status[j] \in {"waiting", "reviewing"}}
<1>1. /\ UNCHANGED <<head, draft, events, reviews>> /\ missed' = missed \cup lost
      /\ status' = [j \in Jobs |-> IF j \in lost THEN "dropped" ELSE status[j]]
      /\ \A j \in Jobs : j \notin lost => step'[j] = step[j] /\ prHead'[j] = prHead[j]
  BY DEF Die, Return, github
<1>2. \A j \in Jobs : ~Sent(j) => j \notin lost
  BY DEF AnnouncedInv
<1> HIDE DEF lost
<1>3. \A j \in Jobs : ~Sent(j) => status'[j] = status[j]
  BY <1>1, <1>2
<1>4. ASSUME NEW j \in Jobs, Covered(j) PROVE Covered(j)'
  <2>1. CASE j \in lost
    BY <1>1, <2>1 DEF Covered
  <2>2. CASE j \notin lost
    BY <1>1, <1>4, <2>2 DEF Covered
  <2> QED
    BY <2>1, <2>2
<1> QED
  BY <1>1, <1>3, <1>4, StayCovered

\* The head of every pull request that is ready is covered.
THEOREM HeadsCovered == Spec => []AnnouncedInv
<1>1. Init => AnnouncedInv
  BY DEF Init, AnnouncedInv, Queue!Init
<1>2. IndInv /\ AnnouncedInv /\ [Next]_vars => AnnouncedInv'
  <2> SUFFICES ASSUME IndInv, AnnouncedInv, [Next]_vars PROVE AnnouncedInv'
    OBVIOUS
  <2>1. CASE UNCHANGED vars
    <3>1. \A j \in Jobs : Covered(j) => Covered(j)'
      BY <2>1 DEF Covered, vars, github
    <3> QED
      BY <2>1, <3>1, StayCovered DEF vars, github
  <2>2. ASSUME NEW p \in Pulls, Push(p) \/ Reopen(p) \/ MarkReady(p) \/ MarkDraft(p)
        PROVE  AnnouncedInv'
    BY <2>2, AuthorAnnounces
  <2>3. ASSUME NEW j \in Jobs, Intake(j) \/ Drop(j) \/ StartReview(j) PROVE AnnouncedInv'
    BY <2>3, IntakeCovers
  <2>4. ASSUME NEW j \in Jobs, ReviewStep(j) PROVE AnnouncedInv'
    BY <2>4, ReviewCovers
  <2>5. CASE Die
    BY <2>5, DieCovers
  <2> QED
    BY <2>1, <2>2, <2>3, <2>4, <2>5 DEF Next
<1> QED
  BY <1>1, <1>2, ServiceInvariance, PTL DEF Spec

\* Once no delivery of a ready pull request waits or is under review, its head was
\* reviewed, or the delivery that announced it failed (accept, _process).
THEOREM NothingForgotten == Spec => []NoHeadForgotten
<1>1. IndInv /\ AnnouncedInv => NoHeadForgotten
  <2> SUFFICES ASSUME IndInv, AnnouncedInv, NEW p \in Pulls, head[p] # 0, ~draft[p],
                      \A j \in Jobs : PullOf(j) = p /\ Sent(j) =>
                          status[j] \in {"declined", "done", "dropped"}
               PROVE  \/ \E i \in DOMAIN reviews[p] : reviews[p][i].head = head[p]
                      \/ \E j \in missed :
                           PullOf(j) = p /\ Sent(j) /\ Payload(j).head = head[p]
    BY DEF NoHeadForgotten
  <2>1. PICK j \in Jobs : PullOf(j) = p /\ Announcing(j) /\ Covered(j)
    BY DEF AnnouncedInv
  <2>2. status[j] \in {"declined", "done", "dropped"}
    BY <2>1 DEF Announcing
  <2>3. step[j] = "idle"
    BY <2>2 DEF IndInv, LockInv
  <2> QED
    BY <2>1, <2>2, <2>3 DEF Announcing, Covered
<1> QED
  BY <1>1, HeadsCovered, ServiceInvariance, PTL
=============================================================================
