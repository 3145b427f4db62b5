---------------------------- MODULE ReviewHistory ----------------------------
(***************************************************************************)
(* The review comments of one pull request over many reviews: what the     *)
(* parser and Layer B make of the model's answer, how Layer D demotes what *)
(* was said before, what post_review anchors, and how Layer E replies to   *)
(* comments whose line has changed, while the author pushes and GitHub     *)
(* moves the comments along or gives them up as outdated.                  *)
(*                                                                         *)
(* Reviews of one repository never overlap (RepoMutex of WebhookHandler),  *)
(* so there is one review at a time.  One file; the text of a line stands  *)
(* for its text without surrounding blanks, which is what Layer E compares.*)
(* Comments of other authors are filtered by App id and left out, but they *)
(* fill the pages of a listing, and new ones shift it between two requests.*)
(***************************************************************************)
EXTENDS Integers, FiniteSets, SequencesExt

CONSTANTS
    MaxPushes,  \* bound: commits 1..MaxPushes become the head in turn
    MaxReviews, \* bound: reviews of the pull request
    MaxPages,   \* the `while page <= 10` of list_self_review_comments()
    MaxShift,   \* bound: comments a listing moves down by between two requests
    Lines,      \* line numbers of the file
    Versions,   \* contents the file may have: functions from Lines to texts
    Cores,      \* texts of findings, without tag and demotion markers
    Addable,    \* addable_lines: per commit, lines GitHub takes comments on
    Answers     \* what the model may answer: event and findings

Commits == 1..MaxPushes
Severities == {"Critical", "Major", "Minor", "Suggestion", "untagged"}
Events == {"COMMENT", "REQUEST_CHANGES", "APPROVE"}

\* What is wrong with a finding, as far as the parser and Layer B can tell: its
\* path is not in the pull request, it holds a hallucination pattern, or it
\* quotes text that is not on the line.
Flaws == {"none", "unknown_path", "hallucination", "phantom"}

\* A finding of an answer; line 0 stands for an unusable one.
RawFinding == [line : Lines \cup {0}, sev : Severities, marks : Nat,
               core : Cores, flaw : Flaws]

ASSUME BoundsPositive == MaxPushes \in Nat \ {0} /\ MaxReviews \in Nat \ {0}
ASSUME PagesPositive == MaxPages \in Nat \ {0} /\ MaxShift \in Nat
ASSUME LinesPositive == Lines \subseteq Nat \ {0}
ASSUME AddableType == Addable \in [Commits -> SUBSET Lines]
ASSUME AnswersType ==
    \A a \in Answers : a.event \in Events /\ a.findings \in Seq(RawFinding)

VARIABLES
    head,     \* GitHub: the head commit
    source,   \* GitHub: the content of the file at each commit so far
    threads,  \* GitHub: the App's inline comments, oldest first
    pc,       \* the next step of the review under way
    reviews,  \* reviews begun
    prHead,   \* pr.head_sha
    event,    \* result.event
    findings, \* result.findings
    results,  \* list_self_review_comments(): local `results`
    page,     \* pages it has requested
    rest,     \* comments 1..rest are behind the last of these pages
    existing, \* Layer D: local `existing`
    listed,   \* Layer E: local `all_comments`
    todo,     \* Layer E: how many of them the loop has still to visit
    failed    \* Layer E: comments whose line could not be read or whose reply
              \* raised in this follow-up (history)

github == <<head, source, threads>>
result == <<event, findings>>
listing == <<results, page, rest>>
layerE == <<listed, todo, failed>>
vars == <<github, pc, reviews, prHead, result, listing, existing, layerE>>

Init ==
    /\ head = 1
    /\ source \in [1..1 -> Versions]
    /\ threads = <<>>
    /\ pc = "idle"
    /\ reviews = 0
    /\ prHead = 1
    /\ event = "COMMENT"
    /\ findings = <<>>
    /\ results = <<>> /\ page = 0 /\ rest = 0
    /\ existing = <<>>
    /\ listed = <<>>
    /\ todo = 0
    /\ failed = {}

-----------------------------------------------------------------------------
(* GitHub.                                                                  *)

Push ==
    /\ head < MaxPushes
    /\ head' = head + 1
    /\ \E v \in Versions : source' = Append(source, v)
    /\ UNCHANGED <<threads, pc, reviews, prHead, result, listing, existing, layerE>>

\* Some time after a push GitHub re-anchors a thread: to any line of the new
\* head or, line 0, to none.
Reanchor ==
    /\ \E i \in DOMAIN threads, l \in Lines \cup {0} :
         /\ threads[i].line # 0
         /\ threads[i].commit < head
         /\ threads' = [threads EXCEPT ![i].commit = head, ![i].line = l]
    /\ UNCHANGED <<head, source, pc, reviews, prHead, result, listing, existing, layerE>>

-----------------------------------------------------------------------------
(* The result: parser, Layer B and Layer D.                                 *)

Blocking(f) == f.sev \in {"Critical", "Major"}

\* _normalize_event(): weakened when the findings do not bear the event out.
Normalize(e, fs) ==
    LET mayBlock == \E i \in DOMAIN fs : Blocking(fs[i]) \/ fs[i].sev = "untagged" IN
    IF (e = "APPROVE" /\ mayBlock) \/ (e = "REQUEST_CHANGES" /\ ~mayBlock)
    THEN "COMMENT" ELSE e

\* The tag becomes [Suggestion] and one more marker is put before the text.
Demote(f) == [f EXCEPT !.sev = "Suggestion", !.marks = @ + 1]

\* The blocking findings among those at the indices I are demoted.
DemoteAt(fs, I) ==
    [i \in DOMAIN fs |-> IF i \in I /\ Blocking(fs[i]) THEN Demote(fs[i]) ELSE fs[i]]

Flawed(fs, flaw) == {i \in DOMAIN fs : fs[i].flaw = flaw}

\* The elements of s at the indices I, in their order.
Nth(I, n) == CHOOSE i \in I : Cardinality({k \in I : k <= i}) = n

Sift(s, I) == [n \in 1..Cardinality(I) |-> s[Nth(I, n)]]

\* Mutant: a finding without a usable line is kept.
ParseUnanchored(fs) ==
    LET kept == Sift(fs, {i \in DOMAIN fs : fs[i].flaw # "unknown_path"}) IN
    DemoteAt(kept, Flawed(kept, "hallucination"))

\* _parse_findings(): no line or a path outside the pull request drops it.
ParseFindings(fs) ==
    LET usable == {i \in DOMAIN fs : fs[i].line # 0 /\ fs[i].flaw # "unknown_path"}
        kept == Sift(fs, usable) IN
    DemoteAt(kept, Flawed(kept, "hallucination"))

\* SourceGroundedFindingVerifier.verify(): Layer B.
VerifyFindings(fs) == DemoteAt(fs, Flawed(fs, "phantom"))

\* Mutant: the comparison keeps the demotion marker of earlier rounds.
SignatureMarked(c) == [line |-> c.line, marks |-> c.marks, core |-> c.core]

\* What Layer D compares: the line and the text after the tag, of which one
\* leading demotion marker is removed.
Signature(c) == [line |-> c.line, marks |-> IF c.marks > 0 THEN c.marks - 1 ELSE 0,
                 core |-> c.core]

-----------------------------------------------------------------------------
(* list_self_review_comments(), which Layers D and E both call.             *)

\* What a page holds: the comments first, first - 1, .., last + 1, newest first,
\* without those that are outdated.
Entries(first, last) ==
    Reverse(Sift(threads, {i \in last + 1 .. first : threads[i].line # 0}))

Blocks == \E i \in DOMAIN findings : Blocking(findings[i])

Listing == pc = "list" \/ (pc = "dedupe" /\ Blocks)

\* The newest comment that is not behind the pages so far has the number Rest + 1.
Rest == IF page = 0 THEN Len(threads) ELSE rest

\* The loop may have ended: the page was a short one, so that nothing is behind it,
\* or it was the tenth.
AllListed == page > 0 /\ (rest = 0 \/ page = MaxPages)

\* A page begins where the one before ended, or further up when somebody commented
\* between the two requests. Where it ends depends on the other authors' comments.
ListPage ==
    /\ Listing /\ page < MaxPages
    /\ \E first \in Rest..Len(threads), last \in 0..Len(threads) :
         /\ first <= Rest + MaxShift /\ last <= first
         /\ results' = results \o Entries(first, last)
         /\ rest' = last
    /\ page' = page + 1
    /\ UNCHANGED <<github, pc, reviews, prHead, result, existing, layerE>>

\* The call returns or raises.
ListingOver == results' = <<>> /\ page' = 0 /\ rest' = 0

-----------------------------------------------------------------------------
(* A review.                                                                *)

\* fetch_pull_request() and the checkout of the head it saw.
Begin ==
    /\ pc = "idle"
    /\ reviews < MaxReviews
    /\ reviews' = reviews + 1
    /\ prHead' = head
    /\ pc' = "review"
    /\ UNCHANGED <<github, result, listing, existing, layerE>>

\* engine.review() returned; parse_review() and verify() need nobody else.
Review ==
    /\ pc = "review"
    /\ \E a \in Answers :
         LET parsed == ParseFindings(a.findings)
             verified == VerifyFindings(parsed) IN
         /\ findings' = verified
         /\ event' = Normalize(Normalize(a.event, parsed), verified)
    /\ pc' = "dedupe"
    /\ UNCHANGED <<github, reviews, prHead, listing, existing, layerE>>

\* The engine raised, or a notice took the review's place: Layer E is next.
NoReview ==
    /\ pc = "review"
    /\ pc' = "list"
    /\ UNCHANGED <<github, reviews, prHead, result, listing, existing, layerE>>

\* Mutant: the event is not weakened after the demotions of Layer D.
DedupeKeepingEvent ==
    /\ pc = "dedupe" /\ Blocks /\ AllListed
    /\ existing' = results
    /\ ListingOver
    /\ LET said == {i \in DOMAIN findings : \E k \in DOMAIN existing' :
                        Signature(existing'[k]) = Signature(findings[i])} IN
       findings' = DemoteAt(findings, said)
    /\ pc' = "post"
    /\ UNCHANGED <<github, reviews, prHead, event, layerE>>

\* CrossPrFindingDeduper.dedupe(): what a listed comment says already at the
\* same line is demoted.
Dedupe ==
    /\ pc = "dedupe" /\ Blocks /\ AllListed
    /\ existing' = results
    /\ ListingOver
    /\ LET said == {i \in DOMAIN findings : \E k \in DOMAIN existing' :
                        Signature(existing'[k]) = Signature(findings[i])} IN
       findings' = DemoteAt(findings, said)
    /\ event' = IF existing' = <<>> THEN event ELSE Normalize(event, findings')
    /\ pc' = "post"
    /\ UNCHANGED <<github, reviews, prHead, layerE>>

\* Nothing to demote, or a request of the listing failed: the result stays.
SkipDedupe ==
    /\ pc = "dedupe"
    /\ ListingOver
    /\ pc' = "post"
    /\ UNCHANGED <<github, reviews, prHead, result, existing, layerE>>

\* The inline comments a review pinned to commit c gets: those of its findings
\* that are on lines of the diff (_partition_findings).
Inline(c) ==
    LET addable == {i \in DOMAIN findings : findings[i].line \in Addable[prHead]}
        kept == Sift(findings, addable) IN
    [i \in DOMAIN kept |->
        [id |-> Len(threads) + i, line |-> kept[i].line, commit |-> c,
         origLine |-> kept[i].line, origCommit |-> c, sev |-> kept[i].sev,
         marks |-> kept[i].marks, core |-> kept[i].core, replies |-> <<>>]]

\* Mutant: no commit_id in the payload: GitHub takes the head of the moment.
PostReviewAtHead ==
    /\ pc = "post"
    /\ threads' = threads \o Inline(head)
    /\ findings' = <<>>
    /\ existing' = <<>>
    /\ pc' = "list"
    /\ UNCHANGED <<head, source, reviews, prHead, event, listing, layerE>>

\* post_review() got through, also when its answer was lost.
PostReview ==
    /\ pc = "post"
    /\ threads' = threads \o Inline(prHead)
    /\ findings' = <<>>
    /\ existing' = <<>>
    /\ pc' = "list"
    /\ UNCHANGED <<head, source, reviews, prHead, event, listing, layerE>>

\* It did not, or after a 422 with every finding in the body.
PostNoComments ==
    /\ pc = "post"
    /\ findings' = <<>>
    /\ existing' = <<>>
    /\ pc' = "list"
    /\ UNCHANGED <<github, reviews, prHead, event, listing, layerE>>

-----------------------------------------------------------------------------
(* DiffBasedResolutionChecker.check_resolutions(): Layer E.                 *)

ListForReplies ==
    /\ pc = "list" /\ AllListed
    /\ listed' = results
    /\ ListingOver
    /\ todo' = Len(listed')
    /\ failed' = {}
    /\ pc' = "reply"
    /\ UNCHANGED <<github, reviews, prHead, result, existing>>

\* A request of the listing raised: no follow-up this time.
ListFails ==
    /\ pc = "list"
    /\ ListingOver
    /\ pc' = "idle"
    /\ UNCHANGED <<github, reviews, prHead, result, existing, layerE>>

\* git show in the checkout, which holds the history of prHead and no more.
Readable(c) == c <= prHead

Changed(c) ==
    /\ Readable(c.origCommit) /\ Readable(c.commit)
    /\ source[c.origCommit][c.origLine] # source[c.commit][c.line]

\* Mutant: the comment's present commit is compared with the head.
AsksByCommit(c) == c.replies = <<>> /\ Blocking(c) /\ c.commit # prHead

\* Mutant: a comment that has a reply is looked at again.
AsksAgain(c) == Blocking(c) /\ c.origCommit # prHead

\* The comments whose line Layer E reads: those with a blocking tag and, among the
\* listed comments, no reply.
Asks(c) == c.replies = <<>> /\ Blocking(c) /\ c.origCommit # prHead

\* The line of the original anchor reads differently where the comment is now.
WantsReply(c) == Asks(c) /\ Changed(c)

Current == listed[Len(listed) - todo + 1]

\* _maybe_reply() finds nothing to say, or the loop passes over the comment.
PassOver ==
    /\ pc = "reply" /\ todo > 0
    /\ ~WantsReply(Current)
    /\ todo' = todo - 1
    /\ UNCHANGED <<github, pc, reviews, prHead, result, listing, existing, listed, failed>>

\* _read_line_at_commit() gives None although git has the commit: git show timed
\* out, could not be started or ended with an error. The comment is passed over.
ReadFails ==
    /\ pc = "reply" /\ todo > 0
    /\ Asks(Current)
    /\ failed' = failed \cup {Current.id}
    /\ todo' = todo - 1
    /\ UNCHANGED <<github, pc, reviews, prHead, result, listing, existing, listed>>

\* reply_to_review_comment() gets through; its answer may be lost, which the
\* loop takes for a failure.
Reply ==
    /\ pc = "reply" /\ todo > 0
    /\ WantsReply(Current)
    /\ threads' = [threads EXCEPT ![Current.id].replies = Append(@, reviews)]
    /\ failed' \in {failed, failed \cup {Current.id}}
    /\ todo' = todo - 1
    /\ UNCHANGED <<head, source, pc, reviews, prHead, result, listing, existing, listed>>

\* It does not get through: logged, and on to the next comment.
ReplyFails ==
    /\ pc = "reply" /\ todo > 0
    /\ WantsReply(Current)
    /\ failed' = failed \cup {Current.id}
    /\ todo' = todo - 1
    /\ UNCHANGED <<github, pc, reviews, prHead, result, listing, existing, listed>>

RepliesDone ==
    /\ pc = "reply" /\ todo = 0
    /\ pc' = "idle"
    /\ listed' = <<>>
    /\ failed' = {}
    /\ UNCHANGED <<github, reviews, prHead, result, listing, existing, todo>>

-----------------------------------------------------------------------------
LayerE ==
    \/ ListForReplies \/ ListFails
    \/ PassOver \/ ReadFails \/ Reply \/ ReplyFails \/ RepliesDone

Next ==
    \/ Push \/ Reanchor
    \/ Begin \/ Review \/ NoReview
    \/ ListPage \/ Dedupe \/ SkipDedupe
    \/ PostReview \/ PostNoComments
    \/ LayerE

Spec == Init /\ [][Next]_vars

-----------------------------------------------------------------------------
Comments ==
    [id : Nat, line : Lines \cup {0}, commit : Commits, origLine : Lines,
     origCommit : Commits, sev : Severities, marks : Nat, core : Cores,
     replies : Seq(1..MaxReviews)]

\* Every variable has its type; in particular every finding that leaves the
\* parser has a line and belongs to the pull request (_parse_findings).
TypeOK ==
    /\ head \in Commits
    /\ source \in Seq(Versions) /\ Len(source) = head
    /\ threads \in Seq(Comments)
    /\ pc \in {"idle", "review", "dedupe", "post", "list", "reply"}
    /\ reviews \in 0..MaxReviews
    /\ prHead \in 1..head
    /\ event \in Events
    /\ findings \in Seq([line : Lines, sev : Severities, marks : Nat,
                         core : Cores, flaw : Flaws \ {"unknown_path"}])
    /\ results \in Seq(Comments)
    /\ page \in 0..MaxPages
    /\ rest \in 0..Len(threads)
    /\ existing \in Seq(Comments)
    /\ listed \in Seq(Comments)
    /\ todo \in 0..Len(listed)
    /\ failed \subseteq DOMAIN threads

\* What the module's docstring promises: a comment that has a follow-up is skipped
\* (check_resolutions). It does not hold; see NoSecondFollowUp for what does.
AtMostOneReply == \A i \in DOMAIN threads : Len(threads[i].replies) <= 1

Twice(s, id) == \E k, m \in DOMAIN s : k # m /\ s[k].id = id /\ s[m].id = id

\* A comment that has a follow-up gets another one only from the same review, and
\* only if that review's listing held the comment twice: no later review repeats a
\* reply, also when the answer to it was lost or the line goes on changing
\* (check_resolutions).
NoSecondFollowUp ==
    [][\A i \in DOMAIN threads :
         threads'[i].replies # threads[i].replies =>
             \/ threads[i].replies = <<>>
             \/ /\ Twice(listed, i)
                /\ \A n \in DOMAIN threads[i].replies : threads[i].replies[n] = reviews]_vars

\* What a listed comment says at a line, demoted or not, is not posted there as
\* [Critical] or [Major] once more: not in the third round either, when the
\* first comment is outdated and only its demoted repetition is left (dedupe).
NoRepeatedAlarm ==
    pc = "post" =>
        \A i \in DOMAIN findings, k \in DOMAIN existing :
            Blocking(findings[i]) =>
                ~(existing[k].line = findings[i].line /\ existing[k].core = findings[i].core)

\* The event of a posted review and its findings agree, whatever the parser,
\* Layer B and Layer D dropped and demoted: changes are requested only with a
\* finding that may block, and a review with one never approves.
EventFitsFindings ==
    pc = "post" =>
        LET mayBlock == \E i \in DOMAIN findings :
                           Blocking(findings[i]) \/ findings[i].sev = "untagged" IN
        /\ event = "REQUEST_CHANGES" => mayBlock
        /\ event = "APPROVE" => ~mayBlock

\* A comment is anchored to a line that the diff of its commit offered, however
\* many pushes came between the fetch and the post (post_review's commit_id).
AnchoredWhereReviewed ==
    \A i \in DOMAIN threads : threads[i].origLine \in Addable[threads[i].origCommit]

\* After a follow-up every listed blocking comment whose line reads differently has a
\* reply, unless its own line could not be read or its own reply raised: a failure
\* costs one comment only, what a failure has cost an earlier review is made up for,
\* and skipping comments made at the head itself skips nothing (_maybe_reply).
ChangedLinesAnswered ==
    [][pc = "reply" /\ pc' = "idle" =>
         \A i \in DOMAIN listed :
             Blocking(listed[i]) /\ Changed(listed[i]) /\ listed[i].id \notin failed =>
                 threads[listed[i].id].replies # <<>>]_vars
=============================================================================
