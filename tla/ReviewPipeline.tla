---------------------------- MODULE ReviewPipeline ----------------------------
(***************************************************************************)
(* ReviewPullRequestUseCase.execute and the GitHub writes it causes: one   *)
(* job from the installation token to the follow-up of Layer E.  Every     *)
(* call may raise; a POST may be carried out although its caller sees an   *)
(* error.  The diff fallback, the notice, the second POST after a 422 and  *)
(* the finally clause are the branches the code takes.                     *)
(***************************************************************************)
EXTENDS Integers, Sequences, FiniteSets

CONSTANTS
    Files,       \* the pull request's changed files
    OtherFile,   \* a path that is not one of them
    Lines,       \* line numbers
    MaxFindings, \* bound: the findings of one answer
    Endpoints,   \* number of endpoints fetch_pr_conversation asks (three)
    MaxPrompt    \* TokenBudget.max_chars, in units of one diffed file

ASSUME OtherFileIsOther == OtherFile \notin Files
ASSUME BoundsNat ==
    MaxFindings \in Nat /\ Endpoints \in Nat /\ MaxPrompt \in Nat

\* What FileDumpCollector.collect made of a changed file; "absent" is a file in
\* none of its lists: deleted by the pull request, or with a name ls-files quotes.
Status == {"included", "budget_cut", "filtered", "absent"}

\* Exceptions by how callers tell them apart.  "timeout" is the TimeoutError of
\* waiting for or reading an answer, which urllib does not turn into a URLError.
Kinds == {"http422", "http", "url", "runtime", "timeout", "other"}
Communication == Kinds \ {"other"}

NotRaised == [at |-> "none", kind |-> "none"]

VARIABLES
    pc,           \* the call made next, or "end"
    dryRun,       \* GitHubAppClient._dry_run
    addable,      \* pr.addable_lines
    dump,         \* FileDump: status of the changed files, limit reached
    conversation, \* number of endpoints whose entries were fetched
    mode,         \* "none" | "full" | "diff" | "notice"
    findings,     \* ReviewResult.findings, as <<path, line>>
    writes,       \* GitHub: what the job created on the pull request, in order
    followUps,    \* calls of check_resolutions (history)
    raised        \* the exception that ends the job

vars == <<pc, dryRun, addable, dump, conversation, mode, findings,
          writes, followUps, raised>>

pull == <<dryRun, addable>>

Init ==
    /\ pc = "token"
    /\ dryRun \in BOOLEAN
    /\ addable \in [Files -> SUBSET Lines]
    /\ dump = [status |-> [f \in Files |-> "included"], atLimit |-> FALSE]
    /\ conversation = 0
    /\ mode = "none"
    /\ findings = {}
    /\ writes = <<>>
    /\ followUps = 0
    /\ raised = NotRaised

-----------------------------------------------------------------------------
\* Files of assemble_pr_diff and paths_in_pr_diff: a patch that offers a line.
Diffed == {f \in Files : addable[f] # {}}

ChangedMissing == \E f \in Files : dump.status[f] = "budget_cut"

ExceededBudget == ChangedMissing \/ dump.atLimit

\* len(build_diff_prompt(...)): the fixed text, the diff and the conversation.
DiffPrompt(talk) == 1 + Cardinality(Diffed) + talk

\* Mutant: the parser takes a finding's path as it is.
ValidPathsUnchecked(m) == Files \cup {OtherFile}

ValidPaths(m) == IF m = "diff" THEN Diffed ELSE Files

\* _partition_findings
Inline == {f \in findings : f[2] \in addable[f[1]]}
Surfaced == findings \ Inline

\* The created review: inline comments, the findings its body lists, and the
\* number of comments its body announces (ReviewResult.render_body).
Review(comments, listed) ==
    [kind |-> "review", comments |-> comments, listed |-> listed,
     announced |-> Cardinality(findings) - Cardinality(listed)]

Plain(kind) == [kind |-> kind, comments |-> {}, listed |-> {}, announced |-> 0]

\* Mutant: the emptied payload keeps the body of the first one.
RetryPayloadStale == Review({}, Surfaced)

\* The second payload: no comments, and all findings in the body.
RetryPayload == Review({}, Surfaced \cup Inline)

-----------------------------------------------------------------------------
\* An exception before the try block ends the job; inside it, the finally
\* clause runs first.
RaiseTo(next) ==
    /\ \E k \in Kinds : raised' = [at |-> pc, kind |-> k]
    /\ pc' = next
    /\ UNCHANGED <<pull, dump, conversation, mode, findings, writes, followUps>>

GetToken ==
    /\ pc = "token"
    /\ pc' = "checkout"
    /\ UNCHANGED <<pull, dump, conversation, mode, findings, writes, followUps, raised>>

Checkout ==
    /\ pc = "checkout"
    /\ pc' = "collect"
    /\ UNCHANGED <<pull, dump, conversation, mode, findings, writes, followUps, raised>>

Collect ==
    /\ pc = "collect"
    /\ \E st \in [Files -> Status], full \in BOOLEAN :
         dump' = [status |-> st, atLimit |-> full]
    /\ pc' = "conversation"
    /\ UNCHANGED <<pull, conversation, mode, findings, writes, followUps, raised>>

\* An endpoint that fails in a way the client or the use case catches is left
\* out; the entries of the others are kept.
Converse ==
    /\ pc = "conversation"
    /\ conversation' \in 0..Endpoints
    /\ pc' = "choose"
    /\ UNCHANGED <<pull, dump, mode, findings, writes, followUps, raised>>

\* What neither of them catches.
ConverseFails ==
    /\ pc = "conversation"
    /\ \E k \in {"timeout", "other"} : raised' = [at |-> pc, kind |-> k]
    /\ pc' = "end"
    /\ UNCHANGED <<pull, dump, conversation, mode, findings, writes, followUps>>

FailsEarly == pc \in {"token", "checkout", "collect"} /\ RaiseTo("end")

-----------------------------------------------------------------------------
ChooseFull ==
    /\ pc = "choose"
    /\ ~(ExceededBudget /\ ChangedMissing)
    /\ mode' = "full"
    /\ pc' = "engine"
    /\ UNCHANGED <<pull, dump, conversation, findings, writes, followUps, raised>>

\* engine.review_diff builds the same prompt again.
ChooseDiff ==
    /\ pc = "choose"
    /\ ExceededBudget /\ ChangedMissing
    /\ Diffed # {} /\ DiffPrompt(conversation) <= MaxPrompt
    /\ mode' = "diff"
    /\ pc' = "engine"
    /\ UNCHANGED <<pull, dump, conversation, findings, writes, followUps, raised>>

ChooseNotice ==
    /\ pc = "choose"
    /\ ExceededBudget /\ ChangedMissing
    /\ Diffed = {} \/ DiffPrompt(conversation) > MaxPrompt
    /\ mode' = "notice"
    /\ pc' = "notice"
    /\ UNCHANGED <<pull, dump, conversation, findings, writes, followUps, raised>>

\* One model's answer, less the findings outside valid_paths.
RunEngine ==
    /\ pc = "engine"
    /\ \E answer \in SUBSET ((Files \cup {OtherFile}) \X Lines) :
         /\ IsFiniteSet(answer) /\ Cardinality(answer) <= MaxFindings
         /\ findings' = {f \in answer : f[1] \in ValidPaths(mode)}
    /\ pc' = "ground"
    /\ UNCHANGED <<pull, dump, conversation, mode, writes, followUps, raised>>

\* Layers B and D: they demote findings, move and drop none, and catch every OSError
\* of reading a file and whatever listing earlier comments raises.
Ground ==
    /\ pc = "ground"
    /\ pc' = "post"
    /\ UNCHANGED <<pull, dump, conversation, mode, findings, writes, followUps, raised>>

EngineFails == pc = "engine" /\ RaiseTo("follow_up")

\* Layer B on a path that is a loop of symbolic links: resolve() may raise a
\* RuntimeError, which is no OSError.
GroundFails ==
    /\ pc = "ground" /\ findings # {}
    /\ raised' = [at |-> pc, kind |-> "runtime"]
    /\ pc' = "follow_up"
    /\ UNCHANGED <<pull, dump, conversation, mode, findings, writes, followUps>>

-----------------------------------------------------------------------------
\* A POST: created or not, and what the caller sees of it.
Post(item, seen) ==
    \E created \in BOOLEAN :
      /\ seen = "ok" => created
      /\ seen = "http422" => ~created
      /\ writes' = IF created THEN Append(writes, item) ELSE writes

\* Mutant: any HTTP error is answered with the second POST.
PostReviewRetryingAll ==
    /\ pc = "post" /\ ~dryRun
    /\ \E seen \in Kinds \cup {"ok"} :
         /\ Post(Review(Inline, Surfaced), seen)
         /\ IF seen = "ok" THEN pc' = "follow_up" /\ UNCHANGED raised
            ELSE IF seen \in {"http", "http422"} /\ Inline # {}
            THEN pc' = "retry" /\ UNCHANGED raised
            ELSE pc' = "follow_up" /\ raised' = [at |-> pc, kind |-> seen]
    /\ UNCHANGED <<pull, dump, conversation, mode, findings, followUps>>

PostReview ==
    /\ pc = "post" /\ ~dryRun
    /\ \E seen \in Kinds \cup {"ok"} :
         /\ Post(Review(Inline, Surfaced), seen)
         /\ IF seen = "ok" THEN pc' = "follow_up" /\ UNCHANGED raised
            ELSE IF seen = "http422" /\ Inline # {}
            THEN pc' = "retry" /\ UNCHANGED raised
            ELSE pc' = "follow_up" /\ raised' = [at |-> pc, kind |-> seen]
    /\ UNCHANGED <<pull, dump, conversation, mode, findings, followUps>>

\* GitHub refused the comments' lines: once more with every finding in the body.
Retry ==
    /\ pc = "retry"
    /\ \E seen \in Kinds \cup {"ok"} :
         /\ Post(RetryPayload, seen)
         /\ pc' = "follow_up"
         /\ raised' = IF seen = "ok" THEN raised ELSE [at |-> pc, kind |-> seen]
    /\ UNCHANGED <<pull, dump, conversation, mode, findings, followUps>>

\* Mutant: without the finally clause a notice ends the job.
PostNoticeAndReturn ==
    /\ pc = "notice" /\ ~dryRun
    /\ \E seen \in Kinds \cup {"ok"} :
         /\ Post(Plain("notice"), seen)
         /\ pc' = IF seen = "ok" THEN "end" ELSE "follow_up"
         /\ raised' = IF seen = "ok" THEN raised ELSE [at |-> pc, kind |-> seen]
    /\ UNCHANGED <<pull, dump, conversation, mode, findings, followUps>>

\* post_comment of _budget_exceeded_message.
PostNotice ==
    /\ pc = "notice" /\ ~dryRun
    /\ \E seen \in Kinds \cup {"ok"} :
         /\ Post(Plain("notice"), seen)
         /\ pc' = "follow_up"
         /\ raised' = IF seen = "ok" THEN raised ELSE [at |-> pc, kind |-> seen]
    /\ UNCHANGED <<pull, dump, conversation, mode, findings, followUps>>

\* post_review and post_comment return at once.
PostDryRun ==
    /\ pc \in {"post", "notice"} /\ dryRun
    /\ pc' = "follow_up"
    /\ UNCHANGED <<pull, dump, conversation, mode, findings, writes, followUps, raised>>

\* check_resolutions in the finally clause: replies or none.  It catches every
\* exception of its requests, so the job ends as it was about to.
FollowUp ==
    /\ pc = "follow_up"
    /\ followUps' = followUps + 1
    /\ \/ UNCHANGED writes
       \/ ~dryRun /\ writes' = Append(writes, Plain("reply"))
    /\ pc' = "end"
    /\ UNCHANGED <<pull, dump, conversation, mode, findings, raised>>

Finished == pc = "end" /\ UNCHANGED vars

Next ==
    \/ GetToken \/ Checkout \/ Collect \/ FailsEarly
    \/ Converse \/ ConverseFails
    \/ ChooseFull \/ ChooseDiff \/ ChooseNotice
    \/ RunEngine \/ EngineFails \/ Ground \/ GroundFails
    \/ PostReview \/ Retry \/ PostNotice \/ PostDryRun \/ FollowUp
    \/ Finished

Spec == Init /\ [][Next]_vars

-----------------------------------------------------------------------------
Places == {"token", "checkout", "collect", "conversation", "choose", "engine",
           "ground", "post", "retry", "notice", "follow_up", "end"}

TypeOK ==
    /\ pc \in Places
    /\ dryRun \in BOOLEAN
    /\ addable \in [Files -> SUBSET Lines]
    /\ dump \in [status : [Files -> Status], atLimit : BOOLEAN]
    /\ conversation \in 0..Endpoints
    /\ mode \in {"none", "full", "diff", "notice"}
    /\ findings \subseteq Files \X Lines
    /\ \A i \in 1..Len(writes) : writes[i].kind \in {"review", "notice", "reply"}
    /\ followUps \in 0..1
    /\ raised \in [at : Places \cup {"none"}, kind : Kinds \cup {"none"}]

Answers == {i \in 1..Len(writes) : writes[i].kind \in {"review", "notice"}}

\* A job puts at most one review or notice on the pull request, whichever of its
\* requests fail or only seem to; a job that ends without an error has put
\* exactly one, unless it is a dry run (execute, post_review).
OneAnswer ==
    /\ Cardinality(Answers) <= 1
    /\ pc = "end" /\ raised = NotRaised /\ ~dryRun => Cardinality(Answers) = 1

\* However the review got through, each finding is either an inline comment or
\* listed in the body, and the body announces as many comments as there are.
NothingLost ==
    \A i \in Answers : writes[i].kind = "review" =>
        /\ writes[i].comments \cup writes[i].listed = findings
        /\ writes[i].comments \cap writes[i].listed = {}
        /\ writes[i].announced = Cardinality(writes[i].comments)

\* Once the job has its conversation context, it looks after its earlier comments
\* exactly once, also when it only posts a notice or fails (the finally clause).
FollowUpOnce ==
    pc = "end" => (followUps = 1 <=> raised.at \notin
                     {"token", "checkout", "collect", "conversation"})

\* Lines 64-65: a failure to fetch the conversation only leaves it out and the
\* review goes on; lines 66-70 except only defects in the code.
ConversationNeverStopsReview ==
    raised.at = "conversation" => raised.kind \notin Communication
===============================================================================
