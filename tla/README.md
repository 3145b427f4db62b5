# gemini-review in TLA+

TLA+ models of the pull-request review bot in this repository, the TLC
configurations that check them on small instances, and TLAPS proofs of what
matters most. Paths below are relative to `src/gemini_review/` unless they name
another directory.

## 1. The system

A GitHub App receives webhooks, checks out the pull request, gives code or diff
to the `gemini` CLI and posts its answer as a review.

| Component | State it keeps | Operations | Correct when |
|---|---|---|---|
| Webhook intake and worker pool (`application/webhook_handler.py`, `main.py`) | executor, futures, `_pending`, `_in_flight`, one lock per repository | the route, `accept`, `_submit`, done callback, `_process`, `start`, `stop` | no overlap per repository; nothing accepted is silently lost; `stop` returns and reports; the maps hold exactly what they should |
| Snapshot (`github_app_client.py: fetch_pull_request`) | local: head SHA, page, accumulated files, attempt | `GET /pulls`, `GET /files`, re-check, restart | files and head are of one commit; it gives up with the right reason |
| Pipeline (`application/review_pr_use_case.py`) | local: dump, conversation, result | `execute`, diff fallback, notice, `finally` | one answer at most; context failures are not fatal; the follow-up always runs |
| Posting (`post_review`, `post_comment`, `reply_to_review_comment`) | GitHub's comments | POST, second POST after a 422, dry run | no finding lost, none twice |
| Model chain (`gemini_cli_engine.py`) | local: chain, index | one CLI process per model | not given up early, right label |
| Parser policy, Layers B, D, E (`gemini_parser.py`, `source_grounded_finding_verifier.py`, `cross_pr_finding_deduper.py`, `diff_based_resolution_checker.py`) | GitHub's comments are their memory | demote, normalise the event, deduplicate, follow up | no repeated alarm, no review repeats a follow-up, event fits findings |
| File dump and budget (`file_dump_collector.py`) | local | greedy selection | changed files first, budget kept and used, the mode fits what is missing |
| Diff parsing (`diff_parser.py`, `gemini_prompt.py`) | none | line numbers over hunks | the lines shown are the ones accepted, and GitHub's |
| PR conversation (`fetch_pr_conversation`, `gemini_prompt.py`) | none | fetch, map, sort, cut at the cap | newest entries kept within the cap |
| Git checkout (`git_repo_fetcher.py`) | cache directory, `origin` URL | clone or set-url, fetch, checkout, clean, restore | a review reads its own head; no token left in `.git/config` |
| Installation tokens (`get_installation_token`) | token cache | refresh | no expired token is used |
| Prompt texts, configuration, logging, interfaces, scripts | none | | |

How they interact: the route calls `accept` on the event loop; `accept` submits to
the pool; a worker runs `_process`, which under the repository's lock calls
`fetch_pull_request` and then the use case's `execute`. That calls token, checkout,
collector and conversation in turn, then the engine, Layer B, Layer D, `post_review`
and, in a `finally` clause, Layer E. Layers D and E read what earlier reviews left on
GitHub, so reviews also interact over time. `stop` cancels futures, whose callbacks
run in its own thread.

What is hard about it: threads that interleave between locks; futures read twice; an
author who pushes during a fetch, or between an event and its review; POSTs whose answer
is lost; GitHub moving comments; reviews that see their own earlier output; a process
that dies in the middle of a git command; two functions that must number the same patch
alike. `PROJECT.json` lists each such hazard at its
line, with the property that looks after it or the reason why none does yet.

## 2. The modules

| Module | Models |
|---|---|
| `WebhookHandler` | the intake and the pool, one action per statement that takes a lock or reads a future |
| `ReviewQueue` | abstract: what the intake promises to someone who sees no threads |
| `WebhookInvariants`, `WebhookProofs` | the inductive invariants in named parts, the proofs of the safety properties and that `WebhookHandler` implements `ReviewQueue` |
| `ReviewService`, `ReviewServiceProofs` | the composition: author, events, `ReviewQueue`, and reviews from fetch to post |
| `PrSnapshot`, `PrSnapshotProofs` | `fetch_pull_request`, one action per request, against pushes |
| `TokenCache`, `TokenCacheProofs` | `get_installation_token` by several threads, with clock, expiry and restarts |
| `GitCheckout`, `GitCheckoutProofs` | `checkout`, one action per git command, over one cache directory |
| `ReviewPipeline`, `ReviewPipelineProofs` | one job of the use case with every call that may raise |
| `ReviewHistory`, `ReviewHistoryProofs` | parser policy, Layers B, D, E and the review comments over several reviews |
| `FileBudget` | the collector's listing, priority, skip rules and greedy selection, and the choice of mode |
| `PatchLines` | the two functions that number a patch, against GitHub's numbering |
| `ConversationCap` | the three endpoints, the merge, and the selection under the cap |
| `ModelFallback` | `_run_with_model_fallback`, one action per way a CLI call ends |
| `EngineCall`, `EngineCallProofs` | the last four of the models above in one specification, and the proofs about them |
| `MCWebhook`, `MCService`, `MCSnapshot`, `MCTokens`, `MCCheckout`, `MCPipeline`, `MCHistory`, `MCEngine` | instances for TLC |

**WebhookHandler.** A job is a delivery. `call[j]` is the program counter of its
`accept()`, `work[j]` that of the worker that took it, `stop` that of the stopping
thread; `queue`, `gen`, `fut`, `cb` are the executor's queue, the executor of a job, its
Future and whether the future still holds a done callback. `_pending`, `_in_flight` and
the locks are variables of the same name. A future that a worker has dequeued but not
yet marked is still pending (`Pick`, then `Begin`): this is the window in which `stop`
sees it as not started and cannot cancel it. `EventLoop = TRUE` is `main.py`, where
`accept`, `start` and `stop` share one thread; `FALSE` lets them interleave. HMAC, JSON
and field checks are predicates of the payload; `Verdict` is the order of the early
returns. `wait(running, timeout)` may return at any moment, which covers every
time-out. A second `start()` and a `stop()` without executor change nothing and are no
steps. The ThreadPoolExecutor's own steps are external in the map.

**ReviewService.** A delivery is a pull request and the place of its event among that
pull request's events. `Push`, `Reopen`, `MarkReady` and `MarkDraft` are the author's;
each but the last makes GitHub send a payload with the head and draft flag of that
moment, and deliveries arrive in any order. `status` is the variable of `ReviewQueue`,
instanced here, so that starting a review is taking the repository's lock. What
`WebhookHandler` does with threads is replaced by the queue it is proved to implement;
what `PrSnapshot` does with pages is one step, `FetchPull`, since `SnapshotWhole` says the
result is one commit's data. A request is carried out before its caller sees it end: a POST
that GitHub carries out after the client has timed out *and* another review was posted is
left out. Comments keep their lines; what happens to moved and outdated ones is
`ReviewHistory`. `Die` is the death of the process: nothing is persisted, so what waited
or ran is lost.

**PrSnapshot.** A page is computed under the head of the moment (`GetPage`) and kept or
dropped after the head is checked (`CheckHead`). `Push` may go to any commit, also back
to an earlier one. `files` keeps, for each page, the commit it came from. Two histories say
what the client cannot: `seen` is the head its last `GET /pulls` saw, and `missed` that since
then the head left that commit and came back, in this attempt.

**TokenCache.** One installation. The POST for a token is three steps (asked, issued,
answered), so that another thread may fill the cache in between; no step of the clock
passes a request's time-out of 30 s (`Delay`). `skew` is what `time.mktime` adds to a UTC time on
this host: the token's own death (`dies`) and what the cache believes (`exp`) are kept
apart. `Restart` forgets threads and cache.

**GitCheckout.** `disk` is what survives the process: whether `.git` exists, `origin`'s
URL and whether it holds the token, lock files, the commit in the working tree, files
that belong to no commit, and `FETCH_HEAD`. A command fails (`CommandFails`) or is killed
with the process (`Kill`), and `HalfDone` says what it may leave: nothing, some or all of
its work, since git may be done when its output turns out not to be text. The `finally`
clause is three actions: `Restore`; `RestoreFails`, where git exits with an error, which
the code raises or, after an earlier failure, logs; and `RestoreBreaks`, where git cannot be
started or read, which its `except RuntimeError` does not catch. Jobs hold the repository's lock
(`LockInv` of the webhook handler), so they take turns.

**ReviewPipeline.** A request may be carried out although its caller sees an error
(`Post`). Exceptions have the kinds that callers tell apart; `"timeout"` is the
`TimeoutError` of waiting for an answer, which `urllib` does not wrap. The file dump is
chosen freely among the outcomes `collect` may have; a changed file may be in none of its
lists. Layers B and D are one step (`Ground`): they keep every finding's place and catch
what they raise, but for the `RuntimeError` with which `resolve()` may answer a loop of
symbolic links (`GroundFails`). What they do to severities is the subject of
`ReviewHistory`.

**ReviewHistory.** GitHub's inline comments with their present and original anchor. A
comment's body is tag, number of demotion markers, and core text. `Push` appends a
content, `Reanchor` moves or outdates a comment. Layers D and E list the comments one page
request at a time, newest first (`ListPage`); a new comment between two requests moves the
rest down, so that one comment may be on both pages. `git show` may fail for any comment
whose line is read (`ReadFails`), as may a reply (`ReplyFails`); both cost that comment only.
Reviews of one repository do not overlap: that is `RepoMutex` of `WebhookHandler`, proved
there.

**FileBudget.** Files are numbers in the order `sorted()` gives their names; a file's sort
says how `git ls-files` lists it, whether the pull request changes it, what the name rules
say, its bytes and characters. A `"quoted"` name is one that `ls-files` prints in quotes.
`Reach` takes the first file by priority, and one of four outcomes follows.

**PatchLines.** A piece is what `splitlines` cuts, with two readings: what it is to GitHub
(`is`) and what the code takes it for by its first characters (`reads`). They differ for
an added `++ x`, a removed `-- x` and for what follows a form feed or U+2028 inside a
line, which may even read as a hunk header. `TrueNumber` is GitHub's numbering, written as a recursive function.

**ConversationCap.** Comments are numbers in the order of their creation. An endpoint
is asked for one page at a time, newest first, reviews oldest first, while people go on
writing (`Write`), which moves what a later page holds; a failing page loses its endpoint.
Entries without author or text are dropped. `Sort` is the stable sort with undated entries last. The selection loop
is one action per branch.

**ModelFallback.** The settings are raw words; `Strip` maps a padded word to its name.
The output of a failed call is a set of the words `_is_retryable_model_failure` looks for.
An `OSError` or a decode error of the call and an exception of the parser end the chain
(`InvokeRaises`, `ParseRaises`).

**EngineCall.** Dump, conversation, patch and chain are computed one after the other from
inputs of their own and share no variable. A behaviour of `EngineCall` runs one of the
four and finds the others finished: their product would have the same reachable parts.

Each definition that stands for code has its lines in `PROJECT.json` under `map`.
Definitions whose comment begins with "Mutant:" are plausible bugs; none is used by a
specification, each one is there to break one property.

## 3. The runs

| Run | Asks | Properties |
|---|---|---|
| `webhook_loop` | the deployed server: 3 deliveries, 2 repositories, 1 worker, 2 executors in turn | `RepoMutex` `PendingExact` `CancelledAreReported` `RefinesQueue` `StopReturns` |
| `webhook_threads` | free threads, 2 workers, a redelivery with the same id, a draft | `NoStaleInFlight` `RefinesFairQueue` |
| `service_reviews` | 2 pull requests of one repository, 3 events, drafts, failures, deaths | `ReviewsGoForward` `AlarmOnce` `NoHeadForgotten` `ReadyHeadReviewed` |
| `snapshot_fetch` | 4 commits of 0 to 2 pages, full last pages, endless pushes | `SnapshotWhole` `FetchEnds` |
| `token_cache` | 3 threads, 3 time zones, readable expiry or not, restarts | `RequestsAuthenticated` `HandedOutFresh` `RefreshedOnce` |
| `checkout_jobs` | 3 pull requests of one repository: own branch, fork, deleted fork; 2 deaths | `ReviewsOwnHead` `ReviewsWithoutToken` `NoTokenAtRest` `FirstFailureKept` |
| `pipeline_job` | 2 files, 2 lines, 2 findings, all dumps, all failures | `TypeOK` `OneAnswer` `NothingLost` `FollowUpOnce` |
| `history_reviews` | 3 reviews, 2 pushes, findings of all flaws | `TypeOK` `NoRepeatedAlarm` `NoSecondFollowUp` `EventFitsFindings` `AnchoredWhereReviewed` `ChangedLinesAnswered` |
| `engine_call` | all patches of 5 pieces, dumps of 4 files, conversations of 4 comments, chains of 4 models | `TypeOK` `LabelsTrue` `LabelsAddable` `ChangedFirst` `FullModeShowsChange` `LatestShown` `SelectionFills` `NotGivenUpEarly` `FirstToAnswerIsNamed` |
| `webhook_report_all` | does `stop` name everything it loses? No. | `StopReportsAll` |
| `pipeline_conversation` | does the review go on without its context? Not always. | `ConversationNeverStopsReview` |
| `history_paged` | does a comment get one follow-up at most? Not if it is listed twice. | `AtMostOneReply` |

What they show, in a reader's words:

- **Intake.** Every delivery answered `queued` is reviewed or cancelled, never both, never
  twice, and never beside another review of its repository (`RefinesFairQueue`,
  `RefinesQueue`). `stop()` returns although a review hangs, and names what it cancelled.
- **Service.** A pull request's reviews never go back to an older head, because the head
  is fetched under the lock: the order of deliveries does not matter. Two reviews never
  both raise an alarm that could be seen, because listing and posting are under one lock. A head that is
  ready for review is reviewed; the check of the payload's draft flag and the check
  after the fetch pass none over between them, since `ready_for_review` is an event of its own.
- **Tokens.** Without a lock the cache still hands out only tokens that outlive the
  request, and costs one token per thread at most, in UTC. East of it the first holds and
  west of it the second; see below.
- **Checkout.** Whatever failed or died in the directory before, a review reads exactly its
  own head, and `origin` holds no token meanwhile. A token stays only when a restore
  failed loudly or the process died. A restore that git refuses hides no earlier failure.
- **History.** No alarm is repeated, and no review repeats a follow-up of an earlier one,
  also when the answer to it was lost. A read or a reply that fails costs its own comment
  only, and a later review makes up for it.
- **Engine call.** The model sees the line numbers that a review may be posted on; a line
  misread throws off the rest of its hunk only. A changed file is cut only for other
  changed files. Full mode shows every changed file that can be shown.

### Expected violations

Each states a sentence of the code's comments or docstrings, quoted in
`PROJECT.json` under `findings`.

- `stop()` evaluates two list comprehensions over the futures; one that starts between
  them is in neither list, so it is not waited for and not logged.
- A time-out while an answer is read is a bare `TimeoutError`; neither
  `fetch_pr_conversation` nor the use case catches it.
- `list_self_review_comments` does not compare ids. If somebody comments between two of its
  page requests, the comment at the boundary is on both pages; Layer E has computed what
  has replies before its loop, and replies to it twice.

### Met while reading, without a run

- `README.md:17` (one review at a time; the default is three workers); `config.py:53-54`
  (the cap on processes; a timed-out `stop` followed by `start` adds a second set of
  workers); `diff_based_resolution_checker.py:12` (the code compares
  `original_commit_id`); the messages of `gemini_cli_engine.py:230` and `:267` ("on all
  N model(s)", raised when only the last one timed out or was silent).
- `git ls-files` without `-z` quotes a name that is not plain ASCII. Its file is in none of
  the dump's lists, although it may be a changed one, and `gemini_prompt.py:432` tells the model
  that nothing is missing. `FullModeShowsChange` says which changed files are in no list.
- `_restore_origin_url` raises nothing after another failure, says its docstring
  (`git_repo_fetcher.py:101-102`); its `except RuntimeError` lets an `OSError` or a
  `UnicodeDecodeError` of `subprocess.run` past, which then replaces that failure
  (`RestoreBreaks`). `FirstFailureKept` makes that exception.
- `_select_entries_under_cap` cuts a single long entry to the cap less one and then adds the
  mark: 10,011 characters under a cap of 10,000. The docstring (`gemini_prompt.py:312-314`) and
  a test's (`tests/unit/test_gemini_prompt.py:685`) say that fragment and mark stay inside. The
  last conjunct of `SelectionFills` states what the code does.
- Two jobs with one delivery id share an `_in_flight` entry, and the first to end removes
  the other's. The map only serves observation, and `NoStaleInFlight` shows that nothing
  stays behind.
- A force push away and back between two consecutive `GET /pulls` mixes pages of two
  commits; `SnapshotWhole` excepts exactly that, by `missed`. Every other return to an
  earlier commit, also within one attempt, is caught.
- A second review of the same head demotes the first one's findings as "from an earlier
  push". A finding that quotes a demoted comment with its marker is posted with two.
- `file_dump_collector.py:199-200` says that lower priority is cut first; the greedy loop
  takes a small file after a larger one of higher priority was cut.
- `time.mktime` reads the UTC `expires_at` as local time. West of UTC a dead token is
  used for hours; east of it by more than an hour, as in Korea, no entry is ever valid
  and every client method asks for a token. The three properties name the zones they hold in.
- A clone killed after it made `.git` but not `origin`, or a git killed with a lock file,
  makes every later checkout of the repository fail; `GitCheckout` has these states.

### Bounds

- Webhook: two jobs of one repository and one of another are what the mutual exclusion,
  the hand-over of a lock and the independence of repositories need. One worker leaves
  jobs in the queue for `stop` to cancel; two make them wait for the lock. Two executors
  are what `stop` and `start` in sequence need; a third repeats the second. The free
  thread run has one executor: the liveness check is over its four branches, and what two
  executors can do is checked on the loop and proved for any number.
- Service: two events of a pull request give two heads, one head twice, a draft that
  becomes ready, and reviews in either order; conversion to a draft is not bounded. The
  second pull request competes for the lock. One alarm is enough, since alarms do not
  interact.
- Snapshot: `MaxAttempts = 3` is `_MAX_FETCH_ATTEMPTS`. Commits with no, one and two pages
  and with a full or short last page are the cases of the page loop.
- Tokens: a life of 5, a fallback of 4, margin and request of 1 keep the order of 3600,
  3300, 60 and 30 seconds. A clock of 10 is two lives. Three threads can be late in two
  orders around one that is on time.
- Checkout: a third job finds what two earlier ones and two deaths left, in a directory
  whose `origin` was the base's, a fork's, or none.
- Pipeline: two files let one be cut and one not, one be in the diff and one not; two
  findings let one be inline and one in the body. `MaxPrompt = 3` is reached by the
  conversation alone, by the diff alone, and by both.
- History: the third review is the first that sees both a demoted comment and an outdated
  original. Two pushes let a line change, and change back. The answers are listed in
  `MCHistory`. `MaxPages = 2` stands for ten and `MaxShift = 1` for any number: they give a
  comment listed twice, and one that drops off the last page.
- Engine call: five pieces make two hunks with a misread line in the first, or one with
  lines after it. Four files of nine sorts exceed the budget with changed files only, with
  unchanged ones only, or not at all, and hit it exactly. Four comments, of which an
  endpoint's two pages hold one each, exceed the pages and the cap, and one written between
  two requests repeats another. A chain of four lets a name occur
  twice with another between.

`CHECK_DEADLOCK FALSE` is set where the system comes to rest: the history and service
runs when their bounds on reviews and events are used up, the engine call when its
results are handed over. The other modules have an explicit idle step, or a clock,
or a process that may be restarted.

### Fairness

- `WebhookHandler!Fairness`: a thread that can run is scheduled, and calls of a review
  return. The second holds for the CLI (`GEMINI_TIMEOUT_SEC`) and `git show` (10 s), and for
  HTTP as far as `timeout=30` bounds each operation on the socket. `git clone` and `git
  fetch` have no time-out, so `RefinesFairQueue` is conditional on git returning.
  `StopReturns` assumes fairness of the stopping thread only, because it must hold when
  a review hangs.
- No delivery, `start` or `stop` is ever obliged to happen.
- `ReviewService!FairSpec`: what `ReviewQueue!FairSpec` promises of each delivery, and that
  a review under way goes on. GitHub sends each payload once or loses it
  (`NotRunning`). No event is fair: the author need do nothing.
- `PrSnapshot!FairSpec`: requests return or time out; pushes are not fair and may go on.
- `GitCheckout` has no fairness: `git clone` and `git fetch` may hang, and with them the lock
  of the repository. Nothing is claimed to end there.
- Workers waiting for a repository lock have weak fairness only, as `threading.Lock` hands
  over in no order. It is enough because the jobs of a run are finitely many.

## 4. The proofs

All theorems hold for every value of the constants that satisfies the named assumptions
of the module. Each invariance proof has one lemma or step per action.

### Intake

| Theorem | Statement |
|---|---|
| `Invariance` | `Spec => []IndInv` |
| `TypeCorrect` | `Spec => []TypeOK` |
| `MutualExclusion` | `Spec => []RepoMutex` |
| `PendingIsExact` | `Spec => []PendingExact` |
| `CancelledAreNamed` | with `EventLoop`: `Spec => []CancelledAreReported` |
| `NothingStale` | `Spec => []NoStaleInFlight` |
| `InFlightIsExact` | with distinct delivery ids: `Spec => []InFlightExact` |
| `ImplementsQueue` | `Spec => Queue!Spec` (`RefinesQueue`) |

`RepoMutex` alone is not inductive: an action that ends a review frees the lock, which
is right only if the job ending is its holder. `LockInv` says so (who reviews holds the
lock of its repository), and mutual exclusion follows since a lock has one holder.
`PendingExact` needs more: the race between the worker that resolves a future and
`add_done_callback` is harmless only because the future is in `_pending` before the
callback is attached, and because a callback is attached or run on the spot but never
both. `PendingInv` states where job, future and callback stand at each point of
`accept()`. It needs `FutureInv` (the worker's place fixes the state of the future),
`QueueInv` (a queued job is untouched and queued once, so a cancelled future is not
running) and `CallInv` (a job has an executor exactly when `accept` is past its submit).
`IndInv` is their conjunction with `TypeOK`.

`CancelledAreReported` is `StopInv` at rest. `StopInv` follows the queued jobs of the
detached executor through `stop()`: they are in the snapshot (since on the event loop no
`accept` is half-way, and by `PendingInv`), hence in the list still to be read or in
`not_started`, hence reported when they are cancelled. With free threads an `accept`
can submit before the detachment and register after the snapshot; then its cancelled
delivery is not named. So the theorem assumes `EventLoop`.

`NoStaleInFlight` rests on `EntryInv`: an entry is under the delivery id of its job. The
exact form needs distinct ids.

`ImplementsQueue` maps each delivery to its place in the abstract queue (`JobStatus`) and
shows for each action which single delivery moves, if any. Starting a review uses
`LockInv`, cancelling uses `QueueInv`: what is cancelled was never begun.

### Tokens

`TokenCacheProofs`: `Invariance`, `TypeCorrect`, `Authenticated`
(`Spec => []RequestsAuthenticated`), `FreshWhenHandedOut` (`Spec => HandedOutFresh`),
`SparinglyRefreshed` (`Spec => RefreshedOnce`). The assumptions are relations between
times: a request is shorter than the margin, and the fallback life plus a request is no
longer than a life. `RequestsAuthenticated` is about a caller's token, which came from
the cache or from an answer; so the invariant says of the cache that it believes no entry
longer than GitHub does (`CacheInv`) and of a caller that its token is as young as its
request (`CallInv`). Both need that a request under way is at most `Delay` old, which only
`Tick` keeps.

### Checkout

`GitCheckoutProofs`: `Invariance`, `TypeCorrect`, `OwnHead`, `WithoutToken`,
`TokenNotLeft`, `FirstFailure` (`FirstFailureKept`), each `Spec => []` of the property of that run. `LockInv`
(who works in the directory holds the lock) makes the commands of one job a sequence that
no other disturbs; `StageInv` says what the commands before each stage have established
(before `checkout`, `FETCH_HEAD` is the head; before `clean`, the tree is; in the review,
tree, junk and origin are right), which is what makes `ReviewsOwnHead` hold whatever an
earlier job left; `DiskInv` (no `.git`, no origin) is what a half-done clone needs.

### Snapshot

`PrSnapshotProofs`: `SnapshotInvariance`, `SnapshotTypes`, `WholeSnapshot`
(`Spec => []SnapshotWhole`). `SnapshotWhole` speaks of the end only. `SameHeadInv` says
what `seen` tells about the pages collected before: the client goes on only while it is the
head the attempt began with, so that unless the head went away and came back between two
looks, the pages so far are the first pages of that commit, the one just received is too if
the head is still there, and the loop has ended only behind its last one. An earlier attempt
leaves no trace, whatever happened in it.

### Pipeline

`ReviewPipelineProofs`: `PipelineInvariance`, `PipelineTypes`, `AnswersOnce`, `NoFindingLost`,
`FollowsUpOnce`. `PlaceInv` relates the place in `execute` to what GitHub has: nothing is
written before the first POST, the first write is the answer, and
whatever comes after it is a reply. That a refused POST wrote nothing and one that
timed out is not repeated is what makes the step of the second POST keep it.
`NoFindingLost` rests on `_partition_findings` (`Partition`) and on both payloads holding
each finding once (`FirstPayload`, `SecondPayload`).

### Service

`ReviewServiceProofs`: `ServiceInvariance`, `GoesForward`, `NoSecondAlarm`,
`ReviewsExclude`, `HeadsCovered` and `NothingForgotten`. `LockInv` takes mutual exclusion over from `ReviewQueue`: a job is in
the middle of a review exactly when the queue says so. `HeadInv` is why reviews go forward:
the head a review fetched is no older than any review posted, which stays so because no
other review of the pull request is posted meanwhile. `KeptInv` is the same for alarms:
what was compared with the comments and kept is in none of them when it is posted.

`NothingForgotten` (`Spec => []NoHeadForgotten`) is what of `ReadyHeadReviewed` does not
need fairness. Its invariant, `AnnouncedInv`, names for each ready pull request the
delivery that announced its head: it is new or waits, or is under review and has not
fetched yet or has fetched that head, or failed, or led to a review of the head. A fetch
that finds a draft keeps it because the draft must be marked ready again, which is an
event; `WantedOncePerHead`, a filter of heads already seen, would break it.

### History

`ReviewHistoryProofs`: `HistoryInvariance`, `HistoryTypes`, `RepliesOfOneReview`
(`NoSecondFollowUp`), `AnchorsReviewed`, `EventFits`, `ChangesAnswered`, and
`NoAlarmAgain`.

- `ThreadsInv`, about the comments on GitHub: a comment's number is its place, its original
  line was addable, and it has not moved while its commit is the one it was made at
  (`Tracked`).
- `PagesInv`, about a listing under way: every copy of a comment on the pages so far has
  the replies the comment has, since nobody replies before the loop. A comment may be there
  twice.
- `ListedInv` and `UnseenInv`, about Layer E's loop. The listing is older than the loop; what
  makes `NoSecondFollowUp` true is that the comments *still to visit* have the replies they
  were listed with, or were listed twice and got theirs from this very review at the first
  copy (`RepliedHere`). For comments already visited this is false, so the invariant does
  not claim it. A later review lists the reply and passes over every copy.
- `SeenInv`: a visited comment that is blocking and changed has a reply, unless reading its
  line or replying to it failed. Comments made at the head are skipped without a look at
  the file; by `Tracked` their line is where it was, and reads the same.
- `ResultInv`: from Layer B to the post the event fits the findings.
- `MarksInv`: at most one demotion marker stands before any text, and none before a
  blocking one. `Signature` removes one marker, so that two texts with at most one each
  have one signature exactly when they say the same.

`NoAlarmAgain` assumes `Unquoted`: the model does not itself begin a finding with the
marker. The code does not prevent it (the marker is in the comments the prompt shows),
and without the assumption the statement is false: the quoted finding is demoted to two
markers, and compared as if it had one. The other six theorems do not assume it.
`Sift`, a selection in order written without recursion, is what the parser, the listing and
the partition are built from; `NthFacts` says that it picks each index once.

### Engine call

`EngineCallProofs`, all for `EngineCall`'s `Spec`: `EngineInvariance`, `EngineTypes`, and

| Theorem | Property | Why it holds |
|---|---|---|
| `NumbersTrue`, `NumbersAddable` | `LabelsTrue`, `LabelsAddable` | `CountInv`: both passes have numbered the pieces so far as one function, `Count`, does; `CountTrue`: it is GitHub's number unless a piece since the last header was misread |
| `BudgetUsed` | `NoRoomLeft` | the total only grows, so what did not fit does not fit at the end |
| `ChangedGoFirst` | `ChangedFirst` | `TakenInv`: the total is the sum over the dump, and the loop has passed every changed file before it takes another |
| `ModeFitsDump` | `FullModeShowsChange` | `SortedOut`, `ChoiceInv`: the mode is chosen from the finished dump |
| `SelectionIsFull` | `SelectionFills` | `LoopInv`: the loop holds exactly the entries behind the one it looks at |
| `ShowsTheLatest` | `LatestShown` | `ReadInv`: the first n pages of an endpoint hold, of what was there when it was asked first, the first n pages' worth without a gap, since a comment written meanwhile only moves others to later pages; `FetchedInv`: so what an endpoint leaves out is older than what it gave, and the sort is by time |
| `EveryModelAsked` | `NotGivenUpEarly` | `TriedInv` (each model so far failed in a way the next may mend) and `ChainOfSettings` (`_dedupe_models` drops no configured name) |
| `AnswerIsLabelled` | `FirstToAnswerIsNamed` | the same |

`Count`, `TrueNumber`, the sum over a set and `_dedupe_models` are recursive functions.
That each has a value is proved (`Unfold`, by induction over naturals from the existence
of a least element, `Least`), and so is what it computes (`Along`, `AlongSubsets`). The proof of
`EveryModelAsked` needed a statement about blank settings that TLC's instance satisfied
silently: `Strip(Blank) = Blank` is now part of `StripSettings`, as Python's `"".strip()`
has it. The sums need `IsFiniteSet(Paths)` and `IsFiniteSet(Comments)`.

### Only model-checked

Liveness, which is out of the prover's reach: `RefinesFairQueue`, `StopReturns`, `FetchEnds`
and `ReadyHeadReviewed`. Every other property of a passing run is proved for
all constants: `NoRepeatedAlarm` under `Unquoted`, `CancelledAreReported` under
`EventLoop`, the rest from the assumptions their modules name. The types of
`PrSnapshot` are proved (`SnapshotTypes`) and not checked by a run of their own.

## 5. What is not modelled

- Text and formatting: prompts, JSON extraction from the model's output, quote extraction
  and line cache of Layer B, log lines, masking of tokens in them.
- Start-up checks of the CLI and its credentials, configuration, the JWT, interfaces,
  scripts, the nginx file.
- The full-mode prompt's size beyond the file dump: the code does not measure it.
- Processes that the `gemini` CLI starts and a time-out leaves behind.
- A POST that GitHub carries out after its client gave it up and another review was posted.
- Comments deleted between two page requests of a listing, which move later ones up and out
  of sight; conversation entries with equal timestamps.
- A git command that never ends, other than by the death of the process: it keeps the
  repository's lock, and no property says what becomes of the jobs behind it.

## 6. Plan

Done: every component of section 2, their composition, and the proofs of section 4. Next:

1. Prove that `ReviewService`'s fetch step is what `PrSnapshot` implements.
2. `InFlightExact` has a theorem for distinct delivery ids only; state what holds of ids that repeat.
3. Exclusion as a refinement of `ReviewQueue` by `ReviewService`, for all constants.
