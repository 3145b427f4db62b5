---------------------------- MODULE WebhookHandler ----------------------------
(***************************************************************************)
(* The webhook intake and its worker pool: WebhookHandler of               *)
(* application/webhook_handler.py, the route and the lifespan of main.py   *)
(* that call it, and concurrent.futures.ThreadPoolExecutor as it uses it.  *)
(*                                                                         *)
(* A job is one webhook delivery.  Four kinds of thread interleave:        *)
(*   - one accept() call per job                      (variable call);     *)
(*   - the thread that calls start() and stop()       (variable stop);     *)
(*   - the pool's workers, each busy with one job      (variable work);    *)
(*   - whichever of them resolves a future runs its done callback.         *)
(* Every statement that takes a lock or reads a future is one action.      *)
(***************************************************************************)
EXTENDS Integers, FiniteSets, Sequences

CONSTANTS
    Jobs,        \* webhook deliveries that reach the server
    Repos,       \* repository full names
    Deliveries,  \* values of the X-GitHub-Delivery header
    RepoOf,      \* the repository each job names
    DeliveryOf,  \* the delivery id each job carries; a redelivery repeats it
    Payload,     \* what the filters of the route and of accept() see of a job
    Concurrency, \* max_workers of an executor
    MaxStarts,   \* bound: how many executors start() may create
    EventLoop,   \* TRUE: accept, start and stop share one thread, as in main.py
    NoJob        \* not a job: a free repository lock, an absent in-flight entry

ASSUME JobsFinite == IsFiniteSet(Jobs)
ASSUME NoJobIsNoJob == NoJob \notin Jobs
ASSUME RepoOfType == RepoOf \in [Jobs -> Repos]
ASSUME DeliveryOfType == DeliveryOf \in [Jobs -> Deliveries]
ASSUME ConcurrencyPositive == Concurrency \in Nat \ {0}
ASSUME MaxStartsNat == MaxStarts \in Nat
ASSUME EventLoopBoolean == EventLoop \in BOOLEAN

VARIABLES
    executor,    \* number of the live executor, 0 for None
    starts,      \* executors created so far
    queue,       \* work queue of each executor
    gen,         \* the executor that took a job, 0 if none did
    fut,         \* state of the job's Future
    cb,          \* jobs whose future holds a done callback not yet run
    pending,     \* _pending, as the set of its values
    call,        \* where the accept() call of the job is, or what it replied
    work,        \* where the worker that took the job is
    repoLock,    \* holder of each repository's lock
    inFlight,    \* _in_flight: delivery id -> job
    stop,        \* where the stop() call is
    stopping,    \* local `executor` of stop()
    snap,        \* local `pending_snapshot` of stop()
    todo,        \* futures the list comprehension under way has not read yet
    running,     \* local `running` of stop()
    notStarted,  \* local `not_started` of stop()
    reported     \* jobs named by the ERROR log of some stop()

poolVars == <<queue, gen, fut, cb>>
stopVars == <<stop, stopping, snap, todo, running, notStarted, reported>>
vars == <<executor, starts, poolVars, pending, call, work, repoLock, inFlight,
          stopVars>>

Executors == 1..MaxStarts
Replies == {"unauthorized", "invalid-json", "pong", "ignored",
            "invalid-payload-shape", "ignored-action", "skipped-draft",
            "invalid-payload", "not-running", "queued"}
CallStates == {"new", "submitted", "registered"} \cup Replies
WorkStates == {"none", "picked", "flight", "lock", "fetch", "execute", "exit",
               "result", "callback", "free"}
StopStates == {"idle", "snapshot", "running", "not_started", "drain", "wait"}

(***************************************************************************)
(* Future.running() and Future.done(); a future a worker has taken off the *)
(* queue stays pending until the worker marks it running.                  *)
(***************************************************************************)
Running(j) == fut[j] = "running"
Done(j) == fut[j] \in {"finished", "cancelled"}

\* The worker that took j still serves it: through the callbacks of its future.
Busy(g) == {j \in Jobs : gen[j] = g /\ work[j] \notin {"none", "free"}}

\* Under an event loop a call runs to its return before another one begins.
LoopFree ==
    EventLoop => /\ stop = "idle"
                 /\ \A k \in Jobs : call[k] \notin {"submitted", "registered"}

Init ==
    /\ executor = 0
    /\ starts = 0
    /\ queue = [g \in Executors |-> <<>>]
    /\ gen = [j \in Jobs |-> 0]
    /\ fut = [j \in Jobs |-> "none"]
    /\ cb = {}
    /\ pending = {}
    /\ call = [j \in Jobs |-> "new"]
    /\ work = [j \in Jobs |-> "none"]
    /\ repoLock = [r \in Repos |-> NoJob]
    /\ inFlight = [d \in Deliveries |-> NoJob]
    /\ stop = "idle"
    /\ stopping = 0
    /\ snap = {}
    /\ todo = {}
    /\ running = {}
    /\ notStarted = {}
    /\ reported = {}

-----------------------------------------------------------------------------
(* The route and accept(): the reply the early returns give, "submit" when  *)
(* none of them applies.                                                    *)

Verdict(p) ==
    IF ~p.signed THEN "unauthorized"
    ELSE IF ~p.json THEN "invalid-json"
    ELSE IF p.event = "ping" THEN "pong"
    ELSE IF p.event # "pull_request" THEN "ignored"
    ELSE IF ~p.dict THEN "invalid-payload-shape"
    ELSE IF ~p.supported THEN "ignored-action"
    ELSE IF p.draft THEN "skipped-draft"
    ELSE IF ~p.identified THEN "invalid-payload"
    ELSE "submit"

Filter(j) ==
    /\ call[j] = "new"
    /\ LoopFree
    /\ Verdict(Payload[j]) # "submit"
    /\ call' = [call EXCEPT ![j] = Verdict(Payload[j])]
    /\ UNCHANGED <<executor, starts, poolVars, pending, work, repoLock,
                   inFlight, stopVars>>

\* _submit() finds no executor.
Refuse(j) ==
    /\ call[j] = "new"
    /\ LoopFree
    /\ Verdict(Payload[j]) = "submit"
    /\ executor = 0
    /\ call' = [call EXCEPT ![j] = "not-running"]
    /\ UNCHANGED <<executor, starts, poolVars, pending, work, repoLock,
                   inFlight, stopVars>>

\* _submit() under _executor_lock: the executor is live, so submit() queues.
Submit(j) ==
    /\ call[j] = "new"
    /\ LoopFree
    /\ Verdict(Payload[j]) = "submit"
    /\ executor # 0
    /\ queue' = [queue EXCEPT ![executor] = Append(@, j)]
    /\ gen' = [gen EXCEPT ![j] = executor]
    /\ fut' = [fut EXCEPT ![j] = "pending"]
    /\ call' = [call EXCEPT ![j] = "submitted"]
    /\ UNCHANGED <<executor, starts, cb, pending, work, repoLock, inFlight,
                   stopVars>>

\* Mutant: the callback is attached before the future enters the map.
RegisterLate(j) ==
    /\ call[j] = "submitted"
    /\ cb' = IF Done(j) THEN cb ELSE cb \cup {j}
    /\ pending' = pending \cup {j}
    /\ call' = [call EXCEPT ![j] = "queued"]
    /\ UNCHANGED <<executor, starts, queue, gen, fut, work, repoLock, inFlight,
                   stopVars>>

\* _submit() under _pending_lock.
Register(j) ==
    /\ call[j] = "submitted"
    /\ pending' = pending \cup {j}
    /\ call' = [call EXCEPT ![j] = "registered"]
    /\ UNCHANGED <<executor, starts, poolVars, work, repoLock, inFlight,
                   stopVars>>

\* add_done_callback(): a resolved future runs the callback in this thread.
AddCallback(j) ==
    /\ call[j] = "registered"
    /\ IF Done(j)
       THEN pending' = pending \ {j} /\ UNCHANGED cb
       ELSE cb' = cb \cup {j} /\ UNCHANGED pending
    /\ call' = [call EXCEPT ![j] = "queued"]
    /\ UNCHANGED <<executor, starts, queue, gen, fut, work, repoLock, inFlight,
                   stopVars>>

-----------------------------------------------------------------------------
(* The pool's workers and _process().                                       *)

\* An idle worker of executor g takes the oldest work item.
Pick(g) ==
    /\ queue[g] # <<>>
    /\ Cardinality(Busy(g)) < Concurrency
    /\ queue' = [queue EXCEPT ![g] = Tail(@)]
    /\ work' = [work EXCEPT ![Head(queue[g])] = "picked"]
    /\ UNCHANGED <<executor, starts, gen, fut, cb, pending, call, repoLock,
                   inFlight, stopVars>>

\* set_running_or_notify_cancel(): the future turns running.
Begin(j) ==
    /\ work[j] = "picked"
    /\ fut' = [fut EXCEPT ![j] = "running"]
    /\ work' = [work EXCEPT ![j] = "flight"]
    /\ UNCHANGED <<executor, starts, queue, gen, cb, pending, call, repoLock,
                   inFlight, stopVars>>

EnterFlight(j) ==
    /\ work[j] = "flight"
    /\ inFlight' = [inFlight EXCEPT ![DeliveryOf[j]] = j]
    /\ work' = [work EXCEPT ![j] = "lock"]
    /\ UNCHANGED <<executor, starts, poolVars, pending, call, repoLock,
                   stopVars>>

\* `with self._get_repo_lock(job.repo)`: one lock per repository, never dropped.
AcquireRepo(j) ==
    /\ work[j] = "lock"
    /\ repoLock[RepoOf[j]] = NoJob
    /\ repoLock' = [repoLock EXCEPT ![RepoOf[j]] = j]
    /\ work' = [work EXCEPT ![j] = "fetch"]
    /\ UNCHANGED <<executor, starts, poolVars, pending, call, inFlight,
                   stopVars>>

\* fetch_pull_request() returned a pull request that is not a draft.
FetchReady(j) ==
    /\ work[j] = "fetch"
    /\ work' = [work EXCEPT ![j] = "execute"]
    /\ UNCHANGED <<executor, starts, poolVars, pending, call, repoLock,
                   inFlight, stopVars>>

\* It is a draft by now, or the fetch raised: the lock is released either way.
FetchEnds(j) ==
    /\ work[j] = "fetch"
    /\ repoLock' = [repoLock EXCEPT ![RepoOf[j]] = NoJob]
    /\ work' = [work EXCEPT ![j] = "exit"]
    /\ UNCHANGED <<executor, starts, poolVars, pending, call, inFlight,
                   stopVars>>

\* Mutant: a review that raised goes back for another try.
ExecuteEndsRetrying(j) ==
    /\ work[j] = "execute"
    /\ repoLock' = [repoLock EXCEPT ![RepoOf[j]] = NoJob]
    /\ \E next \in {"exit", "lock"} : work' = [work EXCEPT ![j] = next]
    /\ UNCHANGED <<executor, starts, poolVars, pending, call, inFlight,
                   stopVars>>

\* use_case.execute() returned or raised; an exception is logged, not re-raised.
ExecuteEnds(j) ==
    /\ work[j] = "execute"
    /\ repoLock' = [repoLock EXCEPT ![RepoOf[j]] = NoJob]
    /\ work' = [work EXCEPT ![j] = "exit"]
    /\ UNCHANGED <<executor, starts, poolVars, pending, call, inFlight,
                   stopVars>>

\* Mutant: the in-flight entry is not removed.
ExitFlightKeeping(j) ==
    /\ work[j] = "exit"
    /\ work' = [work EXCEPT ![j] = "result"]
    /\ UNCHANGED <<executor, starts, poolVars, pending, call, repoLock,
                   inFlight, stopVars>>

\* The finally clause: whatever is under this delivery id goes.
ExitFlight(j) ==
    /\ work[j] = "exit"
    /\ inFlight' = [inFlight EXCEPT ![DeliveryOf[j]] = NoJob]
    /\ work' = [work EXCEPT ![j] = "result"]
    /\ UNCHANGED <<executor, starts, poolVars, pending, call, repoLock,
                   stopVars>>

\* Future.set_result(): the future is done before its callbacks run.
SetResult(j) ==
    /\ work[j] = "result"
    /\ fut' = [fut EXCEPT ![j] = "finished"]
    /\ work' = [work EXCEPT ![j] = "callback"]
    /\ UNCHANGED <<executor, starts, queue, gen, cb, pending, call, repoLock,
                   inFlight, stopVars>>

\* _on_future_done() in the worker, if the callback was attached by then.
RunCallback(j) ==
    /\ work[j] = "callback"
    /\ IF j \in cb
       THEN pending' = pending \ {j} /\ cb' = cb \ {j}
       ELSE UNCHANGED <<pending, cb>>
    /\ work' = [work EXCEPT ![j] = "free"]
    /\ UNCHANGED <<executor, starts, queue, gen, fut, call, repoLock, inFlight,
                   stopVars>>

-----------------------------------------------------------------------------
(* start() and stop().                                                      *)

\* Mutant: start() builds fresh locks along with the fresh executor.
StartFreshLocks ==
    /\ stop = "idle"
    /\ LoopFree
    /\ executor = 0
    /\ starts < MaxStarts
    /\ starts' = starts + 1
    /\ executor' = starts'
    /\ repoLock' = [r \in Repos |-> NoJob]
    /\ UNCHANGED <<poolVars, pending, call, work, inFlight, stopVars>>

\* A second start() returns at once, which is no step.
Start ==
    /\ stop = "idle"
    /\ LoopFree
    /\ executor = 0
    /\ starts < MaxStarts
    /\ starts' = starts + 1
    /\ executor' = starts'
    /\ UNCHANGED <<poolVars, pending, call, work, repoLock, inFlight, stopVars>>

\* stop() detaches the executor under _executor_lock; without one it returns.
StopDetach ==
    /\ stop = "idle"
    /\ LoopFree
    /\ executor # 0
    /\ stopping' = executor
    /\ executor' = 0
    /\ stop' = "snapshot"
    /\ UNCHANGED <<starts, poolVars, pending, call, work, repoLock, inFlight,
                   snap, todo, running, notStarted, reported>>

StopSnapshot ==
    /\ stop = "snapshot"
    /\ snap' = pending
    /\ todo' = pending
    /\ running' = {}
    /\ notStarted' = {}
    /\ stop' = "running"
    /\ UNCHANGED <<executor, starts, poolVars, pending, call, work, repoLock,
                   inFlight, stopping, reported>>

\* [f for f in snapshot if f.running()], one future at a time.
StopReadRunning ==
    /\ stop = "running"
    /\ \/ \E j \in todo : /\ todo' = todo \ {j}
                          /\ running' = IF Running(j) THEN running \cup {j}
                                        ELSE running
                          /\ UNCHANGED stop
       \/ /\ todo = {}
          /\ todo' = snap
          /\ stop' = "not_started"
          /\ UNCHANGED running
    /\ UNCHANGED <<executor, starts, poolVars, pending, call, work, repoLock,
                   inFlight, stopping, snap, notStarted, reported>>

\* [f for f in snapshot if not f.running() and not f.done()], likewise.
StopReadNotStarted ==
    /\ stop = "not_started"
    /\ \/ \E j \in todo :
            /\ todo' = todo \ {j}
            /\ notStarted' = IF ~Running(j) /\ ~Done(j) THEN notStarted \cup {j}
                             ELSE notStarted
            /\ UNCHANGED stop
       \/ /\ todo = {}
          /\ stop' = "drain"
          /\ UNCHANGED <<todo, notStarted>>
    /\ UNCHANGED <<executor, starts, poolVars, pending, call, work, repoLock,
                   inFlight, stopping, snap, running, reported>>

\* Mutant: shutdown(wait=False) without cancel_futures; nobody ever takes the
\* items that are still queued.
StopDrainDropping ==
    /\ stop = "drain"
    /\ stop' = "wait"
    /\ queue' = [queue EXCEPT ![stopping] = <<>>]
    /\ UNCHANGED <<executor, starts, gen, fut, cb, pending, call, work,
                   repoLock, inFlight, stopping, snap, todo, running,
                   notStarted, reported>>

\* executor.shutdown(cancel_futures=True): items still queued are taken off one
\* by one, cancelled, and their callbacks run in this thread.
StopDrain ==
    /\ stop = "drain"
    /\ IF queue[stopping] = <<>>
       THEN stop' = "wait" /\ UNCHANGED <<queue, fut, cb, pending>>
       ELSE LET j == Head(queue[stopping]) IN
            /\ queue' = [queue EXCEPT ![stopping] = Tail(@)]
            /\ fut' = [fut EXCEPT ![j] = "cancelled"]
            /\ cb' = cb \ {j}
            /\ pending' = IF j \in cb THEN pending \ {j} ELSE pending
            /\ UNCHANGED stop
    /\ UNCHANGED <<executor, starts, gen, call, work, repoLock, inFlight,
                   stopping, snap, todo, running, notStarted, reported>>

\* Mutant: only futures that are not done count as lost; a cancelled one is done.
StopReportUndone ==
    /\ stop = "wait"
    /\ reported' = reported \cup {j \in running \cup notStarted : ~Done(j)}
    /\ stop' = "idle"
    /\ UNCHANGED <<executor, starts, poolVars, pending, call, work, repoLock,
                   inFlight, stopping, snap, todo, running, notStarted>>

\* Mutant: wait() without its timeout.
StopReportUntimed ==
    /\ stop = "wait"
    /\ \A j \in running : Done(j)
    /\ reported' = reported \cup {j \in notStarted : fut[j] = "cancelled" \/ ~Done(j)}
    /\ stop' = "idle"
    /\ UNCHANGED <<executor, starts, poolVars, pending, call, work, repoLock,
                   inFlight, stopping, snap, todo, running, notStarted>>

\* wait(running, timeout) returns when all are done or when time is up, so at
\* any moment here; then the ERROR log names what did not finish.
StopReport ==
    /\ stop = "wait"
    /\ reported' = reported \cup {j \in running : ~Done(j)}
                            \cup {j \in notStarted : fut[j] = "cancelled" \/ ~Done(j)}
    /\ stop' = "idle"
    /\ UNCHANGED <<executor, starts, poolVars, pending, call, work, repoLock,
                   inFlight, stopping, snap, todo, running, notStarted>>

-----------------------------------------------------------------------------
CallStep(j) == Register(j) \/ AddCallback(j)
AcceptStep(j) == Filter(j) \/ Refuse(j) \/ Submit(j) \/ CallStep(j)
WorkerStep(j) ==
    \/ Begin(j) \/ EnterFlight(j) \/ AcquireRepo(j)
    \/ FetchReady(j) \/ FetchEnds(j) \/ ExecuteEnds(j)
    \/ ExitFlight(j) \/ SetResult(j) \/ RunCallback(j)
StopStep ==
    \/ StopSnapshot \/ StopReadRunning \/ StopReadNotStarted
    \/ StopDrain \/ StopReport

\* Every delivery answered and every future resolved: the server is idle.
Quiet ==
    /\ \A j \in Jobs : call[j] \in Replies /\ work[j] \in {"none", "free"}
    /\ \A g \in Executors : queue[g] = <<>>
    /\ UNCHANGED vars

Next ==
    \/ \E j \in Jobs : AcceptStep(j) \/ WorkerStep(j)
    \/ \E g \in Executors : Pick(g)
    \/ Start
    \/ StopDetach
    \/ StopStep
    \/ Quiet

Spec == Init /\ [][Next]_vars

(***************************************************************************)
(* A thread that can run is scheduled: an accept() call past its submit, a *)
(* worker with a job, an executor with queued work and a free worker, a    *)
(* stop() under way.  Network, git and CLI calls of a review return,       *)
(* normally or by raising.  Nothing obliges a delivery, a start() or a     *)
(* stop() to happen.                                                       *)
(***************************************************************************)
Fairness ==
    /\ \A j \in Jobs : WF_vars(CallStep(j)) /\ WF_vars(WorkerStep(j))
    /\ \A g \in Executors : WF_vars(Pick(g))
    /\ WF_vars(StopStep)

FairSpec == Spec /\ Fairness

\* Only the thread in stop() is known to be scheduled.
StopFairSpec == Spec /\ WF_vars(StopStep)

-----------------------------------------------------------------------------
(* Properties.                                                              *)

\* Every variable has its type, and a job has a future exactly when an executor
\* took it (_submit).
TypeOK ==
    /\ executor \in 0..MaxStarts
    /\ starts \in 0..MaxStarts
    /\ queue \in [Executors -> Seq(Jobs)]
    /\ gen \in [Jobs -> 0..MaxStarts]
    /\ fut \in [Jobs -> {"none", "pending", "running", "finished", "cancelled"}]
    /\ \A j \in Jobs : fut[j] = "none" <=> gen[j] = 0
    /\ cb \subseteq Jobs
    /\ pending \subseteq Jobs
    /\ call \in [Jobs -> CallStates]
    /\ work \in [Jobs -> WorkStates]
    /\ repoLock \in [Repos -> Jobs \cup {NoJob}]
    /\ inFlight \in [Deliveries -> Jobs \cup {NoJob}]
    /\ stop \in StopStates
    /\ stopping \in 0..MaxStarts
    /\ stop # "idle" => stopping # 0
    /\ snap \subseteq Jobs
    /\ todo \subseteq Jobs
    /\ running \subseteq Jobs
    /\ notStarted \subseteq Jobs
    /\ reported \subseteq Jobs

Reviewing(j) == work[j] \in {"fetch", "execute"}

\* Two reviews of one repository never overlap, so git never works twice in one
\* cache directory: not even when stop() gave up on a review and start() made a
\* second executor while the first one's worker is still in it (_repo_locks).
RepoMutex ==
    \A j, k \in Jobs :
        Reviewing(j) /\ Reviewing(k) /\ RepoOf[j] = RepoOf[k] => j = k

\* _pending never leaks and never forgets: once accept() has returned, a future
\* is in it until it is resolved and its callback ran, and not afterwards,
\* whoever wins the race between the worker and add_done_callback (_submit).
PendingExact ==
    \A j \in Jobs :
        call[j] = "queued" =>
            (j \in pending <=> ~(fut[j] = "cancelled" \/ work[j] = "free"
                                  \/ (work[j] = "callback" /\ j \notin cb)))

\* What stop() cancelled it also names in its ERROR log, so no accepted delivery
\* is cancelled silently (stop, still queued futures).
CancelledAreReported ==
    stop = "idle" => \A j \in Jobs : fut[j] = "cancelled" => j \in reported

\* _in_flight holds exactly the jobs between their two updates of it, provided
\* that no two jobs share a delivery id (_process).
InFlightExact ==
    \A j \in Jobs :
        inFlight[DeliveryOf[j]] = j <=> work[j] \in {"lock", "fetch", "execute", "exit"}

\* No job is ever left in _in_flight by a worker that is done with it, even when
\* jobs share a delivery id (the finally clause of _process).
NoStaleInFlight ==
    \A d \in Deliveries :
        inFlight[d] # NoJob =>
            work[inFlight[d]] \in {"lock", "fetch", "execute", "exit"}

\* stop() returns whatever the workers do, even when a review is stuck in git or
\* in the CLI for ever: checked with fairness for stop() alone (wait's timeout).
StopReturns == stop = "snapshot" ~> stop = "idle"

-----------------------------------------------------------------------------
(* The refinement of ReviewQueue.                                           *)

\* How far a job is, for somebody who sees no threads.
JobStatus ==
    [j \in Jobs |->
        IF fut[j] = "none" /\ call[j] = "new" THEN "new"
        ELSE IF fut[j] = "none" THEN "declined"
        ELSE IF fut[j] = "cancelled" THEN "dropped"
        ELSE IF Reviewing(j) THEN "reviewing"
        ELSE IF work[j] \in {"exit", "result", "callback", "free"} THEN "done"
        ELSE "waiting"]

Queue == INSTANCE ReviewQueue WITH status <- JobStatus

\* Every step of the threads is a step of the abstract queue or leaves it alone:
\* in particular a review under way is never cancelled, a cancelled or refused
\* delivery is never reviewed, and no delivery is reviewed twice.
RefinesQueue == Queue!Spec

\* With scheduled threads, the abstract queue's progress follows as well.
RefinesFairQueue == Queue!FairSpec

-----------------------------------------------------------------------------
(* What comments and documents say, and the code does not do.               *)

\* stop(), lines 105-106: running work that missed the deadline and cancelled
\* queued work are ALL named in the ERROR log.
StopReportsAll ==
    [][stop = "wait" /\ stop' = "idle" =>
         \A j \in Jobs : gen[j] = stopping /\ fut[j] # "finished" => j \in reported']_vars
=============================================================================
