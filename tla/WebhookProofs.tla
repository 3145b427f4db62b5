----------------------------- MODULE WebhookProofs -----------------------------
(***************************************************************************)
(* What holds of WebhookHandler for every number of deliveries, workers    *)
(* and restarts, on one event loop or with free threads.                   *)
(***************************************************************************)
EXTENDS WebhookInvariants, TLAPS

\* No early return of the route or of accept() replies "queued".
LEMMA VerdictType ==
    ASSUME NEW p PROVE Verdict(p) \in (Replies \ {"queued"}) \cup {"submit"}
BY DEF Verdict, Replies

\* The initial state of __init__ satisfies the invariant.
LEMMA InitInv == Init => IndInv
BY JobsFinite, NoJobIsNoJob, RepoOfType, DeliveryOfType, MaxStartsNat
   DEF Init, IndInv, TypeOK, QueueInv, FutureInv, CallInv, LockInv, PendingInv,
       Executors, Reviewing, Done, CallStates, WorkStates, StopStates

-----------------------------------------------------------------------------
(* Each action preserves the invariant.  Those of stop() that only read      *)
(* futures and those of the two fetch outcomes are grouped.                  *)

\* A delivery answered without a submit touches nothing but its reply.
LEMMA AnswerInv ==
    ASSUME IndInv, NEW j \in Jobs, Filter(j) \/ Refuse(j)
    PROVE  IndInv'
<1>1. PICK r \in Replies \ {"queued"} :
         /\ call[j] = "new"
         /\ call' = [call EXCEPT ![j] = r]
         /\ UNCHANGED <<executor, starts, poolVars, pending, work, repoLock,
                        inFlight, stopVars>>
  BY VerdictType DEF Filter, Refuse, Replies
<1>2. TypeOK'
  BY <1>1 DEF IndInv, TypeOK, CallStates, poolVars, stopVars
<1>3. QueueInv'
  BY <1>1 DEF IndInv, QueueInv, poolVars
<1>4. FutureInv'
  BY <1>1 DEF IndInv, FutureInv, poolVars
<1>5. CallInv' /\ PendingInv'
  BY <1>1 DEF IndInv, TypeOK, CallInv, PendingInv, Done, poolVars, Replies
<1>6. LockInv'
  BY <1>1 DEF IndInv, LockInv, Reviewing
<1> QED
  BY <1>2, <1>3, <1>4, <1>5, <1>6 DEF IndInv

\* _submit() queues a delivery no executor, worker or callback knows yet.
LEMMA SubmitInv == ASSUME IndInv, NEW j \in Jobs, Submit(j) PROVE IndInv'
<1> DEFINE e == executor
           q == queue[e]
<1>1. /\ e \in Executors /\ e # 0 /\ q \in Seq(Jobs)
      /\ gen[j] = 0 /\ fut[j] = "none" /\ work[j] = "none" /\ call[j] = "new"
      /\ j \notin cb /\ j \notin pending
  <2>1. e \in Executors /\ e # 0 /\ q \in Seq(Jobs) /\ call[j] = "new"
    BY MaxStartsNat DEF IndInv, TypeOK, Submit, Executors
  <2>2. gen[j] = 0
    BY <2>1 DEF IndInv, CallInv
  <2>3. fut[j] = "none" /\ work[j] = "none"
    BY <2>2 DEF IndInv, TypeOK, FutureInv, WorkStates
  <2>4. j \notin cb /\ j \notin pending
    BY <2>1 DEF IndInv, PendingInv
  <2> QED
    BY <2>1, <2>2, <2>3, <2>4
<1>2. TypeOK'
  BY <1>1 DEF IndInv, TypeOK, Submit, CallStates, stopVars
<1>3. QueueInv'
  <2> SUFFICES ASSUME NEW g \in Executors
               PROVE  /\ \A i \in 1..Len(queue'[g]) :
                             /\ gen'[queue'[g][i]] = g
                             /\ work'[queue'[g][i]] = "none"
                             /\ fut'[queue'[g][i]] = "pending"
                      /\ \A i, k \in 1..Len(queue'[g]) :
                             queue'[g][i] = queue'[g][k] => i = k
    BY DEF QueueInv
  <2>1. \A i \in 1..Len(queue[g]) : queue[g][i] \in Jobs \ {j}
    BY <1>1 DEF IndInv, TypeOK, QueueInv
  <2>2. CASE g # e
    BY <1>1, <2>1, <2>2 DEF IndInv, TypeOK, QueueInv, Submit
  <2>3. CASE g = e
    <3>1. queue'[g] = Append(q, j)
      BY <1>1, <2>3 DEF IndInv, TypeOK, Submit
    <3>2. /\ Len(Append(q, j)) = Len(q) + 1
          /\ \A i \in 1..Len(q) : Append(q, j)[i] = q[i]
          /\ Append(q, j)[Len(q) + 1] = j
      BY <1>1
    <3> QED
      BY <1>1, <2>1, <2>3, <3>1, <3>2 DEF IndInv, TypeOK, QueueInv, Submit
  <2> QED
    BY <2>2, <2>3
<1>4. FutureInv' /\ CallInv' /\ LockInv' /\ PendingInv'
  BY <1>1 DEF IndInv, TypeOK, FutureInv, CallInv, LockInv, PendingInv, Submit,
              Reviewing, Done
<1> QED
  BY <1>2, <1>3, <1>4 DEF IndInv

\* The rest of _submit(): the map, then the callback, against a racing worker.
LEMMA CallInvStep == ASSUME IndInv, NEW j \in Jobs, CallStep(j) PROVE IndInv'
<1>1. /\ call[j] \in {"submitted", "registered"} /\ gen[j] # 0
      /\ UNCHANGED <<executor, starts, queue, gen, fut, work, repoLock, inFlight,
                     stopVars>>
  BY DEF IndInv, CallInv, CallStep, Register, AddCallback, poolVars
<1>2. TypeOK' /\ CallInv' /\ PendingInv'
  <2>1. CASE Register(j)
    BY <1>1, <2>1 DEF IndInv, TypeOK, CallInv, PendingInv, Register, CallStates,
                      Done, poolVars, stopVars
  <2>2. CASE AddCallback(j)
    <3>1. call[j] = "registered" /\ call' = [call EXCEPT ![j] = "queued"]
      BY <2>2 DEF AddCallback
    <3>2. TypeOK' /\ CallInv'
      BY <1>1, <2>2, <3>1 DEF IndInv, TypeOK, CallInv, AddCallback, CallStates,
                              Replies, stopVars
    <3>3. ~Done(j) => fut[j] # "cancelled" /\ work[j] # "free"
      BY DEF IndInv, FutureInv, Done
    <3>4. PendingInv'
      <4>1. CASE Done(j)
        BY <1>1, <2>2, <3>1, <4>1 DEF IndInv, TypeOK, PendingInv, AddCallback, Done
      <4>2. CASE ~Done(j)
        BY <1>1, <2>2, <3>1, <3>3, <4>2
           DEF IndInv, TypeOK, PendingInv, AddCallback, Done
      <4> QED
        BY <4>1, <4>2
    <3> QED
      BY <3>2, <3>4
  <2> QED
    BY <2>1, <2>2 DEF CallStep
<1>3. QueueInv' /\ FutureInv' /\ LockInv'
  BY <1>1 DEF IndInv, QueueInv, FutureInv, LockInv, Reviewing
<1> QED
  BY <1>2, <1>3 DEF IndInv

\* The oldest queued job is untouched, and the rest of the queue are others.
LEMMA HeadOfQueue ==
    ASSUME IndInv, NEW g \in Executors, queue[g] # <<>>
    PROVE  LET h == Head(queue[g]) IN
           /\ h \in Jobs /\ gen[h] = g /\ work[h] = "none" /\ fut[h] = "pending"
           /\ Tail(queue[g]) \in Seq(Jobs)
           /\ Len(Tail(queue[g])) = Len(queue[g]) - 1
           /\ \A i \in 1..Len(Tail(queue[g])) :
                 /\ i + 1 \in 1..Len(queue[g])
                 /\ Tail(queue[g])[i] = queue[g][i + 1]
                 /\ Tail(queue[g])[i] # h
           /\ \A f \in Executors \ {g} :
                 \A i \in 1..Len(queue[f]) : queue[f][i] # h
<1> DEFINE q == queue[g]
<1>1. q \in Seq(Jobs) /\ Len(q) \in Nat \ {0} /\ Head(q) = q[1] /\ 1 \in 1..Len(q)
  BY DEF IndInv, TypeOK
<1>2. /\ Tail(q) \in Seq(Jobs)
      /\ Len(Tail(q)) = Len(q) - 1
      /\ \A i \in 1..Len(Tail(q)) : i + 1 \in 1..Len(q) /\ Tail(q)[i] = q[i + 1]
  BY <1>1
<1>3. q[1] \in Jobs /\ gen[q[1]] = g /\ work[q[1]] = "none" /\ fut[q[1]] = "pending"
  BY <1>1 DEF IndInv, QueueInv
<1>4. \A i \in 1..Len(Tail(q)) : Tail(q)[i] # q[1]
  BY <1>1, <1>2 DEF IndInv, QueueInv
<1>5. \A f \in Executors \ {g} : \A i \in 1..Len(queue[f]) : queue[f][i] # q[1]
  BY <1>3 DEF IndInv, QueueInv
<1> QED
  BY <1>1, <1>2, <1>3, <1>4, <1>5

\* Taking the oldest item off a queue leaves only items that were queued.
LEMMA TailIsPart ==
    ASSUME IndInv, NEW g \in Executors, queue[g] # <<>>,
           queue' = [queue EXCEPT ![g] = Tail(queue[g])]
    PROVE  \A f \in Executors : \A i \in 1..Len(queue'[f]) :
              \E k \in 1..Len(queue[f]) : queue'[f][i] = queue[f][k]
<1> DEFINE t == Tail(queue[g])
<1>1. \A i \in 1..Len(t) : i + 1 \in 1..Len(queue[g]) /\ t[i] = queue[g][i + 1]
  BY HeadOfQueue
<1>2. queue' = [queue EXCEPT ![g] = t] /\ DOMAIN queue = Executors
  BY DEF IndInv, TypeOK
<1> HIDE DEF t
<1> TAKE f \in Executors
<1>3. CASE f = g
  <2>1. queue'[f] = t
    BY <1>2, <1>3
  <2> QED
    BY <1>1, <1>3, <2>1
<1>4. CASE f # g
  <2>1. queue'[f] = queue[f]
    BY <1>2, <1>4
  <2> QED
    BY <2>1
<1> QED
  BY <1>3, <1>4

\* A worker takes the oldest item and leaves the others queued once each.
LEMMA PickInv == ASSUME IndInv, NEW g \in Executors, Pick(g) PROVE IndInv'
<1> DEFINE h == Head(queue[g])
           t == Tail(queue[g])
<1>1. /\ h \in Jobs /\ gen[h] = g /\ work[h] = "none" /\ fut[h] = "pending"
      /\ t \in Seq(Jobs) /\ Len(t) = Len(queue[g]) - 1
      /\ \A i \in 1..Len(t) : /\ i + 1 \in 1..Len(queue[g])
                              /\ t[i] = queue[g][i + 1] /\ t[i] # h
      /\ \A f \in Executors \ {g} : \A i \in 1..Len(queue[f]) : queue[f][i] # h
  BY HeadOfQueue DEF Pick
<1>2. /\ queue' = [queue EXCEPT ![g] = t] /\ work' = [work EXCEPT ![h] = "picked"]
      /\ UNCHANGED <<executor, starts, gen, fut, cb, pending, call, repoLock,
                     inFlight, stopVars>>
  BY DEF Pick
<1> HIDE DEF h, t
<1>3. TypeOK'
  BY <1>1, <1>2 DEF IndInv, TypeOK, WorkStates, stopVars
<1>4. QueueInv'
  <2> SUFFICES ASSUME NEW f \in Executors
               PROVE  /\ \A i \in 1..Len(queue'[f]) :
                             /\ gen'[queue'[f][i]] = f
                             /\ work'[queue'[f][i]] = "none"
                             /\ fut'[queue'[f][i]] = "pending"
                      /\ \A i, k \in 1..Len(queue'[f]) :
                             queue'[f][i] = queue'[f][k] => i = k
    BY DEF QueueInv
  <2>1. CASE f # g
    BY <1>1, <1>2, <2>1 DEF IndInv, TypeOK, QueueInv
  <2>2. CASE f = g
    <3>1. queue'[f] = t /\ Len(queue[g]) \in Nat
      BY <1>1, <1>2, <2>2 DEF IndInv, TypeOK
    <3> DEFINE q == queue[g]
    <3>2. /\ \A i \in 1..Len(q) : /\ gen[q[i]] = g /\ work[q[i]] = "none"
                                  /\ fut[q[i]] = "pending" /\ q[i] \in Jobs
          /\ \A i, k \in 1..Len(q) : q[i] = q[k] => i = k
      BY DEF IndInv, TypeOK, QueueInv
    <3>3. /\ \A i \in 1..Len(t) : /\ gen[t[i]] = g /\ work[t[i]] = "none"
                                  /\ fut[t[i]] = "pending" /\ t[i] \in Jobs
          /\ \A i, k \in 1..Len(t) : t[i] = t[k] => i + 1 = k + 1
      <4> HIDE DEF q
      <4> QED
        BY <1>1, <3>2 DEF q
    <3>4. \A i, k \in 1..Len(t) : t[i] = t[k] => i = k
      BY <1>1, <3>1, <3>3
    <3>5. \A i \in 1..Len(t) : work'[t[i]] = "none"
      BY <1>1, <1>2, <3>3 DEF IndInv, TypeOK
    <3> QED
      BY <1>2, <2>2, <3>1, <3>3, <3>4, <3>5
  <2> QED
    BY <2>1, <2>2
<1>5. FutureInv' /\ CallInv' /\ LockInv' /\ PendingInv'
  BY <1>1, <1>2 DEF IndInv, TypeOK, FutureInv, CallInv, LockInv, PendingInv,
                    Reviewing, Done
<1> QED
  BY <1>3, <1>4, <1>5 DEF IndInv

\* The future a worker took is still pending when it turns running.
LEMMA BeginInv == ASSUME IndInv, NEW j \in Jobs, Begin(j) PROVE IndInv'
<1>1. gen[j] # 0 /\ fut[j] = "pending" /\ work[j] = "picked"
  BY DEF IndInv, TypeOK, FutureInv, Begin
<1>2. TypeOK'
  BY <1>1 DEF IndInv, TypeOK, Begin, WorkStates, stopVars
<1>3. QueueInv'
  BY <1>1 DEF IndInv, TypeOK, QueueInv, Begin
<1>4. FutureInv' /\ CallInv' /\ LockInv' /\ PendingInv'
  BY <1>1 DEF IndInv, TypeOK, FutureInv, CallInv, LockInv, PendingInv, Begin,
              Reviewing, Done
<1> QED
  BY <1>2, <1>3, <1>4 DEF IndInv

\* The steps of _process(): only the repository lock and _in_flight change.
LEMMA ProcessInv ==
    ASSUME IndInv, NEW j \in Jobs,
           EnterFlight(j) \/ AcquireRepo(j) \/ FetchReady(j) \/ FetchEnds(j)
             \/ ExecuteEnds(j) \/ ExitFlight(j)
    PROVE  IndInv'
<1> DEFINE Inside == {"flight", "lock", "fetch", "execute", "exit", "result"}
<1>1. PICK w \in Inside :
        /\ work[j] \in Inside /\ work' = [work EXCEPT ![j] = w]
        /\ UNCHANGED <<executor, starts, queue, gen, fut, cb, pending, call, stopVars>>
  BY DEF EnterFlight, AcquireRepo, FetchReady, FetchEnds, ExecuteEnds, ExitFlight,
         poolVars
<1>2. TypeOK'
  <2>1. repoLock' \in [Repos -> Jobs \cup {NoJob}]
    BY DEF IndInv, TypeOK, EnterFlight, AcquireRepo, FetchReady, FetchEnds,
           ExecuteEnds, ExitFlight
  <2>2. inFlight' \in [Deliveries -> Jobs \cup {NoJob}]
    BY DEF IndInv, TypeOK, EnterFlight, AcquireRepo, FetchReady, FetchEnds,
           ExecuteEnds, ExitFlight
  <2> QED
    BY <1>1, <2>1, <2>2 DEF IndInv, TypeOK, WorkStates, stopVars
<1>3. QueueInv'
  BY <1>1 DEF IndInv, TypeOK, QueueInv
<1>4. FutureInv' /\ CallInv' /\ PendingInv'
  BY <1>1 DEF IndInv, TypeOK, FutureInv, CallInv, PendingInv, Done
<1>5. LockInv'
  <2>1. CASE AcquireRepo(j)
    BY <2>1, RepoOfType, NoJobIsNoJob
       DEF IndInv, TypeOK, LockInv, AcquireRepo, Reviewing
  <2>2. CASE FetchEnds(j) \/ ExecuteEnds(j)
    <3>1. \A k \in Jobs : Reviewing(k)' =>
             Reviewing(k) /\ k # j /\ RepoOf[k] # RepoOf[j]
      BY <2>2 DEF IndInv, TypeOK, LockInv, FetchEnds, ExecuteEnds, Reviewing
    <3> QED
      BY <2>2, <3>1, RepoOfType
         DEF IndInv, TypeOK, LockInv, FetchEnds, ExecuteEnds
  <2>3. CASE EnterFlight(j) \/ FetchReady(j) \/ ExitFlight(j)
    BY <2>3 DEF IndInv, TypeOK, LockInv, EnterFlight, FetchReady, ExitFlight,
                Reviewing
  <2> QED
    BY <2>1, <2>2, <2>3
<1> QED
  BY <1>2, <1>3, <1>4, <1>5 DEF IndInv

\* A resolved future leaves _pending together with its callback.
LEMMA ResolveInv ==
    ASSUME IndInv, NEW j \in Jobs, SetResult(j) \/ RunCallback(j)
    PROVE  IndInv'
<1>1. CASE SetResult(j)
  <2>1. gen[j] # 0 /\ fut[j] = "running" /\ work[j] = "result"
    BY <1>1 DEF IndInv, TypeOK, FutureInv, SetResult
  <2>2. TypeOK' /\ QueueInv'
    BY <1>1, <2>1 DEF IndInv, TypeOK, QueueInv, SetResult, WorkStates, stopVars
  <2>3. FutureInv' /\ CallInv' /\ LockInv' /\ PendingInv'
    BY <1>1, <2>1 DEF IndInv, TypeOK, FutureInv, CallInv, LockInv, PendingInv,
                      SetResult, Reviewing, Done
  <2> QED
    BY <2>2, <2>3 DEF IndInv
<1>2. CASE RunCallback(j)
  <2>1. fut[j] = "finished" /\ work[j] = "callback"
    BY <1>2 DEF IndInv, FutureInv, RunCallback
  <2>2. TypeOK' /\ QueueInv'
    BY <1>2, <2>1 DEF IndInv, TypeOK, QueueInv, RunCallback, WorkStates, stopVars
  <2>3. FutureInv' /\ CallInv' /\ LockInv'
    BY <1>2, <2>1 DEF IndInv, TypeOK, FutureInv, CallInv, LockInv, RunCallback,
                      Reviewing
  <2>4. PendingInv'
    BY <1>2, <2>1 DEF IndInv, TypeOK, PendingInv, RunCallback, Done
  <2> QED
    BY <2>2, <2>3, <2>4 DEF IndInv
<1> QED
  BY <1>1, <1>2

\* start(), and the steps of stop() that touch no future.
LEMMA LifecycleInv ==
    ASSUME IndInv,
           Start \/ StopDetach \/ StopSnapshot \/ StopReadRunning
             \/ StopReadNotStarted \/ StopReport
    PROVE  IndInv'
<1>1. UNCHANGED <<queue, gen, fut, cb, pending, call, work, repoLock, inFlight>>
  BY DEF Start, StopDetach, StopSnapshot, StopReadRunning, StopReadNotStarted,
         StopReport, poolVars
<1>2. TypeOK'
  <2>1. CASE Start
    BY <2>1, <1>1, MaxStartsNat DEF IndInv, TypeOK, Start, stopVars
  <2>2. CASE StopDetach
    BY <2>2, <1>1, MaxStartsNat DEF IndInv, TypeOK, StopDetach, StopStates
  <2>5. CASE StopSnapshot
    BY <2>5, <1>1 DEF IndInv, TypeOK, StopSnapshot, StopStates
  <2>3. CASE StopReadRunning \/ StopReadNotStarted
    BY <2>3, <1>1 DEF IndInv, TypeOK, StopReadRunning, StopReadNotStarted,
                      StopStates
  <2>4. CASE StopReport
    BY <2>4, <1>1 DEF IndInv, TypeOK, StopReport, StopStates
  <2> QED
    BY <2>1, <2>2, <2>3, <2>4, <2>5
<1>3. QueueInv' /\ FutureInv' /\ CallInv' /\ LockInv' /\ PendingInv'
  BY <1>1 DEF IndInv, QueueInv, FutureInv, CallInv, LockInv, PendingInv,
              Reviewing, Done
<1> QED
  BY <1>2, <1>3 DEF IndInv

\* shutdown(cancel_futures=True) cancels queued items only.
LEMMA DrainInv == ASSUME IndInv, StopDrain PROVE IndInv'
<1> DEFINE g == stopping
           h == Head(queue[g])
           t == Tail(queue[g])
<1>1. g \in Executors
  BY MaxStartsNat DEF IndInv, TypeOK, StopDrain, Executors
<1>2. CASE queue[g] = <<>>
  <2>1. UNCHANGED <<executor, starts, poolVars, pending, call, work, repoLock,
                    inFlight, stopping, snap, todo, running, notStarted, reported>>
        /\ stop' = "wait"
    BY <1>2 DEF StopDrain, poolVars
  <2>2. TypeOK'
    BY <2>1 DEF IndInv, TypeOK, StopStates, StopDrain, poolVars
  <2>3. QueueInv' /\ FutureInv' /\ CallInv' /\ LockInv' /\ PendingInv'
    BY <2>1 DEF IndInv, QueueInv, FutureInv, CallInv, LockInv, PendingInv,
                Reviewing, Done, poolVars
  <2> QED
    BY <2>2, <2>3 DEF IndInv
<1>3. CASE queue[g] # <<>>
  <2>1. /\ h \in Jobs /\ gen[h] = g /\ work[h] = "none" /\ fut[h] = "pending"
        /\ t \in Seq(Jobs) /\ Len(t) = Len(queue[g]) - 1
        /\ \A i \in 1..Len(t) : /\ i + 1 \in 1..Len(queue[g])
                                /\ t[i] = queue[g][i + 1] /\ t[i] # h
        /\ \A f \in Executors \ {g} : \A i \in 1..Len(queue[f]) : queue[f][i] # h
    BY <1>1, <1>3, HeadOfQueue
  <2>2. /\ queue' = [queue EXCEPT ![g] = t] /\ fut' = [fut EXCEPT ![h] = "cancelled"]
        /\ cb' = cb \ {h} /\ pending' = IF h \in cb THEN pending \ {h} ELSE pending
        /\ UNCHANGED <<executor, starts, gen, call, work, repoLock, inFlight, stop,
                       stopping, snap, todo, running, notStarted, reported>>
    BY <1>3 DEF StopDrain
  <2> HIDE DEF g, h, t
  <2>3. TypeOK'
    BY <1>1, <2>1, <2>2 DEF IndInv, TypeOK
  <2>4. QueueInv'
    <3> SUFFICES ASSUME NEW f \in Executors
                 PROVE  /\ \A i \in 1..Len(queue'[f]) :
                               /\ gen'[queue'[f][i]] = f
                               /\ work'[queue'[f][i]] = "none"
                               /\ fut'[queue'[f][i]] = "pending"
                        /\ \A i, k \in 1..Len(queue'[f]) :
                               queue'[f][i] = queue'[f][k] => i = k
      BY DEF QueueInv
    <3>1. CASE f # g
      BY <1>1, <2>1, <2>2, <3>1 DEF IndInv, TypeOK, QueueInv
    <3>2. CASE f = g
      <4>1. queue'[f] = t /\ Len(queue[g]) \in Nat
        BY <1>1, <2>1, <2>2, <3>2 DEF IndInv, TypeOK
      <4> DEFINE q == queue[g]
      <4>2. /\ \A i \in 1..Len(q) : /\ gen[q[i]] = g /\ work[q[i]] = "none"
                                    /\ fut[q[i]] = "pending" /\ q[i] \in Jobs
            /\ \A i, k \in 1..Len(q) : q[i] = q[k] => i = k
        BY <1>1 DEF IndInv, TypeOK, QueueInv
      <4>3. /\ \A i \in 1..Len(t) : /\ gen[t[i]] = g /\ work[t[i]] = "none"
                                    /\ fut[t[i]] = "pending" /\ t[i] \in Jobs
            /\ \A i, k \in 1..Len(t) : t[i] = t[k] => i + 1 = k + 1
        <5> HIDE DEF q
        <5> QED
          BY <2>1, <4>2 DEF q
      <4>4. \A i, k \in 1..Len(t) : t[i] = t[k] => i = k
        BY <2>1, <4>1, <4>3
      <4>5. \A i \in 1..Len(t) : fut'[t[i]] = "pending"
        BY <2>1, <2>2, <4>3 DEF IndInv, TypeOK
      <4> QED
        BY <2>2, <3>2, <4>1, <4>3, <4>4, <4>5
    <3> QED
      BY <3>1, <3>2
  <2>5. FutureInv' /\ CallInv' /\ LockInv'
    BY <2>1, <2>2 DEF IndInv, TypeOK, FutureInv, CallInv, LockInv, Reviewing
  <2>6. PendingInv'
    BY <2>1, <2>2 DEF IndInv, TypeOK, PendingInv, Done
  <2> QED
    BY <2>3, <2>4, <2>5, <2>6 DEF IndInv
<1> QED
  BY <1>2, <1>3

-----------------------------------------------------------------------------
\* Every step of every thread preserves the invariant.
LEMMA NextInv == IndInv /\ [Next]_vars => IndInv'
<1> SUFFICES ASSUME IndInv, [Next]_vars PROVE IndInv'
  OBVIOUS
<1>1. ASSUME NEW j \in Jobs, AcceptStep(j) PROVE IndInv'
  BY <1>1, AnswerInv, SubmitInv, CallInvStep DEF AcceptStep
<1>2. ASSUME NEW j \in Jobs, WorkerStep(j) PROVE IndInv'
  BY <1>2, BeginInv, ProcessInv, ResolveInv DEF WorkerStep
<1>3. ASSUME NEW g \in Executors, Pick(g) PROVE IndInv'
  BY <1>3, PickInv
<1>4. CASE Start \/ StopDetach \/ StopStep
  BY <1>4, LifecycleInv, DrainInv DEF StopStep
<1>5. CASE UNCHANGED vars
  BY <1>5 DEF vars, poolVars, stopVars, IndInv, TypeOK, QueueInv, FutureInv,
              CallInv, LockInv, PendingInv, Reviewing, Done
<1> QED
  BY <1>1, <1>2, <1>3, <1>4, <1>5 DEF Next, Quiet

\* Wherever the threads are, queue, future, worker, lock and _pending agree.
THEOREM Invariance == Spec => []IndInv
<1>1. Init => IndInv
  BY InitInv
<1>2. IndInv /\ [Next]_vars => IndInv'
  BY NextInv
<1> QED
  BY <1>1, <1>2, PTL DEF Spec

\* Types, for any constants: also that a job has a future exactly when an
\* executor took it.
THEOREM TypeCorrect == Spec => []TypeOK
BY Invariance, PTL DEF IndInv

\* No two reviews of one repository overlap, whatever the number of workers,
\* restarts and deliveries, and on whichever threads accept and stop run.
THEOREM MutualExclusion == Spec => []RepoMutex
<1>1. IndInv => RepoMutex
  BY DEF IndInv, LockInv, RepoMutex
<1> QED
  BY <1>1, Invariance, PTL

\* _pending neither leaks nor forgets a future.
THEOREM PendingIsExact == Spec => []PendingExact
<1>1. IndInv => PendingExact
  BY DEF IndInv, TypeOK, FutureInv, PendingInv, PendingExact, Done, WorkStates
<1> QED
  BY <1>1, Invariance, PTL

-----------------------------------------------------------------------------
(* On the event loop of main.py stop() knows what it cancels.                *)

\* Each step of the threads preserves StopInv, given the invariant above.
LEMMA StopStepInv ==
    ASSUME EventLoop, IndInv, StopInv, Next PROVE StopInv'
<1>1. ASSUME NEW j \in Jobs, AcceptStep(j) PROVE StopInv'
  <2>1. stop = "idle"
    BY <1>1 DEF StopInv, TypeOK, IndInv, AcceptStep, Filter, Refuse, Submit, CallStep,
                Register, AddCallback, LoopFree
  <2>2. UNCHANGED <<stop, reported>> /\ \A k \in Jobs :
           fut'[k] = "cancelled" => fut[k] = "cancelled"
    BY <1>1 DEF IndInv, TypeOK, AcceptStep, Filter, Refuse, Submit, CallStep,
                Register, AddCallback, poolVars, stopVars
  <2> QED
    BY <2>1, <2>2 DEF StopInv
<1>2. ASSUME NEW j \in Jobs, WorkerStep(j) PROVE StopInv'
  <2>1. /\ UNCHANGED <<executor, queue, call, stop, stopping, snap, todo, notStarted,
                       reported>>
        /\ \A k \in Jobs : fut'[k] = "cancelled" => fut[k] = "cancelled"
    BY <1>2 DEF IndInv, TypeOK, WorkerStep, Begin, EnterFlight, AcquireRepo,
                FetchReady, FetchEnds, ExecuteEnds, ExitFlight, SetResult,
                RunCallback, poolVars, stopVars
  <2> QED
    BY <2>1 DEF StopInv
<1>3. ASSUME NEW g \in Executors, Pick(g) PROVE StopInv'
  <2>1. UNCHANGED <<executor, fut, call, stop, stopping, snap, todo, notStarted,
                    reported>>
    BY <1>3 DEF Pick, stopVars
  <2>2. \A f \in Executors : \A i \in 1..Len(queue'[f]) :
           \E k \in 1..Len(queue[f]) : queue'[f][i] = queue[f][k]
    BY <1>3, TailIsPart DEF Pick
  <2>3. stop # "idle" => stopping \in Executors
    BY MaxStartsNat DEF IndInv, TypeOK, Executors
  <2> QED
    BY <2>1, <2>2, <2>3 DEF StopInv
<1>4. CASE Start
  BY <1>4 DEF StopInv, Start, poolVars, stopVars
<1>5. CASE StopDetach
  BY <1>5 DEF StopInv, StopDetach, LoopFree, poolVars
<1>6. CASE StopSnapshot
  <2>1. \A i \in 1..Len(queue[stopping]) : queue[stopping][i] \in pending
    <3> SUFFICES ASSUME NEW i \in 1..Len(queue[stopping])
                 PROVE  queue[stopping][i] \in pending
      OBVIOUS
    <3> DEFINE j == queue[stopping][i]
    <3>1. stopping \in Executors
      BY <1>6, MaxStartsNat DEF IndInv, TypeOK, StopSnapshot, Executors
    <3>2. j \in Jobs /\ gen[j] # 0 /\ fut[j] = "pending"
      BY <3>1 DEF IndInv, TypeOK, QueueInv, Executors
    <3>3. call[j] = "queued"
      BY <1>6, <3>2 DEF IndInv, CallInv, StopInv, StopSnapshot
    <3> QED
      BY <3>2, <3>3 DEF IndInv, PendingInv, Done
  <2> QED
    BY <1>6, <2>1 DEF StopInv, StopSnapshot, poolVars
<1>7. CASE StopReadRunning
  BY <1>7 DEF StopInv, StopReadRunning, poolVars
<1>8. CASE StopReadNotStarted
  <2>1. stopping \in Executors
    BY <1>8, MaxStartsNat DEF IndInv, TypeOK, StopReadNotStarted, Executors
  <2>2. \A i \in 1..Len(queue[stopping]) :
           ~Running(queue[stopping][i]) /\ ~Done(queue[stopping][i])
    BY <2>1 DEF IndInv, QueueInv, Running, Done
  <2> QED
    BY <1>8, <2>2 DEF StopInv, StopReadNotStarted, poolVars
<1>9. CASE StopDrain
  <2>1. stopping \in Executors
    BY <1>9, MaxStartsNat DEF IndInv, TypeOK, StopDrain, Executors
  <2>2. CASE queue[stopping] = <<>>
    BY <1>9, <2>2 DEF StopInv, StopDrain
  <2>3. CASE queue[stopping] # <<>>
    <3> DEFINE h == Head(queue[stopping])
    <3>1. h \in notStarted
      BY <1>9, <2>1, <2>3 DEF IndInv, TypeOK, StopInv, StopDrain
    <3>2. \A i \in 1..Len(queue'[stopping]) :
             \E k \in 1..Len(queue[stopping]) : queue'[stopping][i] = queue[stopping][k]
      BY <1>9, <2>1, <2>3, TailIsPart DEF StopDrain
    <3>3. /\ UNCHANGED <<executor, call, stop, stopping, snap, todo, notStarted,
                         reported>>
          /\ stop = "drain"
          /\ \A k \in Jobs : fut'[k] = "cancelled" => fut[k] = "cancelled" \/ k = h
      BY <1>9, <2>3 DEF IndInv, TypeOK, StopDrain
    <3> QED
      BY <3>1, <3>2, <3>3 DEF StopInv
  <2> QED
    BY <2>2, <2>3
<1>10. CASE StopReport
  BY <1>10 DEF StopInv, StopReport, poolVars
<1>11. CASE Quiet
  BY <1>11 DEF StopInv, Quiet, vars, poolVars, stopVars
<1> QED
  BY <1>1, <1>2, <1>3, <1>4, <1>5, <1>6, <1>7, <1>8, <1>9, <1>10, <1>11
     DEF Next, StopStep

\* Under one event loop stop() names every delivery it cancelled, whatever the
\* number of deliveries, workers and restarts.
THEOREM CancelledAreNamed ==
    ASSUME EventLoop PROVE Spec => []CancelledAreReported
<1>1. Init => StopInv
  BY DEF Init, StopInv
<1>2. IndInv /\ StopInv /\ [Next]_vars => StopInv'
  <2>1. CASE UNCHANGED vars
    BY <2>1 DEF StopInv, vars, poolVars, stopVars
  <2> QED
    BY <2>1, StopStepInv
<1>3. StopInv => CancelledAreReported
  BY DEF StopInv, CancelledAreReported
<1> QED
  BY <1>1, <1>2, <1>3, Invariance, PTL DEF Spec

-----------------------------------------------------------------------------
(* _in_flight: exact when delivery ids are distinct, never stale otherwise.  *)

InFlight == {"lock", "fetch", "execute", "exit"}

\* Every entry is under the delivery id of its job, which is being processed.
EntryInv ==
    \A d \in Deliveries :
        inFlight[d] # NoJob => DeliveryOf[inFlight[d]] = d /\ work[inFlight[d]] \in InFlight

\* Which steps move a job in or out of processing, and what they write.
LEMMA InFlightSteps ==
    ASSUME IndInv, Next
    PROVE  \/ \E j \in Jobs : /\ inFlight' = [inFlight EXCEPT ![DeliveryOf[j]] = j]
                              /\ work' = [work EXCEPT ![j] = "lock"]
           \/ \E j \in Jobs : /\ inFlight' = [inFlight EXCEPT ![DeliveryOf[j]] = NoJob]
                              /\ work' = [work EXCEPT ![j] = "result"]
           \/ /\ inFlight' = inFlight
              /\ \A k \in Jobs : work'[k] \in InFlight <=> work[k] \in InFlight
<1>1. ASSUME NEW j \in Jobs, AcceptStep(j)
      PROVE  UNCHANGED <<inFlight, work>>
  BY <1>1 DEF AcceptStep, Filter, Refuse, Submit, CallStep, Register, AddCallback
<1>2. ASSUME NEW j \in Jobs,
             \/ Begin(j) \/ AcquireRepo(j) \/ FetchReady(j) \/ FetchEnds(j)
             \/ ExecuteEnds(j) \/ SetResult(j) \/ RunCallback(j)
      PROVE  /\ inFlight' = inFlight
             /\ \A k \in Jobs : work'[k] \in InFlight <=> work[k] \in InFlight
  BY <1>2 DEF IndInv, TypeOK, Begin, AcquireRepo, FetchReady, FetchEnds,
              ExecuteEnds, SetResult, RunCallback, InFlight
<1>3. ASSUME NEW j \in Jobs, EnterFlight(j)
      PROVE  /\ inFlight' = [inFlight EXCEPT ![DeliveryOf[j]] = j]
             /\ work' = [work EXCEPT ![j] = "lock"]
  BY <1>3 DEF EnterFlight
<1>4. ASSUME NEW j \in Jobs, ExitFlight(j)
      PROVE  /\ inFlight' = [inFlight EXCEPT ![DeliveryOf[j]] = NoJob]
             /\ work' = [work EXCEPT ![j] = "result"]
  BY <1>4 DEF ExitFlight
<1>5. ASSUME NEW g \in Executors, Pick(g)
      PROVE  /\ inFlight' = inFlight
             /\ \A k \in Jobs : work'[k] \in InFlight <=> work[k] \in InFlight
  <2>1. work[Head(queue[g])] = "none"
    BY <1>5, HeadOfQueue DEF Pick
  <2> QED
    BY <1>5, <2>1 DEF IndInv, TypeOK, Pick, InFlight
<1>6. CASE Start \/ StopDetach \/ StopStep \/ Quiet
  BY <1>6 DEF Start, StopDetach, StopStep, StopSnapshot, StopReadRunning,
              StopReadNotStarted, StopDrain, StopReport, Quiet, vars
<1> QED
  BY <1>1, <1>2, <1>3, <1>4, <1>5, <1>6 DEF Next, WorkerStep

\* Whatever the delivery ids, no entry outlives the processing of its job.
THEOREM NothingStale == Spec => []NoStaleInFlight
<1>1. Init => EntryInv
  BY DEF Init, EntryInv
<1>2. IndInv /\ EntryInv /\ [Next]_vars => EntryInv'
  <2> SUFFICES ASSUME IndInv, EntryInv, [Next]_vars PROVE EntryInv'
    OBVIOUS
  <2>1. /\ inFlight \in [Deliveries -> Jobs \cup {NoJob}]
        /\ work \in [Jobs -> WorkStates]
    BY DEF IndInv, TypeOK
  <2>2. CASE UNCHANGED vars
    BY <2>2 DEF EntryInv, vars
  <2>3. ASSUME NEW j \in Jobs,
               inFlight' = [inFlight EXCEPT ![DeliveryOf[j]] = j],
               work' = [work EXCEPT ![j] = "lock"]
        PROVE  EntryInv'
    BY <2>1, <2>3, DeliveryOfType, NoJobIsNoJob DEF EntryInv, InFlight
  <2>4. ASSUME NEW j \in Jobs,
               inFlight' = [inFlight EXCEPT ![DeliveryOf[j]] = NoJob],
               work' = [work EXCEPT ![j] = "result"]
        PROVE  EntryInv'
    BY <2>1, <2>4, DeliveryOfType, NoJobIsNoJob DEF EntryInv, InFlight
  <2>5. CASE /\ inFlight' = inFlight
             /\ \A k \in Jobs : work'[k] \in InFlight <=> work[k] \in InFlight
    BY <2>1, <2>5 DEF EntryInv
  <2> QED
    BY <2>2, <2>3, <2>4, <2>5, InFlightSteps
<1>3. EntryInv => NoStaleInFlight
  BY DEF EntryInv, NoStaleInFlight, InFlight
<1> QED
  BY <1>1, <1>2, <1>3, Invariance, PTL DEF Spec

\* As long as no two deliveries share an id, _in_flight is exactly the jobs
\* being processed; a redelivery, which repeats its id, breaks the assumption
\* (WebhookHandler._process).
THEOREM InFlightIsExact ==
    ASSUME \A j, k \in Jobs : DeliveryOf[j] = DeliveryOf[k] => j = k
    PROVE  Spec => []InFlightExact
<1>1. Init => InFlightExact
  BY NoJobIsNoJob, DeliveryOfType DEF Init, InFlightExact
<1>2. IndInv /\ InFlightExact /\ [Next]_vars => InFlightExact'
  <2> SUFFICES ASSUME IndInv, InFlightExact, [Next]_vars PROVE InFlightExact'
    OBVIOUS
  <2>1. /\ inFlight \in [Deliveries -> Jobs \cup {NoJob}]
        /\ work \in [Jobs -> WorkStates]
    BY DEF IndInv, TypeOK
  <2>2. CASE UNCHANGED vars
    BY <2>2 DEF InFlightExact, vars
  <2>3. ASSUME NEW j \in Jobs,
               inFlight' = [inFlight EXCEPT ![DeliveryOf[j]] = j],
               work' = [work EXCEPT ![j] = "lock"]
        PROVE  InFlightExact'
    BY <2>1, <2>3, DeliveryOfType DEF InFlightExact
  <2>4. ASSUME NEW j \in Jobs,
               inFlight' = [inFlight EXCEPT ![DeliveryOf[j]] = NoJob],
               work' = [work EXCEPT ![j] = "result"]
        PROVE  InFlightExact'
    BY <2>1, <2>4, DeliveryOfType, NoJobIsNoJob DEF InFlightExact
  <2>5. CASE /\ inFlight' = inFlight
             /\ \A k \in Jobs : work'[k] \in InFlight <=> work[k] \in InFlight
    BY <2>1, <2>5 DEF InFlightExact, InFlight
  <2> QED
    BY <2>2, <2>3, <2>4, <2>5, InFlightSteps
<1> QED
  BY <1>1, <1>2, Invariance, PTL DEF Spec

-----------------------------------------------------------------------------
(* WebhookHandler implements ReviewQueue: each step of its threads moves one *)
(* delivery through the abstract queue or leaves all of them where they are. *)

\* A delivery's place depends on its future, its reply and its worker alone.
LEMMA SamePlace ==
    ASSUME NEW k \in Jobs, fut'[k] = fut[k], call'[k] = call[k], work'[k] = work[k]
    PROVE  JobStatus'[k] = JobStatus[k]
BY DEF JobStatus, Reviewing

\* What each combination of future and worker looks like from outside.
LEMMA Place ==
    ASSUME NEW k \in Jobs
    PROVE  /\ fut[k] = "none" => JobStatus[k] = IF call[k] = "new" THEN "new"
                                                ELSE "declined"
           /\ fut[k] = "cancelled" => JobStatus[k] = "dropped"
           /\ fut[k] \notin {"none", "cancelled"} =>
                 JobStatus[k] = IF Reviewing(k) THEN "reviewing"
                                ELSE IF work[k] \in {"exit", "result", "callback", "free"}
                                     THEN "done" ELSE "waiting"
BY DEF JobStatus

\* The same, after the step.
LEMMA PlaceNext ==
    ASSUME NEW k \in Jobs
    PROVE  /\ fut'[k] = "none" => JobStatus'[k] = IF call'[k] = "new" THEN "new"
                                                  ELSE "declined"
           /\ fut'[k] = "cancelled" => JobStatus'[k] = "dropped"
           /\ fut'[k] \notin {"none", "cancelled"} =>
                 JobStatus'[k] = IF Reviewing(k)' THEN "reviewing"
                                 ELSE IF work'[k] \in {"exit", "result", "callback", "free"}
                                      THEN "done" ELSE "waiting"
BY DEF JobStatus

\* Every other delivery keeps its place, so one move describes the step.
LEMMA OneMove ==
    ASSUME NEW j \in Jobs, NEW from, NEW to,
           JobStatus[j] = from, JobStatus'[j] = to,
           \A k \in Jobs \ {j} : JobStatus'[k] = JobStatus[k]
    PROVE  Queue!Move(j, from, to)
<1>1. JobStatus' = [JobStatus EXCEPT ![j] = to]
  <2>1. JobStatus' = [k \in Jobs |-> JobStatus'[k]] /\ JobStatus = [k \in Jobs |-> JobStatus[k]]
    BY DEF JobStatus
  <2> HIDE DEF JobStatus
  <2> QED
    BY <2>1
<1> QED
  BY <1>1 DEF Queue!Move

\* No delivery changes its place, so neither does the queue.
LEMMA NoMove ==
    ASSUME \A k \in Jobs : JobStatus'[k] = JobStatus[k]
    PROVE  UNCHANGED JobStatus
<1>1. JobStatus' = [k \in Jobs |-> JobStatus'[k]] /\ JobStatus = [k \in Jobs |-> JobStatus[k]]
  BY DEF JobStatus
<1> QED
  BY <1>1

-----------------------------------------------------------------------------
\* accept() declines a delivery, enqueues it, or goes on registering it.
LEMMA AcceptMoves ==
    ASSUME IndInv, NEW j \in Jobs, AcceptStep(j)
    PROVE  Queue!Decline(j) \/ Queue!Enqueue(j) \/ UNCHANGED JobStatus
<1>1. \A k \in Jobs \ {j} : JobStatus'[k] = JobStatus[k]
  BY SamePlace DEF IndInv, TypeOK, AcceptStep, Filter, Refuse, Submit, CallStep,
                   Register, AddCallback, poolVars
<1>2. CASE Filter(j) \/ Refuse(j)
  <2>1. call[j] = "new" /\ fut[j] = "none" /\ fut' = fut
    BY <1>2 DEF IndInv, TypeOK, CallInv, Filter, Refuse, poolVars
  <2>2. call'[j] # "new"
    BY <1>2, VerdictType DEF IndInv, TypeOK, Filter, Refuse, Replies
  <2>3. JobStatus[j] = "new" /\ JobStatus'[j] = "declined"
    BY <2>1, <2>2, Place, PlaceNext
  <2> QED
    BY <1>1, <2>3, OneMove DEF Queue!Decline
<1>3. CASE Submit(j)
  <2>1. call[j] = "new" /\ gen[j] = 0 /\ fut[j] = "none"
    BY <1>3 DEF IndInv, TypeOK, CallInv, Submit
  <2>2. work[j] = "none"
    BY <2>1 DEF IndInv, TypeOK, FutureInv, WorkStates
  <2>3. fut'[j] = "pending" /\ work' = work
    BY <1>3 DEF IndInv, TypeOK, Submit
  <2>4. JobStatus[j] = "new" /\ JobStatus'[j] = "waiting"
    BY <2>1, <2>2, <2>3, Place, PlaceNext DEF Reviewing
  <2> QED
    BY <1>1, <2>4, OneMove DEF Queue!Enqueue
<1>4. CASE CallStep(j)
  <2>1. fut[j] # "none" /\ UNCHANGED <<fut, work>>
    BY <1>4 DEF IndInv, TypeOK, CallInv, CallStep, Register, AddCallback, poolVars
  <2>2. JobStatus'[j] = JobStatus[j]
    BY <2>1, Place, PlaceNext DEF Reviewing
  <2> QED
    BY <1>1, <2>2, NoMove
<1> QED
  BY <1>2, <1>3, <1>4 DEF AcceptStep

\* The lock of its repository is free, so no other review of it is under way.
LEMMA AcquireMoves ==
    ASSUME IndInv, NEW j \in Jobs, AcquireRepo(j) PROVE Queue!StartReview(j)
<1>1. \A k \in Jobs \ {j} : JobStatus'[k] = JobStatus[k]
  BY SamePlace DEF IndInv, TypeOK, AcquireRepo, poolVars
<1>2. work[j] = "lock" /\ work'[j] = "fetch" /\ fut[j] = "running" /\ fut'[j] = "running"
  BY DEF IndInv, TypeOK, FutureInv, AcquireRepo, poolVars
<1>3. JobStatus[j] = "waiting" /\ JobStatus'[j] = "reviewing"
  BY <1>2, Place, PlaceNext DEF Reviewing
<1>4. \A k \in Jobs : JobStatus[k] = "reviewing" => RepoOf[k] # RepoOf[j]
  <2>1. \A k \in Jobs : JobStatus[k] = "reviewing" => Reviewing(k)
    BY Place
  <2> QED
    BY <2>1, NoJobIsNoJob DEF IndInv, LockInv, AcquireRepo
<1> QED
  BY <1>1, <1>3, <1>4, OneMove DEF Queue!StartReview

\* A worker begins or ends a review, or moves within its stage.
LEMMA WorkerMoves ==
    ASSUME IndInv, NEW j \in Jobs, WorkerStep(j)
    PROVE  Queue!StartReview(j) \/ Queue!EndReview(j) \/ UNCHANGED JobStatus
<1>1. \A k \in Jobs \ {j} : JobStatus'[k] = JobStatus[k]
  BY SamePlace
     DEF IndInv, TypeOK, WorkerStep, Begin, EnterFlight, AcquireRepo, FetchReady,
         FetchEnds, ExecuteEnds, ExitFlight, SetResult, RunCallback, poolVars
<1>2. CASE Begin(j) \/ EnterFlight(j)
  <2>1. /\ fut[j] \in {"pending", "running"} /\ fut'[j] = "running"
        /\ work[j] \in {"picked", "flight"} /\ work'[j] \in {"flight", "lock"}
    BY <1>2 DEF IndInv, TypeOK, FutureInv, Begin, EnterFlight, poolVars
  <2>2. JobStatus'[j] = JobStatus[j]
    BY <2>1, Place, PlaceNext DEF Reviewing
  <2> QED
    BY <1>1, <2>2, NoMove
<1>3. CASE FetchReady(j)
  <2>1. /\ fut[j] = "running" /\ fut'[j] = "running"
        /\ work[j] = "fetch" /\ work'[j] = "execute"
    BY <1>3 DEF IndInv, TypeOK, FutureInv, FetchReady, poolVars
  <2>2. JobStatus'[j] = JobStatus[j]
    BY <2>1, Place, PlaceNext DEF Reviewing
  <2> QED
    BY <1>1, <2>2, NoMove
<1>4. CASE FetchEnds(j) \/ ExecuteEnds(j)
  <2>1. /\ fut[j] = "running" /\ fut'[j] = "running"
        /\ work[j] \in {"fetch", "execute"} /\ work'[j] = "exit"
    BY <1>4 DEF IndInv, TypeOK, FutureInv, FetchEnds, ExecuteEnds, poolVars
  <2>2. JobStatus[j] = "reviewing" /\ JobStatus'[j] = "done"
    BY <2>1, Place, PlaceNext DEF Reviewing
  <2> QED
    BY <1>1, <2>2, OneMove DEF Queue!EndReview
<1>5. CASE ExitFlight(j) \/ SetResult(j) \/ RunCallback(j)
  <2>1. /\ fut[j] \in {"running", "finished"} /\ fut'[j] \in {"running", "finished"}
        /\ work[j] \in {"exit", "result", "callback"}
        /\ work'[j] \in {"result", "callback", "free"}
    BY <1>5 DEF IndInv, TypeOK, FutureInv, ExitFlight, SetResult, RunCallback, poolVars
  <2>2. JobStatus'[j] = JobStatus[j]
    BY <2>1, Place, PlaceNext DEF Reviewing
  <2> QED
    BY <1>1, <2>2, NoMove
<1> QED
  BY <1>2, <1>3, <1>4, <1>5, AcquireMoves DEF WorkerStep

\* Taken off the queue, a delivery still waits: for its lock.
LEMMA PickMoves ==
    ASSUME IndInv, NEW g \in Executors, Pick(g) PROVE UNCHANGED JobStatus
<1> DEFINE h == Head(queue[g])
<1>1. h \in Jobs /\ work[h] = "none" /\ fut[h] = "pending"
  BY HeadOfQueue DEF Pick
<1>2. UNCHANGED <<fut, call>> /\ work' = [work EXCEPT ![h] = "picked"]
  BY DEF Pick
<1> HIDE DEF h
<1>3. \A k \in Jobs \ {h} : JobStatus'[k] = JobStatus[k]
  BY <1>2, SamePlace DEF IndInv, TypeOK
<1>4. work'[h] = "picked"
  BY <1>1, <1>2 DEF IndInv, TypeOK
<1>5. JobStatus'[h] = JobStatus[h]
  BY <1>1, <1>2, <1>4, Place, PlaceNext DEF Reviewing
<1> QED
  BY <1>3, <1>5, NoMove

\* Only a queued item is ever cancelled: its review has not begun.
LEMMA DrainMoves ==
    ASSUME IndInv, StopDrain
    PROVE  (\E j \in Jobs : Queue!Drop(j)) \/ UNCHANGED JobStatus
<1> DEFINE h == Head(queue[stopping])
<1>1. CASE queue[stopping] = <<>>
  BY <1>1, SamePlace, NoMove DEF StopDrain
<1>2. CASE queue[stopping] # <<>>
  <2>1. stopping \in Executors
    BY MaxStartsNat DEF IndInv, TypeOK, StopDrain, Executors
  <2>2. h \in Jobs /\ work[h] = "none" /\ fut[h] = "pending"
    BY <1>2, <2>1, HeadOfQueue
  <2>3. UNCHANGED <<work, call>> /\ fut' = [fut EXCEPT ![h] = "cancelled"]
    BY <1>2 DEF StopDrain
  <2> HIDE DEF h
  <2>4. \A k \in Jobs \ {h} : JobStatus'[k] = JobStatus[k]
    BY <2>3, SamePlace DEF IndInv, TypeOK
  <2>5. fut'[h] = "cancelled"
    BY <2>2, <2>3 DEF IndInv, TypeOK
  <2>6. JobStatus[h] = "waiting" /\ JobStatus'[h] = "dropped"
    BY <2>2, <2>5, Place, PlaceNext DEF Reviewing
  <2> QED
    BY <2>2, <2>4, <2>6, OneMove DEF Queue!Drop
<1> QED
  BY <1>1, <1>2

\* start(), and the bookkeeping of stop(), move no delivery.
LEMMA LifecycleMoves ==
    ASSUME Start \/ StopDetach \/ StopSnapshot \/ StopReadRunning
             \/ StopReadNotStarted \/ StopReport \/ UNCHANGED vars
    PROVE  UNCHANGED JobStatus
<1>1. UNCHANGED <<fut, call, work>>
  BY DEF Start, StopDetach, StopSnapshot, StopReadRunning, StopReadNotStarted,
         StopReport, vars, poolVars
<1> QED
  BY <1>1, SamePlace, NoMove

-----------------------------------------------------------------------------
\* For any constants, every behaviour of the threads is one of the abstract
\* queue: a review under way is never cancelled, a cancelled or declined delivery
\* is never reviewed, none twice, and no two of one repository together.
THEOREM ImplementsQueue == Spec => RefinesQueue
<1>1. Init => Queue!Init
  BY DEF Init, Queue!Init, JobStatus
<1>2. IndInv /\ [Next]_vars => [Queue!Next]_JobStatus
  <2> SUFFICES ASSUME IndInv, [Next]_vars
               PROVE  Queue!Next \/ UNCHANGED JobStatus
    OBVIOUS
  <2>1. ASSUME NEW j \in Jobs, AcceptStep(j)
        PROVE  Queue!Next \/ UNCHANGED JobStatus
    BY <2>1, AcceptMoves DEF Queue!Next
  <2>2. ASSUME NEW j \in Jobs, WorkerStep(j)
        PROVE  Queue!Next \/ UNCHANGED JobStatus
    BY <2>2, WorkerMoves DEF Queue!Next
  <2>3. ASSUME NEW g \in Executors, Pick(g) PROVE UNCHANGED JobStatus
    BY <2>3, PickMoves
  <2>4. CASE Start \/ StopDetach \/ StopStep \/ UNCHANGED vars
    BY <2>4, LifecycleMoves, DrainMoves DEF StopStep, Queue!Next
  <2> QED
    BY <2>1, <2>2, <2>3, <2>4 DEF Next, Quiet
<1> QED
  BY <1>1, <1>2, Invariance, PTL DEF Spec, RefinesQueue, Queue!Spec
=============================================================================
