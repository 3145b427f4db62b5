--------------------------- MODULE WebhookInvariants ---------------------------
(***************************************************************************)
(* The inductive invariant of WebhookHandler, in named parts: what TLC     *)
(* checks on the instances of MCWebhook and WebhookProofs proves.          *)
(***************************************************************************)
EXTENDS WebhookHandler

\* A queued job is the queue's executor's, untouched, and queued once.
QueueInv ==
    \A g \in Executors :
        /\ \A i \in 1..Len(queue[g]) :
              /\ gen[queue[g][i]] = g
              /\ work[queue[g][i]] = "none"
              /\ fut[queue[g][i]] = "pending"
        /\ \A i, k \in 1..Len(queue[g]) : queue[g][i] = queue[g][k] => i = k

\* The worker's position fixes the state of the future.
FutureInv ==
    \A j \in Jobs :
        /\ work[j] = "none" => fut[j] \in {"none", "pending", "cancelled"}
        /\ work[j] = "picked" => fut[j] = "pending"
        /\ work[j] \in {"flight", "lock", "fetch", "execute", "exit", "result"}
              => fut[j] = "running"
        /\ work[j] \in {"callback", "free"} => fut[j] = "finished"

\* accept() is past its submit exactly when some executor took the job.
CallInv ==
    \A j \in Jobs : gen[j] # 0 <=> call[j] \in {"submitted", "registered", "queued"}

\* Who reviews holds the lock of the repository.
LockInv == \A j \in Jobs : Reviewing(j) => repoLock[RepoOf[j]] = j

\* How _pending and the done callback go together at each point of accept().
PendingInv ==
    \A j \in Jobs :
        /\ j \in cb => call[j] = "queued"
        /\ call[j] = "registered" => j \in pending
        /\ call[j] \notin {"registered", "queued"} => j \notin pending
        /\ call[j] = "queued" => (j \in pending <=> j \in cb)
        /\ j \in cb => fut[j] # "cancelled" /\ work[j] # "free"
        /\ call[j] = "queued" /\ j \notin cb => Done(j)

\* Inductive: at every point of the interleaving, queue, future, worker, lock
\* and _pending agree on where each delivery is (_submit, _process, stop).
IndInv ==
    /\ TypeOK
    /\ QueueInv
    /\ FutureInv
    /\ CallInv
    /\ LockInv
    /\ PendingInv

\* While stop() runs on the event loop no accept() is half-way, no executor is
\* live, and each queued job of the detached one is where stop() will find it,
\* so every future it cancels is one it goes on to report (stop, under main.py).
StopInv ==
    /\ stop # "idle" => /\ executor = 0
                        /\ \A j \in Jobs : call[j] \notin {"submitted", "registered"}
    /\ stop # "idle" =>
         \A i \in 1..Len(queue[stopping]) :
            /\ stop = "running" => queue[stopping][i] \in snap
            /\ stop = "not_started" => queue[stopping][i] \in todo \cup notStarted
            /\ stop = "drain" => queue[stopping][i] \in notStarted
            /\ stop # "wait"
    /\ \A j \in Jobs : fut[j] = "cancelled" =>
            j \in reported \/ (stop \in {"drain", "wait"} /\ j \in notStarted)
=============================================================================
