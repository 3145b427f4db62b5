------------------------------ MODULE GitCheckout ------------------------------
(***************************************************************************)
(* GitRepoFetcher.checkout (infrastructure/git_repo_fetcher.py) and what   *)
(* it leaves on disk: the cache directory of one repository, shared by all *)
(* its pull requests and by every run of the server.  The reviews of one   *)
(* repository take turns: WebhookHandler holds its lock from before the    *)
(* checkout until after the review.  Each git command is one step, which   *)
(* may fail and may leave its work half done; so does the death of the     *)
(* process, which no `finally` survives.                                   *)
(***************************************************************************)
EXTENDS Integers

CONSTANTS
    Jobs,      \* reviews of pull requests of this repository
    Commits,   \* commits of the repository and of its forks
    HeadOf,    \* head_sha of each job's pull request
    UrlOf,     \* its clone_url: the fork's, or the base repository's
    ByRef,     \* jobs whose fork is deleted: they fetch refs/pull/{n}/head
    MaxKills,  \* bound: how often the process dies
    NoJob,     \* not a job: the lock is free
    NoUrl,     \* not a URL: .git/config names no origin
    Mixed      \* not a commit: files of several commits, or none

ASSUME HeadOfType == HeadOf \in [Jobs -> Commits]
ASSUME ByRefType == ByRef \subseteq Jobs
ASSUME NoJobIsNoJob == NoJob \notin Jobs
ASSUME NoUrlIsNoUrl == \A j \in Jobs : UrlOf[j] # NoUrl
ASSUME MixedIsNoCommit == Mixed \notin Commits
ASSUME MaxKillsNat == MaxKills \in Nat

VARIABLES
    lock,    \* the job that holds the repository's lock
    pc,      \* the git command each job is at, or where else it is
    broke,   \* the first command of a job that failed, "none" so far
    seen,    \* whose exception checkout() raised, "none" if it did not: a command,
             \* or "subprocess" if git's was not what the restore raised
    git,     \* does .git exist?
    origin,  \* url and token of the remote `origin` in .git/config
    locks,   \* lock files a dead git left: "index", "config"
    tree,    \* the commit whose files are in the working tree
    junk,    \* are there files in it that are no part of that commit?
    fetched, \* FETCH_HEAD
    kills,   \* how often the process died
    told     \* history: since origin was last restored, a restore failed, or the
             \* process died with the token in it

disk == <<git, origin, locks, tree, junk, fetched>>
vars == <<lock, pc, broke, seen, disk, kills, told>>

Commands == {"clone", "seturl", "fetch", "checkout", "clean"}
Ended == {"done", "failed", "lost"}
Urls == {UrlOf[j] : j \in Jobs} \cup {NoUrl}
Trees == Commits \cup {Mixed}

Authed(j) == [url |-> UrlOf[j], token |-> TRUE]   \* _inject_token
Plain(j) == [url |-> UrlOf[j], token |-> FALSE]
NoOrigin == [url |-> NoUrl, token |-> FALSE]

Init ==
    /\ lock = NoJob
    /\ pc = [j \in Jobs |-> "new"]
    /\ broke = [j \in Jobs |-> "none"]
    /\ seen = [j \in Jobs |-> "none"]
    /\ git = FALSE
    /\ origin = NoOrigin
    /\ locks = {}
    /\ tree = Mixed
    /\ junk = FALSE
    /\ fetched = Mixed
    /\ kills = 0
    /\ told = FALSE

-----------------------------------------------------------------------------
(* The directory.                                                           *)

\* FETCH_HEAD if the fetch was not by SHA.
Target(j) == IF j \in ByRef THEN fetched ELSE HeadOf[j]

\* What a command that does not end well may leave: nothing, some or all of its
\* work (git has done it, and its output cannot be decoded).  A clone removes
\* what it made, or dies before it can; git writes .git/config and the index
\* beside themselves under a lock file, which stays if git dies.
HalfDone(command) ==
    \/ /\ command = "clone"
       /\ \/ git' = FALSE /\ origin' = NoOrigin /\ junk' = FALSE
          \/ git' = TRUE /\ origin' \in {Authed(lock), NoOrigin} /\ junk' = TRUE
       /\ UNCHANGED <<locks, tree, fetched>>
    \/ /\ command \in {"seturl", "restore"}
       /\ \/ locks' \in {locks, locks \cup {"config"}} /\ origin' = origin
          \/ /\ "config" \notin locks /\ origin # NoOrigin
             /\ locks' = locks
             /\ origin' = IF command = "seturl" THEN Authed(lock) ELSE Plain(lock)
       /\ UNCHANGED <<git, tree, junk, fetched>>
    \/ /\ command = "fetch"
       /\ fetched' \in {fetched, HeadOf[lock]}
       /\ UNCHANGED <<git, origin, locks, tree, junk>>
    \/ /\ command = "checkout"
       /\ locks' \in {locks, locks \cup {"index"}}
       /\ \/ UNCHANGED <<tree, junk>>
          \/ tree' = Mixed /\ junk' = TRUE
          \/ tree' = Target(lock) /\ junk' = junk
       /\ UNCHANGED <<git, origin, fetched>>
    \/ /\ command = "clean"
       /\ junk' \in {junk, FALSE}
       /\ UNCHANGED <<git, origin, locks, tree, fetched>>

-----------------------------------------------------------------------------
(* checkout().                                                              *)

Go(j, to) == pc' = [pc EXCEPT ![j] = to]

\* The exception leaves checkout(), execute() and the lock of _process.
Raise(j, command) ==
    /\ Go(j, "failed")
    /\ seen' = [seen EXCEPT ![j] = command]
    /\ lock' = NoJob

\* The lock, then `.git` decides between clone and set-url.
Begin(j) ==
    /\ pc[j] = "new"
    /\ lock = NoJob
    /\ lock' = j
    /\ Go(j, IF git THEN "seturl" ELSE "clone")
    /\ UNCHANGED <<broke, seen, disk, kills, told>>

\* The parent directory cannot be made: this is before the try block.
MkdirFails(j) ==
    /\ pc[j] = "new"
    /\ lock = NoJob
    /\ Go(j, "failed")
    /\ seen' = [seen EXCEPT ![j] = "mkdir"]
    /\ UNCHANGED <<lock, broke, disk, kills, told>>

\* git clone checks out the default branch, which is nobody's head.
Clone(j) ==
    /\ pc[j] = "clone"
    /\ git' = TRUE
    /\ origin' = Authed(j)
    /\ locks' = {}
    /\ tree' = Mixed
    /\ junk' = FALSE
    /\ Go(j, "fetch")
    /\ UNCHANGED <<lock, broke, seen, fetched, kills, told>>

\* git remote set-url needs an origin, and the config's lock file.
SetUrl(j) ==
    /\ pc[j] = "seturl"
    /\ "config" \notin locks
    /\ origin # NoOrigin
    /\ origin' = Authed(j)
    /\ Go(j, "fetch")
    /\ UNCHANGED <<lock, broke, seen, git, locks, tree, junk, fetched, kills, told>>

\* git fetch origin <head_sha or refs/pull/n/head>, from the job's own URL.
Fetch(j) ==
    /\ pc[j] = "fetch"
    /\ origin = Authed(j)
    /\ fetched' = HeadOf[j]
    /\ Go(j, "checkout")
    /\ UNCHANGED <<lock, broke, seen, git, origin, locks, tree, junk, kills, told>>

\* git checkout --force loads the blobs it lacks through origin.
Checkout(j) ==
    /\ pc[j] = "checkout"
    /\ "index" \notin locks
    /\ origin = Authed(j)
    /\ tree' = Target(j)
    /\ Go(j, "clean")
    /\ UNCHANGED <<lock, broke, seen, git, origin, locks, junk, fetched, kills, told>>

\* Mutant: no git clean after the checkout.
CleanSkipped(j) ==
    /\ pc[j] = "clean"
    /\ Go(j, "restore")
    /\ UNCHANGED <<lock, broke, seen, disk, kills, told>>

\* git clean -fdx, the last command of the try block.
Clean(j) ==
    /\ pc[j] = "clean"
    /\ junk' = FALSE
    /\ Go(j, "restore")
    /\ UNCHANGED <<lock, broke, seen, git, origin, locks, tree, fetched, kills, told>>

\* Mutant: the finally clause asks whether set-url or clone had succeeded.
CommandFailsTracked(j) ==
    /\ pc[j] \in Commands
    /\ HalfDone(pc[j])
    /\ broke' = [broke EXCEPT ![j] = pc[j]]
    /\ IF pc[j] \notin {"clone", "seturl"}
       THEN Go(j, "restore") /\ UNCHANGED <<lock, seen>>
       ELSE Raise(j, pc[j])
    /\ UNCHANGED <<kills, told>>

\* A command fails (it exits with an error, cannot be started, or writes what is
\* no text): the finally clause follows, and restores if there is a .git,
\* whichever command it was.
CommandFails(j) ==
    /\ pc[j] \in Commands
    /\ HalfDone(pc[j])
    /\ broke' = [broke EXCEPT ![j] = pc[j]]
    /\ IF git'
       THEN Go(j, "restore") /\ UNCHANGED <<lock, seen>>
       ELSE Raise(j, pc[j])
    /\ UNCHANGED <<kills, told>>

\* _restore_origin_url: after a failure that one is raised again.
Restore(j) ==
    /\ pc[j] = "restore"
    /\ "config" \notin locks
    /\ origin # NoOrigin
    /\ origin' = Plain(j)
    /\ told' = FALSE
    /\ IF broke[j] = "none"
       THEN Go(j, "review") /\ UNCHANGED <<lock, seen>>
       ELSE Raise(j, broke[j])
    /\ UNCHANGED <<broke, git, locks, tree, junk, fetched, kills>>

\* Mutant: the restore is best effort also when everything else went well.
RestoreFailsQuietly(j) ==
    /\ pc[j] = "restore"
    /\ HalfDone("restore")
    /\ told' = TRUE
    /\ IF broke[j] = "none"
       THEN Go(j, "review") /\ UNCHANGED <<lock, seen>>
       ELSE Raise(j, broke[j])
    /\ UNCHANGED <<broke, kills>>

\* Mutant: the restore's exception replaces the one under way.
RestoreFailsMasking(j) ==
    /\ pc[j] = "restore"
    /\ HalfDone("restore")
    /\ told' = TRUE
    /\ Raise(j, "restore")
    /\ UNCHANGED <<broke, kills>>

\* git remote set-url exits with an error: a RuntimeError, which is raised if
\* nothing else was, and logged otherwise.
RestoreFails(j) ==
    /\ pc[j] = "restore"
    /\ HalfDone("restore")
    /\ told' = TRUE
    /\ Raise(j, IF broke[j] = "none" THEN "restore" ELSE broke[j])
    /\ UNCHANGED <<broke, kills>>

\* git cannot be started (OSError), or what it writes is no text
\* (UnicodeDecodeError): nothing catches these, whatever was under way.
RestoreBreaks(j) ==
    /\ pc[j] = "restore"
    /\ HalfDone("restore")
    /\ told' = TRUE
    /\ Raise(j, "subprocess")
    /\ UNCHANGED <<broke, kills>>

\* The rest of execute() reads the working tree and ends; the lock is released.
ReviewEnds(j) ==
    /\ pc[j] = "review"
    /\ Go(j, "done")
    /\ lock' = NoJob
    /\ UNCHANGED <<broke, seen, disk, kills, told>>

\* The process dies, in the middle of whatever git is doing; a new one starts.
\* Jobs that were not done are lost, and so is the lock.  The disk stays.
Kill ==
    /\ kills < MaxKills
    /\ kills' = kills + 1
    /\ IF lock # NoJob /\ pc[lock] \in Commands \cup {"restore"}
       THEN HalfDone(pc[lock])
       ELSE UNCHANGED disk
    /\ pc' = [j \in Jobs |-> IF pc[j] \in {"new"} \cup Ended THEN pc[j] ELSE "lost"]
    /\ lock' = NoJob
    /\ told' = (told \/ origin'.token)
    /\ UNCHANGED <<broke, seen>>

Step(j) ==
    \/ Clone(j) \/ SetUrl(j) \/ Fetch(j) \/ Checkout(j) \/ Clean(j)
    \/ CommandFails(j) \/ Restore(j) \/ RestoreFails(j) \/ RestoreBreaks(j)
    \/ ReviewEnds(j)

AllEnded == (\A j \in Jobs : pc[j] \in Ended) /\ UNCHANGED vars

Next ==
    \/ \E j \in Jobs : Begin(j) \/ MkdirFails(j) \/ Step(j)
    \/ Kill
    \/ AllEnded

Spec == Init /\ [][Next]_vars

-----------------------------------------------------------------------------
(* Properties.                                                              *)

\* Every variable has its type.
TypeOK ==
    /\ lock \in Jobs \cup {NoJob}
    /\ pc \in [Jobs -> {"new", "restore", "review"} \cup Commands \cup Ended]
    /\ broke \in [Jobs -> {"none"} \cup Commands]
    /\ seen \in [Jobs -> {"none", "mkdir", "restore", "subprocess"} \cup Commands]
    /\ git \in BOOLEAN
    /\ origin \in [url : Urls, token : BOOLEAN]
    /\ locks \subseteq {"index", "config"}
    /\ tree \in Trees
    /\ junk \in BOOLEAN
    /\ fetched \in Trees
    /\ kills \in 0..MaxKills
    /\ told \in BOOLEAN

\* A review reads the files of its own pull request's head and no others, for
\* as long as it lasts: whatever earlier reviews of the repository, failed
\* checkouts and killed processes have left in the directory (checkout, and the
\* lock of _process).
ReviewsOwnHead ==
    \A j \in Jobs : pc[j] = "review" => tree = HeadOf[j] /\ ~junk

\* While a review runs, and gives the directory to the CLI's prompt and to
\* `git show`, origin is its own clone URL without the token: a restore that
\* fails stops the review (_restore_origin_url).
ReviewsWithoutToken ==
    \A j \in Jobs : pc[j] = "review" => origin = Plain(j)

\* The token is in .git/config only during a checkout, or after a restore that
\* failed with an exception or an ERROR, or the death of the process, and then
\* only until the next restore; no failure of a git command leaves it there
\* silently, not even a clone that died half-way (the finally clause of checkout).
NoTokenAtRest ==
    lock = NoJob /\ origin.token => told

\* git's failure to restore the URL never hides the failure that came before it:
\* that one is raised, unless the restore could not be run or read at all. The
\* docstring of _restore_origin_url makes no such exception.
FirstFailureKept ==
    \A j \in Jobs :
        pc[j] = "failed" /\ broke[j] # "none" => seen[j] \in {broke[j], "subprocess"}
=============================================================================
