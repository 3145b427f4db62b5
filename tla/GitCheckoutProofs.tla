--------------------------- MODULE GitCheckoutProofs ---------------------------
(***************************************************************************)
(* Proofs about the checkout, for any number of jobs, commits, URLs and    *)
(* deaths of the process.                                                  *)
(***************************************************************************)
EXTENDS GitCheckout, TLAPS

Active == Commands \cup {"restore", "review"}

\* Whoever works in the directory holds the lock, and only then.
LockInv == \A j \in Jobs : pc[j] \in Active <=> lock = j

\* Without .git there is no origin.
DiskInv == ~git => origin = NoOrigin

\* What the commands before this one have established.
StageInv ==
    \A j \in Jobs :
        /\ pc[j] = "clone" => ~git
        /\ pc[j] \in Commands \cup {"review"} => broke[j] = "none"
        /\ pc[j] = "checkout" => fetched = HeadOf[j]
        /\ pc[j] = "clean" => tree = HeadOf[j]
        /\ pc[j] = "restore" /\ broke[j] = "none" => tree = HeadOf[j] /\ ~junk
        /\ pc[j] = "review" => tree = HeadOf[j] /\ ~junk /\ origin = Plain(j)
        /\ pc[j] = "new" => broke[j] = "none"
        /\ pc[j] = "failed" /\ broke[j] # "none"
                => seen[j] \in {broke[j], "subprocess"}

IndInv == TypeOK /\ LockInv /\ DiskInv /\ StageInv /\ NoTokenAtRest

USE HeadOfType, ByRefType, NoJobIsNoJob, NoUrlIsNoUrl, MixedIsNoCommit, MaxKillsNat

\* The URLs origin may have are those of the pull requests.
LEMMA OriginTypes ==
    /\ NoOrigin \in [url : Urls, token : BOOLEAN]
    /\ ~NoOrigin.token
    /\ \A j \in Jobs : /\ Authed(j) \in [url : Urls, token : BOOLEAN]
                       /\ Plain(j) \in [url : Urls, token : BOOLEAN]
                       /\ ~Plain(j).token
BY DEF NoOrigin, Authed, Plain, Urls

\* A directory that does not exist yet satisfies the invariant.
LEMMA InitInd == Init => IndInv
<1> SUFFICES ASSUME Init PROVE IndInv
  OBVIOUS
<1>1. TypeOK
  <2>1. origin \in [url : Urls, token : BOOLEAN]
    BY OriginTypes DEF Init
  <2>2. kills \in 0..MaxKills /\ lock \in Jobs \cup {NoJob}
    BY DEF Init
  <2>3. tree \in Trees /\ fetched \in Trees
    BY DEF Init, Trees
  <2>4. /\ git \in BOOLEAN /\ junk \in BOOLEAN /\ told \in BOOLEAN
        /\ locks \subseteq {"index", "config"}
    BY DEF Init
  <2>5. /\ pc \in [Jobs -> {"new", "restore", "review"} \cup Commands \cup Ended]
        /\ broke \in [Jobs -> {"none"} \cup Commands]
        /\ seen \in [Jobs -> {"none", "mkdir", "restore", "subprocess"} \cup Commands]
    BY DEF Init
  <2> QED BY <2>1, <2>2, <2>3, <2>4, <2>5 DEF TypeOK
<1>2. LockInv /\ StageInv
  BY DEF Init, LockInv, StageInv, Active, Commands
<1>3. DiskInv /\ NoTokenAtRest
  BY OriginTypes DEF Init, DiskInv, NoTokenAtRest
<1> QED BY <1>1, <1>2, <1>3 DEF IndInv

\* Two jobs are never at work at once.
LEMMA OnlyOne ==
    ASSUME NEW j \in Jobs, LockInv, pc[j] \in Active
    PROVE  lock = j /\ \A k \in Jobs \ {j} : pc[k] \notin Active
BY DEF LockInv

\* A command that does not end well keeps the disk's types, and its origin is
\* either kept, or none, or the one of a clone that died half-way.
LEMMA HalfDoneTypes ==
    ASSUME TypeOK, DiskInv, lock \in Jobs,
           NEW command \in Commands \cup {"restore"}, HalfDone(command),
           command = "clone" => ~git
    PROVE  /\ git' \in BOOLEAN /\ origin' \in [url : Urls, token : BOOLEAN]
           /\ locks' \subseteq {"index", "config"}
           /\ tree' \in Trees /\ junk' \in BOOLEAN /\ fetched' \in Trees
           /\ ~git' => origin' = NoOrigin
           /\ command # "clone" => git' = git
<1>1. CASE command = "clone"
  BY <1>1, OriginTypes DEF HalfDone, TypeOK
<1>2. CASE command \in {"seturl", "restore"}
  <2>1. git' = git /\ tree' = tree /\ junk' = junk /\ fetched' = fetched
    BY <1>2 DEF HalfDone
  <2>2. locks' \in {locks, locks \cup {"config"}}
    BY <1>2 DEF HalfDone
  <2>3. \/ origin' = origin
        \/ origin # NoOrigin /\ origin' \in {Authed(lock), Plain(lock)}
    BY <1>2 DEF HalfDone
  <2>4. origin' \in [url : Urls, token : BOOLEAN]
    BY <2>3, OriginTypes DEF TypeOK
  <2>5. ~git' => origin' = NoOrigin
    BY <2>1, <2>3 DEF DiskInv
  <2> QED BY <1>2, <2>1, <2>2, <2>4, <2>5 DEF TypeOK
<1>3. CASE command = "checkout"
  <2>1. git' = git /\ origin' = origin /\ fetched' = fetched
    BY <1>3 DEF HalfDone
  <2>2. locks' \in {locks, locks \cup {"index"}} /\ junk' \in {junk, TRUE}
    BY <1>3 DEF HalfDone
  <2>3. tree' \in {tree, Mixed, Target(lock)}
    BY <1>3 DEF HalfDone
  <2>4. Target(lock) \in Trees
    BY DEF Target, Trees, TypeOK
  <2> QED BY <1>3, <2>1, <2>2, <2>3, <2>4 DEF TypeOK, DiskInv, Trees
<1>4. CASE command = "fetch"
  <2>1. fetched' \in {fetched, HeadOf[lock]}
    BY <1>4 DEF HalfDone
  <2>2. UNCHANGED <<git, origin, locks, tree, junk>>
    BY <1>4 DEF HalfDone
  <2> QED BY <1>4, <2>1, <2>2 DEF TypeOK, DiskInv, Trees
<1>5. CASE command = "clean"
  BY <1>5 DEF HalfDone, TypeOK, DiskInv
<1> QED BY <1>1, <1>2, <1>3, <1>4, <1>5 DEF Commands

\* A job finds the directory as the last one left it, and locks it.
LEMMA BeginInd == ASSUME NEW j \in Jobs, IndInv, Begin(j) PROVE IndInv'
<1> USE DEF IndInv, Begin, Go, disk, Active, Commands, Ended
<1>1. TypeOK'
  BY DEF TypeOK
<1>2. LockInv'
  BY DEF TypeOK, LockInv
<1>3. DiskInv'
  BY DEF DiskInv
<1>4. StageInv'
  BY <1>1 DEF TypeOK, LockInv, StageInv, Plain
<1>5. NoTokenAtRest'
  BY DEF NoTokenAtRest
<1> QED BY <1>1, <1>2, <1>3, <1>4, <1>5

\* A job that cannot make the directory leaves it alone.
LEMMA MkdirFailsInd == ASSUME NEW j \in Jobs, IndInv, MkdirFails(j) PROVE IndInv'
<1> USE DEF IndInv, MkdirFails, Go, disk, Active, Commands, Ended
<1>1. TypeOK'
  BY DEF TypeOK
<1>2. LockInv'
  BY DEF TypeOK, LockInv
<1>3. DiskInv'
  BY DEF DiskInv
<1>4. StageInv'
  BY DEF TypeOK, StageInv, Plain
<1>5. NoTokenAtRest'
  BY DEF NoTokenAtRest
<1> QED BY <1>1, <1>2, <1>3, <1>4, <1>5

\* What each command establishes is what the next stage relies on.
LEMMA CommandInd ==
    ASSUME NEW j \in Jobs, IndInv,
           Clone(j) \/ SetUrl(j) \/ Fetch(j) \/ Checkout(j) \/ Clean(j)
    PROVE  IndInv'
<1> USE DEF IndInv, Clone, SetUrl, Fetch, Checkout, Clean, Go
<1>1. lock = j /\ \A k \in Jobs \ {j} : pc[k] \notin Active
  BY OnlyOne DEF Active, Commands
<1>2. TypeOK'
  <2>1. /\ pc' \in [Jobs -> {"new", "restore", "review"} \cup Commands \cup Ended]
        /\ lock' = lock /\ broke' = broke /\ seen' = seen /\ kills' = kills
        /\ told' = told
    BY DEF TypeOK, Commands, disk
  <2>2. origin' \in [url : Urls, token : BOOLEAN]
    BY OriginTypes DEF TypeOK
  <2>3. git' \in BOOLEAN /\ locks' \subseteq {"index", "config"} /\ junk' \in BOOLEAN
    BY DEF TypeOK
  <2>4. tree' \in Trees /\ fetched' \in Trees
    BY DEF TypeOK, Trees, Target
  <2> QED BY <2>1, <2>2, <2>3, <2>4 DEF TypeOK
<1>3. LockInv'
  BY DEF TypeOK, LockInv, Active, Commands
<1>4. DiskInv'
  BY DEF DiskInv, StageInv
<1>5. StageInv'
  BY <1>1, <1>2 DEF TypeOK, StageInv, Active, Commands, Target, Plain
<1>6. NoTokenAtRest'
  BY <1>1 DEF NoTokenAtRest
<1> QED BY <1>2, <1>3, <1>4, <1>5, <1>6

\* A command that fails may leave anything half done but no token unnoticed.
LEMMA CommandFailsInd == ASSUME NEW j \in Jobs, IndInv, CommandFails(j) PROVE IndInv'
<1> USE DEF IndInv, CommandFails
<1>1. lock = j /\ \A k \in Jobs \ {j} : pc[k] \notin Active
  BY OnlyOne DEF Active
<1>2. /\ git' \in BOOLEAN /\ origin' \in [url : Urls, token : BOOLEAN]
      /\ locks' \subseteq {"index", "config"}
      /\ tree' \in Trees /\ junk' \in BOOLEAN /\ fetched' \in Trees
      /\ ~git' => origin' = NoOrigin
  BY <1>1, HalfDoneTypes DEF StageInv
<1>3. TypeOK'
  BY <1>2 DEF TypeOK, Commands, Ended, Go, Raise
<1>4. LockInv'
  BY <1>1 DEF TypeOK, LockInv, Active, Commands, Go, Raise
<1>5. DiskInv'
  BY <1>2 DEF DiskInv
<1>6. StageInv'
  BY <1>1, <1>3 DEF TypeOK, StageInv, Active, Commands, Go, Raise
<1>7. NoTokenAtRest'
  BY <1>1, <1>2, OriginTypes DEF NoTokenAtRest, Raise
<1> QED BY <1>3, <1>4, <1>5, <1>6, <1>7

\* The clean-up takes the token out of origin.
LEMMA RestoreInd == ASSUME NEW j \in Jobs, IndInv, Restore(j) PROVE IndInv'
<1> USE DEF IndInv, Restore, Go, Raise
<1>1. lock = j /\ \A k \in Jobs \ {j} : pc[k] \notin Active
  BY OnlyOne DEF Active
<1>2. git
  BY DEF DiskInv
<1>3. TypeOK'
  <2>1. origin' \in [url : Urls, token : BOOLEAN]
    BY OriginTypes
  <2>2. /\ pc' \in [Jobs -> {"new", "restore", "review"} \cup Commands \cup Ended]
        /\ seen' \in [Jobs -> {"none", "mkdir", "restore", "subprocess"} \cup Commands]
        /\ lock' \in Jobs \cup {NoJob}
    BY DEF TypeOK, Ended
  <2> QED BY <2>1, <2>2 DEF TypeOK
<1>4. LockInv'
  BY <1>1 DEF TypeOK, LockInv, Active, Commands
<1>5. DiskInv'
  BY <1>2 DEF DiskInv
<1>6. StageInv'
  BY <1>1, <1>3 DEF TypeOK, StageInv, Active, Commands
<1>7. NoTokenAtRest'
  BY OriginTypes DEF NoTokenAtRest
<1> QED BY <1>3, <1>4, <1>5, <1>6, <1>7

\* A clean-up that fails ends the job with an exception, and is told.
LEMMA RestoreFailsInd ==
    ASSUME NEW j \in Jobs, IndInv, RestoreFails(j) \/ RestoreBreaks(j)
    PROVE  IndInv'
<1> USE DEF IndInv, RestoreFails, RestoreBreaks
<1>1. lock = j /\ \A k \in Jobs \ {j} : pc[k] \notin Active
  BY OnlyOne DEF Active
<1>2. /\ git' \in BOOLEAN /\ origin' \in [url : Urls, token : BOOLEAN]
      /\ locks' \subseteq {"index", "config"}
      /\ tree' \in Trees /\ junk' \in BOOLEAN /\ fetched' \in Trees
      /\ ~git' => origin' = NoOrigin
  BY <1>1, HalfDoneTypes
<1>3. PICK what \in {"restore", "subprocess", broke[j]} :
          /\ Raise(j, what)
          /\ broke[j] # "none" => what # "restore"
          /\ what # "none"
  BY DEF TypeOK, Commands
<1>4. TypeOK'
  BY <1>2, <1>3 DEF TypeOK, Commands, Ended, Raise, Go
<1>5. LockInv'
  BY <1>1, <1>3 DEF TypeOK, LockInv, Active, Commands, Raise, Go
<1>6. DiskInv'
  BY <1>2 DEF DiskInv
<1>7. StageInv'
  BY <1>1, <1>3, <1>4 DEF TypeOK, StageInv, Active, Commands, Raise, Go
<1>8. NoTokenAtRest'
  BY DEF NoTokenAtRest
<1> QED BY <1>4, <1>5, <1>6, <1>7, <1>8

\* A review that ends gives the directory back.
LEMMA ReviewEndsInd == ASSUME NEW j \in Jobs, IndInv, ReviewEnds(j) PROVE IndInv'
<1> USE DEF IndInv, ReviewEnds, Go, disk
<1>1. lock = j /\ \A k \in Jobs \ {j} : pc[k] \notin Active
  BY OnlyOne DEF Active
<1>2. TypeOK'
  BY DEF TypeOK, Commands, Ended
<1>3. LockInv'
  BY <1>1 DEF TypeOK, LockInv, Active, Commands
<1>4. DiskInv'
  BY DEF DiskInv
<1>5. StageInv'
  BY <1>1, <1>2 DEF TypeOK, StageInv, Active, Commands
<1>6. NoTokenAtRest'
  BY OriginTypes DEF NoTokenAtRest, StageInv
<1> QED BY <1>2, <1>3, <1>4, <1>5, <1>6

\* After a death nobody is at work, and what is half done is as after a failure.
LEMMA KillInd == ASSUME IndInv, Kill PROVE IndInv'
<1> USE DEF IndInv
<1>1. /\ git' \in BOOLEAN /\ origin' \in [url : Urls, token : BOOLEAN]
      /\ locks' \subseteq {"index", "config"}
      /\ tree' \in Trees /\ junk' \in BOOLEAN /\ fetched' \in Trees
      /\ ~git' => origin' = NoOrigin
  <2>1. CASE lock # NoJob /\ pc[lock] \in Commands \cup {"restore"}
    <3>1. lock \in Jobs /\ HalfDone(pc[lock])
      BY <2>1 DEF Kill, TypeOK
    <3>2. pc[lock] = "clone" => ~git
      BY <3>1 DEF StageInv
    <3> QED BY <2>1, <3>1, <3>2, HalfDoneTypes
  <2>2. CASE ~(lock # NoJob /\ pc[lock] \in Commands \cup {"restore"})
    BY <2>2 DEF Kill, TypeOK, DiskInv, disk
  <2> QED BY <2>1, <2>2
<1>2. \A j \in Jobs : pc'[j] \in {"new"} \cup Ended
  BY DEF Kill, Ended
<1>3. TypeOK'
  BY <1>1 DEF TypeOK, Kill, Ended
<1>4. LockInv'
  BY <1>2 DEF LockInv, Kill, Active, Commands, Ended
<1>5. DiskInv'
  BY <1>1 DEF DiskInv
<1>6. StageInv'
  BY DEF StageInv, Kill, Commands, Ended
<1>7. NoTokenAtRest'
  BY DEF NoTokenAtRest, Kill
<1> QED BY <1>3, <1>4, <1>5, <1>6, <1>7

\* The inductive invariant of the checkout.
THEOREM Invariance == Spec => []IndInv
<1>1. IndInv /\ [Next]_vars => IndInv'
  <2> SUFFICES ASSUME IndInv, [Next]_vars PROVE IndInv'
    OBVIOUS
  <2>1. ASSUME NEW j \in Jobs, Begin(j) \/ MkdirFails(j) \/ Step(j)
        PROVE  IndInv'
    BY <2>1, BeginInd, MkdirFailsInd, CommandInd, CommandFailsInd, RestoreInd,
       RestoreFailsInd, ReviewEndsInd DEF Step
  <2>2. CASE Kill
    BY <2>2, KillInd
  <2>3. CASE UNCHANGED vars
    BY <2>3 DEF vars, disk, IndInv, TypeOK, LockInv, DiskInv, StageInv,
                NoTokenAtRest, Plain
  <2> QED BY <2>1, <2>2, <2>3 DEF Next, AllEnded
<1> QED BY <1>1, InitInd, PTL DEF Spec

\* Every variable of the checkout keeps its type (checkout).
THEOREM TypeCorrect == Spec => []TypeOK
<1>1. IndInv => TypeOK
  BY DEF IndInv
<1> QED BY <1>1, Invariance, PTL

\* A review reads its own head and nothing else, whatever failed or died before
\* it (checkout).
THEOREM OwnHead == Spec => []ReviewsOwnHead
<1>1. IndInv => ReviewsOwnHead
  BY DEF IndInv, StageInv, ReviewsOwnHead
<1> QED BY <1>1, Invariance, PTL

\* No review runs with the token in .git/config (_restore_origin_url).
THEOREM WithoutToken == Spec => []ReviewsWithoutToken
<1>1. IndInv => ReviewsWithoutToken
  BY DEF IndInv, StageInv, ReviewsWithoutToken
<1> QED BY <1>1, Invariance, PTL

\* No failure of a git command leaves the token on disk silently (the finally
\* clause of checkout).
THEOREM TokenNotLeft == Spec => []NoTokenAtRest
<1>1. IndInv => NoTokenAtRest
  BY DEF IndInv
<1> QED BY <1>1, Invariance, PTL

\* git's failure to restore the URL never hides the failure before it
\* (_restore_origin_url).
THEOREM FirstFailure == Spec => []FirstFailureKept
<1>1. IndInv => FirstFailureKept
  BY DEF IndInv, StageInv, FirstFailureKept
<1> QED BY <1>1, Invariance, PTL
=============================================================================
