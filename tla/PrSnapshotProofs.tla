---------------------------- MODULE PrSnapshotProofs ----------------------------
(***************************************************************************)
(* Proofs about fetch_pull_request, for any commits, pages and number of   *)
(* attempts, and any series of pushes.                                     *)
(***************************************************************************)
EXTENDS PrSnapshot, SequenceTheorems, TLAPS

\* files holds the first n pages of commit s, and no others.
FirstPages(s, n) == n <= Pages[s] /\ files = [p \in 1..n |-> [sha |-> s, page |-> p]]

\* An attempt has last seen the head it began with.  Unless the head came back to it
\* unseen, everything kept is the beginning of that commit's list, wherever the head is
\* now; the page just received and the end of the pages are of that commit if the head
\* still is it, which the next look decides.
SameHeadInv ==
    /\ pc \in {"page", "check", "recheck"} => seen = initial
    /\ ~missed =>
         /\ pc = "page" => /\ FirstPages(initial, page - 1)
                           /\ page - 1 = Pages[initial] => page = 1 \/ LastFull[initial]
         /\ pc = "check" => /\ FirstPages(initial, page - 1)
                            /\ head = initial => served = initial /\ page <= Pages[initial]
         /\ pc = "recheck" /\ head = initial => FirstPages(initial, Pages[initial])

SnapshotInv == TypeOK /\ SameHeadInv /\ SnapshotWhole

USE FirstShaIsSha, PagesType, LastFullType, MaxAttemptsPositive

\* No page is the first none of any commit.
LEMMA NoPages ==
    ASSUME NEW s
    PROVE  /\ <<>> \in Seq([sha : Shas, page : Nat])
           /\ <<>> = [p \in 1..0 |-> [sha |-> s, page |-> p]]
OBVIOUS

\* One more page of the same commit makes one more first page.
LEMMA NextPage ==
    ASSUME TypeOK, FirstPages(served, page - 1), page <= Pages[served]
    PROVE  Append(files, [sha |-> served, page |-> page])
             = [p \in 1..page |-> [sha |-> served, page |-> p]]
<1>1. page \in Nat /\ page >= 1
  BY DEF TypeOK
<1> QED BY <1>1 DEF FirstPages

\* Nothing is collected before the first request.
LEMMA SnapshotInit == Init => SnapshotInv
<1> SUFFICES ASSUME Init PROVE SnapshotInv
  OBVIOUS
<1>1. missed \in BOOLEAN /\ midPage \in BOOLEAN
  BY DEF Init
<1>2. files \in Seq([sha : Shas, page : Nat])
  BY NoPages DEF Init
<1>3. TypeOK
  BY <1>1, <1>2 DEF Init, TypeOK
<1> QED BY <1>3 DEF Init, SnapshotInv, SameHeadInv, SnapshotWhole

\* A push moves the head off the commit last seen, or is a return that goes unseen.
LEMMA PushKeeps == SnapshotInv /\ Push => SnapshotInv'
<1> SUFFICES ASSUME SnapshotInv, Push PROVE SnapshotInv'
  OBVIOUS
<1> USE DEF Push, SnapshotInv
<1>1. TypeOK'
  BY DEF TypeOK
<1>2. UNCHANGED <<seen, pc, initial, page, served, files>> /\ (~missed' => ~missed /\ head' # seen)
  OBVIOUS
<1>3. SameHeadInv'
  <2>1. ASSUME NEW s, NEW n PROVE FirstPages(s, n)' <=> FirstPages(s, n)
    BY <1>2 DEF FirstPages
  <2> QED BY <1>2, <2>1 DEF SameHeadInv, FirstPages
<1>4. SnapshotWhole'
  BY DEF SnapshotWhole, Running
<1> QED BY <1>1, <1>3, <1>4

\* An attempt begins at the head of the moment, with no page.
LEMMA GetPullKeeps == SnapshotInv /\ GetPull => SnapshotInv'
<1> SUFFICES ASSUME SnapshotInv, GetPull PROVE SnapshotInv'
  OBVIOUS
<1> USE DEF GetPull, SnapshotInv
<1>1. TypeOK'
  <2>1. missed' \in BOOLEAN /\ midPage' \in BOOLEAN
    BY DEF TypeOK
  <2>2. files' \in Seq([sha : Shas, page : Nat])
    BY NoPages
  <2> QED BY <2>1, <2>2 DEF TypeOK
<1>2. Pages[initial'] \in Nat
  BY DEF TypeOK
<1>3. files' = [p \in 1..0 |-> [sha |-> initial', page |-> p]]
  BY NoPages
<1>4. SameHeadInv'
  BY <1>2, <1>3 DEF SameHeadInv, FirstPages
<1>5. SnapshotWhole'
  BY DEF SnapshotWhole
<1> QED BY <1>1, <1>4, <1>5

\* A page is of the head of the moment.
LEMMA GetPageKeeps == SnapshotInv /\ GetPage => SnapshotInv'
<1> SUFFICES ASSUME SnapshotInv, GetPage PROVE SnapshotInv'
  OBVIOUS
<1> USE DEF GetPage, SnapshotInv
<1>1. TypeOK'
  BY DEF TypeOK
<1>2. SameHeadInv'
  <2> SUFFICES ASSUME ~missed PROVE SameHeadInv'
    BY DEF SameHeadInv, PageKind
  <2>1. /\ FirstPages(initial, page - 1) /\ page \in Nat /\ Pages[initial] \in Nat
        /\ page - 1 <= Pages[initial] /\ seen = initial
        /\ UNCHANGED <<head, seen, missed, initial, page, files>>
    BY DEF SameHeadInv, TypeOK, FirstPages
  <2>2. CASE page > Pages[head]
    <3>1. pc' = "recheck"
      BY <2>2 DEF PageKind
    <3>2. head = initial => page - 1 = Pages[initial]
      BY <2>1, <2>2
    <3> QED BY <2>1, <3>1, <3>2 DEF SameHeadInv, FirstPages
  <2>3. CASE ~(page > Pages[head])
    <3>1. pc' = "check" /\ served' = head
      BY <2>3 DEF PageKind
    <3>2. head = initial => page <= Pages[initial]
      BY <2>1, <2>3
    <3> QED BY <2>1, <3>1, <3>2 DEF SameHeadInv, FirstPages
  <2> QED BY <2>2, <2>3
<1>3. SnapshotWhole'
  BY DEF SnapshotWhole, PageKind
<1> QED BY <1>1, <1>2, <1>3

\* A page is kept only when the head is still the one the attempt began with.
LEMMA CheckHeadKeeps == SnapshotInv /\ CheckHead => SnapshotInv'
<1> SUFFICES ASSUME SnapshotInv, CheckHead PROVE SnapshotInv'
  OBVIOUS
<1> USE DEF CheckHead, AddPage, SnapshotInv
<1>1. CASE head # initial
  <2> USE <1>1 DEF RestartMidPage
  <2>1. TypeOK'
    BY DEF TypeOK
  <2> QED BY <2>1 DEF SameHeadInv, SnapshotWhole
<1>2. CASE head = initial
  <2>1. TypeOK'
    <3>1. [sha |-> served, page |-> page] \in [sha : Shas, page : Nat]
      BY DEF TypeOK
    <3>2. files' \in Seq([sha : Shas, page : Nat])
      <4>1. files \in Seq([sha : Shas, page : Nat])
        BY DEF TypeOK
      <4>2. files' = Append(files, [sha |-> served, page |-> page])
        BY <1>2
      <4> QED BY ONLY <3>1, <4>1, <4>2, AppendProperties
    <3>3. page' \in Nat \ {0} /\ pc' \in {"page", "recheck"}
      BY <1>2 DEF TypeOK
    <3>4. UNCHANGED <<head, missed, attempt, initial, served, midPage>> /\ seen' = head
      BY <1>2
    <3> HIDE DEF CheckHead, AddPage
    <3> QED BY <3>2, <3>3, <3>4 DEF TypeOK
  <2>2. SameHeadInv'
    <3> SUFFICES ASSUME ~missed PROVE SameHeadInv'
      BY <1>2 DEF SameHeadInv
    <3>1. /\ served = initial /\ FirstPages(served, page - 1) /\ page <= Pages[served]
          /\ page \in Nat /\ page >= 1 /\ Pages[served] \in Nat
          /\ LastFull[served] \in BOOLEAN
      BY <1>2 DEF SameHeadInv, TypeOK
    <3>2. files' = [p \in 1..page |-> [sha |-> served, page |-> p]]
      BY <1>2, <3>1, NextPage
    <3>3. CASE PageKind(served, page) = "full"
      <4>1. pc' = "page" /\ page' - 1 = page
        BY <1>2, <3>1, <3>3
      <4>2. page = Pages[served] => LastFull[served]
        BY <3>1, <3>3 DEF PageKind
      <4> QED BY <1>2, <3>1, <3>2, <4>1, <4>2 DEF SameHeadInv, FirstPages
    <3>4. CASE PageKind(served, page) # "full"
      <4>1. pc' = "recheck" /\ page = Pages[served]
        BY <1>2, <3>1, <3>4 DEF PageKind
      <4> QED BY <1>2, <3>1, <3>2, <4>1 DEF SameHeadInv, FirstPages
    <3> QED BY <3>3, <3>4
  <2>3. SnapshotWhole'
    BY <1>2 DEF SnapshotWhole
  <2> QED BY <2>1, <2>2, <2>3
<1> QED BY <1>1, <1>2

\* The last comparison accepts the files, or begins anew with the head it got.
LEMMA RecheckKeeps == SnapshotInv /\ Recheck => SnapshotInv'
<1> SUFFICES ASSUME SnapshotInv, Recheck PROVE SnapshotInv'
  OBVIOUS
<1> USE DEF Recheck, SnapshotInv
<1>1. TypeOK'
  <2>1. missed' \in BOOLEAN /\ midPage' \in BOOLEAN
    BY DEF TypeOK
  <2>2. files' \in Seq([sha : Shas, page : Nat])
    BY NoPages DEF TypeOK
  <2> QED BY <2>1, <2>2 DEF TypeOK
<1>2. CASE head = initial
  <2>1. SnapshotWhole'
    BY <1>2 DEF SameHeadInv, FirstPages, SnapshotWhole, WholeList
  <2> QED BY <1>1, <1>2, <2>1 DEF SameHeadInv
<1>3. CASE head # initial
  <2>1. Pages[initial'] \in Nat
    BY <1>3 DEF TypeOK
  <2>2. files' = [p \in 1..0 |-> [sha |-> initial', page |-> p]] /\ page' - 1 = 0
    BY <1>3, NoPages
  <2>3. SameHeadInv'
    BY <1>3, <2>1, <2>2 DEF SameHeadInv, FirstPages
  <2> QED BY <1>1, <1>3, <2>3 DEF SnapshotWhole
<1> QED BY <1>2, <1>3

\* The inductive invariant of the fetch: unless, since the last GET /pulls/{n} of the
\* attempt, or between two of them, the head moved away and back, every page kept is of
\* the commit the attempt began with, wherever the head is now (fetch_pull_request).
THEOREM SnapshotInvariance == Spec => []SnapshotInv
<1>1. SnapshotInv /\ [Next]_vars => SnapshotInv'
  <2> SUFFICES ASSUME SnapshotInv, [Next]_vars PROVE SnapshotInv'
    OBVIOUS
  <2>1. CASE RequestFails
    BY <2>1 DEF RequestFails, SnapshotInv, TypeOK, SameHeadInv, SnapshotWhole
  <2>2. CASE UNCHANGED vars
    BY <2>2 DEF vars, SnapshotInv, TypeOK, SameHeadInv, FirstPages, SnapshotWhole
  <2> QED BY <2>1, <2>2, PushKeeps, GetPullKeeps, GetPageKeeps, CheckHeadKeeps,
             RecheckKeeps DEF Next, Client, Finished
<1> QED BY <1>1, SnapshotInit, PTL DEF Spec

\* Every variable of the fetch keeps its type; in particular the attempts stay
\* within _MAX_FETCH_ATTEMPTS.
THEOREM SnapshotTypes == Spec => []TypeOK
<1>1. SnapshotInv => TypeOK
  BY DEF SnapshotInv
<1> QED BY <1>1, SnapshotInvariance, PTL

\* The files handed on are exactly those of the head commit handed on, unless the head
\* moved away and back between two consecutive GET /pulls/{n} of the attempt that
\* returned; other returns to an earlier commit are not excepted (fetch_pull_request).
THEOREM WholeSnapshot == Spec => []SnapshotWhole
<1>1. SnapshotInv => SnapshotWhole
  BY DEF SnapshotInv
<1> QED BY <1>1, SnapshotInvariance, PTL
================================================================================
