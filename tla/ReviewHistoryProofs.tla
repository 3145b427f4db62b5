-------------------------- MODULE ReviewHistoryProofs --------------------------
(***************************************************************************)
(* What holds of ReviewHistory for every number of pushes, reviews and     *)
(* comments: what is posted bears its event out, a comment is followed up  *)
(* once at most, and what was said before is not raised a second time.     *)
(***************************************************************************)
EXTENDS ReviewHistory, FiniteSetTheorems, SequenceTheorems, TLAPS

\* The n-th index exists: an index's rank is one-to-one, hence onto.
LEMMA NthFacts ==
    ASSUME NEW N \in Nat, NEW I \in SUBSET (1..N)
    PROVE  /\ Cardinality(I) \in Nat /\ Cardinality(I) <= N
           /\ \A n \in 1..Cardinality(I) : Nth(I, n) \in I
           /\ \A n, m \in 1..Cardinality(I) : Nth(I, n) = Nth(I, m) => n = m
<1> DEFINE c == Cardinality(I)
           Upto(i) == {k \in I : k <= i}
           rank == [i \in I |-> Cardinality(Upto(i))]
<1>1. IsFiniteSet(1..N) /\ Cardinality(1..N) = N
  BY FS_Interval
<1>2. IsFiniteSet(I) /\ c \in Nat /\ c <= N
  BY <1>1, FS_Subset, FS_CardinalityType
<1>3. ASSUME NEW i \in I
      PROVE  IsFiniteSet(Upto(i)) /\ Cardinality(Upto(i)) \in 1..c
  <2>1. IsFiniteSet(Upto(i)) /\ Cardinality(Upto(i)) \in Nat /\ Cardinality(Upto(i)) <= c
    BY <1>2, FS_Subset, FS_CardinalityType
  <2>2. i \in Upto(i)
    OBVIOUS
  <2>3. Cardinality(Upto(i)) # 0
    BY <2>1, <2>2, FS_EmptySet
  <2> HIDE DEF Upto, c
  <2> QED BY <1>2, <2>1, <2>3
<1>4. ASSUME NEW i \in I, NEW j \in I, i < j
      PROVE  Cardinality(Upto(i)) # Cardinality(Upto(j))
  <2>1. Upto(i) \subseteq Upto(j) /\ j \in Upto(j) /\ j \notin Upto(i)
    <3>1. \A k \in I : k \in Int
      OBVIOUS
    <3>2. \A k \in I : k <= i => k <= j
      BY <1>4, <3>1
    <3>3. ~(j <= i) /\ j <= j
      BY <1>4, <3>1
    <3> QED BY <3>2, <3>3
  <2>2. IsFiniteSet(Upto(j)) /\ IsFiniteSet(Upto(i))
    BY <1>3
  <2> HIDE DEF Upto
  <2>3. Upto(i) # Upto(j)
    BY <2>1
  <2> QED BY <2>1, <2>2, <2>3, FS_Subset
<1>5. rank \in Injection(I, 1..c)
  <2>1. rank \in [I -> 1..c]
    BY <1>3
  <2>2. ASSUME NEW i \in I, NEW j \in I, rank[i] = rank[j] PROVE i = j
    <3>1. ~(i < j) /\ ~(j < i)
      BY <1>4, <2>2
    <3> QED BY <3>1
  <2> HIDE DEF rank
  <2> QED BY <2>1, <2>2 DEF Injection, IsInjective
<1>6. rank \in Surjection(I, 1..c)
  <2>1. IsFiniteSet(1..c) /\ Cardinality(1..c) = c
    BY <1>2, FS_Interval
  <2> HIDE DEF rank
  <2> QED BY <1>2, <1>5, <2>1, FS_Injection
<1>7. ASSUME NEW n \in 1..c
      PROVE  Nth(I, n) \in I /\ Cardinality(Upto(Nth(I, n))) = n
  <2>1. \E i \in I : rank[i] = n
    BY <1>6 DEF Surjection
  <2>2. \E i \in I : Cardinality({k \in I : k <= i}) = n
    BY <2>1
  <2> QED BY <2>2 DEF Nth
<1> HIDE DEF Upto
<1> QED BY <1>2, <1>7

\* What Sift keeps of a sequence: members of it that pass, in their order.
LEMMA SiftFacts ==
    ASSUME NEW S, NEW s \in Seq(S), NEW I \in SUBSET (DOMAIN s)
    PROVE  /\ Sift(s, I) \in Seq(S)
           /\ Len(Sift(s, I)) \in Nat /\ Len(Sift(s, I)) <= Len(s)
           /\ DOMAIN Sift(s, I) = 1..Len(Sift(s, I))
           /\ \A n \in DOMAIN Sift(s, I) : Nth(I, n) \in I /\ Sift(s, I)[n] = s[Nth(I, n)]
           /\ \A n, m \in DOMAIN Sift(s, I) : Nth(I, n) = Nth(I, m) => n = m
<1>1. Len(s) \in Nat /\ DOMAIN s = 1..Len(s)
  OBVIOUS
<1>2. /\ Cardinality(I) \in Nat /\ Cardinality(I) <= Len(s)
      /\ \A n \in 1..Cardinality(I) : Nth(I, n) \in I
      /\ \A n, m \in 1..Cardinality(I) : Nth(I, n) = Nth(I, m) => n = m
  BY <1>1, NthFacts
<1> DEFINE t == Sift(s, I)
           c == Cardinality(I)
<1>3. t = [n \in 1..c |-> s[Nth(I, n)]]
  BY DEF Sift
<1>4. \A n \in 1..c : s[Nth(I, n)] \in S
  BY <1>1, <1>2
<1> HIDE DEF t, c
<1>5. t \in [1..c -> S]
  BY <1>3, <1>4
<1>6. t \in Seq(S) /\ Len(t) = c /\ DOMAIN t = 1..c
  BY <1>2, <1>5 DEF c
<1> QED BY <1>2, <1>3, <1>6 DEF t, c

\* Comments that are anchored, as they are now.
Anchored(s) ==
    /\ s \in Seq(Comments)
    /\ \A k \in DOMAIN s :
         s[k].id \in DOMAIN threads /\ s[k] = threads[s[k].id] /\ s[k].line # 0

\* A comment's number is its place.
Numbered == \A i \in DOMAIN threads : threads[i].id = i

\* What a page holds is anchored and as it is now.
LEMMA EntriesFacts ==
    ASSUME threads \in Seq(Comments), Numbered,
           NEW first \in 0..Len(threads), NEW last \in 0..Len(threads)
    PROVE  Anchored(Entries(first, last))
<1> DEFINE I == {i \in last + 1 .. first : threads[i].line # 0}
           t == Sift(threads, I)
           l == Len(t)
           r == Entries(first, last)
<1>1. Len(threads) \in Nat /\ DOMAIN threads = 1..Len(threads)
  OBVIOUS
<1>2. \A i \in I : threads[i].line # 0 /\ threads[i].id = i /\ i \in DOMAIN threads
  <2> SUFFICES ASSUME NEW i \in I
               PROVE  threads[i].line # 0 /\ threads[i].id = i /\ i \in DOMAIN threads
    OBVIOUS
  <2>1. i \in 1..Len(threads) /\ threads[i].line # 0
    BY <1>1
  <2> QED BY <1>1, <2>1 DEF Numbered
<1> HIDE DEF I
<1>3. /\ t \in Seq(Comments) /\ l \in Nat /\ DOMAIN t = 1..l
      /\ \A n \in DOMAIN t : Nth(I, n) \in I /\ t[n] = threads[Nth(I, n)]
  <2>1. I \in SUBSET (DOMAIN threads)
    BY <1>2
  <2> QED BY <2>1, SiftFacts
<1>4. r = [k \in 1..l |-> t[(l - k) + 1]]
  BY DEF Entries, Reverse, I
<1> HIDE DEF t, l, r
<1>5. \A k \in 1..l : (l - k) + 1 \in 1..l
  BY <1>3
<1>6. r \in [1..l -> Comments]
  BY <1>3, <1>4, <1>5
<1>7. r \in Seq(Comments) /\ DOMAIN r = 1..l
  BY <1>3, <1>6
<1>8. ASSUME NEW k \in 1..l
      PROVE  r[k].id \in DOMAIN threads /\ r[k] = threads[r[k].id] /\ r[k].line # 0
  <2>1. r[k] = threads[Nth(I, (l - k) + 1)] /\ Nth(I, (l - k) + 1) \in I
    BY <1>3, <1>4, <1>5
  <2> QED BY <1>2, <2>1
<1> QED BY <1>7, <1>8 DEF r, Anchored

-----------------------------------------------------------------------------
(* Findings on their way to GitHub. *)

Kept == [line : Lines, sev : Severities, marks : Nat, core : Cores,
         flaw : Flaws \ {"unknown_path"}]

\* What no answer but one that quotes a demoted comment violates.
Modest(fs) ==
    \A i \in DOMAIN fs : fs[i].marks <= 1 /\ (Blocking(fs[i]) => fs[i].marks = 0)

\* Layer D keeps a comment's anchor and never makes one blocking (_demote_one).
LEMMA DemoteFacts ==
    ASSUME NEW fs \in Seq(Kept), NEW I
    PROVE  /\ DemoteAt(fs, I) \in Seq(Kept)
           /\ DOMAIN DemoteAt(fs, I) = DOMAIN fs
           /\ \A i \in DOMAIN fs :
                Blocking(DemoteAt(fs, I)[i]) => i \notin I /\ DemoteAt(fs, I)[i] = fs[i]
           /\ Modest(fs) => Modest(DemoteAt(fs, I))
<1> DEFINE d == DemoteAt(fs, I)
<1>1. Len(fs) \in Nat /\ DOMAIN fs = 1..Len(fs) /\ \A i \in DOMAIN fs : fs[i] \in Kept
  OBVIOUS
<1>2. d = [i \in DOMAIN fs |-> IF i \in I /\ Blocking(fs[i]) THEN Demote(fs[i]) ELSE fs[i]]
  BY DEF DemoteAt
<1>3. \A f \in Kept : /\ Demote(f) \in Kept /\ Demote(f).marks = f.marks + 1
                      /\ ~Blocking(Demote(f))
  <2> SUFFICES ASSUME NEW f \in Kept
               PROVE  /\ Demote(f) \in Kept /\ Demote(f).marks = f.marks + 1
                      /\ ~Blocking(Demote(f))
    OBVIOUS
  <2>1. Demote(f) = [f EXCEPT !.sev = "Suggestion", !.marks = f.marks + 1]
    BY DEF Demote
  <2>2. f.marks \in Nat /\ f.marks + 1 \in Nat /\ "Suggestion" \in Severities
    BY DEF Kept, Severities
  <2>3. Demote(f) \in Kept
    BY <2>1, <2>2 DEF Kept
  <2>4. Demote(f).marks = f.marks + 1 /\ Demote(f).sev = "Suggestion"
    BY <2>1 DEF Kept
  <2> QED BY <2>3, <2>4 DEF Blocking
<1> HIDE DEF d
<1>4. d \in [1..Len(fs) -> Kept]
  BY <1>1, <1>2, <1>3
<1>5. \A i \in DOMAIN fs : Blocking(d[i]) => i \notin I /\ d[i] = fs[i]
  BY <1>1, <1>2, <1>3
<1>6. ASSUME Modest(fs) PROVE Modest(d)
  <2> SUFFICES ASSUME NEW i \in DOMAIN fs
               PROVE  d[i].marks <= 1 /\ (Blocking(d[i]) => d[i].marks = 0)
    BY <1>2 DEF Modest
  <2>1. fs[i].marks <= 1 /\ (Blocking(fs[i]) => fs[i].marks = 0) /\ fs[i].marks \in Nat
    BY <1>1, <1>6 DEF Modest, Kept
  <2>2. CASE i \in I /\ Blocking(fs[i])
    BY <1>1, <1>2, <1>3, <2>1, <2>2
  <2>3. CASE ~(i \in I /\ Blocking(fs[i]))
    BY <1>2, <2>1, <2>3
  <2> QED BY <2>2, <2>3
<1>7. d \in Seq(Kept) /\ DOMAIN d = DOMAIN fs
  BY <1>1, <1>4
<1> QED BY <1>5, <1>6, <1>7 DEF d

\* What _parse_findings makes of an answer: findings, anchored or left out.
LEMMA ParseFacts ==
    ASSUME NEW fs \in Seq(RawFinding)
    PROVE  /\ ParseFindings(fs) \in Seq(Kept)
           /\ (\A i \in DOMAIN fs : fs[i].marks = 0) => Modest(ParseFindings(fs))
<1> DEFINE usable == {i \in DOMAIN fs : fs[i].line # 0 /\ fs[i].flaw # "unknown_path"}
           kept == Sift(fs, usable)
<1>1. usable \in SUBSET (DOMAIN fs)
  OBVIOUS
<1>2. ASSUME NEW i \in usable PROVE fs[i] \in Kept /\ i \in DOMAIN fs
  <2>1. fs[i] \in RawFinding /\ fs[i].line # 0 /\ fs[i].flaw # "unknown_path"
    OBVIOUS
  <2> QED BY <2>1 DEF RawFinding, Kept
<1>3. ParseFindings(fs) = DemoteAt(kept, Flawed(kept, "hallucination"))
  BY DEF ParseFindings
<1> HIDE DEF usable
<1>4. /\ kept \in Seq(RawFinding) /\ Len(kept) \in Nat /\ DOMAIN kept = 1..Len(kept)
      /\ \A n \in DOMAIN kept : Nth(usable, n) \in usable /\ kept[n] = fs[Nth(usable, n)]
  BY <1>1, SiftFacts
<1> HIDE DEF kept
<1>5. \A n \in 1..Len(kept) : kept[n] \in Kept
  BY <1>2, <1>4
<1>6. kept \in [1..Len(kept) -> Kept]
  BY <1>4, <1>5
<1>7. kept \in Seq(Kept)
  BY <1>4, <1>6
<1>8. ASSUME \A i \in DOMAIN fs : fs[i].marks = 0 PROVE Modest(kept)
  <2>1. \A n \in DOMAIN kept : kept[n].marks = 0
    BY <1>2, <1>4, <1>8
  <2> QED BY <2>1 DEF Modest
<1> QED BY <1>3, <1>7, <1>8, DemoteFacts

\* _normalize_event leaves an event that fits the findings.
MayBlock(fs) == \E i \in DOMAIN fs : Blocking(fs[i]) \/ fs[i].sev = "untagged"

Fits(e, fs) ==
    /\ e = "REQUEST_CHANGES" => MayBlock(fs)
    /\ e = "APPROVE" => ~MayBlock(fs)

\* A normalised event fits the findings (_normalize_event).
LEMMA NormalizeFits ==
    ASSUME NEW e \in Events, NEW fs
    PROVE  Normalize(e, fs) \in Events /\ Fits(Normalize(e, fs), fs)
<1>1. Normalize(e, fs) =
        IF (e = "APPROVE" /\ MayBlock(fs)) \/ (e = "REQUEST_CHANGES" /\ ~MayBlock(fs))
        THEN "COMMENT" ELSE e
  BY DEF Normalize, MayBlock
<1> QED BY <1>1 DEF Fits, Events

\* The comments a review leaves are on lines its commit's diff offers.
LEMMA InlineFacts ==
    ASSUME TypeOK
    PROVE  /\ Inline(prHead) \in Seq(Comments)
           /\ \A i \in DOMAIN Inline(prHead) :
                LET t == Inline(prHead)[i] IN
                /\ t.id = Len(threads) + i
                /\ t.commit = prHead /\ t.origCommit = prHead /\ t.origLine = t.line
                /\ t.origLine \in Addable[prHead] /\ t.replies = <<>>
           /\ Modest(findings) =>
                \A i \in DOMAIN Inline(prHead) : Inline(prHead)[i].marks <= 1
<1> DEFINE I == {i \in DOMAIN findings : findings[i].line \in Addable[prHead]}
           kept == Sift(findings, I)
           n == Len(kept)
           new == Inline(prHead)
<1>1. /\ findings \in Seq(Kept) /\ threads \in Seq(Comments) /\ Len(threads) \in Nat
      /\ prHead \in Commits
  BY BoundsPositive DEF TypeOK, Kept, Commits
<1>2. I \in SUBSET (DOMAIN findings)
  OBVIOUS
<1>3. \A i \in I : i \in DOMAIN findings /\ findings[i].line \in Addable[prHead]
  OBVIOUS
<1> HIDE DEF I
<1>4. /\ kept \in Seq(Kept) /\ n \in Nat /\ DOMAIN kept = 1..n
      /\ \A k \in DOMAIN kept : Nth(I, k) \in I /\ kept[k] = findings[Nth(I, k)]
  BY <1>1, <1>2, SiftFacts
<1>5. new = [i \in 1..n |->
         [id |-> Len(threads) + i, line |-> kept[i].line, commit |-> prHead,
          origLine |-> kept[i].line, origCommit |-> prHead, sev |-> kept[i].sev,
          marks |-> kept[i].marks, core |-> kept[i].core, replies |-> <<>>]]
  BY <1>4 DEF Inline, I
<1> HIDE DEF kept, n, new
<1>6. ASSUME NEW i \in 1..n
      PROVE  /\ kept[i] \in Kept /\ kept[i].line \in Addable[prHead]
             /\ Modest(findings) => kept[i].marks <= 1
  <2>1. kept[i] \in Kept
    BY <1>4, <1>6
  <2>2. kept[i] = findings[Nth(I, i)] /\ Nth(I, i) \in I
    BY <1>4, <1>6
  <2>3. kept[i].line \in Addable[prHead]
    BY <1>3, <2>2
  <2>4. Modest(findings) => kept[i].marks <= 1
    BY <1>3, <2>2 DEF Modest
  <2> QED BY <2>1, <2>3, <2>4
<1>7. ASSUME NEW i \in 1..n PROVE new[i] \in Comments
  <2>1. kept[i].line \in Lines /\ kept[i].sev \in Severities /\ kept[i].marks \in Nat
          /\ kept[i].core \in Cores
    BY <1>6 DEF Kept
  <2>2. Len(threads) + i \in Nat
    BY <1>1, <1>4
  <2>3. <<>> \in Seq(1..MaxReviews)
    BY EmptySeq
  <2> QED BY <1>1, <1>5, <2>1, <2>2, <2>3 DEF Comments
<1>8. new \in [1..n -> Comments]
  BY <1>5, <1>7
<1>9. new \in Seq(Comments) /\ DOMAIN new = 1..n
  BY <1>4, <1>8
<1> QED BY <1>5, <1>6, <1>9 DEF new

-----------------------------------------------------------------------------
(* The invariant. *)

\* The model never opens a finding with the marker that Layers B and D put in.
Unquoted == \A a \in Answers : \A i \in DOMAIN a.findings : a.findings[i].marks = 0

\* A comment whose commit is still the one it was made at has not moved.
Tracked(t) ==
    /\ t.origCommit <= t.commit
    /\ t.commit = t.origCommit => t.line = t.origLine

ThreadsInv ==
    \A i \in DOMAIN threads :
      LET t == threads[i] IN
      /\ t.id = i /\ t.commit <= head /\ Tracked(t)
      /\ t.origLine \in Addable[t.origCommit]

\* From Layer B to the post the event fits the findings; Layer D lists for itself.
ResultInv ==
    /\ pc \in {"dedupe", "post"} => Fits(event, findings)
    /\ pc # "post" => existing = <<>>

\* The pages so far hold comments that exist, with all the replies they have: only
\* a later step of the same review replies.
PagesInv ==
    /\ \A k \in DOMAIN results :
         /\ results[k].id \in DOMAIN threads /\ results[k].line # 0
         /\ Tracked(results[k])
         /\ results[k].replies = threads[results[k].id].replies
    /\ pc \notin {"dedupe", "list"} => results = <<>> /\ page = 0 /\ rest = 0
    /\ pc # "idle" => reviews > 0

Replies(k) == threads[listed[k].id].replies

\* The listing is of comments that exist.
ListedInv ==
    \A k \in DOMAIN listed :
      listed[k].id \in DOMAIN threads /\ listed[k].line # 0 /\ Tracked(listed[k])

\* The comments the loop has still to visit are as they were listed, or this review
\* has replied to them where they were listed for the first time.
RepliedHere(k) ==
    /\ Replies(k) # <<>>
    /\ Twice(listed, listed[k].id)
    /\ \A n \in DOMAIN Replies(k) : Replies(k)[n] = reviews

UnseenInv ==
    \A k \in DOMAIN listed :
      k > Len(listed) - todo => listed[k].replies = Replies(k) \/ RepliedHere(k)

\* The ones it has visited have what they want, or have failed.
SeenInv ==
    \A k \in DOMAIN listed :
      (k <= Len(listed) - todo /\ Blocking(listed[k]) /\ Changed(listed[k])
         /\ listed[k].id \notin failed) =>
        Replies(k) # <<>>

LoopInv == pc = "reply" => ListedInv /\ UnseenInv /\ SeenInv

Marked(s) == \A i \in DOMAIN s : s[i].marks <= 1

MarksInv ==
    /\ Modest(findings) /\ Marked(threads) /\ Marked(results) /\ Marked(existing)
    /\ NoRepeatedAlarm

IndInv ==
    TypeOK /\ ThreadsInv /\ ResultInv /\ PagesInv /\ LoopInv /\ (Unquoted => MarksInv)

USE BoundsPositive, PagesPositive, LinesPositive, AddableType, AnswersType

\* A pull request without reviews satisfies the invariant.
LEMMA InitInd == Init => IndInv
<1> SUFFICES ASSUME Init PROVE IndInv
  OBVIOUS
<1>1. /\ head = 1 /\ source \in [1..1 -> Versions] /\ threads = <<>> /\ pc = "idle"
      /\ reviews = 0 /\ prHead = 1 /\ event = "COMMENT" /\ findings = <<>>
      /\ existing = <<>> /\ listed = <<>> /\ todo = 0 /\ failed = {}
      /\ results = <<>> /\ page = 0 /\ rest = 0
  BY DEF Init
<1>2. source \in Seq(Versions) /\ Len(source) = 1
  <2>1. 1 \in Nat /\ source \in [1..1 -> Versions]
    BY <1>1
  <2>2. source \in Seq(Versions)
    <3>1. \A n \in Nat : [1..n -> Versions] \subseteq Seq(Versions)
      OBVIOUS
    <3> QED BY <2>1, <3>1, Zenon
  <2>3. DOMAIN source = 1..1
    BY <2>1
  <2>4. Len(source) = 1
    BY <2>1, <2>2, <2>3, LenProperties
  <2> QED BY <2>2, <2>4
<1>3. /\ DOMAIN threads = {} /\ DOMAIN findings = {} /\ DOMAIN existing = {}
      /\ DOMAIN results = {}
  BY <1>1
<1>4. TypeOK
  <2>1. findings \in Seq([line : Lines, sev : Severities, marks : Nat,
                          core : Cores, flaw : Flaws \ {"unknown_path"}])
    BY <1>1
  <2>2. /\ threads \in Seq(Comments) /\ existing \in Seq(Comments)
        /\ listed \in Seq(Comments) /\ results \in Seq(Comments)
    BY <1>1
  <2>3. head \in Commits /\ prHead \in 1..head /\ reviews \in 0..MaxReviews
    BY <1>1 DEF Commits
  <2>4. todo \in 0..Len(listed) /\ page \in 0..MaxPages /\ rest \in 0..Len(threads)
    BY <1>1
  <2> QED BY <1>1, <1>2, <2>1, <2>2, <2>3, <2>4 DEF TypeOK, Events
<1>5. ThreadsInv /\ ResultInv /\ PagesInv /\ LoopInv
  BY <1>1, <1>3 DEF ThreadsInv, ResultInv, PagesInv, LoopInv
<1>6. MarksInv
  BY <1>1, <1>3 DEF MarksInv, Modest, Marked, NoRepeatedAlarm
<1> QED BY <1>4, <1>5, <1>6 DEF IndInv

\* A push leaves the contents of the commits before it.
LEMMA PushInd == IndInv /\ Push => IndInv'
<1> SUFFICES ASSUME IndInv, Push PROVE IndInv'
  OBVIOUS
<1>1. PICK v \in Versions : source' = Append(source, v)
  BY DEF Push
<1>2. /\ head < MaxPushes /\ head' = head + 1
      /\ UNCHANGED <<threads, pc, reviews, prHead, event, findings, results, page, rest,
                     existing, listed, todo, failed>>
  BY DEF Push, result, listing, layerE
<1>3. /\ head \in 1..MaxPushes /\ source \in Seq(Versions) /\ Len(source) = head
      /\ prHead \in 1..head
  BY DEF IndInv, TypeOK, Commits
<1>4. /\ source' \in Seq(Versions) /\ Len(source') = head'
      /\ \A c \in 1..head : source'[c] = source[c]
  BY <1>1, <1>2, <1>3, AppendProperties
<1>5. TypeOK'
  <2>1. head' \in Commits /\ prHead' \in 1..head'
    BY <1>2, <1>3 DEF Commits
  <2> QED BY <1>2, <1>4, <2>1 DEF IndInv, TypeOK
<1>6. ThreadsInv'
  <2> SUFFICES ASSUME NEW i \in DOMAIN threads
               PROVE  LET t == threads[i] IN
                      /\ t.id = i /\ t.commit <= head' /\ Tracked(t)
                      /\ t.origLine \in Addable[t.origCommit]
    BY <1>2 DEF ThreadsInv, Tracked
  <2>1. threads[i] \in Comments
    BY DEF IndInv, TypeOK
  <2>2. threads[i].commit \in Nat /\ threads[i].commit <= head
    BY <2>1 DEF IndInv, ThreadsInv, Comments, Commits
  <2>3. threads[i].commit <= head'
    BY <1>2, <1>3, <2>2
  <2> QED BY <2>3 DEF IndInv, ThreadsInv
<1>7. ResultInv'
  BY <1>2 DEF IndInv, ResultInv, Fits, MayBlock, Blocking
<1>10. PagesInv'
  BY <1>2 DEF IndInv, PagesInv, Tracked
<1>8. LoopInv'
  <2>1. ASSUME NEW k \in DOMAIN listed PROVE Changed(listed[k])' <=> Changed(listed[k])
    <3>1. listed[k] \in Comments
      BY DEF IndInv, TypeOK
    <3>2. listed[k].origCommit \in Nat \ {0} /\ listed[k].commit \in Nat \ {0}
      BY <3>1 DEF Comments, Commits
    <3>3. Readable(listed[k].origCommit) => source'[listed[k].origCommit] = source[listed[k].origCommit]
      BY <1>3, <1>4, <3>2 DEF Readable
    <3>4. Readable(listed[k].commit) => source'[listed[k].commit] = source[listed[k].commit]
      BY <1>3, <1>4, <3>2 DEF Readable
    <3> QED BY <1>2, <3>3, <3>4 DEF Changed, Readable
  <2>2. ListedInv => ListedInv'
    BY <1>2 DEF ListedInv, Tracked
  <2>3. UnseenInv => UnseenInv'
    BY <1>2 DEF UnseenInv, RepliedHere, Twice, Replies
  <2>4. SeenInv => SeenInv'
    BY <1>2, <2>1 DEF SeenInv, Replies, Blocking
  <2> QED BY <1>2, <2>2, <2>3, <2>4 DEF IndInv, LoopInv
<1>9. MarksInv => MarksInv'
  BY <1>2 DEF MarksInv, Modest, Marked, NoRepeatedAlarm, Blocking
<1> QED BY <1>5, <1>6, <1>7, <1>8, <1>9, <1>10 DEF IndInv, Unquoted

\* The comments that are listed and the contents of the commits stay what they were.
LEMMA LoopStays ==
    ASSUME LoopInv, UNCHANGED <<pc, reviews, listed, todo, failed, source, prHead>>,
           pc = "reply" => \A k \in DOMAIN listed :
             listed[k].id \in DOMAIN threads =>
               /\ listed[k].id \in DOMAIN threads'
               /\ threads'[listed[k].id].replies = threads[listed[k].id].replies
    PROVE  LoopInv'
<1> SUFFICES ASSUME pc = "reply" PROVE ListedInv' /\ UnseenInv' /\ SeenInv'
  BY DEF LoopInv
<1>1. ListedInv /\ UnseenInv /\ SeenInv
  BY DEF LoopInv
<1>2. \A k \in DOMAIN listed :
        listed[k].id \in DOMAIN threads' /\ threads'[listed[k].id].replies = Replies(k)
  BY <1>1 DEF ListedInv, Replies
<1>3. ListedInv'
  BY <1>1, <1>2 DEF ListedInv, Tracked
<1>4. UnseenInv'
  <2> SUFFICES ASSUME NEW k \in DOMAIN listed, k > Len(listed) - todo
               PROVE  listed[k].replies = Replies(k)' \/ RepliedHere(k)'
    BY DEF UnseenInv
  <2>1. Replies(k)' = Replies(k)
    BY <1>2 DEF Replies
  <2>2. RepliedHere(k) => RepliedHere(k)'
    BY <2>1 DEF RepliedHere, Twice
  <2> QED BY <1>1, <2>1, <2>2 DEF UnseenInv
<1>5. SeenInv'
  BY <1>1, <1>2 DEF SeenInv, Replies, Blocking, Changed, Readable
<1> QED BY <1>3, <1>4, <1>5

\* What the pages hold stays true while the comments keep their replies.
LEMMA PagesStay ==
    ASSUME PagesInv, UNCHANGED <<pc, reviews, results, page, rest>>,
           \A i \in DOMAIN threads :
             i \in DOMAIN threads' /\ threads'[i].replies = threads[i].replies
    PROVE  PagesInv'
BY DEF PagesInv, Tracked

\* A comment moves away from its commit for good.
LEMMA ReanchorInd == IndInv /\ Reanchor => IndInv'
<1> SUFFICES ASSUME IndInv, Reanchor PROVE IndInv'
  OBVIOUS
<1>1. PICK i \in DOMAIN threads, l \in Lines \cup {0} :
         /\ threads[i].line # 0 /\ threads[i].commit < head
         /\ threads' = [threads EXCEPT ![i].commit = head, ![i].line = l]
  BY DEF Reanchor
<1>2. UNCHANGED <<head, source, pc, reviews, prHead, event, findings, results, page, rest,
                  existing, listed, todo, failed>>
  BY DEF Reanchor, result, listing, layerE
<1>3. /\ threads \in Seq(Comments) /\ DOMAIN threads = 1..Len(threads) /\ Len(threads) \in Nat
      /\ head \in Commits
  BY DEF IndInv, TypeOK
<1> DEFINE t == threads[i]
           u == [t EXCEPT !.commit = head, !.line = l]
<1>4. t \in Comments /\ t.commit \in Nat /\ t.origCommit \in Nat /\ head \in Nat
  <2>1. t \in Comments
    BY <1>3
  <2>2. t.commit \in Commits /\ t.origCommit \in Commits
    BY <2>1 DEF Comments
  <2> QED BY <1>3, <2>1, <2>2 DEF Commits
<1>5. /\ u \in Comments /\ u.id = t.id /\ u.commit = head /\ u.origCommit = t.origCommit
      /\ u.origLine = t.origLine /\ u.replies = t.replies /\ u.marks = t.marks
  BY <1>3, <1>4 DEF Comments
<1>6. threads' = [threads EXCEPT ![i] = u]
  BY <1>1
<1> HIDE DEF u
<1>7. /\ threads' \in Seq(Comments) /\ Len(threads') = Len(threads)
      /\ DOMAIN threads' = DOMAIN threads /\ threads'[i] = u
      /\ \A k \in DOMAIN threads : k # i => threads'[k] = threads[k]
  BY <1>3, <1>5, <1>6
<1>8. TypeOK'
  BY <1>2, <1>7 DEF IndInv, TypeOK
<1>9. ThreadsInv'
  <2> SUFFICES ASSUME NEW k \in DOMAIN threads
               PROVE  LET c == threads'[k] IN
                      /\ c.id = k /\ c.commit <= head /\ Tracked(c)
                      /\ c.origLine \in Addable[c.origCommit]
    BY <1>2, <1>7 DEF ThreadsInv, Tracked
  <2>1. CASE k # i
    BY <1>7, <2>1 DEF IndInv, ThreadsInv
  <2>2. CASE k = i
    <3>1. t.id = i /\ t.origCommit <= t.commit /\ t.origLine \in Addable[t.origCommit]
      BY DEF IndInv, ThreadsInv, Tracked
    <3>2. u.origCommit <= u.commit /\ u.commit # u.origCommit /\ u.commit <= head
      BY <1>1, <1>4, <1>5, <3>1
    <3> QED BY <1>5, <1>7, <2>2, <3>1, <3>2 DEF Tracked
  <2> QED BY <2>1, <2>2
<1>10. ResultInv'
  BY <1>2 DEF IndInv, ResultInv, Fits, MayBlock, Blocking
<1>11. LoopInv' /\ PagesInv'
  <2>1. \A k \in DOMAIN threads :
          k \in DOMAIN threads' /\ threads'[k].replies = threads[k].replies
    BY <1>5, <1>7
  <2>2. PagesInv'
    BY <1>2, <2>1, PagesStay DEF IndInv
  <2> QED BY <1>2, <1>7, <2>1, <2>2, LoopStays DEF IndInv
<1>12. MarksInv => MarksInv'
  <2>1. Marked(threads) => Marked(threads')
    BY <1>5, <1>7 DEF Marked
  <2> QED BY <1>2, <2>1 DEF MarksInv, Modest, Marked, NoRepeatedAlarm, Blocking
<1> QED BY <1>8, <1>9, <1>10, <1>11, <1>12 DEF IndInv, Unquoted

\* What holds of the comments does not depend on the review under way.
LEMMA ThreadsStay == ThreadsInv /\ UNCHANGED <<head, threads>> => ThreadsInv'
BY DEF ThreadsInv, Tracked

\* An emptied list has no member.
LEMMA Emptied ==
    ASSUME NEW S, NEW s \in Seq(S), NEW t, t = s \/ t = <<>>
    PROVE  t \in Seq(S)
<1>1. CASE t = s
  BY <1>1
<1>2. CASE t = <<>>
  BY <1>2, EmptySeq
<1> QED BY <1>1, <1>2

\* Steps of a review that neither make a result nor write or list anything.
LEMMA QuietInd ==
    ASSUME IndInv,
           Begin \/ NoReview \/ SkipDedupe \/ PostNoComments \/ ListFails \/ RepliesDone
    PROVE  IndInv'
<1> USE DEF Begin, NoReview, SkipDedupe, PostNoComments, ListFails, RepliesDone,
            ListingOver, github, result, listing, layerE
<1>1. /\ UNCHANGED <<head, source, threads, event>> /\ pc' # "reply"
      /\ <<findings', existing'>> = <<findings, existing>> \/
           (<<findings', existing'>> = << <<>>, <<>> >> /\ pc' = "list")
      /\ pc' \in {"idle", "review", "post", "list"}
      /\ pc' = "post" => pc = "dedupe" /\ findings' = findings /\ existing' = existing
      /\ (UNCHANGED <<results, page, rest>> /\ (pc \in {"idle", "review", "post", "reply"}))
         \/ (results' = <<>> /\ page' = 0 /\ rest' = 0)
      /\ pc' # "idle" => reviews' = reviews + 1 \/ (pc # "idle" /\ reviews' = reviews)
  OBVIOUS
<1>2. TypeOK'
  <2>1. reviews' \in 0..MaxReviews /\ prHead' \in 1..head'
    <3>1. head \in Nat /\ head >= 1 /\ reviews \in Nat
      BY DEF IndInv, TypeOK, Commits
    <3> QED BY <3>1 DEF IndInv, TypeOK
  <2>2. /\ findings' \in Seq([line : Lines, sev : Severities, marks : Nat,
                             core : Cores, flaw : Flaws \ {"unknown_path"}])
        /\ existing' \in Seq(Comments)
    <3>1. findings' = findings \/ findings' = <<>>
      BY <1>1
    <3>2. existing' = existing \/ existing' = <<>>
      BY <1>1
    <3> HIDE DEF Begin, NoReview, SkipDedupe, PostNoComments, ListFails, RepliesDone
    <3>3. findings \in Seq(Kept) /\ existing \in Seq(Comments)
      BY DEF IndInv, TypeOK, Kept
    <3>4. findings' \in Seq(Kept) /\ existing' \in Seq(Comments)
      BY <3>1, <3>2, <3>3, Emptied
    <3> QED BY <3>4 DEF Kept
  <2>3. listed' \in Seq(Comments) /\ todo' \in 0..Len(listed') /\ failed' \subseteq DOMAIN threads'
    <3>1. /\ listed' = listed \/ (listed' = <<>> /\ todo = 0)
          /\ failed' = failed \/ failed' = {}
          /\ UNCHANGED <<todo, threads>>
      OBVIOUS
    <3> HIDE DEF Begin, NoReview, SkipDedupe, PostNoComments, ListFails, RepliesDone
    <3>2. listed \in Seq(Comments) /\ todo \in 0..Len(listed) /\ failed \subseteq DOMAIN threads
      BY DEF IndInv, TypeOK
    <3>3. listed' \in Seq(Comments)
      BY <3>1, <3>2, Emptied
    <3>4. todo' \in 0..Len(listed')
      <4>1. CASE listed' = listed
        BY <3>1, <3>2, <4>1
      <4>2. CASE listed' = <<>> /\ todo = 0
        BY <3>1, <4>2
      <4> QED BY <3>1, <4>1, <4>2
    <3> QED BY <3>1, <3>2, <3>3, <3>4
  <2>4. results' \in Seq(Comments) /\ page' \in 0..MaxPages /\ rest' \in 0..Len(threads')
    <3>1. /\ results' = results \/ results' = <<>>
          /\ page' = page \/ page' = 0
          /\ rest' = rest \/ rest' = 0
          /\ threads' = threads
      BY <1>1
    <3> HIDE DEF Begin, NoReview, SkipDedupe, PostNoComments, ListFails, RepliesDone
    <3>2. /\ results \in Seq(Comments) /\ page \in 0..MaxPages /\ rest \in 0..Len(threads)
          /\ Len(threads) \in Nat
      BY DEF IndInv, TypeOK
    <3>3. results' \in Seq(Comments)
      BY <3>1, <3>2, Emptied
    <3> QED BY <3>1, <3>2, <3>3
  <2> QED BY <1>1, <2>1, <2>2, <2>3, <2>4 DEF IndInv, TypeOK
<1> HIDE DEF Begin, NoReview, SkipDedupe, PostNoComments, ListFails, RepliesDone
<1>3. ThreadsInv'
  BY <1>1, ThreadsStay DEF IndInv
<1>4. existing' = existing \/ existing' = <<>>
  BY <1>1
<1>5. pc' = "post" => existing' = <<>> /\ Fits(event', findings')
  BY <1>1 DEF IndInv, ResultInv
<1>6. ResultInv'
  <2>1. pc' # "post" => existing' = <<>>
    BY <1>1 DEF IndInv, ResultInv, Begin, NoReview, SkipDedupe, PostNoComments, ListFails,
             RepliesDone
  <2>2. pc' \in {"dedupe", "post"} => Fits(event, findings)'
    BY <1>1, <1>5 DEF Fits, MayBlock, Blocking
  <2> QED BY <2>1, <2>2 DEF ResultInv
<1>7. LoopInv' /\ PagesInv'
  <2>1. pc' # "idle" => reviews' > 0
    <3>1. reviews \in Nat
      BY DEF IndInv, TypeOK
    <3> QED BY <1>1, <3>1 DEF IndInv, PagesInv
  <2>2. results' = <<>> /\ page' = 0 /\ rest' = 0
    BY <1>1 DEF IndInv, PagesInv
  <2> QED BY <1>1, <2>1, <2>2 DEF LoopInv, PagesInv
<1>8. MarksInv => MarksInv'
  <2> SUFFICES ASSUME MarksInv PROVE MarksInv'
    OBVIOUS
  <2>1. Modest(findings)'
    <3>1. CASE findings' = findings
      BY <3>1 DEF MarksInv, Modest, Blocking
    <3>2. CASE findings' = <<>>
      BY <3>2 DEF Modest
    <3> QED BY <1>1, <3>1, <3>2
  <2>2. Marked(threads)'
    BY <1>1 DEF MarksInv, Marked
  <2>3. Marked(existing)'
    <3>1. CASE existing' = existing
      BY <3>1 DEF MarksInv, Marked
    <3>2. CASE existing' = <<>>
      BY <3>2 DEF Marked
    <3> QED BY <1>4, <3>1, <3>2
  <2>5. Marked(results)'
    <3>1. results' = results \/ results' = <<>>
      BY <1>1
    <3>2. CASE results' = results
      BY <3>2 DEF MarksInv, Marked
    <3>3. CASE results' = <<>>
      BY <3>3 DEF Marked
    <3> QED BY <3>1, <3>2, <3>3
  <2>4. NoRepeatedAlarm'
    <3>1. pc' = "post" => DOMAIN existing' = {}
      BY <1>5
    <3> QED BY <3>1 DEF NoRepeatedAlarm
  <2> QED BY <2>1, <2>2, <2>3, <2>4, <2>5 DEF MarksInv
<1> QED BY <1>2, <1>3, <1>6, <1>7, <1>8 DEF IndInv, Unquoted

\* What the parser and Layer B leave of an answer fits its event.
LEMMA ReviewInd == IndInv /\ Review => IndInv'
<1> SUFFICES ASSUME IndInv, Review PROVE IndInv'
  OBVIOUS
<1>1. PICK a \in Answers :
        LET parsed == ParseFindings(a.findings)
            verified == VerifyFindings(parsed) IN
        findings' = verified /\ event' = Normalize(Normalize(a.event, parsed), verified)
  BY DEF Review
<1> DEFINE parsed == ParseFindings(a.findings)
           verified == VerifyFindings(parsed)
<1>2. /\ UNCHANGED <<head, source, threads, reviews, prHead, results, page, rest, existing,
                     listed, todo, failed>>
      /\ pc = "review" /\ pc' = "dedupe"
  BY DEF Review, github, listing, layerE
<1>3. a.findings \in Seq(RawFinding) /\ a.event \in Events
  OBVIOUS
<1>4. parsed \in Seq(Kept)
  BY <1>3, ParseFacts
<1>5. verified \in Seq(Kept) /\ (Modest(parsed) => Modest(verified))
  <2> HIDE DEF parsed
  <2> QED BY <1>4, DemoteFacts DEF VerifyFindings
<1>6. event' \in Events /\ Fits(event', verified)
  <2>1. Normalize(a.event, parsed) \in Events
    BY <1>3, NormalizeFits
  <2> QED BY <1>1, <2>1, NormalizeFits
<1>7. findings' = verified
  BY <1>1
<1>8. Unquoted => Modest(verified)
  BY <1>3, <1>5, ParseFacts DEF Unquoted
<1> HIDE DEF verified
<1>9. TypeOK'
  BY <1>2, <1>5, <1>6, <1>7 DEF IndInv, TypeOK, Kept
<1>10. ThreadsInv' /\ LoopInv' /\ PagesInv'
  BY <1>2, ThreadsStay DEF IndInv, LoopInv, PagesInv
<1>11. ResultInv'
  <2>1. Fits(event, findings)'
    BY <1>6, <1>7 DEF Fits, MayBlock, Blocking
  <2> QED BY <1>2, <2>1 DEF IndInv, ResultInv
<1>12. Unquoted /\ MarksInv => MarksInv'
  <2> SUFFICES ASSUME Unquoted, MarksInv PROVE MarksInv'
    OBVIOUS
  <2>1. Modest(findings)'
    BY <1>7, <1>8 DEF Modest, Blocking
  <2>2. Marked(threads)' /\ Marked(results)' /\ Marked(existing)' /\ NoRepeatedAlarm'
    BY <1>2 DEF MarksInv, Marked, NoRepeatedAlarm
  <2> QED BY <2>1, <2>2 DEF MarksInv
<1> QED BY <1>9, <1>10, <1>11, <1>12 DEF IndInv, Unquoted

\* Layer D demotes whatever blocks and was said, and weakens the event with it.
LEMMA DedupeInd == IndInv /\ Dedupe => IndInv'
<1> SUFFICES ASSUME IndInv, Dedupe PROVE IndInv'
  OBVIOUS
<1> DEFINE said == {i \in DOMAIN findings : \E k \in DOMAIN existing' :
                      Signature(existing'[k]) = Signature(findings[i])}
           d == DemoteAt(findings, said)
<1>1. /\ existing' = results /\ findings' = d
      /\ results' = <<>> /\ page' = 0 /\ rest' = 0
      /\ event' = IF existing' = <<>> THEN event ELSE Normalize(event, findings')
      /\ UNCHANGED <<head, source, threads, reviews, prHead, listed, todo, failed>>
      /\ pc = "dedupe" /\ pc' = "post"
  BY DEF Dedupe, ListingOver, github, layerE
<1>2. results \in Seq(Comments)
  BY DEF IndInv, TypeOK
<1>3. findings \in Seq(Kept) /\ event \in Events
  BY DEF IndInv, TypeOK, Kept
<1>4. /\ d \in Seq(Kept) /\ DOMAIN d = DOMAIN findings
      /\ \A i \in DOMAIN findings : Blocking(d[i]) => i \notin said /\ d[i] = findings[i]
      /\ Modest(findings) => Modest(d)
  <2> HIDE DEF said
  <2> QED BY <1>3, DemoteFacts
<1> HIDE DEF d
<1>5. event' \in Events /\ Fits(event', d)
  <2>1. CASE existing' = <<>>
    <3>1. said = {}
      BY <2>1
    <3>2. d = findings
      <4>1. d = [i \in DOMAIN findings |-> findings[i]]
        BY <3>1 DEF d, DemoteAt
      <4> QED BY <1>3, <4>1
    <3> QED BY <1>1, <1>3, <2>1, <3>2 DEF IndInv, ResultInv
  <2>2. CASE existing' # <<>>
    BY <1>1, <1>3, <2>2, NormalizeFits
  <2> QED BY <2>1, <2>2
<1>6. TypeOK'
  <2>1. results' \in Seq(Comments) /\ page' \in 0..MaxPages /\ rest' \in 0..Len(threads')
    BY <1>1 DEF IndInv, TypeOK
  <2>2. existing' \in Seq(Comments) /\ findings' \in Seq(Kept)
    BY <1>1, <1>2, <1>4
  <2> QED BY <1>1, <1>5, <2>1, <2>2 DEF IndInv, TypeOK, Kept
<1>7. ThreadsInv' /\ LoopInv' /\ PagesInv'
  BY <1>1, ThreadsStay DEF IndInv, LoopInv, PagesInv
<1>8. ResultInv'
  <2>1. Fits(event, findings)'
    BY <1>1, <1>5 DEF Fits, MayBlock, Blocking
  <2> QED BY <1>1, <2>1 DEF ResultInv
<1>9. MarksInv => MarksInv'
  <2> SUFFICES ASSUME MarksInv PROVE MarksInv'
    OBVIOUS
  <2>1. Modest(findings)'
    BY <1>1, <1>4 DEF MarksInv, Modest, Blocking
  <2>2. Marked(threads)'
    BY <1>1 DEF MarksInv, Marked
  <2>3. Marked(existing)'
    BY <1>1 DEF MarksInv, Marked
  <2>5. Marked(results)'
    BY <1>1 DEF Marked
  <2>4. NoRepeatedAlarm'
    <3> SUFFICES ASSUME NEW i \in DOMAIN findings', NEW k \in DOMAIN existing',
                        Blocking(findings'[i]), existing'[k].line = findings'[i].line,
                        existing'[k].core = findings'[i].core
                 PROVE  FALSE
      BY DEF NoRepeatedAlarm, Blocking
    <3>1. i \in DOMAIN findings /\ i \notin said /\ findings'[i] = findings[i]
      BY <1>1, <1>4
    <3>2. findings[i].marks = 0
      BY <3>1 DEF MarksInv, Modest
    <3>3. existing'[k].marks <= 1 /\ existing'[k].marks \in Nat
      <4>1. existing'[k] \in Comments
        BY <1>1, <1>2
      <4>2. existing'[k].marks <= 1
        BY <2>3 DEF Marked
      <4> QED BY <4>1, <4>2 DEF Comments
    <3>4. Signature(existing'[k]) = Signature(findings[i])
      <4>1. existing'[k].marks = 0 \/ existing'[k].marks = 1
        BY <3>3
      <4> QED BY <3>1, <3>2, <4>1 DEF Signature
    <3> QED BY <3>1, <3>4
  <2> QED BY <2>1, <2>2, <2>3, <2>4, <2>5 DEF MarksInv
<1> QED BY <1>6, <1>7, <1>8, <1>9 DEF IndInv, Unquoted

\* Every new comment is on a line of its own commit's diff.
LEMMA PostInd == IndInv /\ PostReview => IndInv'
<1> SUFFICES ASSUME IndInv, PostReview PROVE IndInv'
  OBVIOUS
<1> DEFINE new == Inline(prHead)
           n == Len(threads)
<1>1. /\ threads' = threads \o new /\ findings' = <<>> /\ existing' = <<>>
      /\ UNCHANGED <<head, source, reviews, prHead, event, results, page, rest, listed, todo,
                     failed>>
      /\ pc = "post" /\ pc' = "list"
  BY DEF PostReview, listing, layerE
<1>2. /\ new \in Seq(Comments)
      /\ \A i \in DOMAIN new :
           /\ new[i].id = n + i
           /\ new[i].commit = prHead /\ new[i].origCommit = prHead
           /\ new[i].origLine = new[i].line
           /\ new[i].origLine \in Addable[prHead] /\ new[i].replies = <<>>
      /\ Modest(findings) => \A i \in DOMAIN new : new[i].marks <= 1
  BY InlineFacts DEF IndInv
<1> HIDE DEF new
<1>3. threads \in Seq(Comments) /\ prHead \in 1..head /\ head \in Nat
  BY DEF IndInv, TypeOK, Commits
<1>4. /\ threads' \in Seq(Comments) /\ n \in Nat /\ Len(new) \in Nat
      /\ Len(threads') = n + Len(new) /\ DOMAIN threads = 1..n /\ DOMAIN new = 1..Len(new)
      /\ DOMAIN threads' = 1..(n + Len(new))
      /\ \A i \in 1..n : threads'[i] = threads[i]
      /\ \A i \in 1..Len(new) : threads'[n + i] = new[i]
  BY <1>1, <1>2, <1>3, ConcatProperties
<1>5. \A i \in DOMAIN threads' :
        \/ i \in DOMAIN threads /\ threads'[i] = threads[i]
        \/ i - n \in DOMAIN new /\ threads'[i] = new[i - n] /\ n + (i - n) = i
  <2> SUFFICES ASSUME NEW i \in DOMAIN threads', i \notin DOMAIN threads
               PROVE  i - n \in DOMAIN new /\ threads'[i] = new[i - n] /\ n + (i - n) = i
    BY <1>4
  <2>1. i - n \in 1..Len(new) /\ n + (i - n) = i
    BY <1>4
  <2> QED BY <1>4, <2>1
<1>6. TypeOK'
  <2>1. findings' \in Seq([line : Lines, sev : Severities, marks : Nat,
                           core : Cores, flaw : Flaws \ {"unknown_path"}])
    BY <1>1
  <2>2. existing' \in Seq(Comments)
    BY <1>1
  <2>3. rest' \in 0..Len(threads') /\ failed' \subseteq DOMAIN threads'
    <3>1. rest \in 0..n /\ failed \subseteq DOMAIN threads
      BY DEF IndInv, TypeOK
    <3>2. rest' \in 0..Len(threads')
      BY <1>1, <1>4, <3>1
    <3>3. DOMAIN threads \subseteq DOMAIN threads'
      BY <1>4
    <3> QED BY <1>1, <3>1, <3>2, <3>3
  <2> QED BY <1>1, <1>4, <2>1, <2>2, <2>3 DEF IndInv, TypeOK
<1>7. ThreadsInv'
  <2> SUFFICES ASSUME NEW i \in DOMAIN threads'
               PROVE  LET t == threads'[i] IN
                      /\ t.id = i /\ t.commit <= head /\ Tracked(t)
                      /\ t.origLine \in Addable[t.origCommit]
    BY <1>1 DEF ThreadsInv, Tracked
  <2>1. CASE i \in DOMAIN threads /\ threads'[i] = threads[i]
    BY <2>1 DEF IndInv, ThreadsInv
  <2>2. CASE i - n \in DOMAIN new /\ threads'[i] = new[i - n] /\ n + (i - n) = i
    BY <1>2, <1>3, <2>2 DEF Tracked
  <2> QED BY <1>5, <2>1, <2>2
<1>8. ResultInv' /\ LoopInv' /\ PagesInv'
  <2>1. results' = <<>> /\ reviews' > 0
    BY <1>1 DEF IndInv, PagesInv
  <2> QED BY <1>1, <2>1 DEF ResultInv, LoopInv, PagesInv
<1>9. MarksInv => MarksInv'
  <2> SUFFICES ASSUME MarksInv PROVE MarksInv'
    OBVIOUS
  <2>1. DOMAIN findings' = {} /\ DOMAIN existing' = {}
    BY <1>1
  <2>2. Modest(findings)' /\ Marked(existing)' /\ NoRepeatedAlarm'
    BY <2>1 DEF Modest, Marked, NoRepeatedAlarm
  <2>3. Marked(threads)'
    BY <1>2, <1>5 DEF MarksInv, Marked
  <2>4. Marked(results)'
    BY <1>1 DEF MarksInv, Marked
  <2> QED BY <2>2, <2>3, <2>4 DEF MarksInv
<1> QED BY <1>6, <1>7, <1>8, <1>9 DEF IndInv, Unquoted

\* A page adds comments as they are; earlier pages hold what they held.
LEMMA PageInd == IndInv /\ ListPage => IndInv'
<1> SUFFICES ASSUME IndInv, ListPage PROVE IndInv'
  OBVIOUS
<1>1. PICK first \in Rest..Len(threads), last \in 0..Len(threads) :
        results' = results \o Entries(first, last) /\ rest' = last
  BY DEF ListPage
<1>2. /\ pc \in {"list", "dedupe"} /\ page < MaxPages /\ page' = page + 1
      /\ UNCHANGED <<head, source, threads, pc, reviews, prHead, event, findings, existing,
                     listed, todo, failed>>
  BY DEF ListPage, Listing, github, result, layerE
<1>3. /\ results \in Seq(Comments) /\ threads \in Seq(Comments) /\ Len(threads) \in Nat
      /\ page \in 0..MaxPages /\ rest \in 0..Len(threads)
      /\ \A i \in DOMAIN threads : threads[i].id = i
  BY DEF IndInv, TypeOK, ThreadsInv
<1> DEFINE new == Entries(first, last)
<1>4. /\ new \in Seq(Comments)
      /\ \A k \in DOMAIN new :
           new[k].id \in DOMAIN threads /\ new[k] = threads[new[k].id] /\ new[k].line # 0
  <2>1. Rest \in 0..Len(threads)
    BY <1>3 DEF Rest
  <2>2. first \in 0..Len(threads)
    BY <1>3, <2>1
  <2>3. Numbered
    BY <1>3 DEF Numbered
  <2>4. Anchored(new)
    BY <1>3, <2>2, <2>3, EntriesFacts
  <2> QED BY <2>4 DEF Anchored
<1> HIDE DEF new
<1>5. /\ results' \in Seq(Comments)
      /\ \A k \in DOMAIN results' :
           \/ k \in DOMAIN results /\ results'[k] = results[k]
           \/ \E m \in DOMAIN new : results'[k] = new[m]
  <2>1. results' = results \o new
    BY <1>1 DEF new
  <2>2. /\ results' \in Seq(Comments) /\ Len(results) \in Nat /\ Len(new) \in Nat
        /\ DOMAIN results = 1..Len(results) /\ DOMAIN new = 1..Len(new)
        /\ DOMAIN results' = 1..(Len(results) + Len(new))
        /\ \A k \in 1..Len(results) : results'[k] = results[k]
        /\ \A m \in 1..Len(new) : results'[Len(results) + m] = new[m]
    BY <1>3, <1>4, <2>1, ConcatProperties
  <2> SUFFICES ASSUME NEW k \in DOMAIN results', k \notin DOMAIN results
               PROVE  \E m \in DOMAIN new : results'[k] = new[m]
    BY <2>2
  <2>3. k - Len(results) \in 1..Len(new) /\ Len(results) + (k - Len(results)) = k
    BY <2>2
  <2> QED BY <2>2, <2>3
<1>6. \A k \in DOMAIN results' :
        /\ results'[k].id \in DOMAIN threads /\ results'[k].line # 0 /\ Tracked(results'[k])
        /\ results'[k].replies = threads[results'[k].id].replies
  <2> SUFFICES ASSUME NEW k \in DOMAIN results'
               PROVE  /\ results'[k].id \in DOMAIN threads /\ results'[k].line # 0
                      /\ Tracked(results'[k])
                      /\ results'[k].replies = threads[results'[k].id].replies
    OBVIOUS
  <2>1. CASE k \in DOMAIN results /\ results'[k] = results[k]
    BY <2>1 DEF IndInv, PagesInv
  <2>2. ASSUME NEW m \in DOMAIN new, results'[k] = new[m]
        PROVE  /\ results'[k].id \in DOMAIN threads /\ results'[k].line # 0
               /\ Tracked(results'[k])
               /\ results'[k].replies = threads[results'[k].id].replies
    BY <1>4, <2>2 DEF IndInv, ThreadsInv
  <2> QED BY <1>5, <2>1, <2>2
<1>7. TypeOK'
  <2>1. page' \in 0..MaxPages /\ rest' \in 0..Len(threads)
    BY <1>1, <1>2, <1>3
  <2> QED BY <1>2, <1>5, <2>1 DEF IndInv, TypeOK
<1>8. ThreadsInv' /\ ResultInv' /\ LoopInv'
  BY <1>2, ThreadsStay DEF IndInv, ResultInv, Fits, MayBlock, Blocking, LoopInv
<1>9. PagesInv'
  BY <1>2, <1>6 DEF IndInv, PagesInv, Tracked
<1>10. MarksInv => MarksInv'
  <2> SUFFICES ASSUME MarksInv PROVE MarksInv'
    OBVIOUS
  <2>1. Marked(results)'
    <3>1. Marked(threads) /\ Marked(results)
      BY DEF MarksInv
    <3>2. ASSUME NEW k \in DOMAIN results' PROVE results'[k].marks <= 1
      <4>1. CASE k \in DOMAIN results /\ results'[k] = results[k]
        BY <3>1, <4>1 DEF Marked
      <4>2. ASSUME NEW m \in DOMAIN new, results'[k] = new[m] PROVE results'[k].marks <= 1
        BY <1>4, <3>1, <4>2 DEF Marked
      <4> QED BY <1>5, <4>1, <4>2
    <3> QED BY <3>2 DEF Marked
  <2> QED BY <1>2, <2>1 DEF MarksInv, Modest, Marked, NoRepeatedAlarm, Blocking
<1> QED BY <1>7, <1>8, <1>9, <1>10 DEF IndInv, Unquoted

\* Layer E starts with what its pages held.
LEMMA ListInd == IndInv /\ ListForReplies => IndInv'
<1> SUFFICES ASSUME IndInv, ListForReplies PROVE IndInv'
  OBVIOUS
<1>1. /\ listed' = results /\ todo' = Len(listed') /\ failed' = {} /\ pc' = "reply"
      /\ pc = "list" /\ results' = <<>> /\ page' = 0 /\ rest' = 0
      /\ UNCHANGED <<head, source, threads, reviews, prHead, event, findings, existing>>
  BY DEF ListForReplies, ListingOver, github, result
<1>2. listed' \in Seq(Comments) /\ Len(listed') \in Nat /\ DOMAIN listed' = 1..Len(listed')
  BY <1>1 DEF IndInv, TypeOK
<1>3. TypeOK'
  <2>1. todo' \in 0..Len(listed') /\ page' \in 0..MaxPages /\ rest' \in 0..Len(threads')
    BY <1>1, <1>2 DEF IndInv, TypeOK
  <2>2. results' \in Seq(Comments) /\ failed' \subseteq DOMAIN threads'
    BY <1>1
  <2> QED BY <1>1, <1>2, <2>1, <2>2 DEF IndInv, TypeOK
<1>4. ThreadsInv' /\ ResultInv' /\ PagesInv'
  <2>1. PagesInv'
    BY <1>1 DEF IndInv, PagesInv
  <2> QED BY <1>1, <2>1, ThreadsStay DEF IndInv, ResultInv
<1>5. LoopInv'
  <2>1. \A k \in DOMAIN listed' : Replies(k)' = listed'[k].replies
    BY <1>1 DEF IndInv, PagesInv, Replies
  <2>2. ListedInv'
    BY <1>1 DEF IndInv, PagesInv, ListedInv, Tracked
  <2>3. UnseenInv'
    BY <2>1 DEF UnseenInv
  <2>4. SeenInv'
    <3>1. \A k \in DOMAIN listed' : ~(k <= Len(listed') - todo')
      BY <1>1, <1>2
    <3> QED BY <3>1 DEF SeenInv
  <2> QED BY <2>2, <2>3, <2>4 DEF LoopInv
<1>6. MarksInv => MarksInv'
  <2> SUFFICES ASSUME MarksInv PROVE MarksInv'
    OBVIOUS
  <2>1. Marked(results)'
    BY <1>1 DEF Marked
  <2> QED BY <1>1, <2>1 DEF MarksInv, Modest, Marked, NoRepeatedAlarm, Blocking
<1> QED BY <1>3, <1>4, <1>5, <1>6 DEF IndInv, Unquoted

\* The comment the loop is at, and what has been seen once it is passed.
LEMMA CurrentFacts ==
    ASSUME TypeOK, LoopInv, pc = "reply", todo > 0
    PROVE  LET c == Len(listed) - todo + 1 IN
           /\ c \in DOMAIN listed /\ listed[c] = Current /\ Current \in Comments
           /\ Current.id \in DOMAIN threads /\ Current.line # 0 /\ Tracked(Current)
           /\ Current.replies = Replies(c) \/ RepliedHere(c)
           /\ \A k \in DOMAIN listed :
                /\ (k <= Len(listed) - (todo - 1)) <=> (k <= Len(listed) - todo \/ k = c)
                /\ k > Len(listed) - (todo - 1) => k > Len(listed) - todo /\ k # c
                /\ k # c /\ listed[k].id = Current.id => Twice(listed, listed[k].id)
<1> DEFINE c == Len(listed) - todo + 1
<1>1. /\ listed \in Seq(Comments) /\ DOMAIN listed = 1..Len(listed) /\ Len(listed) \in Nat
      /\ todo \in 0..Len(listed) /\ ListedInv /\ UnseenInv
  BY DEF TypeOK, LoopInv
<1>2. c \in 1..Len(listed) /\ c > Len(listed) - todo
  BY <1>1
<1>3. listed[c] = Current /\ listed[c] \in Comments
  BY <1>1, <1>2 DEF Current
<1>4. \A k \in DOMAIN listed :
        /\ (k <= Len(listed) - (todo - 1)) <=> (k <= Len(listed) - todo \/ k = c)
        /\ k > Len(listed) - (todo - 1) => k > Len(listed) - todo /\ k # c
  BY <1>1
<1> HIDE DEF c
<1>5. c \in DOMAIN listed
  BY <1>1, <1>2
<1>6. Current.id \in DOMAIN threads /\ Current.line # 0 /\ Tracked(Current)
  BY <1>1, <1>3, <1>5 DEF ListedInv
<1>7. \A k \in DOMAIN listed : k # c /\ listed[k].id = Current.id => Twice(listed, listed[k].id)
  BY <1>3, <1>5 DEF Twice
<1>8. Current.replies = Replies(c) \/ RepliedHere(c)
  BY <1>1, <1>2, <1>3, <1>5 DEF UnseenInv
<1> QED BY <1>3, <1>4, <1>5, <1>6, <1>7, <1>8 DEF c

\* A comment made at the head itself is where it was made, so its line reads as it did.
LEMMA UnmovedIsUnchanged ==
    ASSUME NEW t \in Comments, Tracked(t), t.origCommit = prHead
    PROVE  ~Changed(t)
<1>1. SUFFICES ASSUME Readable(t.commit) PROVE t.commit = t.origCommit /\ t.line = t.origLine
  BY DEF Changed
<1>2. t.commit \in Nat /\ t.origCommit \in Nat
  BY DEF Comments, Commits
<1>3. t.commit = t.origCommit
  BY <1>1, <1>2 DEF Tracked, Readable
<1> QED BY <1>3 DEF Tracked

\* A comment that gets no reply has one or does not want one, or has failed; one made
\* at the head itself is where it was made.
LEMMA SkipInd == IndInv /\ (PassOver \/ ReadFails \/ ReplyFails) => IndInv'
<1> SUFFICES ASSUME IndInv, PassOver \/ ReadFails \/ ReplyFails PROVE IndInv'
  OBVIOUS
<1>1. /\ pc = "reply" /\ todo > 0 /\ todo' = todo - 1
      /\ (~WantsReply(Current) /\ failed' = failed) \/ failed' = failed \cup {Current.id}
      /\ UNCHANGED <<head, source, threads, pc, reviews, prHead, event, findings, results,
                     page, rest, existing, listed>>
  BY DEF PassOver, ReadFails, ReplyFails, github, result, listing
<1> DEFINE c == Len(listed) - todo + 1
<1>2. /\ c \in DOMAIN listed /\ listed[c] = Current /\ Current \in Comments
      /\ Current.id \in DOMAIN threads /\ Tracked(Current)
      /\ Current.replies = Replies(c) \/ RepliedHere(c)
      /\ \A k \in DOMAIN listed :
           /\ (k <= Len(listed) - (todo - 1)) <=> (k <= Len(listed) - todo \/ k = c)
           /\ k > Len(listed) - (todo - 1) => k > Len(listed) - todo /\ k # c
  BY <1>1, CurrentFacts DEF IndInv
<1> HIDE DEF c
<1>3. ListedInv /\ UnseenInv /\ SeenInv
  BY <1>1 DEF IndInv, LoopInv
<1>4. todo \in 0..Len(listed) /\ Len(listed) \in Nat /\ failed \subseteq DOMAIN threads
  BY DEF IndInv, TypeOK
<1>5. failed \subseteq failed' /\ failed' \subseteq DOMAIN threads
  BY <1>1, <1>2, <1>4
<1>6. TypeOK'
  <2>1. todo' \in 0..Len(listed)
    BY <1>1, <1>4
  <2> QED BY <1>1, <1>5, <2>1 DEF IndInv, TypeOK
<1>7. ThreadsInv' /\ ResultInv' /\ PagesInv'
  BY <1>1, ThreadsStay, PagesStay DEF IndInv, ResultInv, Fits, MayBlock, Blocking
<1>8. ListedInv'
  BY <1>1, <1>3 DEF ListedInv, Tracked
<1>9. UnseenInv'
  BY <1>1, <1>2, <1>3 DEF UnseenInv, RepliedHere, Replies
<1>10. Blocking(Current) /\ Changed(Current) /\ Current.id \notin failed' => Replies(c) # <<>>
  <2> SUFFICES ASSUME Blocking(Current), Changed(Current), Current.id \notin failed'
               PROVE  Replies(c) # <<>>
    OBVIOUS
  <2>1. ~Asks(Current)
    BY <1>1 DEF WantsReply
  <2>2. Current.origCommit # prHead
    BY <1>2, UnmovedIsUnchanged
  <2>3. Current.replies # <<>>
    BY <2>1, <2>2 DEF Asks
  <2> QED BY <1>2, <2>3 DEF RepliedHere
<1>11. SeenInv'
  <2> SUFFICES ASSUME NEW k \in DOMAIN listed, k <= Len(listed) - (todo - 1),
                      Blocking(listed[k]), Changed(listed[k]), listed[k].id \notin failed'
               PROVE  Replies(k) # <<>>
    BY <1>1 DEF SeenInv, Replies, Blocking, Changed, Readable
  <2>1. CASE k = c
    BY <1>2, <1>10, <2>1
  <2>2. CASE k # c
    BY <1>2, <1>3, <1>5, <2>2 DEF SeenInv
  <2> QED BY <2>1, <2>2
<1>12. LoopInv'
  BY <1>1, <1>8, <1>9, <1>11 DEF LoopInv
<1>13. MarksInv => MarksInv'
  BY <1>1 DEF MarksInv, Modest, Marked, NoRepeatedAlarm, Blocking
<1> QED BY <1>6, <1>7, <1>12, <1>13 DEF IndInv, Unquoted

\* A reply is the first of its comment, or repeats one of this review where the
\* listing repeats the comment: nobody else replies meanwhile.
LEMMA ReplyInd == IndInv /\ Reply => IndInv'
<1> SUFFICES ASSUME IndInv, Reply PROVE IndInv'
  OBVIOUS
<1> DEFINE c == Len(listed) - todo + 1
           j == Current.id
           more == Append(threads[j].replies, reviews)
           u == [threads[j] EXCEPT !.replies = more]
<1>1. /\ pc = "reply" /\ todo > 0 /\ WantsReply(Current) /\ todo' = todo - 1
      /\ threads' = [threads EXCEPT ![j] = u]
      /\ failed' \in {failed, failed \cup {j}}
      /\ UNCHANGED <<head, source, pc, reviews, prHead, event, findings, results, page, rest,
                     existing, listed>>
  BY DEF Reply, result, listing
<1>2. /\ c \in DOMAIN listed /\ listed[c] = Current /\ Current \in Comments
      /\ j \in DOMAIN threads
      /\ Current.replies = Replies(c) \/ RepliedHere(c)
      /\ \A k \in DOMAIN listed :
           /\ (k <= Len(listed) - (todo - 1)) <=> (k <= Len(listed) - todo \/ k = c)
           /\ k > Len(listed) - (todo - 1) => k > Len(listed) - todo /\ k # c
           /\ k # c /\ listed[k].id = j => Twice(listed, listed[k].id)
  BY <1>1, CurrentFacts DEF IndInv
<1> HIDE DEF c
<1>3. ListedInv /\ UnseenInv /\ SeenInv
  BY <1>1 DEF IndInv, LoopInv
<1>4. /\ todo \in 0..Len(listed) /\ Len(threads) \in Nat /\ Len(listed) \in Nat
      /\ threads \in Seq(Comments) /\ threads[j] \in Comments
      /\ failed \subseteq DOMAIN threads
      /\ reviews \in 1..MaxReviews
  <2>1. reviews \in 0..MaxReviews /\ reviews > 0
    BY <1>1 DEF IndInv, TypeOK, PagesInv
  <2> QED BY <1>2, <2>1 DEF IndInv, TypeOK
<1>5. /\ more \in Seq(1..MaxReviews) /\ more # <<>>
      /\ \A n \in DOMAIN more : more[n] = reviews
  <2> DEFINE old == threads[j].replies
  <2>1. old \in Seq(1..MaxReviews)
    BY <1>4 DEF Comments
  <2>2. \A n \in DOMAIN old : old[n] = reviews
    <3>1. Current.replies = <<>> /\ Replies(c) = old
      BY <1>1, <1>2 DEF WantsReply, Asks, Replies
    <3>2. CASE Replies(c) = <<>>
      BY <3>1, <3>2
    <3>3. CASE RepliedHere(c)
      BY <3>1, <3>3 DEF RepliedHere
    <3> QED BY <1>2, <3>1, <3>2, <3>3
  <2> HIDE DEF old
  <2>3. /\ Append(old, reviews) \in Seq(1..MaxReviews)
        /\ Len(old) \in Nat /\ DOMAIN old = 1..Len(old)
        /\ DOMAIN Append(old, reviews) = 1..(Len(old) + 1)
        /\ \A n \in 1..Len(old) : Append(old, reviews)[n] = old[n]
        /\ Append(old, reviews)[Len(old) + 1] = reviews
    BY <1>4, <2>1, AppendProperties
  <2>4. Append(old, reviews) # <<>>
    BY <1>4, <2>1, <2>3
  <2>5. ASSUME NEW n \in DOMAIN Append(old, reviews) PROVE Append(old, reviews)[n] = reviews
    <3>1. CASE n \in 1..Len(old)
      BY <2>2, <2>3, <3>1
    <3>2. CASE n = Len(old) + 1
      BY <2>3, <3>2
    <3> QED BY <2>3, <3>1, <3>2
  <2> QED BY <2>3, <2>4, <2>5 DEF old
<1> HIDE DEF more
<1>6. /\ u \in Comments /\ u.replies = more /\ u.id = threads[j].id
      /\ u.commit = threads[j].commit /\ u.origCommit = threads[j].origCommit
      /\ u.line = threads[j].line /\ u.origLine = threads[j].origLine
      /\ u.marks = threads[j].marks
  <2>1. u \in Comments
    BY <1>4, <1>5 DEF Comments
  <2> QED BY <1>4, <2>1 DEF Comments
<1> HIDE DEF u, j
<1>7. /\ threads' \in Seq(Comments) /\ Len(threads') = Len(threads)
      /\ DOMAIN threads' = DOMAIN threads /\ threads'[j] = u
      /\ \A i \in DOMAIN threads : i # j => threads'[i] = threads[i]
  BY <1>1, <1>2, <1>4, <1>6
<1>8. TypeOK'
  <2>1. todo' \in 0..Len(listed)
    BY <1>1, <1>4
  <2>2. failed' \subseteq DOMAIN threads'
    BY <1>1, <1>2, <1>4, <1>7
  <2> QED BY <1>1, <1>7, <2>1, <2>2 DEF IndInv, TypeOK
<1>9. ThreadsInv'
  <2> SUFFICES ASSUME NEW i \in DOMAIN threads
               PROVE  LET t == threads'[i] IN
                      /\ t.id = i /\ t.commit <= head /\ Tracked(t)
                      /\ t.origLine \in Addable[t.origCommit]
    BY <1>1, <1>7 DEF ThreadsInv, Tracked
  <2>1. CASE i # j
    BY <1>7, <2>1 DEF IndInv, ThreadsInv
  <2>2. CASE i = j
    BY <1>6, <1>7, <2>2 DEF IndInv, ThreadsInv, Tracked
  <2> QED BY <2>1, <2>2
<1>10. ResultInv' /\ PagesInv'
  <2>1. results = <<>>
    BY <1>1 DEF IndInv, PagesInv
  <2> QED BY <1>1, <2>1 DEF IndInv, ResultInv, Fits, MayBlock, Blocking, PagesInv
<1>11. \A k \in DOMAIN listed :
         /\ listed[k].id = j => Replies(k)' = more
         /\ listed[k].id # j => Replies(k)' = Replies(k)
         /\ listed[k].id \in DOMAIN threads'
  <2> SUFFICES ASSUME NEW k \in DOMAIN listed
               PROVE  /\ listed[k].id = j => threads'[listed[k].id].replies = more
                      /\ listed[k].id # j => threads'[listed[k].id].replies = Replies(k)
                      /\ listed[k].id \in DOMAIN threads'
    BY <1>1 DEF Replies
  <2>1. listed[k].id \in DOMAIN threads
    BY <1>3 DEF ListedInv
  <2> QED BY <1>6, <1>7, <2>1 DEF Replies
<1>12. ListedInv'
  BY <1>1, <1>3, <1>11 DEF ListedInv, Tracked
<1>13. UnseenInv'
  <2> SUFFICES ASSUME NEW k \in DOMAIN listed, k > Len(listed) - (todo - 1)
               PROVE  listed[k].replies = Replies(k)' \/ RepliedHere(k)'
    BY <1>1 DEF UnseenInv
  <2>1. k > Len(listed) - todo /\ k # c
    BY <1>2
  <2>2. CASE listed[k].id = j
    <3>1. Twice(listed, listed[k].id)
      BY <1>2, <2>1, <2>2
    <3>2. Replies(k)' = more
      BY <1>11, <2>2
    <3>3. Twice(listed, listed[k].id)'
      BY <1>1, <3>1 DEF Twice
    <3>4. RepliedHere(k)' = (/\ Replies(k)' # <<>> /\ Twice(listed, listed[k].id)'
                             /\ \A n \in DOMAIN Replies(k)' : Replies(k)'[n] = reviews')
      BY DEF RepliedHere
    <3> QED BY <1>1, <1>5, <3>2, <3>3, <3>4
  <2>3. CASE listed[k].id # j
    <3>1. Replies(k)' = Replies(k)
      BY <1>11, <2>3
    <3>2. RepliedHere(k) => RepliedHere(k)'
      BY <1>1, <3>1 DEF RepliedHere, Twice
    <3> QED BY <1>3, <2>1, <3>1, <3>2 DEF UnseenInv
  <2> QED BY <2>2, <2>3
<1>14. SeenInv'
  <2> SUFFICES ASSUME NEW k \in DOMAIN listed, k <= Len(listed) - (todo - 1),
                      Blocking(listed[k]), Changed(listed[k]), listed[k].id \notin failed'
               PROVE  Replies(k)' # <<>>
    BY <1>1 DEF SeenInv, Blocking, Changed, Readable
  <2>1. CASE listed[k].id = j
    BY <1>5, <1>11, <2>1
  <2>2. CASE listed[k].id # j
    <3>1. k # c /\ k <= Len(listed) - todo
      BY <1>2, <2>2 DEF j
    <3>2. listed[k].id \notin failed
      BY <1>1
    <3> QED BY <1>3, <1>11, <2>2, <3>1, <3>2 DEF SeenInv
  <2> QED BY <2>1, <2>2
<1>15. LoopInv'
  BY <1>1, <1>12, <1>13, <1>14 DEF LoopInv
<1>16. MarksInv => MarksInv'
  <2>1. Marked(threads) => Marked(threads')
    BY <1>6, <1>7 DEF Marked
  <2> QED BY <1>1, <2>1 DEF MarksInv, Modest, Marked, NoRepeatedAlarm, Blocking
<1> QED BY <1>8, <1>9, <1>10, <1>15, <1>16 DEF IndInv, Unquoted

\* A stutter keeps everything.
LEMMA StutterInd == IndInv /\ UNCHANGED vars => IndInv'
<1> SUFFICES ASSUME IndInv, UNCHANGED vars PROVE IndInv'
  OBVIOUS
<1>1. UNCHANGED <<head, source, threads, pc, reviews, prHead, event, findings, results, page,
                  rest, existing, listed, todo, failed>>
  BY DEF vars, github, result, listing, layerE
<1>2. TypeOK' /\ ThreadsInv' /\ ResultInv' /\ PagesInv'
  BY <1>1, ThreadsStay, PagesStay DEF IndInv, TypeOK, ResultInv, Fits, MayBlock, Blocking
<1>3. LoopInv'
  BY <1>1, LoopStays DEF IndInv
<1>4. MarksInv => MarksInv'
  BY <1>1 DEF MarksInv, Modest, Marked, NoRepeatedAlarm, Blocking
<1> QED BY <1>2, <1>3, <1>4 DEF IndInv, Unquoted

\* The inductive invariant of the review comments over all reviews of a pull request.
THEOREM HistoryInvariance == Spec => []IndInv
<1>1. IndInv /\ [Next]_vars => IndInv'
  <2> SUFFICES ASSUME IndInv, [Next]_vars PROVE IndInv'
    OBVIOUS
  <2>1. CASE Push
    BY <2>1, PushInd
  <2>2. CASE Reanchor
    BY <2>2, ReanchorInd
  <2>3. CASE Begin \/ NoReview \/ SkipDedupe \/ PostNoComments \/ ListFails \/ RepliesDone
    BY <2>3, QuietInd
  <2>4. CASE Review
    BY <2>4, ReviewInd
  <2>5. CASE Dedupe
    BY <2>5, DedupeInd
  <2>6. CASE PostReview
    BY <2>6, PostInd
  <2>7. CASE ListForReplies
    BY <2>7, ListInd
  <2>8. CASE PassOver \/ ReadFails \/ ReplyFails
    BY <2>8, SkipInd
  <2>9. CASE Reply
    BY <2>9, ReplyInd
  <2>10. CASE ListPage
    BY <2>10, PageInd
  <2>11. CASE UNCHANGED vars
    BY <2>11, StutterInd
  <2> QED BY <2>1, <2>2, <2>3, <2>4, <2>5, <2>6, <2>7, <2>8, <2>9, <2>10, <2>11
          DEF Next, LayerE
<1> QED BY <1>1, InitInd, PTL DEF Spec

\* Every variable of the history keeps its type.
THEOREM HistoryTypes == Spec => []TypeOK
<1>1. IndInv => TypeOK
  BY DEF IndInv
<1> QED BY <1>1, HistoryInvariance, PTL

\* No review repeats the follow-up of an earlier one; within one review it is repeated
\* only where the listing repeats the comment (check_resolutions).
THEOREM RepliesOfOneReview == Spec => NoSecondFollowUp
<1>1. IndInv /\ [Next]_vars =>
        [\A i \in DOMAIN threads :
           threads'[i].replies # threads[i].replies =>
             \/ threads[i].replies = <<>>
             \/ /\ Twice(listed, i)
                /\ \A n \in DOMAIN threads[i].replies : threads[i].replies[n] = reviews]_vars
  <2> SUFFICES ASSUME IndInv, Next, NEW i \in DOMAIN threads,
                      threads'[i].replies # threads[i].replies, threads[i].replies # <<>>
               PROVE  /\ Twice(listed, i)
                      /\ \A n \in DOMAIN threads[i].replies : threads[i].replies[n] = reviews
    OBVIOUS
  <2>1. threads \in Seq(Comments) /\ i \in 1..Len(threads) /\ Len(threads) \in Nat
    BY DEF IndInv, TypeOK
  <2>2. ~Reanchor
    <3> SUFFICES ASSUME Reanchor PROVE FALSE
      OBVIOUS
    <3>1. PICK k \in DOMAIN threads, l \in Lines \cup {0} :
            threads' = [threads EXCEPT ![k].commit = head, ![k].line = l]
      BY DEF Reanchor
    <3>2. threads[k] \in Comments
      BY <2>1
    <3>3. threads'[i].replies = threads[i].replies
      BY <2>1, <3>1, <3>2 DEF Comments
    <3> QED BY <3>3
  <2>3. ~PostReview
    <3> SUFFICES ASSUME PostReview PROVE FALSE
      OBVIOUS
    <3>1. threads' = threads \o Inline(prHead) /\ Inline(prHead) \in Seq(Comments)
      BY InlineFacts DEF PostReview, IndInv
    <3>2. threads'[i] = threads[i]
      BY <2>1, <3>1, ConcatProperties
    <3> QED BY <3>2
  <2>4. threads' # threads
    OBVIOUS
  <2>5. Reply
    BY <2>2, <2>3, <2>4 DEF Next, LayerE, Push, Begin, Review, NoReview, ListPage, Dedupe,
       SkipDedupe, PostNoComments, ListForReplies, ListFails, PassOver, ReadFails, ReplyFails,
       RepliesDone, github
  <2> DEFINE c == Len(listed) - todo + 1
  <2>6. /\ c \in DOMAIN listed /\ listed[c] = Current
        /\ Current.replies = Replies(c) \/ RepliedHere(c)
    BY <2>5, CurrentFacts DEF IndInv, Reply
  <2> HIDE DEF c
  <2>7. i = Current.id
    BY <2>1, <2>5 DEF Reply
  <2>8. Current.replies = <<>>
    BY <2>5 DEF Reply, WantsReply, Asks
  <2>9. Replies(c) = threads[i].replies /\ listed[c].id = i
    BY <2>6, <2>7 DEF Replies
  <2>10. RepliedHere(c)
    BY <2>6, <2>8, <2>9
  <2> QED BY <2>9, <2>10 DEF RepliedHere
<1> QED BY <1>1, HistoryInvariance, PTL DEF Spec, NoSecondFollowUp

\* A comment is on a line of the diff of the commit it was made at (post_review).
THEOREM AnchorsReviewed == Spec => []AnchoredWhereReviewed
<1>1. IndInv => AnchoredWhereReviewed
  BY DEF IndInv, ThreadsInv, AnchoredWhereReviewed
<1> QED BY <1>1, HistoryInvariance, PTL

\* What is posted bears its event out (_normalize_event, verify, dedupe).
THEOREM EventFits == Spec => []EventFitsFindings
<1>1. IndInv => EventFitsFindings
  BY DEF IndInv, ResultInv, Fits, MayBlock, EventFitsFindings
<1> QED BY <1>1, HistoryInvariance, PTL

\* While the model does not quote the demotion marker, no alarm is raised again at a
\* line where a listed comment says the same, demoted or not (dedupe).
THEOREM NoAlarmAgain ==
    ASSUME Unquoted
    PROVE  Spec => []NoRepeatedAlarm
<1>1. IndInv => NoRepeatedAlarm
  BY Unquoted DEF IndInv, MarksInv
<1> QED BY <1>1, HistoryInvariance, PTL

\* After a follow-up every listed blocking comment whose line reads differently has a
\* reply, or its own read or reply failed (check_resolutions, _maybe_reply).
THEOREM ChangesAnswered == Spec => ChangedLinesAnswered
<1>1. IndInv /\ [Next]_vars =>
        [pc = "reply" /\ pc' = "idle" =>
           \A i \in DOMAIN listed :
             Blocking(listed[i]) /\ Changed(listed[i]) /\ listed[i].id \notin failed =>
               threads[listed[i].id].replies # <<>>]_vars
  <2> SUFFICES ASSUME IndInv, Next, pc = "reply", pc' = "idle", NEW i \in DOMAIN listed,
                      Blocking(listed[i]), Changed(listed[i]), listed[i].id \notin failed
               PROVE  threads[listed[i].id].replies # <<>>
    OBVIOUS
  <2>1. RepliesDone
    BY DEF Next, LayerE, Push, Reanchor, Begin, Review, NoReview, ListPage, Listing, Dedupe,
           SkipDedupe, PostReview, PostNoComments, ListForReplies, ListFails, PassOver,
           ReadFails, Reply, ReplyFails
  <2>2. todo = 0 /\ SeenInv
    BY <2>1 DEF RepliesDone, IndInv, LoopInv
  <2>3. i <= Len(listed) - todo
    <3>1. Len(listed) \in Nat /\ i \in 1..Len(listed)
      BY DEF IndInv, TypeOK
    <3> QED BY <2>2, <3>1
  <2> QED BY <2>2, <2>3 DEF SeenInv, Replies
<1> QED BY <1>1, HistoryInvariance, PTL DEF Spec, ChangedLinesAnswered
===============================================================================
