-------------------------- MODULE ReviewPipelineProofs --------------------------
(***************************************************************************)
(* Proofs about one job of the use case, for any files, lines, bounds and  *)
(* outcomes of its calls.                                                  *)
(***************************************************************************)
EXTENDS ReviewPipeline, FiniteSetTheorems, SequenceTheorems, TLAPS

Items == [kind : {"review", "notice", "reply"}, comments : SUBSET (Files \X Lines),
          listed : SUBSET (Files \X Lines), announced : Int]

WritesType == writes \in Seq(Items) /\ IsFiniteSet(findings)

\* What the job has written and raised at each place: nothing before its POST has
\* succeeded or failed for good; afterwards its answer, if it was created, comes first
\* and a reply of the follow-up last.
PlaceInv ==
    /\ pc \notin {"follow_up", "end"} =>
         writes = <<>> /\ followUps = 0 /\ raised = NotRaised
    /\ pc = "follow_up" =>
         /\ followUps = 0
         /\ raised.at \in {"none", "engine", "ground", "post", "retry", "notice"}
    /\ Len(writes) <= 1 + followUps
    /\ \A i \in 1..Len(writes) : i > 1 => writes[i].kind = "reply"
    /\ pc \in {"follow_up", "end"} /\ raised = NotRaised /\ ~dryRun =>
         Len(writes) >= 1 /\ writes[1].kind \in {"review", "notice"}

PipelineInv == TypeOK /\ WritesType /\ PlaceInv /\ NothingLost /\ FollowUpOnce

USE OtherFileIsOther, BoundsNat

\* _partition_findings loses none and puts none on both sides.
LEMMA Partition ==
    ASSUME IsFiniteSet(findings)
    PROVE  /\ Inline \cup Surfaced = findings /\ Inline \cap Surfaced = {}
           /\ IsFiniteSet(Inline) /\ IsFiniteSet(Surfaced)
           /\ Cardinality(Inline) = Cardinality(findings) - Cardinality(Surfaced)
           /\ Cardinality(findings) \in Nat /\ Cardinality(Surfaced) \in Nat
<1>1. Inline \subseteq findings /\ Surfaced = findings \ Inline
  BY DEF Inline, Surfaced
<1>2. IsFiniteSet(Inline) /\ IsFiniteSet(Surfaced)
  BY <1>1, FS_Subset
<1>3. /\ Cardinality(findings) \in Nat /\ Cardinality(Surfaced) \in Nat
      /\ Cardinality(Inline) \in Nat
  BY <1>2, FS_CardinalityType
<1>4. Cardinality(Surfaced) = Cardinality(findings) - Cardinality(findings \cap Inline)
  BY <1>1, FS_Difference
<1>5. Cardinality(findings \cap Inline) = Cardinality(Inline)
  <2>1. findings \cap Inline = Inline
    BY <1>1
  <2> QED BY <2>1
<1>6. Cardinality(Inline) = Cardinality(findings) - Cardinality(Surfaced)
  BY ONLY <1>3, <1>4, <1>5
<1>7. Inline \cup Surfaced = findings /\ Inline \cap Surfaced = {}
  BY <1>1
<1> QED BY <1>2, <1>3, <1>6, <1>7

\* What an item must be to be the job's answer.
Faithful(item) ==
    item.kind = "review" =>
      /\ item.comments \cup item.listed = findings
      /\ item.comments \cap item.listed = {}
      /\ item.announced = Cardinality(item.comments)

\* The first payload holds each finding once.
LEMMA FirstPayload ==
    ASSUME TypeOK, WritesType
    PROVE  Review(Inline, Surfaced) \in Items /\ Faithful(Review(Inline, Surfaced))
<1>1. Inline \subseteq Files \X Lines /\ Surfaced \subseteq Files \X Lines
  BY DEF TypeOK, Inline, Surfaced
<1> QED BY <1>1, Partition DEF WritesType, Review, Faithful, Items

\* So does the second, with all of them in the body.
LEMMA SecondPayload ==
    ASSUME TypeOK, WritesType
    PROVE  RetryPayload \in Items /\ Faithful(RetryPayload)
<1>1. Surfaced \cup Inline = findings
  BY Partition DEF WritesType
<1>2. findings \subseteq Files \X Lines
  BY DEF TypeOK
<1>3. Cardinality(findings) \in Nat
  BY Partition DEF WritesType
<1>4. Cardinality(findings) - Cardinality(Surfaced \cup Inline) = 0
  BY <1>1, <1>3
<1>5. RetryPayload = [kind |-> "review", comments |-> {}, listed |-> findings,
                      announced |-> 0]
  BY <1>1, <1>4 DEF RetryPayload, Review
<1>6. RetryPayload \in Items
  BY <1>2, <1>5 DEF Items
<1>7. Faithful(RetryPayload)
  BY <1>5, FS_EmptySet DEF Faithful
<1> QED BY <1>6, <1>7

\* A notice and a reply hold no finding.
LEMMA PlainItem ==
    ASSUME NEW kind \in {"notice", "reply"}
    PROVE  Plain(kind) \in Items /\ Plain(kind).kind = kind
BY DEF Plain, Items

\* A job begins without anything written.
LEMMA PipelineInit == Init => PipelineInv
<1> SUFFICES ASSUME Init PROVE PipelineInv
  OBVIOUS
<1> USE DEF Init
<1>1. WritesType
  BY FS_EmptySet DEF WritesType
<1>2. TypeOK
  <2>1. dump \in [status : [Files -> Status], atLimit : BOOLEAN]
    BY DEF Status
  <2>2. raised \in [at : Places \cup {"none"}, kind : Kinds \cup {"none"}]
    BY DEF NotRaised
  <2>3. writes = <<>> /\ Len(writes) = 0
    OBVIOUS
  <2>4. dryRun \in BOOLEAN
    OBVIOUS
  <2> QED BY <2>1, <2>2, <2>3, <2>4 DEF TypeOK, Places
<1>3. PlaceInv /\ NothingLost /\ FollowUpOnce
  BY DEF PlaceInv, NothingLost, Answers, FollowUpOnce
<1> QED BY <1>1, <1>2, <1>3 DEF PipelineInv

-----------------------------------------------------------------------------
\* A step before the first POST that goes on to another such place.
LEMMA QuietKeeps ==
    ASSUME PipelineInv,
           GetToken \/ Checkout \/ Collect \/ Converse \/ ChooseFull \/ ChooseDiff
             \/ ChooseNotice \/ Ground
    PROVE  PipelineInv'
<1>1. /\ UNCHANGED <<dryRun, addable, findings, writes, followUps, raised>>
      /\ pc \notin {"follow_up", "end"} /\ pc' \in Places \ {"follow_up", "end"}
  BY DEF GetToken, Checkout, Collect, Converse, ChooseFull, ChooseDiff, ChooseNotice,
         Ground, pull, Places
<1>2. dump' \in [status : [Files -> Status], atLimit : BOOLEAN]
  BY DEF GetToken, Checkout, Collect, Converse, ChooseFull, ChooseDiff, ChooseNotice,
         Ground, PipelineInv, TypeOK
<1>3. conversation' \in 0..Endpoints /\ mode' \in {"none", "full", "diff", "notice"}
  BY DEF GetToken, Checkout, Collect, Converse, ChooseFull, ChooseDiff, ChooseNotice,
         Ground, PipelineInv, TypeOK
<1>4. TypeOK'
  BY <1>1, <1>2, <1>3 DEF PipelineInv, TypeOK
<1>5. WritesType' /\ PlaceInv' /\ NothingLost' /\ FollowUpOnce'
  BY <1>1 DEF PipelineInv, WritesType, PlaceInv, NothingLost, Answers, FollowUpOnce
<1> QED BY <1>4, <1>5 DEF PipelineInv

\* An exception, before the try block or inside it.
LEMMA FailureKeeps ==
    ASSUME PipelineInv, FailsEarly \/ ConverseFails \/ EngineFails \/ GroundFails
    PROVE  PipelineInv'
<1>1. /\ UNCHANGED <<dryRun, addable, dump, conversation, mode, findings, writes, followUps>>
      /\ writes = <<>> /\ followUps = 0
  BY DEF FailsEarly, ConverseFails, EngineFails, GroundFails, RaiseTo, pull, PipelineInv, PlaceInv
<1>2. PICK k \in Kinds : raised' = [at |-> pc, kind |-> k]
  BY DEF FailsEarly, ConverseFails, EngineFails, GroundFails, RaiseTo, Kinds
<1>3. \/ pc' = "end" /\ pc \in {"token", "checkout", "collect", "conversation"}
      \/ pc' = "follow_up" /\ pc \in {"engine", "ground"}
  BY DEF FailsEarly, ConverseFails, EngineFails, GroundFails, RaiseTo
<1>4. raised' \in [at : Places \cup {"none"}, kind : Kinds \cup {"none"}]
      /\ raised'.at = pc /\ raised' # NotRaised
  BY <1>2, <1>3 DEF Places, NotRaised
<1>5. TypeOK'
  BY <1>1, <1>3, <1>4 DEF PipelineInv, TypeOK, Places
<1>6. PlaceInv'
  BY <1>1, <1>3, <1>4 DEF PlaceInv
<1>7. WritesType' /\ NothingLost' /\ FollowUpOnce'
  BY <1>1, <1>3, <1>4 DEF PipelineInv, WritesType, NothingLost, Answers, FollowUpOnce
<1> QED BY <1>5, <1>6, <1>7 DEF PipelineInv

\* The engine writes nothing.
LEMMA RunEngineKeeps == PipelineInv /\ RunEngine => PipelineInv'
<1> SUFFICES ASSUME PipelineInv, RunEngine PROVE PipelineInv'
  OBVIOUS
<1>1. PICK answer \in SUBSET ((Files \cup {OtherFile}) \X Lines) :
        /\ IsFiniteSet(answer)
        /\ findings' = {f \in answer : f[1] \in ValidPaths(mode)}
  BY DEF RunEngine
<1>2. findings' \subseteq Files \X Lines
  BY <1>1 DEF ValidPaths, Diffed
<1>3. IsFiniteSet(findings')
  BY <1>1, FS_Subset
<1>4. /\ UNCHANGED <<dryRun, addable, dump, conversation, mode, writes, followUps, raised>>
      /\ writes = <<>> /\ followUps = 0 /\ raised = NotRaised /\ pc' = "ground"
  BY DEF RunEngine, pull, PipelineInv, PlaceInv
<1>5. TypeOK'
  BY <1>2, <1>4 DEF PipelineInv, TypeOK, Places
<1>6. WritesType' /\ PlaceInv' /\ NothingLost' /\ FollowUpOnce'
  BY <1>3, <1>4 DEF PipelineInv, WritesType, PlaceInv, NothingLost, Answers, FollowUpOnce
<1> QED BY <1>5, <1>6 DEF PipelineInv

-----------------------------------------------------------------------------
\* The POST of a faithful answer as the first thing the job writes.
LEMMA PostFirst ==
    ASSUME WritesType, writes = <<>>, UNCHANGED findings,
           NEW item \in Items, item.kind \in {"review", "notice"}, Faithful(item),
           NEW seen, Post(item, seen)
    PROVE  /\ WritesType' /\ NothingLost'
           /\ writes' = <<>> \/ writes' = <<item>>
           /\ seen = "ok" => writes' = <<item>>
           /\ seen = "http422" => writes' = <<>>
<1>1. writes' = <<>> \/ writes' = <<item>>
  BY DEF Post
<1>2. (seen = "ok" => writes' = <<item>>) /\ (seen = "http422" => writes' = <<>>)
  BY DEF Post
<1>3. WritesType'
  <2>1. <<>> \in Seq(Items) /\ <<item>> \in Seq(Items)
    OBVIOUS
  <2>2. writes' \in Seq(Items)
    BY <1>1, <2>1
  <2> QED BY <2>2 DEF WritesType
<1>4. NothingLost'
  BY <1>1 DEF NothingLost, Answers, Faithful
<1> QED BY <1>1, <1>2, <1>3, <1>4

\* What the three POSTs have in common: the answer is created or not, and an error
\* ends the try block.
LEMMA PostKeeps ==
    ASSUME PipelineInv, pc \in {"post", "retry", "notice"},
           NEW item \in Items, item.kind \in {"review", "notice"}, Faithful(item),
           NEW seen \in Kinds \cup {"ok"}, Post(item, seen),
           pc' = "follow_up" \/ (pc' = "retry" /\ seen = "http422"),
           raised' = IF seen = "ok" \/ pc' = "retry" THEN raised
                     ELSE [at |-> pc, kind |-> seen],
           UNCHANGED <<pull, dump, conversation, mode, findings, followUps>>
    PROVE  PipelineInv'
<1>1. writes = <<>> /\ followUps = 0 /\ raised = NotRaised
  BY DEF PipelineInv, PlaceInv
<1>2. /\ WritesType' /\ NothingLost'
      /\ writes' = <<>> \/ writes' = <<item>>
      /\ seen = "ok" => writes' = <<item>>
      /\ seen = "http422" => writes' = <<>>
  BY <1>1, PostFirst DEF PipelineInv
<1>3. raised' = NotRaised \/ (raised' = [at |-> pc, kind |-> seen] /\ seen \in Kinds)
  BY <1>1
<1>4. raised' \in [at : Places \cup {"none"}, kind : Kinds \cup {"none"}]
  BY <1>3 DEF NotRaised, PipelineInv, TypeOK
<1>5. Len(writes') <= 1 /\ \A i \in 1..Len(writes') : i = 1 /\ writes'[i].kind = item.kind
  <2>1. CASE writes' = <<>>
    BY <2>1
  <2>2. CASE writes' = <<item>>
    BY <2>2
  <2> QED BY <1>2, <2>1, <2>2
<1>6. TypeOK'
  BY <1>1, <1>4, <1>5 DEF PipelineInv, TypeOK, Places, pull
<1>7. raised'.at \in {"none", "post", "retry", "notice"}
  BY <1>3 DEF NotRaised
<1>8. pc' = "follow_up" /\ raised' = NotRaised => writes' = <<item>>
  <2>1. [at |-> pc, kind |-> seen] # NotRaised
    BY DEF NotRaised
  <2> QED BY <1>2, <2>1
<1>9. pc' = "retry" => writes' = <<>> /\ raised' = NotRaised
  BY <1>1, <1>2
<1>10. PlaceInv'
  BY <1>1, <1>5, <1>7, <1>8, <1>9 DEF PlaceInv
<1> QED BY <1>2, <1>6, <1>10 DEF PipelineInv, FollowUpOnce

\* The first POST is the first write.
LEMMA PostReviewKeeps == PipelineInv /\ PostReview => PipelineInv'
<1> SUFFICES ASSUME PipelineInv, PostReview PROVE PipelineInv'
  OBVIOUS
<1> DEFINE item == Review(Inline, Surfaced)
<1>1. item \in Items /\ Faithful(item)
  BY FirstPayload DEF PipelineInv
<1>2. item.kind = "review"
  BY DEF Review
<1>3. PICK seen \in Kinds \cup {"ok"} :
        /\ Post(item, seen)
        /\ IF seen = "ok" THEN pc' = "follow_up" /\ UNCHANGED raised
           ELSE IF seen = "http422" /\ Inline # {}
           THEN pc' = "retry" /\ UNCHANGED raised
           ELSE pc' = "follow_up" /\ raised' = [at |-> pc, kind |-> seen]
  BY DEF PostReview
<1>4. pc' = "follow_up" \/ (pc' = "retry" /\ seen = "http422")
  BY <1>3
<1>5. raised' = IF seen = "ok" \/ pc' = "retry" THEN raised ELSE [at |-> pc, kind |-> seen]
  BY <1>3
<1>6. /\ pc \in {"post", "retry", "notice"}
      /\ UNCHANGED <<pull, dump, conversation, mode, findings, followUps>>
  BY DEF PostReview
<1> HIDE DEF item
<1> QED BY <1>1, <1>2, <1>3, <1>4, <1>5, <1>6, PostKeeps

\* The second POST follows one that wrote nothing.
LEMMA RetryKeeps == PipelineInv /\ Retry => PipelineInv'
<1> SUFFICES ASSUME PipelineInv, Retry PROVE PipelineInv'
  OBVIOUS
<1>1. RetryPayload \in Items /\ Faithful(RetryPayload)
  BY SecondPayload DEF PipelineInv
<1>2. RetryPayload.kind = "review"
  BY DEF RetryPayload, Review
<1>3. PICK seen \in Kinds \cup {"ok"} :
        /\ Post(RetryPayload, seen)
        /\ pc' = "follow_up"
        /\ raised' = IF seen = "ok" THEN raised ELSE [at |-> pc, kind |-> seen]
  BY DEF Retry
<1>4. /\ pc \in {"post", "retry", "notice"}
      /\ UNCHANGED <<pull, dump, conversation, mode, findings, followUps>>
  BY DEF Retry
<1> QED BY <1>1, <1>2, <1>3, <1>4, PostKeeps

\* A notice takes the place of the review.
LEMMA PostNoticeKeeps == PipelineInv /\ PostNotice => PipelineInv'
<1> SUFFICES ASSUME PipelineInv, PostNotice PROVE PipelineInv'
  OBVIOUS
<1>1. Plain("notice") \in Items /\ Plain("notice").kind = "notice"
  BY PlainItem
<1>2. PICK seen \in Kinds \cup {"ok"} :
        /\ Post(Plain("notice"), seen)
        /\ pc' = "follow_up"
        /\ raised' = IF seen = "ok" THEN raised ELSE [at |-> pc, kind |-> seen]
  BY DEF PostNotice
<1>3. /\ pc \in {"post", "retry", "notice"}
      /\ UNCHANGED <<pull, dump, conversation, mode, findings, followUps>>
  BY DEF PostNotice
<1> QED BY <1>1, <1>2, <1>3, PostKeeps DEF Faithful

\* A dry run writes nothing.
LEMMA PostDryRunKeeps == PipelineInv /\ PostDryRun => PipelineInv'
<1> SUFFICES ASSUME PipelineInv, PostDryRun PROVE PipelineInv'
  OBVIOUS
<1>1. /\ pc' = "follow_up" /\ dryRun
      /\ UNCHANGED <<dryRun, addable, dump, conversation, mode, findings, writes,
                     followUps, raised>>
      /\ writes = <<>> /\ followUps = 0 /\ raised = NotRaised
  BY DEF PostDryRun, pull, PipelineInv, PlaceInv
<1>2. TypeOK'
  BY <1>1 DEF PipelineInv, TypeOK, Places
<1>3. PlaceInv'
  BY <1>1 DEF PlaceInv, NotRaised
<1> QED BY <1>1, <1>2, <1>3
       DEF PipelineInv, WritesType, NothingLost, Answers, FollowUpOnce

\* The finally clause: at most a reply behind what there is.
LEMMA FollowUpKeeps == PipelineInv /\ FollowUp => PipelineInv'
<1> SUFFICES ASSUME PipelineInv, FollowUp PROVE PipelineInv'
  OBVIOUS
<1>1. /\ pc = "follow_up" /\ pc' = "end" /\ followUps = 0 /\ followUps' = 1
      /\ UNCHANGED <<dryRun, addable, dump, conversation, mode, findings, raised>>
  BY DEF FollowUp, pull, PipelineInv, PlaceInv
<1>2. writes \in Seq(Items) /\ Len(writes) \in Nat /\ Len(writes) <= 1
  BY <1>1 DEF PipelineInv, WritesType, PlaceInv
<1>3. CASE writes' = writes
  <2>1. TypeOK'
    BY <1>1, <1>3 DEF PipelineInv, TypeOK, Places
  <2>2. PlaceInv'
    BY <1>1, <1>2, <1>3 DEF PipelineInv, PlaceInv
  <2> QED BY <1>1, <1>3, <2>1, <2>2
         DEF PipelineInv, PlaceInv, WritesType, NothingLost, Answers, FollowUpOnce
<1>4. CASE writes' = Append(writes, Plain("reply"))
  <2> DEFINE item == Plain("reply")
  <2>1. item \in Items /\ item.kind = "reply"
    BY PlainItem
  <2> HIDE DEF item
  <2>2. /\ writes' \in Seq(Items) /\ Len(writes') = Len(writes) + 1
        /\ \A i \in 1..Len(writes) : writes'[i] = writes[i]
        /\ writes'[Len(writes) + 1] = item
    BY <1>2, <1>4, <2>1, AppendProperties DEF item
  <2>3. \A i \in 1..Len(writes') :
          (i \in 1..Len(writes) /\ writes'[i] = writes[i]) \/ writes'[i].kind = "reply"
    BY <1>2, <2>1, <2>2
  <2>4. TypeOK'
    BY <1>1, <2>3 DEF PipelineInv, TypeOK, Places
  <2>5. PlaceInv'
    BY <1>1, <1>2, <2>2, <2>3 DEF PipelineInv, PlaceInv
  <2>6. NothingLost'
    BY <1>1, <2>3 DEF PipelineInv, NothingLost, Answers
  <2> QED BY <1>1, <2>2, <2>4, <2>5, <2>6
         DEF PipelineInv, PlaceInv, WritesType, FollowUpOnce
<1> QED BY <1>3, <1>4 DEF FollowUp

-----------------------------------------------------------------------------
\* The inductive invariant of a job (ReviewPullRequestUseCase.execute).
THEOREM PipelineInvariance == Spec => []PipelineInv
<1>1. PipelineInv /\ [Next]_vars => PipelineInv'
  <2> SUFFICES ASSUME PipelineInv, [Next]_vars PROVE PipelineInv'
    OBVIOUS
  <2>1. CASE UNCHANGED vars
    BY <2>1 DEF vars, PipelineInv, TypeOK, WritesType, PlaceInv, NothingLost, Answers,
                FollowUpOnce
  <2> QED BY <2>1, QuietKeeps, FailureKeeps, RunEngineKeeps, PostReviewKeeps, RetryKeeps,
             PostNoticeKeeps, PostDryRunKeeps, FollowUpKeeps DEF Next, Finished
<1> QED BY <1>1, PipelineInit, PTL DEF Spec

\* Every variable of a job keeps its type: in particular only findings in files of the
\* pull request leave the engine.
THEOREM PipelineTypes == Spec => []TypeOK
<1>1. PipelineInv => TypeOK
  BY DEF PipelineInv
<1> QED BY <1>1, PipelineInvariance, PTL

\* A job answers once at most, and once exactly if it ends well and is no dry run
\* (execute, post_review).
THEOREM AnswersOnce == Spec => []OneAnswer
<1>1. PipelineInv => OneAnswer
  <2> SUFFICES ASSUME PipelineInv PROVE OneAnswer
    OBVIOUS
  <2>1. Len(writes) \in Nat
    BY DEF PipelineInv, WritesType
  <2>2. Answers \subseteq {1}
    BY <2>1 DEF PipelineInv, PlaceInv, Answers
  <2>3. Cardinality({}) = 0 /\ Cardinality({1}) = 1
    BY FS_EmptySet, FS_Singleton
  <2>4. Answers = {} \/ Answers = {1}
    BY <2>2
  <2>5. Cardinality(Answers) <= 1
    BY <2>3, <2>4
  <2>6. ASSUME pc = "end", raised = NotRaised, ~dryRun
        PROVE  Cardinality(Answers) = 1
    <3>1. 1 \in Answers
      BY <2>1, <2>6 DEF PipelineInv, PlaceInv, Answers
    <3> QED BY <2>3, <2>4, <3>1
  <2> QED BY <2>5, <2>6 DEF OneAnswer
<1> QED BY <1>1, PipelineInvariance, PTL

\* Every finding is on GitHub once, as a comment or in the body, and the body counts
\* the comments right, also after the second POST (post_review).
THEOREM NoFindingLost == Spec => []NothingLost
<1>1. PipelineInv => NothingLost
  BY DEF PipelineInv
<1> QED BY <1>1, PipelineInvariance, PTL

\* Layer E runs once, however the job ends (the finally clause of execute).
THEOREM FollowsUpOnce == Spec => []FollowUpOnce
<1>1. PipelineInv => FollowUpOnce
  BY DEF PipelineInv
<1> QED BY <1>1, PipelineInvariance, PTL
================================================================================
