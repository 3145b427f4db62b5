------------------------------ MODULE EngineCall ------------------------------
(***************************************************************************)
(* What is put in front of the model and which model answers: the numbered *)
(* patch, the dump of the repository, the conversation, the chain of       *)
(* models.  The four run one after the other, each from inputs of its own, *)
(* and share no variable, so a behaviour runs one of them and finds the    *)
(* other three finished; a row of them would only multiply their states.   *)
(***************************************************************************)
EXTENDS PatchLines, FileBudget, ConversationCap, ModelFallback

vars == <<patchVars, dumpVars, talkVars, chainVars>>

\* A patch that is None, as of a binary file.
NoPatch ==
    /\ patch = <<>> /\ reader = "done" /\ piece = 1 /\ number = 0
    /\ labels = {} /\ addable = {}

\* A file that is no regular file, so that nothing was taken.
NoDump ==
    /\ \E k \in FileKinds : k.listed = "no_file" /\ tree = [p \in Paths |-> k]
    /\ todo = {} /\ entries = {} /\ filteredOut = {} /\ budgetExcluded = {}
    /\ totalChars = 0 /\ engineMode = "full"

\* No endpoint answered.
NoTalk ==
    /\ \E k \in TalkKinds : comment = [c \in Comments |-> k]
    /\ written = 0 /\ endpoint = Len(Kinds) + 1 /\ page = 1 /\ results = <<>>
    /\ known = [k \in {Kinds[i] : i \in 1..3} |-> 0]
    /\ answered = {} /\ fetched = <<>> /\ next = 0
    /\ kept = {} /\ total = 0 /\ cutLen = 0 /\ talkPc = "done"

\* The only model failed for good.
NoChain ==
    /\ primary = Blank /\ fallbacks = <<>> /\ models = <<Blank>> /\ index = 1
    /\ chainPc = "raised" /\ label = Blank /\ ends = <<"fatal">>

Init ==
    \/ PatchInit /\ NoDump /\ NoTalk /\ NoChain
    \/ DumpInit /\ NoPatch /\ NoTalk /\ NoChain
    \/ TalkInit /\ NoPatch /\ NoDump /\ NoChain
    \/ ChainInit /\ NoPatch /\ NoDump /\ NoTalk

Next ==
    \/ PatchNext /\ UNCHANGED <<dumpVars, talkVars, chainVars>>
    \/ DumpNext /\ UNCHANGED <<patchVars, talkVars, chainVars>>
    \/ TalkNext /\ UNCHANGED <<patchVars, dumpVars, chainVars>>
    \/ ChainNext /\ UNCHANGED <<patchVars, dumpVars, talkVars>>

Spec == Init /\ [][Next]_vars

\* Every variable of the four parts holds a value of its type.
TypeOK == PatchTypeOK /\ DumpTypeOK /\ TalkTypeOK /\ ChainTypeOK

=============================================================================
