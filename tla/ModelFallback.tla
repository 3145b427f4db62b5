----------------------------- MODULE ModelFallback -----------------------------
(***************************************************************************)
(* GeminiCliEngine._run_with_model_fallback: the prompt is given to the    *)
(* configured models, one `gemini -p` process after another, until one     *)
(* answers.  A time-out, an empty answer with exit code 0 and a failure    *)
(* whose output marks it retryable pass to the next model; any other       *)
(* failure, every exception and every failure of the last model ends the   *)
(* job.                                                                    *)
(***************************************************************************)
EXTENDS Integers, Sequences, SequencesExt

CONSTANTS
    Settings,     \* the words GEMINI_MODEL and its fallbacks may be set to
    Strip(_),     \* str.strip: the name a word holds, or Blank
    Blank,        \* the empty name
    MaxFallbacks  \* bound: the longest list of fallback models

ASSUME MaxFallbacksNat == MaxFallbacks \in Nat

\* GEMINI_MODEL may be set to nothing, and a word may be written without its spaces.
ASSUME StripSettings ==
    /\ Blank \in Settings /\ Strip(Blank) = Blank
    /\ \A w \in Settings : Strip(w) \in Settings

Names == {Strip(w) : w \in Settings} \ {Blank}

\* What _is_retryable_model_failure looks for in stderr and stdout: one of the
\* markers, the word "preview", a word for a missing or unsupported model.
Words == {"marker", "preview", "unavailable"}

VARIABLES
    primary,    \* self._model
    fallbacks,  \* self._fallback_models
    models,     \* _dedupe_models(primary, fallbacks)
    index,      \* loop position, counted from 1
    chainPc,    \* "invoke" | "answered" | "raised"
    label,      \* ReviewResult.model
    ends        \* how each call so far ended (history)

chainVars == <<primary, fallbacks, models, index, chainPc, label, ends>>

\* Settings.parsed_gemini_fallback_models drops blanks; GEMINI_MODEL is kept raw.
Configured == {Strip(w) : w \in {primary} \cup ToSet(fallbacks)} \ {Blank}

\* The first of every stripped, non-blank name; the raw primary if none is left.
DedupeModels(first, rest) ==
    LET all == <<first>> \o rest
        chain[n \in 0..Len(all)] ==
          IF n = 0 THEN <<>>
          ELSE IF Strip(all[n]) \in ToSet(chain[n - 1]) \cup {Blank} THEN chain[n - 1]
          ELSE Append(chain[n - 1], Strip(all[n]))
    IN  IF chain[Len(all)] = <<>> THEN <<first>> ELSE chain[Len(all)]

ChainInit ==
    /\ primary \in Settings
    /\ fallbacks \in BoundedSeq({w \in Settings : Strip(w) = w /\ w # Blank},
                                MaxFallbacks)
    /\ models = DedupeModels(primary, fallbacks)
    /\ index = 1
    /\ chainPc = "invoke"
    /\ label = Blank
    /\ ends = <<>>

HasFallback == index < Len(models)

IsRetryable(output) ==
    "marker" \in output \/ {"preview", "unavailable"} \subseteq output

\* continue: the next model of the chain.
FallBack ==
    /\ index' = index + 1
    /\ UNCHANGED <<chainPc, label>>

\* RuntimeError: the job ends without a review.
GiveUp ==
    /\ chainPc' = "raised"
    /\ UNCHANGED <<index, label>>

-----------------------------------------------------------------------------
\* Mutant: the label is the configured model, whichever answered.
AnswersAsPrimary ==
    /\ chainPc = "invoke"
    /\ chainPc' = "answered"
    /\ label' = models[1]
    /\ ends' = Append(ends, "answer")
    /\ UNCHANGED <<primary, fallbacks, models, index>>

\* Exit code 0 and something on stdout: parsed and labelled with the model.
Answers ==
    /\ chainPc = "invoke"
    /\ chainPc' = "answered"
    /\ label' = models[index]
    /\ ends' = Append(ends, "answer")
    /\ UNCHANGED <<primary, fallbacks, models, index>>

\* Exit code 0 and nothing on stdout.
AnswersEmpty ==
    /\ chainPc = "invoke"
    /\ ends' = Append(ends, "empty")
    /\ IF HasFallback THEN FallBack ELSE GiveUp
    /\ UNCHANGED <<primary, fallbacks, models>>

\* Mutant: the time-out leaves the loop, as the code's comment warns.
TimesOutOfLoop ==
    /\ chainPc = "invoke"
    /\ ends' = Append(ends, "timeout")
    /\ GiveUp
    /\ UNCHANGED <<primary, fallbacks, models>>

\* subprocess.TimeoutExpired.
TimesOut ==
    /\ chainPc = "invoke"
    /\ ends' = Append(ends, "timeout")
    /\ IF HasFallback THEN FallBack ELSE GiveUp
    /\ UNCHANGED <<primary, fallbacks, models>>

\* A non-zero exit code.
Fails ==
    /\ chainPc = "invoke"
    /\ \E output \in SUBSET Words :
         /\ ends' = Append(ends, IF IsRetryable(output) THEN "retryable" ELSE "fatal")
         /\ IF HasFallback /\ IsRetryable(output) THEN FallBack ELSE GiveUp
    /\ UNCHANGED <<primary, fallbacks, models>>

\* subprocess.run raises: the CLI cannot be started (OSError), or what it writes
\* is no text (UnicodeDecodeError).  Nothing here catches these.
InvokeRaises ==
    /\ chainPc = "invoke"
    /\ ends' = Append(ends, "uncaught")
    /\ GiveUp
    /\ UNCHANGED <<primary, fallbacks, models>>

\* parse_review raises on the answer (json nested too deep, a line number that is
\* infinite): neither does anything here catch that.
ParseRaises ==
    /\ chainPc = "invoke"
    /\ ends' = Append(ends, "uncaught")
    /\ GiveUp
    /\ UNCHANGED <<primary, fallbacks, models>>

ChainNext ==
    \/ Answers \/ AnswersEmpty \/ TimesOut \/ Fails
    \/ InvokeRaises \/ ParseRaises

ChainSpec == ChainInit /\ [][ChainNext]_chainVars

-----------------------------------------------------------------------------
ChainTypeOK ==
    /\ primary \in Settings
    /\ fallbacks \in Seq(Settings)
    /\ models \in Seq(Settings) /\ models # <<>>
    /\ index \in 1..Len(models)
    /\ chainPc \in {"invoke", "answered", "raised"}
    /\ label \in Names \cup {Blank, primary}
    /\ ends \in Seq({"answer", "empty", "timeout", "retryable", "fatal", "uncaught"})

\* The job fails only after a failure that is not marked retryable, with an
\* exception other than TimeoutExpired, or when every configured model has had the
\* prompt, however the settings repeat or pad its name (_run_with_model_fallback,
\* _dedupe_models).
NotGivenUpEarly ==
    chainPc = "raised" =>
        \/ Last(ends) \in {"fatal", "uncaught"}
        \/ Configured \subseteq {models[i] : i \in 1..Len(ends)}

\* The footer of the review names the model that answered, and every model
\* configured ahead of it was tried and failed in a way that may be retried.
FirstToAnswerIsNamed ==
    chainPc = "answered" =>
        /\ label = models[Len(ends)]
        /\ \A i \in 1..Len(ends) - 1 : ends[i] \in {"empty", "timeout", "retryable"}
        /\ Strip(primary) # Blank /\ Strip(primary) # label =>
             \E i \in 1..Len(ends) - 1 : models[i] = Strip(primary)
================================================================================
