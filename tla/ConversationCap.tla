---------------------------- MODULE ConversationCap ----------------------------
(***************************************************************************)
(* The pull request's conversation on its way into the prompt:             *)
(* fetch_pr_conversation asks three endpoints for their comments, page by  *)
(* page and while people go on writing, and sorts them by time;            *)
(* _select_entries_under_cap keeps the newest that fit.  A page holds the  *)
(* comments that stand there when it is asked for, so one written between  *)
(* two requests moves the rest down.  Nobody deletes a comment.            *)
(***************************************************************************)
EXTENDS Integers, Sequences, FiniteSets

CONSTANTS
    Comments,      \* comment ids in the order of their creation
    TalkKinds,     \* the sorts of comment GitHub holds
    PageSize,      \* comments on a page
    MaxPages,      \* max_pages
    MaxTalkChars,  \* _CONVERSATION_MAX_CHARS
    Mark           \* len("...(truncated)")

ASSUME CommentsNat == Comments \subseteq Nat /\ IsFiniteSet(Comments)
ASSUME TalkBoundsNat ==
    /\ PageSize \in Nat \ {0} /\ MaxPages \in Nat \ {0}
    /\ MaxTalkChars \in Nat \ {0} /\ Mark \in Nat

\* The endpoints in the order they are asked.
Kinds == <<"review", "issue_comment", "line_comment">>

\* usable: the comment has an author and a text.  GitHub always dates a comment, a
\* review only once it was submitted.  len: of the rendered entry.
ASSUME TalkKindsShape ==
    TalkKinds \subseteq
      {c \in [kind : {Kinds[i] : i \in 1..3}, dated : BOOLEAN, usable : BOOLEAN,
              len : Nat] : c.kind # "review" => c.dated}

VARIABLES
    comment,  \* GitHub: what sort of comment each one is, or will be
    written,  \* GitHub: the newest comment so far, or 0
    endpoint, \* index of the endpoint asked next
    page,     \* the page of it that is asked for next
    results,  \* entries of its pages so far
    known,    \* `written` when each endpoint was asked for its first page (history)
    answered, \* kinds of the endpoints that answered (history)
    fetched,  \* entries, in the order they were fetched, then sorted
    next,     \* loop: index of the entry looked at next, newest first
    kept,     \* indices of the selected entries
    total,    \* total
    cutLen,   \* length of the entry that was cut to fit, or 0
    talkPc    \* "fetch" | "sort" | "select" | "done"

pageVars == <<endpoint, page, results, known, answered>>
talkVars == <<comment, written, pageVars, fetched, next, kept, total, cutLen, talkPc>>

TalkInit ==
    /\ comment \in [Comments -> TalkKinds]
    /\ written \in Comments \cup {0}
    /\ endpoint = 1
    /\ page = 1
    /\ results = <<>>
    /\ known = [k \in {Kinds[i] : i \in 1..3} |-> 0]
    /\ answered = {}
    /\ fetched = <<>>
    /\ next = 0
    /\ kept = {}
    /\ total = 0
    /\ cutLen = 0
    /\ talkPc = "fetch"

-----------------------------------------------------------------------------
OfKind(k) == {c \in Comments : c <= written /\ comment[c].kind = k}

\* Somebody comments.
Write ==
    /\ talkPc = "fetch"
    /\ \E c \in Comments : c > written /\ written' = c
    /\ UNCHANGED <<comment, pageVars, fetched, next, kept, total, cutLen, talkPc>>

\* Mutant: no endpoint is asked for the newest comments first.
NewestFirstNever(k) == FALSE

NewestFirst(k) == k # "review"

\* The endpoint returns c before d.
Ahead(k, c, d) == IF NewestFirst(k) THEN c > d ELSE c < d

Position(k, c) == Cardinality({d \in OfKind(k) : Ahead(k, d, c)})

\* The comments on page n.
Page(k, n) ==
    {c \in OfKind(k) :
       (n - 1) * PageSize <= Position(k, c) /\ Position(k, c) < n * PageSize}

\* The entries made of them, in the order of the page.
PageEntries(k, n) ==
    LET S == {c \in Page(k, n) : comment[c].usable} IN
    {s \in [1..Cardinality(S) -> S] :
       \A i, j \in DOMAIN s : i < j => Ahead(k, s[i], s[j])}

\* Page n holds PageSize items.
Full(k, n) == Cardinality(OfKind(k)) >= n * PageSize

\* The endpoint asked, and what was there when it was asked first.
Asked == Kinds[endpoint]
Known == IF page = 1 THEN [known EXCEPT ![Asked] = written] ELSE known

\* A full page that is not the last allowed: the next one is asked for.
FetchPage ==
    /\ talkPc = "fetch" /\ endpoint <= Len(Kinds)
    /\ Full(Asked, page) /\ page < MaxPages
    /\ \E items \in PageEntries(Asked, page) : results' = results \o items
    /\ page' = page + 1
    /\ known' = Known
    /\ UNCHANGED <<comment, written, endpoint, answered, fetched, next, kept, total,
                   cutLen, talkPc>>

\* The last page of the endpoint.
FetchEndpoint ==
    /\ talkPc = "fetch" /\ endpoint <= Len(Kinds)
    /\ ~Full(Asked, page) \/ page = MaxPages
    /\ \E items \in PageEntries(Asked, page) : fetched' = fetched \o (results \o items)
    /\ answered' = answered \cup {Asked}
    /\ known' = Known
    /\ endpoint' = endpoint + 1
    /\ page' = 1
    /\ results' = <<>>
    /\ UNCHANGED <<comment, written, next, kept, total, cutLen, talkPc>>

\* HTTPError, URLError or RuntimeError on one of its pages: it gives nothing.
EndpointFails ==
    /\ talkPc = "fetch" /\ endpoint <= Len(Kinds)
    /\ endpoint' = endpoint + 1
    /\ page' = 1
    /\ results' = <<>>
    /\ UNCHANGED <<comment, written, known, answered, fetched, next, kept, total,
                   cutLen, talkPc>>

\* entries.sort(key=(missing, time)): is stable, and puts undated entries last.
SortedBefore(i, j) ==
    LET a == fetched[i]  b == fetched[j] IN
    IF comment[a].dated # comment[b].dated THEN comment[a].dated
    ELSE IF comment[a].dated THEN a < b \/ (a = b /\ i < j)
    ELSE i < j

Sort ==
    /\ talkPc = "fetch" /\ endpoint > Len(Kinds)
    /\ \E order \in [DOMAIN fetched -> DOMAIN fetched] :
         /\ \A i, j \in DOMAIN fetched : i < j => SortedBefore(order[i], order[j])
         /\ fetched' = [i \in DOMAIN fetched |-> fetched[order[i]]]
    /\ next' = Len(fetched)
    /\ talkPc' = "select"
    /\ UNCHANGED <<comment, written, pageVars, kept, total, cutLen>>

-----------------------------------------------------------------------------
EntryLen(i) == comment[fetched[i]].len + 1

\* Mutant: an entry that fills the cap is left out.
FitsCapBelow(i) == total + EntryLen(i) < MaxTalkChars

\* Mutant: the newline after an entry is not counted.
FitsCapBare(i) == total + comment[fetched[i]].len <= MaxTalkChars

FitsCap(i) == total + EntryLen(i) <= MaxTalkChars

KeepEntry ==
    /\ talkPc = "select" /\ next > 0 /\ FitsCap(next)
    /\ kept' = kept \cup {next}
    /\ total' = total + EntryLen(next)
    /\ next' = next - 1
    /\ UNCHANGED <<comment, written, pageVars, fetched, cutLen, talkPc>>

AtLeastOne(n) == IF n < 1 THEN 1 ELSE n

\* The newest entry alone is too long: the beginning of it, and the mark.
CutNewest ==
    /\ talkPc = "select" /\ next > 0 /\ ~FitsCap(next) /\ kept = {}
    /\ kept' = {next}
    /\ cutLen' = AtLeastOne(MaxTalkChars - total - 1) + Mark
    /\ talkPc' = "done"
    /\ UNCHANGED <<comment, written, pageVars, fetched, next, total>>

StopSelecting ==
    /\ talkPc = "select" /\ next > 0 /\ ~FitsCap(next) /\ kept # {}
    /\ talkPc' = "done"
    /\ UNCHANGED <<comment, written, pageVars, fetched, next, kept, total, cutLen>>

Selected ==
    /\ talkPc = "select" /\ next = 0
    /\ talkPc' = "done"
    /\ UNCHANGED <<comment, written, pageVars, fetched, next, kept, total, cutLen>>

TalkNext ==
    \/ Write \/ FetchPage \/ FetchEndpoint \/ EndpointFails \/ Sort
    \/ KeepEntry \/ CutNewest \/ StopSelecting \/ Selected

TalkSpec == TalkInit /\ [][TalkNext]_talkVars

-----------------------------------------------------------------------------
TalkTypeOK ==
    /\ comment \in [Comments -> TalkKinds]
    /\ written \in Comments \cup {0}
    /\ endpoint \in 1..(Len(Kinds) + 1)
    /\ page \in 1..MaxPages
    /\ results \in Seq(Comments)
    /\ known \in [{Kinds[i] : i \in DOMAIN Kinds} -> Comments \cup {0}]
    /\ answered \subseteq {Kinds[i] : i \in DOMAIN Kinds}
    /\ fetched \in Seq(Comments)
    /\ next \in 0..Len(fetched)
    /\ kept \subseteq 1..Len(fetched)
    /\ total \in 0..MaxTalkChars
    /\ cutLen \in Nat
    /\ talkPc \in {"fetch", "select", "done"}

\* d is later in time than c; without a time it counts as the latest.
Later(d, c) ==
    IF comment[d].dated = comment[c].dated THEN d > c ELSE comment[c].dated

Shown == {fetched[i] : i \in kept}

\* No comment is shown while a later one is not that was there when its endpoint was
\* asked: the ten pages, the shifts between them and the cap all cost the oldest.
\* Across endpoints this needs all of a kind's comments to fit ten pages, for
\* reviews always, since they are not asked for newest first
\* (github_app_client.py:527-542 and 573).
LatestShown ==
    talkPc = "done" =>
      \A c \in Shown, d \in Comments :
        LET k == comment[d].kind IN
        (/\ comment[d].usable /\ k \in answered /\ d <= known[k] /\ Later(d, c)
         /\ \/ Cardinality(OfKind(k)) <= MaxPages * PageSize
            \/ comment[c].kind = k /\ k # "review")
        => d \in Shown

\* The selection stops at the first entry without room and not before: it holds an
\* entry if there is one, everything after its oldest, and the next older one would
\* not have fitted.  Entries shown whole keep to the cap; the newest is cut only
\* when it would not fit whole, is shown alone, and is cut no further than the cap
\* asks: with the mark on top it does not keep to the cap, which is not what the
\* docstring says (gemini_prompt.py:312-314 and 333-351).
SelectionFills ==
    talkPc = "done" =>
      /\ fetched # <<>> => kept # {}
      /\ \A i \in kept : \A j \in i..Len(fetched) : j \in kept
      /\ \A j \in DOMAIN fetched \ kept :
           (j + 1 \in kept /\ cutLen = 0) => total + EntryLen(j) > MaxTalkChars
      /\ cutLen = 0 => total <= MaxTalkChars
      /\ cutLen # 0 => /\ kept = {Len(fetched)}
                       /\ EntryLen(Len(fetched)) > MaxTalkChars
                       /\ cutLen - Mark >= MaxTalkChars - 1

=============================================================================
