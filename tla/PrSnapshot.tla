------------------------------ MODULE PrSnapshot ------------------------------
(***************************************************************************)
(* GitHubAppClient.fetch_pull_request: reading the head commit and the     *)
(* pages of changed files of a pull request over separate requests while   *)
(* its author keeps pushing.  Each request sees GitHub's state at that     *)
(* moment; the client compares head SHAs around the pages and retries.     *)
(***************************************************************************)
EXTENDS Integers, Sequences

CONSTANTS
    Shas,        \* commits the author may push
    FirstSha,    \* the head when the webhook job starts
    Pages,       \* number of non-empty pages of /files under each head
    LastFull,    \* whether the last of them holds 100 files, the page size
    MaxAttempts  \* _MAX_FETCH_ATTEMPTS

ASSUME FirstShaIsSha == FirstSha \in Shas
ASSUME PagesType == Pages \in [Shas -> Nat]
ASSUME LastFullType == LastFull \in [Shas -> BOOLEAN]
ASSUME MaxAttemptsPositive == MaxAttempts \in Nat \ {0}

VARIABLES
    head,      \* GitHub: the head commit of the pull request
    seen,      \* the head at the client's last GET /pulls/{n} (history)
    missed,    \* in this attempt the head left it and came back unseen (history)
    pc,        \* the request the client sends next, or how the call ended
    attempt,   \* loop counter
    initial,   \* initial_sha
    page,      \* page number in _fetch_files_for_pr
    served,    \* the commit under which the page just received was computed
    files,     \* accumulated pages: commit and number of each
    midPage    \* last_mid_pagination_exc is not None

vars == <<head, seen, missed, pc, attempt, initial, page, served, files, midPage>>

Running == pc \in {"pull", "page", "check", "recheck"}

Init ==
    /\ head = FirstSha
    /\ seen = FirstSha
    /\ missed = FALSE
    /\ pc = "pull"
    /\ attempt = 1
    /\ initial = FirstSha
    /\ page = 1
    /\ served = FirstSha
    /\ files = <<>>
    /\ midPage = FALSE

\* What /files returns for page p while the head is s.
PageKind(s, p) ==
    IF p > Pages[s] THEN "empty"
    ELSE IF p = Pages[s] /\ ~LastFull[s] THEN "short"
    ELSE "full"

\* The page list of a commit, as one consistent answer would give it.
WholeList(s) == [p \in 1..Pages[s] |-> [sha |-> s, page |-> p]]

-----------------------------------------------------------------------------
Push ==
    /\ Running
    /\ \E s \in Shas \ {head} :
         /\ head' = s
         /\ missed' = (missed \/ s = seen)
    /\ UNCHANGED <<seen, pc, attempt, initial, page, served, files, midPage>>

\* GET /pulls/{n} at the top of an attempt that has no pr_data to reuse.
GetPull ==
    /\ pc = "pull"
    /\ initial' = head
    /\ seen' = head
    /\ missed' = FALSE
    /\ page' = 1
    /\ files' = <<>>
    /\ midPage' = FALSE
    /\ pc' = "page"
    /\ UNCHANGED <<head, attempt, served>>

\* GET /files?page=n; an empty page ends the loop before any check.
GetPage ==
    /\ pc = "page"
    /\ served' = head
    /\ pc' = IF PageKind(head, page) = "empty" THEN "recheck" ELSE "check"
    /\ UNCHANGED <<head, seen, missed, attempt, initial, page, files, midPage>>

\* Mutant: the attempt that saw the head move mid-way is not counted.
RestartUncounted ==
    /\ midPage' = TRUE
    /\ pc' = "pull"
    /\ UNCHANGED <<attempt, initial, page, files>>

\* _HeadShaChangedMidFetch: the next attempt starts from a new GET /pulls/{n}.
RestartMidPage ==
    /\ midPage' = TRUE
    /\ IF attempt < MaxAttempts
       THEN attempt' = attempt + 1 /\ pc' = "pull"
       ELSE pc' = "kept_changing" /\ UNCHANGED attempt
    /\ UNCHANGED <<initial, page, files>>

\* The page is accumulated; a short one is the last.
AddPage ==
    /\ files' = Append(files, [sha |-> served, page |-> page])
    /\ IF PageKind(served, page) = "full"
       THEN page' = page + 1 /\ pc' = "page"
       ELSE pc' = "recheck" /\ UNCHANGED page
    /\ UNCHANGED <<attempt, initial, midPage>>

\* Mutant: the head is read after a page and not compared.
CheckHeadTrusting ==
    /\ pc = "check"
    /\ seen' = head
    /\ AddPage
    /\ UNCHANGED <<head, missed, served>>

\* GET /pulls/{n} after a page, before it is accumulated.
CheckHead ==
    /\ pc = "check"
    /\ seen' = head
    /\ IF head # initial THEN RestartMidPage ELSE AddPage
    /\ UNCHANGED <<head, missed, served>>

\* GET /pulls/{n} after the last page: done if the head is still the same, or
\* else the next attempt reuses this answer as its pr_data.
Recheck ==
    /\ pc = "recheck"
    /\ seen' = head
    /\ IF head = initial
       THEN pc' = "done" /\ UNCHANGED <<missed, attempt, initial, page, files>>
       ELSE /\ initial' = head
            /\ missed' = FALSE
            /\ page' = 1
            /\ files' = <<>>
            /\ IF attempt < MaxAttempts
               THEN attempt' = attempt + 1 /\ pc' = "page"
               ELSE pc' = "kept_changing" /\ UNCHANGED attempt
    /\ UNCHANGED <<head, served, midPage>>

\* Any request may fail; nothing catches the exception on the way out.
RequestFails ==
    /\ Running
    /\ pc' = "error"
    /\ UNCHANGED <<head, seen, missed, attempt, initial, page, served, files, midPage>>

Client == GetPull \/ GetPage \/ CheckHead \/ Recheck \/ RequestFails

Finished == ~Running /\ UNCHANGED vars

Next == Push \/ Client \/ Finished

Spec == Init /\ [][Next]_vars

\* Requests return or time out (urlopen's timeout), so the client moves on.
FairSpec == Spec /\ WF_vars(Client)

-----------------------------------------------------------------------------
TypeOK ==
    /\ head \in Shas
    /\ seen \in Shas
    /\ missed \in BOOLEAN
    /\ pc \in {"pull", "page", "check", "recheck", "done", "kept_changing", "error"}
    /\ attempt \in 1..MaxAttempts
    /\ initial \in Shas
    /\ page \in Nat \ {0}
    /\ served \in Shas
    /\ files \in Seq([sha : Shas, page : Nat])
    /\ midPage \in BOOLEAN

\* The pull request handed to the review has every page of its head commit's files
\* and no page of another's, whatever was pushed in between, forwards or back.  The
\* one exception: between two consecutive GET /pulls/{n} of the attempt that returned,
\* the head moved away and back again, which no comparison can see
\* (fetch_pull_request, _fetch_files_for_pr).
SnapshotWhole == pc = "done" /\ ~missed => files = WholeList(initial)

\* The fetch ends, also under an endless series of pushes.
FetchEnds == <>(~Running)
=============================================================================
