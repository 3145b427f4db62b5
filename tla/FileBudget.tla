------------------------------ MODULE FileBudget ------------------------------
(***************************************************************************)
(* FileDumpCollector.collect: the files git lists are taken by priority    *)
(* until the token budget is used up, and what was left out decides        *)
(* whether the engine reviews the whole code base or the diff only.        *)
(***************************************************************************)
EXTENDS Integers, FiniteSets, Functions

CONSTANTS
    Paths,        \* file names, as numbers in the order sorted() gives them
    FileKinds,    \* the sorts of file a repository is made of, members of Files
    MaxFileChars, \* budget.max_chars()
    FileMax,      \* _file_max_bytes
    DataMax,      \* _data_file_max_bytes
    Framing       \* len(rel_path) + 32

\* listed: "plain", "quoted" when ls-files quotes the name (core.quotepath: it is
\* not plain ASCII), "deleted" when the pull request removes the file, "no_file" for
\* a submodule or a link that leads nowhere.  named: what the directory, name and
\* suffix say, "config" being the important data files.
Files ==
    [listed : {"plain", "quoted", "deleted", "no_file"}, changed : BOOLEAN,
     core : BOOLEAN, named : {"source", "data", "config", "excluded"},
     bytes : Nat, chars : Nat, readable : BOOLEAN]

ASSUME PathsNat == Paths \subseteq Nat /\ IsFiniteSet(Paths)
ASSUME KindsAreFiles == FileKinds \subseteq Files
ASSUME SizesNat == /\ MaxFileChars \in Nat /\ Framing \in Nat
                   /\ FileMax \in Nat /\ DataMax \in Nat

VARIABLES
    tree,           \* the repository and what the pull request changes in it
    todo,           \* the listed paths the loop has not reached
    entries,        \* paths of dump.entries
    filteredOut,    \* filtered_out
    budgetExcluded, \* budget_excluded
    totalChars,     \* total_chars
    engineMode      \* "none" until the use case chooses, then "full" | "diff"

dumpVars == <<tree, todo, entries, filteredOut, budgetExcluded, totalChars, engineMode>>

Changed == {p \in Paths : tree[p].changed}

\* The names ls-files prints that are names of changed files.
KnownChanged == {p \in Changed : tree[p].listed # "quoted"}

\* Mutant: changed files are not put first.
RankCoreFirst(p) == IF tree[p].core /\ tree[p].listed # "quoted" THEN 1 ELSE 2

\* rank of _sort_by_priority; a quoted name starts with a quotation mark.
Rank(p) ==
    IF p \in KnownChanged THEN 0
    ELSE IF tree[p].core /\ tree[p].listed # "quoted" THEN 1 ELSE 2

Before(p, q) == Rank(p) < Rank(q) \/ (Rank(p) = Rank(q) /\ p < q)

\* Path.is_file of the name as ls-files printed it.
IsFile(p) == tree[p].listed = "plain"

ShouldSkip(f) ==
    \/ f.named = "excluded"
    \/ f.named = "data" /\ f.bytes > DataMax
    \/ f.bytes > FileMax

Reviewable(f) == ~ShouldSkip(f) /\ f.readable

EntryChars(f) == f.chars + Framing

Fits(f) == totalChars + EntryChars(f) <= MaxFileChars

DumpInit ==
    /\ tree \in [Paths -> FileKinds]
    /\ todo = {p \in Paths : tree[p].listed # "deleted"}
    /\ entries = {}
    /\ filteredOut = {}
    /\ budgetExcluded = {}
    /\ totalChars = 0
    /\ engineMode = "none"

-----------------------------------------------------------------------------
\* The loop comes to p.
Reach(p) ==
    /\ p \in todo
    /\ \A q \in todo \ {p} : Before(p, q)
    /\ todo' = todo \ {p}
    /\ UNCHANGED <<tree, engineMode>>

PassOver(p) ==
    /\ Reach(p)
    /\ ~IsFile(p)
    /\ UNCHANGED <<entries, filteredOut, budgetExcluded, totalChars>>

\* Skipped by name or size, or not readable as UTF-8.
FilterOut(p) ==
    /\ Reach(p)
    /\ IsFile(p) /\ ~Reviewable(tree[p])
    /\ filteredOut' = filteredOut \cup {p}
    /\ UNCHANGED <<entries, budgetExcluded, totalChars>>

\* The loop goes on with the next file, which may be smaller.
Cut(p) ==
    /\ Reach(p)
    /\ IsFile(p) /\ Reviewable(tree[p]) /\ ~Fits(tree[p])
    /\ budgetExcluded' = budgetExcluded \cup {p}
    /\ UNCHANGED <<entries, filteredOut, totalChars>>

Include(p) ==
    /\ Reach(p)
    /\ IsFile(p) /\ Reviewable(tree[p]) /\ Fits(tree[p])
    /\ entries' = entries \cup {p}
    /\ totalChars' = totalChars + EntryChars(tree[p])
    /\ UNCHANGED <<filteredOut, budgetExcluded>>

\* dump.exceeded_budget
ExceededLimit ==
    \/ budgetExcluded \cap KnownChanged # {}
    \/ totalChars >= MaxFileChars

\* Mutant: every changed file without an entry is missing, deleted ones included.
ChangedCutByEntries == Changed \ entries # {}

\* _changed_missing
ChangedCut == Changed \cap budgetExcluded # {}

ChooseMode ==
    /\ engineMode = "none" /\ todo = {}
    /\ engineMode' = IF ExceededLimit /\ ChangedCut THEN "diff" ELSE "full"
    /\ UNCHANGED <<tree, todo, entries, filteredOut, budgetExcluded, totalChars>>

DumpNext ==
    \/ \E p \in Paths : PassOver(p) \/ FilterOut(p) \/ Cut(p) \/ Include(p)
    \/ ChooseMode

DumpSpec == DumpInit /\ [][DumpNext]_dumpVars

-----------------------------------------------------------------------------
DumpTypeOK ==
    /\ tree \in [Paths -> FileKinds]
    /\ todo \subseteq Paths
    /\ entries \subseteq Paths
    /\ filteredOut \subseteq Paths
    /\ budgetExcluded \subseteq Paths
    /\ totalChars \in Nat
    /\ engineMode \in {"none", "full", "diff"}

\* What the dump leaves out it had no room for, and what it holds fits: the greedy
\* loop neither exceeds the budget nor cuts a file the final dump has room for
\* (file_dump_collector.py:235-240).
NoRoomLeft ==
    /\ totalChars <= MaxFileChars
    /\ \A p \in budgetExcluded : totalChars + EntryChars(tree[p]) > MaxFileChars

\* No file takes a changed file's place: one is cut only when the changed files in
\* the dump leave it no room, however small the others are (the comment at
\* file_dump_collector.py:199-200).
ChangedFirst ==
    LET shown == entries \cap Changed
        chars == [p \in Paths |-> EntryChars(tree[p])]
    IN  \A p \in budgetExcluded \cap Changed :
          SumFunctionOnSet(chars, shown) + chars[p] > MaxFileChars

\* The engine reads the whole code base only if every changed file one can review is
\* in front of it, and the diff only if one was cut for want of room: a deleted
\* file, an image or a lock file does not switch the mode
\* (review_pr_use_case.py:98 and 205-225).  No changed file drops out of all lists but
\* one whose listed name is no file; a quoted name is none, though its file is there.
FullModeShowsChange ==
    LET wanted == {p \in Changed : IsFile(p) /\ Reviewable(tree[p])} IN
    /\ engineMode = "full" => wanted \subseteq entries
    /\ engineMode = "diff" => ~(wanted \subseteq entries)
    /\ engineMode # "none" =>
         \A p \in Changed : IsFile(p) => p \in entries \cup filteredOut \cup budgetExcluded

=============================================================================
