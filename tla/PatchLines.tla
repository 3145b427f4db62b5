------------------------------ MODULE PatchLines ------------------------------
(***************************************************************************)
(* diff_parser: the two functions that number the lines of a file's patch. *)
(* format_patch_with_line_numbers writes the numbers the model is told to  *)
(* quote, addable_lines_from_patch the set of numbers a comment may carry  *)
(* when the review is posted.  Each reads the patch by the first           *)
(* characters of the pieces that str.splitlines makes of it.               *)
(***************************************************************************)
EXTENDS Integers, Sequences

CONSTANTS
    Starts,   \* new_start of hunk headers
    MaxPatch  \* bound: pieces of a patch

ASSUME StartsNat == Starts \subseteq Nat
ASSUME MaxPatchNat == MaxPatch \in Nat

\* What a piece is to git and GitHub: a header of a hunk, a line of the new file
\* (added or context), a line of the old file only, a line of neither, or the
\* rest of the line before it: git ends a line at "\n", splitlines at a form feed
\* or U+2028 as well.
Meanings == {"hunk", "right", "left", "meta", "rest"}

\* What the code takes it for: a line _HUNK_HEADER matches, "+++ " or "--- ", "+"
\* or " ", "-", others (among them an "@@" that is no header).
Readings == {"hunk", "header", "marked", "minus", "other"}

\* An added "++ x" and a removed "-- x" read as file headers; a rest reads as
\* whatever stands behind the separator, a hunk header with a start included.
Pieces ==
    {p \in [is : Meanings, reads : Readings, start : {0} \cup Starts] :
       /\ p.is = "hunk" => p.reads = "hunk"
       /\ p.reads = "hunk" => p.is \in {"hunk", "rest"}
       /\ p.reads # "hunk" => p.start = 0
       /\ p.is = "right" => p.reads \in {"marked", "header"}
       /\ p.is = "left" => p.reads \in {"minus", "header"}
       /\ p.is = "meta" => p.reads \in {"header", "other"}}

VARIABLES
    patch,    \* the pieces of the file's patch
    reader,   \* "format" | "addable" | "done": the function that runs
    piece,    \* index of the piece it reads next
    number,   \* new_line_no
    labels,   \* numbers written in front of pieces, as <<piece, number>>
    addable   \* the set addable_lines_from_patch returns

patchVars == <<patch, reader, piece, number, labels, addable>>

\* The line of the new file that piece i stands on, counted as GitHub does.
TrueNumber(p) ==
    LET n[i \in 0..Len(p)] ==
          IF i = 0 THEN 0
          ELSE IF p[i].is = "hunk" THEN p[i].start - 1
          ELSE IF p[i].is = "right" THEN n[i - 1] + 1
          ELSE n[i - 1]
    IN  n

\* The last hunk header before piece i, or 0.
HeaderOf(p, i) ==
    CHOOSE h \in 0..i : /\ h > 0 => p[h].is = "hunk"
                        /\ \A j \in (h + 1)..i : p[j].is # "hunk"

\* Patches as GitHub returns them: lines of a file only inside a hunk, a hunk with
\* new lines after the ones before it, and a rest after a line of a file.
WellFormed(p) ==
    \A i \in DOMAIN p :
      LET h == HeaderOf(p, i) IN
      /\ p[i].is \in {"right", "left"} => h > 0
      /\ p[i].is = "right" => p[h].start > TrueNumber(p)[h - 1]
      /\ p[i].is = "rest" => i > 1 /\ p[i - 1].is \in {"right", "left", "rest"}

PatchInit ==
    /\ \E n \in 0..MaxPatch : patch \in [1..n -> Pieces]
    /\ WellFormed(patch)
    /\ reader = "format"
    /\ piece = 1
    /\ number = 0
    /\ labels = {}
    /\ addable = {}

-----------------------------------------------------------------------------
\* new_line_no after the header of a hunk.
HunkStart(p) == p.start - 1

Numbered(p) == p.reads = "marked"

\* Mutant: the addable set takes "+++ x" for an added line.
AddableNumberedAll(p) == p.is = "right"

\* The branch of addable_lines_from_patch that counts a line.
AddableNumbered(p) == Numbered(p)

\* Mutant: a hunk header leaves the counter as it is.
FormatCountRunning(p) == number + (IF Numbered(p) THEN 1 ELSE 0)

\* new_line_no after a piece, in format_patch_with_line_numbers.
FormatCount(p) ==
    IF p.reads = "hunk" THEN HunkStart(p)
    ELSE number + (IF Numbered(p) THEN 1 ELSE 0)

\* ... and in addable_lines_from_patch.
AddableCount(p) ==
    IF p.reads = "hunk" THEN HunkStart(p)
    ELSE number + (IF AddableNumbered(p) THEN 1 ELSE 0)

FormatLine ==
    /\ reader = "format" /\ piece <= Len(patch)
    /\ LET p == patch[piece] IN
         /\ number' = FormatCount(p)
         /\ labels' = IF Numbered(p) THEN labels \cup {<<piece, number'>>} ELSE labels
    /\ piece' = piece + 1
    /\ UNCHANGED <<patch, reader, addable>>

FormatReturns ==
    /\ reader = "format" /\ piece > Len(patch)
    /\ reader' = "addable"
    /\ piece' = 1
    /\ number' = 0
    /\ UNCHANGED <<patch, labels, addable>>

AddableLine ==
    /\ reader = "addable" /\ piece <= Len(patch)
    /\ LET p == patch[piece] IN
         /\ number' = AddableCount(p)
         /\ addable' = IF AddableNumbered(p) THEN addable \cup {number'} ELSE addable
    /\ piece' = piece + 1
    /\ UNCHANGED <<patch, reader, labels>>

AddableReturns ==
    /\ reader = "addable" /\ piece > Len(patch)
    /\ reader' = "done"
    /\ UNCHANGED <<patch, piece, number, labels, addable>>

PatchNext == FormatLine \/ FormatReturns \/ AddableLine \/ AddableReturns

-----------------------------------------------------------------------------
PatchTypeOK ==
    /\ patch \in Seq(Pieces)
    /\ reader \in {"format", "addable", "done"}
    /\ piece \in 1..(Len(patch) + 1)
    /\ number \in Nat \cup {-1}
    /\ labels \subseteq (1..Len(patch)) \X Nat
    /\ addable \subseteq Nat

\* A piece the code misreads: a new line it does not count, a rest that it counts
\* or takes for the header of a hunk.
Misread(p) ==
    \/ (p.is = "right") # Numbered(p)
    \/ p.is = "rest" /\ p.reads = "hunk"

\* The number in front of a line is the line's number in the new file, unless an
\* earlier line of the same hunk was misread: an added line that starts with "++ "
\* or a separator of splitlines inside a line throws off the rest of its hunk and
\* no other (diff_parser.py:96-120).
LabelsTrue ==
    \A l \in labels :
      \/ l[2] = TrueNumber(patch)[l[1]]
      \/ \E j \in HeaderOf(patch, l[1])..l[1] : j > 0 /\ Misread(patch[j])

\* The numbers the model was shown are exactly the ones the review may be posted
\* on: what one of the two functions counts the other counts (the docstring at
\* diff_parser.py:87-89).
LabelsAddable == reader = "done" => addable = {l[2] : l \in labels}

=============================================================================
