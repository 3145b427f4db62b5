------------------------------ MODULE MCHistory ------------------------------
(* Instance of  ReviewHistory: two lines, two texts, answers of one or two    *)
(* findings.                                                                  *)
EXTENDS ReviewHistory

CONSTANTS p, q, x, y

TwoLines == {1, 2}
Shifts == {<<x, x>>, <<y, x>>}
TwoCores == {p, q}
Shrinking == [c \in Commits |-> IF c % 2 = 1 THEN Lines ELSE {1}]

Finding(l, s, m, c, f) ==
    [line |-> l, sev |-> s, marks |-> m, core |-> c, flaw |-> f]

\* The same assertion in every round.
SameAlarm == {[event |-> "REQUEST_CHANGES",
               findings |-> <<Finding(1, "Major", 0, p, "none")>>]}

\* The same assertion on either of two lines.
EitherLine == SameAlarm
    \cup {[event |-> "REQUEST_CHANGES",
           findings |-> <<Finding(2, "Critical", 0, p, "none")>>]}

\* Any event with a finding that is flawed, unusable, untagged or sound, and
\* two findings of which one is a phantom and one outside the pull request.
AllSorts == EitherLine
    \cup {[event |-> e, findings |-> <<Finding(l, s, 0, p, f)>>] :
            e \in {"APPROVE", "REQUEST_CHANGES"}, l \in {0, 1},
            s \in {"Major", "untagged"}, f \in Flaws}
    \cup {[event |-> "REQUEST_CHANGES",
           findings |-> <<Finding(1, "Major", 0, p, "phantom"),
                          Finding(2, "Major", 0, q, "unknown_path")>>]}
=============================================================================
