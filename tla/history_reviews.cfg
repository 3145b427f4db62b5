SPECIFICATION Spec
CONSTANTS
    p = p
    q = q
    x = x
    y = y
    MaxPushes = 2
    MaxReviews = 3
    MaxPages = 2
    MaxShift = 1
    Lines <- TwoLines
    Versions <- Shifts
    Cores <- TwoCores
    Addable <- Shrinking
    Answers <- AllSorts
INVARIANTS TypeOK NoRepeatedAlarm EventFitsFindings AnchoredWhereReviewed
PROPERTIES NoSecondFollowUp ChangedLinesAnswered
CHECK_DEADLOCK FALSE
