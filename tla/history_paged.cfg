SPECIFICATION Spec
CONSTANTS
    p = p
    q = q
    x = x
    y = y
    MaxPushes = 2
    MaxReviews = 2
    MaxPages = 2
    MaxShift = 1
    Lines <- TwoLines
    Versions <- Shifts
    Cores <- TwoCores
    Addable <- Shrinking
    Answers <- SameAlarm
INVARIANT AtMostOneReply
CHECK_DEADLOCK FALSE
