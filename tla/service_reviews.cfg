SPECIFICATION FairSpec
CONSTANTS
    p = p
    q = q
    r = r
    x = x
    Pulls <- MCPulls
    Repository <- OneRepository
    MaxEvents <- Events
    Alarms <- MCAlarms
INVARIANTS ReviewsGoForward AlarmOnce NoHeadForgotten
PROPERTY ReadyHeadReviewed
CHECK_DEADLOCK FALSE
