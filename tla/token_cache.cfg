SPECIFICATION Spec
CONSTANTS
    Callers = {c1, c2, c3}
    Life = 5
    Fallback = 4
    Margin = 1
    Delay = 1
    MaxTime = 10
    Skews <- SkewsDef
SYMMETRY Symmetry
INVARIANT RequestsAuthenticated
PROPERTIES HandedOutFresh RefreshedOnce
