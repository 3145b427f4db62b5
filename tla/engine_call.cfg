SPECIFICATION Spec
CONSTANTS
    m1 = m1
    m2 = m2
    m3 = m3
    padded1 = padded1
    blank = blank
    Settings <- MCSettings
    Strip <- MCStrip
    Blank = blank
    MaxFallbacks = 3
    Starts <- MCStarts
    MaxPatch = 5
    Paths <- MCPaths
    FileKinds <- MCFileKinds
    MaxFileChars = 6
    FileMax = 4
    DataMax = 3
    Framing = 1
    Comments <- MCComments
    TalkKinds <- MCTalkKinds
    PageSize = 1
    MaxPages = 2
    MaxTalkChars = 6
    Mark = 3
INVARIANTS
    TypeOK
    LabelsTrue
    LabelsAddable
    ChangedFirst
    FullModeShowsChange
    LatestShown
    
    NotGivenUpEarly
    FirstToAnswerIsNamed
CHECK_DEADLOCK FALSE
