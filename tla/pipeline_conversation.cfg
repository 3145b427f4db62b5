SPECIFICATION Spec
CONSTANTS
    f = f
    g = g
    other = other
    Files <- MCFiles
    OtherFile = other
    Lines <- MCLines
    MaxFindings = 2
    Endpoints = 3
    MaxPrompt = 3
INVARIANT ConversationNeverStopsReview
