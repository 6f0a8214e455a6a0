SPECIFICATION LiveSpec
CONSTANTS
    MaxVisits = 2
    MaxEdits = 1
    MaxRequests = 2
    MaxStreams = 1
    Faults = {"answer", "stream", "redis", "session"}
    MaxFaults = 1
INVARIANTS
    SlotsAccounted
    StreamsFollowPage
    ShownIsLatest
    AtRestIsSaved
PROPERTIES
    NewerDraftSurvives
    
CHECK_DEADLOCK FALSE
