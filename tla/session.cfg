\* A session with a success predicate and a policy, four steps.
CONSTANTS
    Captions <- ClicksAndAnswer
    Answers <- SomeAnswers
    Spot <- SomeSpots
    NoSpot = "none"
    Verified = TRUE
    MaxSteps = 4
    Deadline = 4
    MaxActing = 1
    MaxDenials = 2
SPECIFICATION FairSpec
INVARIANTS
    TypeOK
    SuccessIsReal
    VerdictIsEarned
    OneShieldPerStep
PROPERTIES
    NoteIsKept
    SessionEnds
CHECK_DEADLOCK FALSE
