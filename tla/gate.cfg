\* Invocations of sim in one directory, each of which may be stopped.
CONSTANTS
    Roster <- BundledRoster
    Channels <- BundledChannels
    MaxSteps <- BundledMaxSteps
    Agent = "ai-agent"
    Unit = 1680
    Radius = 70
    Flags <- AllFlags
    Sessions <- AllSessions
    Bars <- AllBars
    Margins = {0, 30}
    NoReport = NoReport
    Torn = Torn
    Elsewhere <- OtherReports
SPECIFICATION Spec
INVARIANTS
    TypeOK
    BlocksLossesOnly
    VerdictTraceable
    ViewsAgree
