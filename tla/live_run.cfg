\* Two personas, a viewer that joins and leaves at any time, a buffer that evicts.
CONSTANTS
    p1 = p1
    p2 = p2
    v1 = v1
    Personas <- TwoPersonas
    Viewers <- OneViewer
    NoPersona = NoPersona
    BufferSize = 5
    MaxSteps = 1
    MaxDenials = 1
SPECIFICATION Spec
INVARIANTS
    QueueIsSuffix
    FinishedIsLast
    ReportReady
    IInv
    JoinedLateSameGrid
    GridMatchesReport
SYMMETRY PersonaSymmetry
CHECK_DEADLOCK FALSE
