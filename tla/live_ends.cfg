\* One persona, one viewer, under fairness.
CONSTANTS
    p1 = p1
    p2 = p2
    v1 = v1
    Personas <- OnePersona
    Viewers <- OneViewer
    NoPersona = NoPersona
    BufferSize = 3
    MaxSteps = 2
    MaxDenials = 1
SPECIFICATION FairSpec
PROPERTIES
    ViewerSeesEnd
    EndpointsReturn
CHECK_DEADLOCK FALSE
