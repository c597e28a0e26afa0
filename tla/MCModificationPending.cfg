SPECIFICATION Spec
CONSTANTS
    None = None
    NoText = NoText
    Unset = Unset
    Label = {"step", "yes"}
    Positive = {"yes"}
    Passed = "yes"
    Evidence = {"seed", "draft", "other", "unlicensed", "old"}
    Seed = {"seed"}
    Library <- MCLibrary
    TopK = 2
    MaxNodes = 6
    MaxEdges = 7
    MaxLanes = 2
    MaxGivenId = 10
    MaxRefs = 5
    MaxSteps = 2
    MaxOperations = 9
    MaxAttempts = 3
    InitialGraph <- MCInitialGraph
    ExternalPatch <- MCExternalPatch
INVARIANT NewItemsStayPending
CHECK_DEADLOCK FALSE
