SPECIFICATION Spec

CONSTANTS
    NArtifacts = 2
    Existing = {2}
    NActions = 2
    MaxCrashes = 1
    MaxEdits = 2
    Faults = {"io"}

INVARIANTS
    AllOrNone

PROPERTIES
    SeenEditSurvives

CHECK_DEADLOCK FALSE
