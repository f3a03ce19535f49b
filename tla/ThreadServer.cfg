CONSTANTS
    Jobs = {"j", "k"}
    Threads = {"t", "u"}
    Sizes <- MCSizes
    MaxRequests = 2
SPECIFICATION Spec
INVARIANTS OneWholeAnswer
PROPERTIES AnsweredUnlessBroken
CHECK_DEADLOCK FALSE
