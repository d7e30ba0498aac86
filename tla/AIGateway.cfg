\* An application that waits for its answers; the policy is changed twice.
SPECIFICATION Spec
CONSTANTS
    Conns = {k1}
    Ahead = 1
    MaxRequests = 2
    Models = {1}
    Names = {1, 2, None}
    Words = {"w"}
    Docs <- MixedDocs
    Contents <- TwoChoices
    MaxEdits = 2
    Faults = {"client", "watch", "server"}
    MaxFaults = 1
    None = None
INVARIANTS TypeOK InForce AnswersInOrder
PROPERTIES FilterSpec Answered Followed
CHECK_DEADLOCK FALSE
