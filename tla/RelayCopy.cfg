\* Plain text between the gateways.
SPECIFICATION Spec
CONSTANTS
    Conns = {c1}
    Mode = "copy"
    MaxBytes = 2
    Refusing = {c1}
INVARIANTS UpInOrder
CHECK_DEADLOCK FALSE
