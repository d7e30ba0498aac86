\* Plain text: the server closes.
SPECIFICATION FairSpec
CONSTANTS
    Conns = {c1}
    Mode = "copy"
    MaxBytes = 0
    Refusing = {}
PROPERTIES ServerCloseArrives
CHECK_DEADLOCK FALSE
