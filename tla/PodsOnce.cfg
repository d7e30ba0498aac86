\* No name comes back; everything may fail.
SPECIFICATION Spec
CONSTANTS
    Names = {n1, n2}
    Mortal = {n1}
    Wants = {{"netflush"}, {"encrypt"}, {"encrypt", "netflush"}, {"blank"}}
    MaxPods = 1
    Faults <- AllFaults
    MaxFaults = 1
    None = None
INVARIANTS TypeOK EnabledMeansAttached GatewayWasAsked OwnCertificate
CHECK_DEADLOCK FALSE
