\* Pods stay, and one call fails.
SPECIFICATION FairSpec
CONSTANTS
    Names = {n1, n2}
    Mortal = {}
    Wants = {{}, {"encrypt"}}
    MaxPods = 1
    Faults = {"secret", "update"}
    MaxFaults = 1
    None = None
PROPERTIES Served
CHECK_DEADLOCK FALSE
