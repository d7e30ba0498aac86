\* One gateway on the node, and an application that reuses its ports.
SPECIFICATION Spec
CONSTANTS
    Pods <- MCPods
    Gateways = {"10.0.0.1"}
    Procs <- ProcsLone
    Info <- InfoLone
    Main <- MainA
    InitProcs = {"app"}
    Cookies = {1, 2, 3}
    KeySpace = 8
    BigEndian = FALSE
    Ports = {p1, p2}
    Dests <- DestsTwo
    PodCidr <- MCPodCidr
    MapSize = 3
    Tracking = {}
    Mode = "copy"
    None = None
INVARIANTS TypeOK RightTarget PortLeadsToOwner IInv
PROPERTIES RedirectionSpec AllCaptured
SYMMETRY PortSymmetry
CONSTRAINT InOrder
CHECK_DEADLOCK FALSE
