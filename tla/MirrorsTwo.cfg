\* Two gateways on the node, whose pods have the same pids; connections are tracked in
\* both pods, so the kernel answers about what nobody has recorded.
SPECIFICATION Spec
CONSTANTS
    Pods <- MCPods
    Gateways = {"10.0.0.1", "10.0.0.2"}
    Procs <- ProcsReplicas
    Info <- InfoReplicas
    Main <- MainAB
    InitProcs = {"app", "server"}
    Cookies = {1, 2}
    KeySpace = 8
    BigEndian = FALSE
    Ports = {p1, p2}
    Dests <- DestsFar
    PodCidr <- CidrFar
    MapSize = 2
    Tracking = {"10.0.0.1", "10.0.0.2"}
    Mode = "tls"
    None = None
INVARIANTS NoSelfProxy RightTargetApart
SYMMETRY PortSymmetry
CONSTRAINTS InOrder GatewaysInOrder
CHECK_DEADLOCK FALSE
