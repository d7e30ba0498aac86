\* Liveness: one gateway, an application, a worker it forks and another pod.
SPECIFICATION FairSpec
CONSTANTS
    Pods <- MCPods
    Gateways = {"10.0.0.1"}
    Procs <- ProcsOneNode
    Info <- InfoOneNode
    Main <- MainA
    InitProcs = {"app"}
    Cookies = {1, 2}
    KeySpace = 8
    BigEndian = FALSE
    Ports = {p1, p2}
    Dests <- DestsOut
    PodCidr <- MCPodCidr
    MapSize = 2
    Tracking = {}
    Mode = "copy"
    None = None
PROPERTIES Served
CHECK_DEADLOCK FALSE
