\* Connections of before the start - one that keeps talking, one on an IPv6 socket and one
\* within the pod - and one that has the addresses and ports of the first after it.
SPECIFICATION Spec
CONSTANTS
    o1 = o1
    m1 = m1
    l1 = l1
    n1 = n1
    Old = {o1, m1, l1}
    Conns = {o1, m1, l1, n1}
    Talkers = {o1, m1, l1}
    Mapped = {m1}
    Loopback = {l1}
    Tuple <- Tuples
    Listener = listener
    Faults = {"list", "open", "send", "dump", "destroy", "load"}
    MaxFaults = 1
INVARIANTS TypeOK DoneMeansCut
PROPERTIES FlushHasCause OldIsCut
CHECK_DEADLOCK FALSE
