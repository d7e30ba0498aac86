\* Two pods of one namespace, one of another; any two failures.
SPECIFICATION Spec
CONSTANTS
    p1 = p1
    p2 = p2
    p3 = p3
    a = a
    b = b
    Namespaces = {a, b}
    Pods <- ThreePods
    Namespace <- TwoInA
    Faults = {"get", "account", "bind", "token", "secret", "load", "crash"}
    MaxFaults = 2
    Empty = Empty
    None = None
INVARIANTS TypeOK OwnToken EmptyHasCause TokenIsKept
CHECK_DEADLOCK FALSE
