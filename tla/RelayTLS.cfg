\* TLS between the gateways.
SPECIFICATION FairSpec
CONSTANTS
    Conns = {c1}
    Mode = "tls"
    MaxBytes = 2
    Refusing = {c1}
INVARIANTS TypeOK UpInOrder DownInOrder EndMeansComplete
PROPERTIES BytesArrive ServerCloseArrives HandlersReturn
CHECK_DEADLOCK FALSE
