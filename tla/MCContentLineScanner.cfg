SPECIFICATION Spec
CONSTANTS
    Octets = {" ", "a", "b", "c", "d"}
    WSP = " "
    MaxOctets = 3
    Written <- MCWritten
    Raw <- MCRaw
    MaxFailures = 1
INVARIANTS
    NothingLost
    RoundTrip
CHECK_DEADLOCK FALSE
