CONSTANTS
    Servers = {s1, s2}
    Ports = {p1}
    Objects = {o1, o2}
    Datagrams = {d1, d2}
    User = user
    NULL = NULL
    MaxAttached = 2
    StartMayFail = TRUE
    ErrorsHappen = TRUE
SPECIFICATION Spec
SYMMETRY Symmetry
INVARIANTS TypeOK ThreadsAccounted SerialDispatch
PROPERTY StoppedIsQuiet
CHECK_DEADLOCK FALSE
