CONSTANTS
    Addresses = {1}
    Messages = {2, 3}
    Bundles = {4, 5}
    Servers = {s1}
    TheObject = obj
    User = user
    NULL = NULL
    None = None
    StartMayFail = TRUE
    ErrorsHappen = TRUE
    MaxLost = 1
SPECIFICATION Spec
INVARIANTS RunsClean HandledAsWritten PollMissesNothing
PROPERTY MainReturns
CHECK_DEADLOCK FALSE
