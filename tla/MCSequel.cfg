CONSTANTS
    Addresses = {a1, a2}
    Messages = {m1, m2}
    Bundles = {b1, b2, b3}
    Patterns = {"/p"}
    Tags = {i}
    TimeTags = {now, imm}
    LO_TT_IMMEDIATE = imm
    NULL = NULL
    MaxArgs = 1
    Sequels = TRUE
SPECIFICATION CSpec
INVARIANT CallsSucceed
CHECK_DEADLOCK FALSE
