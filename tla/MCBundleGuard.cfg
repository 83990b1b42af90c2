CONSTANTS
    Addresses = {a1}
    Messages = {m1, m2}
    Bundles = {b1, b2, b3}
    Patterns = {"/p"}
    Tags = {i}
    TimeTags = {imm}
    LO_TT_IMMEDIATE = imm
    NULL = NULL
    MaxArgs = 1
SPECIFICATION Spec
INVARIANT RefusedWhenMidMessage
CHECK_DEADLOCK FALSE
