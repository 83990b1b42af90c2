SPECIFICATION MCSpec
CONSTANTS
    SEC = 3
    FRAC = 8
    MS = 5
    Delays <- MCDelays
    MaxAdds = 3
    Messages = {m1, m2}
    Contents <- MCContents
    MaxCopies = 2
    None = None
    CHAR = 4
    INT = 8
    FLOAT <- MCFloat
    DOUBLE <- MCDouble
INVARIANT AddsWhatWasAsked
CHECK_DEADLOCK FALSE
