\* A write is cut inside a character: no read of the file succeeds any more.
CONSTANTS
    Writers = {w1}
    Caps = {0}
    Lengths = {3}
    Extras = {0, 1}
    None = None
    Torn = Torn
    Split = Split
    MaxRecords = 3
    MaxTears = 1
SPECIFICATION Spec
INVARIANT ReadsAnswer
