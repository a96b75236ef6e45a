\* After a rotation there are fewer records than tail --follow has seen.
CONSTANTS
    Writers = {w1}
    Caps = {6}
    Lengths = {3}
    Extras = {0}
    None = None
    Torn = Torn
    Split = Split
    MaxRecords = 5
    MaxTears = 0
SPECIFICATION Spec
INVARIANT FollowShowsNewest
