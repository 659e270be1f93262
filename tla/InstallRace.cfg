CONSTANTS
    Windows = {w1, w2}
    Newest = 2
    Released = 1
    Cached = {}
    InPath = FALSE
    Modes = {"auto", "off"}
    Faulty = FALSE
    Kills = FALSE
    Locking = FALSE
    MaxRuns = 3
SPECIFICATION Spec
INVARIANTS StartFinds
\* The activations are bounded.
CHECK_DEADLOCK FALSE
