\* Two windows over one storage: failures, deaths in mid-install, a new release.
CONSTANTS
    Windows = {w1, w2}
    Newest = 2
    Released = 1
    Cached = {1}
    InPath = FALSE
    Modes = {"auto", "off"}
    Faulty = TRUE
    Kills = TRUE
    Locking = FALSE
    MaxRuns = 3
SPECIFICATION FairSpec
INVARIANTS AloneStartFinds WarmSurvives
PROPERTIES ActivationEnds
\* The activations are bounded.
CHECK_DEADLOCK FALSE
