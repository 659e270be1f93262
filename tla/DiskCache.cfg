\* Two files, one of them watched, two loaders.
CONSTANTS
    Paths = {map, lib}
    Watched = {map}
    Loaders = {l1, l2}
    Worlds <- MCWorlds
    MaxRev = 2
SPECIFICATION Spec
SYMMETRY Symmetry
INVARIANTS NoFalseHit LoadNotOlderThanStart DropHonoured
\* Files deleted at the bound leave nothing to load.
CHECK_DEADLOCK FALSE
