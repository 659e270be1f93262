\* A serial connection, a client that pushes the section it changed.
CONSTANTS
    main = main
    lib = lib
    Docs <- MCDocs
    Includes <- MCIncludes
    Openable = {main, lib}
    Slots = {h1}
    Client = "generic"
    Malformed = {1}
    Panicky = {lib}
    MaxFaults = 1
    MaxClock = 3
    MaxConfig = 2
    MaxQueue = 3
    MaxOpens = 2
SPECIFICATION FairSpec
INVARIANTS CurrentAtRest
PROPERTIES RefinesDiagView CatchesUp
\* Every edit is bounded: the session ends at rest.
CHECK_DEADLOCK FALSE
