\* The VS Code client, which pushes no settings.
CONSTANTS
    main = main
    lib = lib
    Docs <- MCDocs
    Includes <- MCIncludes
    Openable = {main, lib}
    Slots = {h1}
    Client = "vscode"
    Malformed = {}
    Panicky = {}
    MaxFaults = 0
    MaxClock = 2
    MaxConfig = 2
    MaxQueue = 2
    MaxOpens = 2
SPECIFICATION Spec
INVARIANTS SettingsApplied
\* Every edit is bounded: the session ends at rest.
CHECK_DEADLOCK FALSE
