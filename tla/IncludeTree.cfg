\* Every small workspace, limits within reach, cancellation.
CONSTANTS
    AltSpelling = AltSpelling
    Untitled = Untitled
    NoPath = NoPath
    Paths <- MCPaths
    Dirs <- MCDirs
    Uris <- MCUris
    Args <- MCArgs
    PathOf <- MCPathOf
    UriOf <- MCUriOf
    DirOf <- MCDirOf
    Join <- MCJoin
    Within <- MCWithin
    Scripts <- MCScripts
    Creatable <- MCCreatable
    Root <- MapM
    Open = {}
    Roots <- OneRoot
    Unreadable <- MapS
    Cancels = TRUE
    MaxDepth = 2
    MaxFiles = 3
    MaxDirectives = 2
    Rich <- MCRich
SPECIFICATION FairSpec
INVARIANTS FilesOnce Complete DirectivesAccounted
PROPERTIES Terminates
\* The closure ends.
CHECK_DEADLOCK FALSE
