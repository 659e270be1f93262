\* A document open under another spelling of its URI.
CONSTANTS
    AltSpelling = AltSpelling
    Untitled = Untitled
    NoPath = NoPath
    Paths <- MCPaths
    Dirs <- MCDirs
    Uris <- MCUris
    Args <- MCArgs
    PathOf <- MCPathOf
    UriOf <- MCUriOf
    DirOf <- MCDirOf
    Join <- MCJoin
    Within <- MCWithin
    Scripts <- MCScripts
    Creatable <- MCCreatable
    Root <- MapM
    Open = {AltSpelling}
    Roots <- NoRoots
    Unreadable = {}
    Cancels = FALSE
    MaxDepth = 4
    MaxFiles = 5
    MaxDirectives = 1
    Rich <- MCRich
SPECIFICATION Spec
INVARIANTS EditorWins
\* The closure ends.
CHECK_DEADLOCK FALSE
