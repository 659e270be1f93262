\* Files of rule sections and of operands in groups, nothing else.
CONSTANTS
    Families <- MCChanged
    Externals <- MCExternals
    Functions <- MCFunctions
    Constants <- MCConstants
    Sources <- MCNoSource
    Header <- MCHeader
    Pieces <- MCPieces
    MaxPieces = 0
    MaxChars = 0
SPECIFICATION MCSpec
INVARIANT TreeKept
\* A file ends.
CHECK_DEADLOCK FALSE
