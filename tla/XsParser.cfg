\* The scanner over sources, the parser and the lookups over files, navigation
\* over documents.
CONSTANTS
    Families <- MCFamilies
    Externals <- MCExternals
    Functions <- MCFunctions
    Constants <- MCConstants
    Sources <- MCSources
    Header <- MCHeader
    Pieces <- MCPieces
    MaxPieces = 3
    MaxChars = 4
SPECIFICATION MCSpec
INVARIANTS
    CallAtExact ChainsGrow DefinitionExact OffersWhatResolves ErrorsContained
    ReportsJustified TokensAgree
    ScanFaithful FormatFaithful NavigationAgrees
    ColumnsExact BlocksAgree
\* A file ends.
CHECK_DEADLOCK FALSE
