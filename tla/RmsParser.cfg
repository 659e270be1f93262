\* The walk, the comment scan and the values, each over its bounded inputs.
CONSTANTS
    Scripts <- MCScripts
    Files <- MCFiles
    MaxTokens = 6
SPECIFICATION MCSpec
INVARIANTS
    LinesKept AttributesFollowTheirCommand CleanIffWellNested
    ArgAtExact OutlineExact SelectionGrows CommentsCoverOnce ValuesExact
PROPERTY TerminatorSeen
\* A file ends.
CHECK_DEADLOCK FALSE
