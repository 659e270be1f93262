\* Posts appear at any moment, also with the date of the last; jobs fail; the
\* page cap can bite.
CONSTANTS
    PageSize = 2
    MaxFeedPages = 2
    Patches = {1, 3, 4, 5}
    MaxPosts = 5
    MaxFailures = 2
SPECIFICATION FairSpec
INVARIANTS NothingSkipped
PROPERTIES ScanExact EventuallyReported
