SPECIFICATION PSpec
CONSTANTS
    p1 = p1  h1 = h1  d1 = d1  d2 = d2  u1 = u1  u2 = u2
    NULL = NULL
    Parsers <- OneParser
    Handles <- OneHandle
    Docs <- TwoDocs
    Times <- Versions1to3
    Etags <- Versions1to3
    Configured <- NoSettings
    Trees <- OneTree
    MaxChunks = 1
    Feeds <- TwoFeeds
    MaxClock = 3
    RedirectTimes <- OneRedirected
    StoreAfterEmpty <- OwnOnly
SYMMETRY DocSymmetry
INVARIANTS
    EmptyMeansNothingNew
    ValidatorsNotAhead
    
