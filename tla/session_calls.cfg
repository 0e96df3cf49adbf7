SPECIFICATION FairSpec
CONSTANTS
    p1 = p1  p2 = p2  h1 = h1  d1 = d1  d2 = d2  NULL = NULL
    Parsers <- TwoParsers
    Handles <- OneHandle
    Docs <- TwoDocs
    Times <- NoValue
    Etags <- NoValue
    Configured <- Timeouts
    Trees <- AllTrees
    MaxChunks = 1
INVARIANTS
    TypeOK
    ResultFitsDocument
    DocumentsOwned
PROPERTIES
    FreedByItsOwner
    TimeoutEndsCall
