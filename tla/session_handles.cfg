SPECIFICATION Spec
CONSTANTS
    p1 = p1  p2 = p2  h1 = h1  d1 = d1  d2 = d2  NULL = NULL
    Parsers <- TwoParsers
    Handles <- OneHandle
    Docs <- NoValue
    Times <- TwoValues
    Etags <- OneValue
    Configured <- TwoConfigured
    Trees <- NoValue
    MaxChunks = 1
VIEW HandleView
INVARIANTS
    RequestIsOwn
    CallbacksReachOwnFrame
    NoFreedHeaderList
    NothingLeaksOnReturn
    OwnTimeCondition
    ConfigurationWins
