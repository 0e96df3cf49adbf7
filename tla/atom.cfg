SPECIFICATION Spec
CONSTANTS
    Versions <- AllVersions
    RootAttrs <- Bases
    FeedShapes <- FeedElements
    EntryAttrs <- EntryBases
    EntryShapes <- AtomShapes
    MaxItems = 2
    MaxNodes = 4
INVARIANTS
    ItemsKeepToThemselves
    SummaryStandsIn
    TypeBelongsToText
    DateDoesNotDependOnOrder
    LinksByRelation
    LinkUsesNearestBase
CHECK_DEADLOCK FALSE
