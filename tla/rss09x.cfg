SPECIFICATION Spec
CONSTANTS
    ChannelShapes <- AllChannelShapes
    ItemShapes <- AllItemShapes
    RootNamespaces <- BothNamespaces
    MaxItems = 2
    MaxNodes = 4
INVARIANTS
    ItemsKeepToThemselves
    ForeignElementsIgnored
    DateDoesNotDependOnOrder
    AuthorDoesNotDependOnOrder
    EnclosureIsWhole
    GuidSaysWhetherLink
CHECK_DEADLOCK FALSE
