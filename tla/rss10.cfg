SPECIFICATION Spec
CONSTANTS
    RootShapes <- Roots
    ChannelShapes <- InChannel
    ItemShapes <- InItem
    MaxNodes = 5
INVARIANTS
    FeedAndItemsApart
    ItemsKeepToThemselves
CHECK_DEADLOCK FALSE
