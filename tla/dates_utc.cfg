SPECIFICATION Spec
CONSTANTS
    c1 = c1  c2 = c2  c3 = c3
    Threads <- TwoThreads
    DatesRead <- WinterDate
    Std = 0
    Summer <- OneYear
    Seasons <- WinterSummer
INVARIANTS
    TextIsUtc
