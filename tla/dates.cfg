SPECIFICATION Spec
CONSTANTS
    c1 = c1  c2 = c2  c3 = c3
    Threads <- ThreeThreads
    DatesRead <- AllForms
    Std = 1
    Summer <- OneYear
    Seasons <- WinterSummer
VIEW View
SYMMETRY ThreadSymmetry
INVARIANTS
    InstantKept
    WallTimeKept
