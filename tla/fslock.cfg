SPECIFICATION Spec
CONSTANTS
    p1 = p1  p2 = p2  p3 = p3  i1 = i1  i2 = i2
    NULL = NULL
    JUNK = JUNK
    Processes <- ThreeProcesses
    Inodes <- TwoInodes
SYMMETRY Symmetry
VIEW View
INVARIANTS
    TypeOK
    MutualExclusion
    HolderIsNamed
PROPERTIES
    ImplementsLock
