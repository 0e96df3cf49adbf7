SPECIFICATION Spec
CONSTANTS
    p1 = p1  p2 = p2  p3 = p3  i1 = i1  i2 = i2
    NULL = NULL
    JUNK = JUNK
    Processes <- TwoProcesses
    Inodes <- OneInode
SYMMETRY Symmetry
INVARIANTS
    PidZeroMeansFailure
