CONSTANTS
    n1 = n1
    n2 = n2
    n3 = n3
    Nil = Nil
    Node <- MCNode
    ElectionTimeout = 1
    MaxTerm = 1
SYMMETRY Symmetry
SPECIFICATION Spec
INVARIANT ElectionSafety
CHECK_DEADLOCK FALSE
