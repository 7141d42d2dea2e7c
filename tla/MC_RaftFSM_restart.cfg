\* Three replicas that may restart, one election per replica.
CONSTANTS
    n1 = n1
    n2 = n2
    n3 = n3
    Nil = Nil
    Node <- MCNode
    ElectionTimeout = 1
    MaxTerm = 1
SYMMETRY Symmetry
SPECIFICATION CrashSpec
INVARIANT VoteOncePerTerm
\* Only the term bound stops the model: a candidate at MaxTerm cannot
\* start another round.
CHECK_DEADLOCK FALSE
