\* Two replicas, three terms, two polls per election timeout.
CONSTANTS
    n1 = n1
    n2 = n2
    Nil = Nil
    Node <- MCNode
    ElectionTimeout = 2
    MaxTerm = 3
SPECIFICATION FairSpec
INVARIANT TypeOK
PROPERTY RoundsComplete
\* Only the term bound stops the model: a candidate at MaxTerm cannot
\* start another round.
CHECK_DEADLOCK FALSE
