\* Three replicas, one election per replica (terms 0 and 1).
CONSTANTS
    n1 = n1
    n2 = n2
    n3 = n3
    Nil = Nil
    Node <- MCNode
    ElectionTimeout = 1
    MaxTerm = 1
SYMMETRY Symmetry
SPECIFICATION Spec
INVARIANT VoteOncePerTerm
INVARIANT LeaderElectedByQuorum
PROPERTY VotingRefined
PROPERTY LeaderStepsDownOnHigherTerm
\* Only the term bound stops the model: a candidate at MaxTerm cannot
\* start another round.
CHECK_DEADLOCK FALSE
