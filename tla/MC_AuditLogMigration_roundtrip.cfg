\* An upgrade followed by a downgrade.
CONSTANT MaxRuns = 2
SPECIFICATION Spec
INVARIANT RoundTripRestoresSchema
CHECK_DEADLOCK FALSE
