\* Every list of up to three kernel statuses (13 statuses).
CONSTANTS
    MaxKernels = 3
    None = None
SPECIFICATION Spec
INVARIANT AggregateMatchesReference
