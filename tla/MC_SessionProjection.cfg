\* Every session row with up to three kernels (three ids, two roles) and
\* with or without a status history, and the absent row.
CONSTANTS
    k1 = k1
    k2 = k2
    k3 = k3
    main = main
    sub = sub
    h = h
    KernelId <- MCKernelId
    Role <- MCRole
    DEFAULT_ROLE = main
    History <- MCHistory
    MaxKernels = 3
    None = None
SPECIFICATION Spec
SYMMETRY Symmetry
INVARIANT ProjectionMatchesReference
