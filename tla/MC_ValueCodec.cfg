CONSTANTS
    Samples <- MC_Samples
    MaxYield = 3

SPECIFICATION Spec

\* A value is encoded, decoded and walked once; then it is done.
CHECK_DEADLOCK FALSE

INVARIANT TypeOK
INVARIANT ValueRoundTrip
INVARIANT IterYieldsAll
PROPERTY IterTerminates
