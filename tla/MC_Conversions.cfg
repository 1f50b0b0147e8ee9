CONSTANTS
    Inputs <- MC_Inputs
    Texts <- MC_Texts
    Arrays <- MC_Arrays
    Maxes <- MC_Maxes
    MaxOps = 3

SPECIFICATION Spec

\* A panic or the last conversion ends the program.
CHECK_DEADLOCK FALSE

INVARIANT TypeOK
INVARIANT WithinBound
INVARIANT ReparseStable
