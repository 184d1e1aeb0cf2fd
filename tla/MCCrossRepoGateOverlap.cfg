\* Two gates in one run root at the same time: two PREPAREs, or an APPLY and a
\* second PREPARE.  The properties do not depend on what is in the tarballs.
CONSTANTS
    g1 = g1
    g2 = g2
    Gates <- TwoGates
    MaxVersion = 1
    MaxRevision = 1
    PinOf <- ByRevision
    DataOf <- ByRevision
    EditSets <- Together
    MaxEdits = 0
    MaxRuns = 3
SPECIFICATION Spec
SYMMETRY Symmetry
INVARIANTS
    IInv
    NoGitBehindAPass
    TempRootsAccountedFor
\* No run is owed.
CHECK_DEADLOCK FALSE
