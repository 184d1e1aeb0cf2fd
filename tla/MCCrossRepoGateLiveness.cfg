\* Two gates, a run each; no symmetry.
CONSTANTS
    g1 = g1
    g2 = g2
    Gates <- TwoGates
    MaxVersion = 1
    MaxRevision = 1
    PinOf <- ByRevision
    DataOf <- ByRevision
    EditSets <- Together
    MaxEdits = 0
    MaxRuns = 2
SPECIFICATION FairSpec
PROPERTY GatesEnd
\* No run is owed.
CHECK_DEADLOCK FALSE
