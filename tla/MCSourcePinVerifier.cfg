\* Two pins, as in the script, so that HEAD can move between the two clones; two
\* revisions, so that a file can be stale; six changes: an update of both
\* sources of a pin, its publication and the three commits that make HEAD wrong.
CONSTANTS
    PinCount = 2
    Versions = {v1, v2}
    MaxChanges = 6
    MaxRuns = 2
SPECIFICATION Spec
SYMMETRY Symmetry
INVARIANTS
    IInv
    PassIsCurrent
    FailureIsJustified
    LeftoversAccountedFor
\* No run is owed, and the bounds stop the maintainers.
CHECK_DEADLOCK FALSE
