\* Liveness: no symmetry; fewer changes, because no step of the script waits for
\* one.
CONSTANTS
    PinCount = 2
    Versions = {v1, v2}
    MaxChanges = 3
    MaxRuns = 2
SPECIFICATION FairSpec
PROPERTY RunsEnd
CHECK_DEADLOCK FALSE
