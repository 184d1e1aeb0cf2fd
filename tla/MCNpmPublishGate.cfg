\* The workflow as it is written.
CONSTANTS
    Jobs = {j1, j2, j3}
    c1 = c1
    c2 = c2
    c3 = c3
    Commits = {c1, c2, c3}
    VersionOf <- MCVersionOf
    None = None
    GateEnvironment <- AsWritten
SPECIFICATION PublishSpec
INVARIANT GateIsRun
\* A job that has ended is not run again: a rerun is another job.
CHECK_DEADLOCK FALSE
