\* One gate after another in a run root: a PREPARE, one that interferes and an
\* APPLY.  Two edits let everything be released and one artifact change under
\* its version; two versions and revisions tell the tarballs apart.
CONSTANTS
    g1 = g1
    g2 = g2
    Gates <- OneGate
    MaxVersion = 2
    MaxRevision = 2
    PinOf <- ByRevision
    DataOf <- ByRevision
    EditSets <- TogetherOrAlone
    MaxEdits = 2
    MaxRuns = 3
SPECIFICATION Spec
INVARIANTS
    ApprovalInv
    AppliedIsApproved
PROPERTIES
    EvidenceNeverReusesAName
    RefusalIsJustified
    ImplementsApprovedDelivery
\* No run is owed, and the bounds stop the maintainers.
CHECK_DEADLOCK FALSE
