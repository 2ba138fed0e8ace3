\* One lead, two executions at once, one failure and one replay.
SPECIFICATION FairPipelineSpec
CONSTANTS
    Leads = {l1}
    Workers = {w1, w2}
    NoLead = NoLead
    Retries <- FewRetries
    MaxFailures = 1
    MaxReplays = 1
INVARIANTS
    StatusIsRecorded
    OneFate
    ContactsBounded
PROPERTIES
    GraphRefined
    StatusGoesForward
    CapturedLeadEnds
CHECK_DEADLOCK FALSE
