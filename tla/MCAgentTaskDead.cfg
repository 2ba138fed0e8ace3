\* One qualification: when is a dead letter emitted?
SPECIFICATION AgentSpec
CONSTANTS
    qualify = qualify
    scan = scan
    Tasks = {qualify}
    Scans = {}
    Retries <- MCRetries
    MaxProposals = 2
INVARIANTS
    DeadLetterIsLast
CHECK_DEADLOCK FALSE
