\* A qualification and a scan that saves two proposals at most.
SPECIFICATION AgentSpec
CONSTANTS
    qualify = qualify
    scan = scan
    Tasks = {qualify, scan}
    Scans = {scan}
    Retries <- MCRetries
    MaxProposals = 2
INVARIANTS
    ReportsAreTrue
    SpendBounded
    ProposalsBounded
CHECK_DEADLOCK FALSE
