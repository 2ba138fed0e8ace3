\* Two sources, two storms, five reports, two polls at once, one failure.
SPECIFICATION StormSpec
CONSTANTS
    position1 = position1
    position2 = position2
    minor = minor
    alert = alert
    unreadable = unreadable
    storm1 = storm1
    storm2 = storm2
    nhc = nhc
    nws = nws
    Reports <- MCReports
    Keys = {storm1, storm2}
    Sources = {nhc, nws}
    Seasonal = {nhc}
    Source <- MCSource
    Key <- MCKey
    Replaces <- MCReplaces
    Malformed = {unreadable}
    Irrelevant = {minor}
    NoReport = NoReport
    NoSource = NoSource
    Polls = {p1, p2}
    MaxFailures = 1
INVARIANTS
    StormTypeOK
PROPERTIES
    LatestGoesForward
    StormIsRecorded
CHECK_DEADLOCK FALSE
