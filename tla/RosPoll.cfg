SPECIFICATION RosReaderSpec
CONSTANTS
    RosProcess = {p1, p2}
    MaxHistory = 3
INVARIANT LatestForwarded
CHECK_DEADLOCK FALSE
