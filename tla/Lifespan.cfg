\* The three jobs and a request; each way a startup or a shutdown may fail.
SPECIFICATION LiveSpec
CONSTANTS
    Jobs <- MCJobs
    Requests <- MCRequests
CHECK_DEADLOCK FALSE
INVARIANTS TypeOK RequestsHaveConnections StoppedIsQuiet EndedIsClosed
PROPERTIES ShutdownEnds
