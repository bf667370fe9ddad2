\* Two jobs for one worker, a stream, and a process that stops or exits once.
CONSTANTS
    Jobs = {j1, j2}
    Streams = {s1}
    MaxWorkers = 1
    MaxAttempts = 2
    MaxExits = 1
SPECIFICATION Spec
INVARIANTS
    ClosedIsUnused
    CompletedIsRecorded
PROPERTIES
    StopsByItself
    StopsInTime
    JobsFinish
