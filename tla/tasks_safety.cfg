CONSTANTS
    t1 = t1
    t2 = t2
    q1 = q1
    q2 = q2
    Tasks = {t1, t2}
    NoTask = NoTask
    Questions = {q1}
    taskOf <- TaskOf
    coordinatesOf <- CallCoordinates
    Subagents = {t1}
    AgentTasks = {t1, t2}
    reportsOf <- OneReport
    MaxControls = 1
    Repeats = {"turn", "answer", "control", "notify"}
    MaxMishaps = 1
    FailsIn = {"close"}
    MayHandOff = FALSE
SPECIFICATION Spec
INVARIANT TypeOK UnindexedIsSilent OneVerdict ReportedOnce SettledAsksNothing
    LeaseHeldByLiveTask ReportsBeforeOutcome EndStopsTheRest
\* The session ends, and bodies may never return.
CHECK_DEADLOCK FALSE
