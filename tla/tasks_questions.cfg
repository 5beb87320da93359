CONSTANTS
    t1 = t1
    t2 = t2
    q1 = q1
    q2 = q2
    Tasks = {t1}
    NoTask = NoTask
    Questions = {q1, q2}
    taskOf <- TaskOf
    coordinatesOf <- CallCoordinates
    Subagents = {t1}
    AgentTasks = {t1}
    reportsOf <- OneReport
    MaxControls = 0
    Repeats = {}
    MaxMishaps = 0
    FailsIn = {}
    MayHandOff = FALSE
SPECIFICATION Spec
INVARIANT StaysAnswerable
\* The session ends, and bodies may never return.
CHECK_DEADLOCK FALSE
