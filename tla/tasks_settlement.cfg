CONSTANTS
    t1 = t1
    t2 = t2
    q1 = q1
    q2 = q2
    Tasks = {t1}
    NoTask = NoTask
    Questions = {q1}
    taskOf <- TaskOf
    coordinatesOf <- CallCoordinates
    Subagents = {t1}
    AgentTasks = {t1}
    reportsOf <- OneReport
    MaxControls = 2
    Repeats = {"turn", "ready", "answer", "control", "notify", "report"}
    MaxMishaps = 1
    FailsIn = {"all", "close"}
    MayHandOff = TRUE
SPECIFICATION FairSpec
PROPERTY EndedTasksSettle
\* The session ends, and bodies may never return.
CHECK_DEADLOCK FALSE
