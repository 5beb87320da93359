CONSTANTS
    t1 = t1
    t2 = t2
    k1 = k1
    a1 = a1
    a2 = a2
    c1 = c1
    alice = alice
    Tasks = {t1, t2, k1}
    NoTask = NoTask
    Calls = {c1}
    NoCaller = NoCaller
    NoNotice = NoNotice
    Principals = {alice}
    Anonymous = Anonymous
    Attempts = {a1, a2}
    Inputs <- Menu
    Registrable = {t1, t2}
    Cancellable = {t1, k1}
    Commands = {"clear"}
    TaskMode = TRUE
    MaxSequence = 2
SPECIFICATION Spec
INVARIANT TypeOK OneOpenCohort HandoffLeavesWholeCohorts CancelledTaskSilent ResumeOnlyExpected
PROPERTY InputInArrivalOrder CohortReportedWhole NoInputLost TurnHasOneSender ReadyCohortsAreTaken
\* Admissions are bounded by MaxSequence.
CHECK_DEADLOCK FALSE
