CONSTANTS
    m1 = m1
    m2 = m2
    q1 = q1
    q2 = q2
    a1 = a1
    k1 = k1
    c1 = c1
    n1 = n1
    r1 = r1
    x1 = x1
    alice = alice
    bob = bob
    Steers = {m1}
    Queued = {q1}
    Answers = {}
    Stops = {}
    Questions = {}
    Cancels = {c1}
    Resets = {}
    Calls = {x1}
    Anonymous = Anonymous
    AnyTurn = AnyTurn
    sender <- SenderOf
    question <- QuestionOf
    turnId <- TurnOf
SPECIFICATION Spec
INVARIANT CancelStopsOneTurn
\* The session ends after a reset, and each command is sent once.
CHECK_DEADLOCK FALSE
