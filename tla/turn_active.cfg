CONSTANTS
    m1 = m1
    m2 = m2
    q1 = q1
    q2 = q2
    a1 = a1
    k1 = k1
    c1 = c1
    n1 = n1
    r1 = r1
    x1 = x1
    alice = alice
    bob = bob
    Steers = {m1}
    Queued = {q1}
    Answers = {a1}
    Stops = {a1}
    Questions = {k1}
    Cancels = {n1}
    Resets = {r1}
    Calls = {x1}
    Anonymous = Anonymous
    AnyTurn = AnyTurn
    sender <- SenderOf
    question <- QuestionOf
    turnId <- TurnOf
SPECIFICATION FairSpec
INVARIANT TypeOK MessagesKept NoSleptSteering NoHandleOutlivesItsTurn
PROPERTY CancelEndsItsTurn WaitsEnd
\* The session ends after a reset, and each command is sent once.
CHECK_DEADLOCK FALSE
