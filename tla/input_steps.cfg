CONSTANTS
    g1 = g1
    a1 = a1
    a2 = a2
    a3 = a3
    q1 = q1
    l1 = l1
    calls = calls
    more = more
    poll = poll
    limit = limit
    ok = ok
    hi = hi
    alice = alice
    bob = bob
    Anonymous = Anonymous
    None = None
    KindOf <- Kind
    Asks <- BatchOf
    Says <- SaysOf
    Guarded = {g1}
    Freeform = {}
    Requests = {g1, a1, q1, l1}
    Batches = {calls, poll, limit}
    LimitBatch = limit
    Texts = {ok, hi}
    Responders = {alice}
    Replies <- OneAnswer
    Context = {"memory", "instructions"}
    Modes = {"conversation", "task"}
    Overdraws = {TRUE, FALSE}
    MaxDeliveries = 3
    MaxParts = 2
    MaxRounds = 1
    MaxInterruptions = 1
SPECIFICATION FairSpec
INVARIANT TypeOK GuardedCallNeedsAllow ApprovalsExecute AnswersKept InputKept CandidatesAreJudged
PROPERTY StepsPark
\* The deliveries are bounded.
CHECK_DEADLOCK FALSE
