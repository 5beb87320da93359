CONSTANTS
    g1 = g1
    a1 = a1
    a2 = a2
    a3 = a3
    q1 = q1
    l1 = l1
    calls = calls
    more = more
    poll = poll
    limit = limit
    ok = ok
    hi = hi
    alice = alice
    bob = bob
    Anonymous = Anonymous
    None = None
    KindOf <- Kind
    Asks <- BatchOf
    Says <- SaysOf
    Guarded = {}
    Freeform = {}
    Requests = {a2, a3, l1}
    Batches = {more, limit}
    LimitBatch = limit
    Texts = {ok, hi}
    Responders = {alice}
    Replies <- OneAnswer
    Context = {"memory"}
    Modes = {"conversation"}
    Overdraws = {FALSE}
    MaxDeliveries = 3
    MaxParts = 2
    MaxRounds = 1
    MaxInterruptions = 0
SPECIFICATION Spec
INVARIANT ApprovalsStayLast
\* The deliveries are bounded.
CHECK_DEADLOCK FALSE
