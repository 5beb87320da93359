CONSTANTS
    o = o
    s1 = s1
    s2 = s2
    x1 = x1
    stable = stable
    alias = alias
    dA = dA
    dB = dB
    m1 = m1
    m2 = m2
    m3 = m3
    end = end
    Origin = o
    Successors = {s1, s2}
    Replacements = {x1}
    NoRun = NoRun
    Tokens = {stable, alias}
    Stable = stable
    Commands = {m1, m3, end}
    Resets = {end}
    NoCommand = NoCommand
    Deployments = {dA, dB}
    address <- AddressOf
    acceptedBy <- AcceptedBy
    Timed = {o, s1}
    WindowMayPass = TRUE
SPECIFICATION FairSpec
INVARIANT TypeOK OneOwner OwnerHoldsEveryAddress UnownedIsMarked EndsByOwnTimeout
PROPERTY ImplementsMailbox AcceptedIsTaken DeliverySettles
\* The session ends, and each command is sent once.
CHECK_DEADLOCK FALSE
