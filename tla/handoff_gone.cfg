CONSTANTS
    o = o
    s1 = s1
    s2 = s2
    x1 = x1
    stable = stable
    alias = alias
    dA = dA
    dB = dB
    m1 = m1
    m2 = m2
    m3 = m3
    end = end
    Origin = o
    Successors = {s1}
    Replacements = {}
    NoRun = NoRun
    Tokens = {stable, alias}
    Stable = stable
    Commands = {m1, m2}
    Resets = {}
    NoCommand = NoCommand
    Deployments = {dA, dB}
    address <- AddressOf
    acceptedBy <- AcceptedBy
    Timed = {}
    WindowMayPass = FALSE
SPECIFICATION Spec
INVARIANT LiveSessionNeverGone
\* The session ends, and each command is sent once.
CHECK_DEADLOCK FALSE
