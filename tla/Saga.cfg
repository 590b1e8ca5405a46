SPECIFICATION SagaSpec
CONSTANTS
    Keys = {k1}
    Requests = {r1}
    Checkouts = {c1}
    Versions = {v1, v2}
    Submissions = {s1}
    MaxFaults = 1
    ReplayOps = {o1, o2}
    Target <- OnlyCheckout
    x1 = x1
    x2 = x2
    Works = {x1, x2}
    Failures <- ExhaustedOrRejected
    Workers = {w1, w2}
SYMMETRY Interchangeable
INVARIANTS TypeOK VersionIsPinned  AnsweredReplayHasStarted
PROPERTIES ResolvedIsFinal
CHECK_DEADLOCK FALSE
