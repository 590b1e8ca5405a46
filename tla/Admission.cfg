SPECIFICATION FairAdmissionSpec
CONSTANTS
    Keys = {k1, k2}
    Requests = {r1, r2}
    Checkouts = {c1, c2}
    Versions = {v1, v2}
    Submissions = {s1, s2}
    MaxFaults = 2
INVARIANTS ExecutionsAreAdmitted AcceptedIsRunning
PROPERTIES AdmittedStarts
CHECK_DEADLOCK FALSE
