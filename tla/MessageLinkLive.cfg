\* Two nodes, so that there is somewhere to retry.  No symmetry: liveness.  The calls
\* are finitely many, so the system may come to rest.
SPECIFICATION FairSpec
CONSTANTS
    Nodes = {n1, n2}
    Slots = {s1}
    f1 = f1
    f2 = f2
    i1 = i1
    Calls = {f1}
    Ids = {i1}
    RequestId <- OneCall
    Retryable = {f1}
    NoOne = NoOne
    MaxStreamQueue = 1
    MaxFaults = 1
PROPERTIES
    CallsAnswered
    
CHECK_DEADLOCK FALSE
