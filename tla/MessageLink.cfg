\* Two calls with one request id, one stream of a node at a time, one thing goes
\* wrong.  The calls are finitely many, so the system may come to rest.
SPECIFICATION Spec
CONSTANTS
    Nodes = {n1, n2}
    Slots = {s1}
    f1 = f1
    f2 = f2
    i1 = i1
    Calls = {f1, f2}
    Ids = {i1}
    RequestId <- SameId
    Retryable = {f1}
    NoOne = NoOne
    MaxStreamQueue = 1
    MaxFaults = 1
SYMMETRY Symmetric
INVARIANTS
    AnsweredOnce
    BoundedRuns
    CommandsAfterRegistration
CHECK_DEADLOCK FALSE
