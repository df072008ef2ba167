\* Two streams of a node at a time; one thing goes wrong.
SPECIFICATION Spec
CONSTANTS
    Nodes = {n1, n2}
    Slots = {s1, s2}
    f1 = f1
    f2 = f2
    i1 = i1
    Calls = {f1}
    Ids = {i1}
    RequestId <- OneCall
    Retryable = {f1}
    NoOne = NoOne
    MaxStreamQueue = 1
    MaxFaults = 1
SYMMETRY Symmetric
INVARIANTS
    CurrentStreamRegistered
CHECK_DEADLOCK FALSE
