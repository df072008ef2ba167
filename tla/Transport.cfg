\* One behaviour exercises one part.
CONSTANTS
  MaxMessages = 2
  Peer = Peer
  MaxLog = 2
  PageSize = 1
  MaxFaults = 2
  Seqs = {q1}
  Raw = Raw
  Senders = {p1, p2}
  MaxQueued = 2
  MaxDeliveries = 2
  Tasks = {j1, j2, j3}
  Workers = {w1, w2}
  Stoppers = {s1, s2}
  MaxQueueSize = 1
  Callers = {c1, c2, c3}
  PoolSize = 2
  MaxDepth = 2
  Uploads = {u1, u2, u3}
  WorkerSize = 2
SPECIFICATION MCSpec
INVARIANTS NothingLost  WaitingIsPending AckedIsSaved
  QueueBounded RepetitionsEarned SlowClientCloses
  DrainedAtStop NobodySleepsOnWork NobodySleepsOnConnection 
CHECK_DEADLOCK FALSE
