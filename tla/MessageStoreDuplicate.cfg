\* Concurrent duplicates, no faults.
CONSTANTS
  alice = alice  bob = bob  carol = carol  chat = chat  team = team
  k1 = k1  k2 = k2  hi = hi  ho = ho
  Users = {alice, bob, carol}
  Direct = {chat}
  Groups = {team}
  ClientIds = {k1, k2}
  Contents = {hi, ho}
  Founders <- MCFounders
  Commands <- MCOneCommand
  Workers = {w1, w2}
  NoWorker = NoWorker
  MaxSeq = 2
  MaxFaults = 0
SPECIFICATION Spec
INVARIANT DuplicateReturnsOriginal
