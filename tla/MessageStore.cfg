\* Two workers, a direct conversation and a group, one fault.
CONSTANTS
  alice = alice  bob = bob  carol = carol  chat = chat  team = team
  k1 = k1  k2 = k2  hi = hi  ho = ho
  Users = {alice, bob, carol}
  Direct = {chat}
  Groups = {team}
  ClientIds = {k1, k2}
  Contents = {hi, ho}
  Founders <- MCFounders
  Commands <- MCCommands
  Workers = {w1, w2}
  NoWorker = NoWorker
  MaxSeq = 3
  MaxFaults = 1
SPECIFICATION Spec
SYMMETRY Symmetric
INVARIANTS TypeOK SeqDense ReplyTruthful StoredOnce PushedOnce PushedCanSync
