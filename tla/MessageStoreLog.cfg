\* The store against the abstract log, and the end of every lock wait, on the
\* commands that can collide.  No symmetry: liveness.
CONSTANTS
  alice = alice  bob = bob  carol = carol  chat = chat  team = team
  k1 = k1  k2 = k2  hi = hi  ho = ho
  Users = {alice, bob, carol}
  Direct = {chat}
  Groups = {team}
  ClientIds = {k1}
  Contents = {hi, ho}
  Founders <- MCFounders
  Commands <- MCCollidingCommands
  Workers = {w1, w2}
  NoWorker = NoWorker
  MaxSeq = 2
  MaxFaults = 1
SPECIFICATION FairSpec
PROPERTIES ImplementsLog RequestsComplete
