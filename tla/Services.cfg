\* One behaviour exercises one service.
CONSTANTS
  alice = alice  bob = bob  chat = chat  team = team
  Users = {alice, bob}
  Readers = {bob}
  Direct = {chat}
  Groups = {team}
  Contents = {hi}
  Founders <- MCFounders
  NoTime = NoTime
  DefaultCount = 2
  MaxCount = 3
  ClientIds = {1, 2, 3, 4, 5}
  Times = {t1, t2}
  PullCounts <- MCPullCounts
  MaxLog = 5
  Emails = {e1}
  Usernames = {u1}
  MaxRequests = 4
  MaxCodes = 2
  MaxAttempts = 2
  MaxDbFaults = 1
  People = {alice, bob}
  SessionIds <- MCSessionIds
  IntSpan = 4
  MaxCommands = 3
  GroupUsers = {alice, bob}
  MaxGroupCommands = 3
SPECIFICATION MCSpec
INVARIANTS ReceiptsOrdered WalkComplete IssuedCodeLive 
  FriendAnswersTruthful 
PROPERTY ReceiptsMonotone
CHECK_DEADLOCK FALSE
