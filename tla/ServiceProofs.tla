--------------------------- MODULE ServiceProofs ----------------------------
(***************************************************************************)
(* What FriendService, GroupService and the account service answer, for    *)
(* every set of people, groups, emails and requests: requests run          *)
(* statement by statement over tables that others change in between.       *)
(***************************************************************************)
EXTENDS Account, Friendship, GroupMembership, TLAPS

\* Zenon is the default prover; a leaf with arithmetic or sequences cites SMT.
USE Zenon

-----------------------------------------------------------------------------
(* Friendships *)

CommandRecord == [pair : Pairs \cup {<<>>}, accept : BOOLEAN, key : Nat,
                  pc : {"idle", "applyBack", "friend", "friendBack", "status", "statusBack", "done"},
                  answer : {"", "refused", "applied", "accepted", "declined"}]

FriendTypes ==
    /\ friendApplys \in [Pairs -> {NoApply, "Wait", "Agree", "Refuse"}]
    /\ friends \in [Pairs -> Nat]
    /\ command \in [Commands -> CommandRecord]

\* Both directions of pair p hold the session id key in the table f.
Joined(f, p, key) == p \in Pairs /\ key # NoFriend /\ f[p] = key /\ f[Back(p)] = key

\* What a command m has in the tables a and f, by how far it is.
Written(a, f, m) ==
    /\ m.pc \notin {"idle", "done"} => m.pair \in Pairs /\ m.answer = ""
    /\ m.pc = "idle" => m.answer = ""
    /\ m.pc = "applyBack" => a[m.pair] # NoApply
    /\ m.pc = "friend" => m.accept /\ m.key # NoFriend
    /\ m.pc = "friendBack" => m.accept /\ m.key # NoFriend /\ f[m.pair] = m.key
    /\ m.pc \in {"status", "statusBack"} /\ m.accept => Joined(f, m.pair, m.key)
    /\ m.answer = "applied" =>
           m.pair \in Pairs /\ a[m.pair] # NoApply /\ a[Back(m.pair)] # NoApply
    /\ m.answer = "accepted" => Joined(f, m.pair, m.key)

FriendInv == FriendTypes /\ \A c \in Commands : Written(friendApplys, friends, command[c])

\* The other direction of a pair is a pair.
LEMMA BackPair == \A p \in Pairs : Back(p) \in Pairs
  BY DEF Pairs, Back

\* No row is deleted: what a command has written stays.
Kept(a, b, f, g) ==
    /\ \A p \in Pairs : a[p] # NoApply => b[p] # NoApply
    /\ \A p \in Pairs : f[p] # NoFriend => g[p] = f[p]

\* What a command has written stays when another one writes.
LEMMA WrittenStays ==
    ASSUME NEW a, NEW b, NEW f, NEW g, NEW m, Written(a, f, m), Kept(a, b, f, g)
    PROVE  Written(b, g, m)
  <1>1. m.pair \in Pairs => Back(m.pair) \in Pairs
    BY BackPair
  <1>2. Joined(f, m.pair, m.key) => Joined(g, m.pair, m.key)
    BY <1>1 DEF Joined, Kept
  <1> QED
    BY <1>1, <1>2 DEF Written, Kept

\* No friendship is stored initially.
LEMMA FriendInit == FriendsInit => FriendInv
  <1> SUFFICES ASSUME FriendsInit PROVE FriendInv
    OBVIOUS
  <1>1. NoCommand \in CommandRecord /\ NoCommand.pc = "idle" /\ NoCommand.answer = ""
    BY DEF CommandRecord, NoCommand
  <1>2. FriendTypes
    BY <1>1 DEF FriendsInit, FriendTypes, NoFriend
  <1>3. \A a, f : Written(a, f, NoCommand)
    BY <1>1 DEF Written
  <1> QED
    BY <1>2, <1>3 DEF FriendInv, FriendsInit

\* What an insertion leaves.
LEMMA ApplyInserted ==
    ASSUME friendApplys \in [Pairs -> {NoApply, "Wait", "Agree", "Refuse"}], friends \in [Pairs -> Nat],
           NEW p \in Pairs, NEW out, friends' = friends,
           friendApplys' = Inserted(friendApplys, NoApply, p, "Wait", out)
    PROVE  /\ friendApplys' \in [Pairs -> {NoApply, "Wait", "Agree", "Refuse"}]
           /\ friends' \in [Pairs -> Nat]
           /\ Kept(friendApplys, friendApplys', friends, friends')
           /\ friendApplys[p] = NoApply /\ out # "failed" => friendApplys'[p] = "Wait"
  BY DEF Inserted, Kept

\* INSERT into friends writes a row that was not there, and leaves the others.
LEMMA FriendInserted ==
    ASSUME friendApplys \in [Pairs -> {NoApply, "Wait", "Agree", "Refuse"}], friends \in [Pairs -> Nat],
           NEW p \in Pairs, NEW key \in Nat, NEW out, friendApplys' = friendApplys,
           friends' = Inserted(friends, NoFriend, p, key, out)
    PROVE  /\ friendApplys' \in [Pairs -> {NoApply, "Wait", "Agree", "Refuse"}]
           /\ friends' \in [Pairs -> Nat]
           /\ Kept(friendApplys, friendApplys', friends, friends')
           /\ friends[p] = NoFriend /\ out # "failed" => friends'[p] = key
  BY DEF Inserted, Kept

\* One command goes on, from the record m to the record n.
Moves(c, n) == command' = [command EXCEPT ![c] = n]

\* A step of command c that keeps the rows and leaves c with what it has written.
LEMMA CommandMoves ==
    ASSUME FriendInv, NEW c \in Commands, NEW n \in CommandRecord, Moves(c, n),
           friendApplys' \in [Pairs -> {NoApply, "Wait", "Agree", "Refuse"}],
           friends' \in [Pairs -> Nat],
           Kept(friendApplys, friendApplys', friends, friends'),
           Written(friendApplys', friends', n)
    PROVE  FriendInv'
  <1>1. command' \in [Commands -> CommandRecord]
    BY DEF Moves, FriendInv, FriendTypes
  <1>2. \A d \in Commands : command'[d] = IF d = c THEN n ELSE command[d]
    BY DEF Moves, FriendInv, FriendTypes
  <1>3. \A d \in Commands : Written(friendApplys', friends', command[d])
    BY WrittenStays DEF FriendInv
  <1>4. \A d \in Commands : Written(friendApplys', friends', command'[d])
    BY <1>2, <1>3
  <1> QED
    BY <1>1, <1>4 DEF FriendInv, FriendTypes

\* The record of a refused command holds on to nothing.
Refused(key) == [NoCommand EXCEPT !.key = key, !.pc = "done", !.answer = "refused"]

\* A refused command has nothing to show.
LEMMA RefusedWritten ==
    ASSUME NEW key \in Nat
    PROVE  Refused(key) \in CommandRecord /\ \A a, f : Written(a, f, Refused(key))
  <1>1. Refused(key).pc = "done" /\ Refused(key).answer = "refused"
    BY DEF Refused, NoCommand
  <1>2. Refused(key) \in CommandRecord
    BY DEF Refused, NoCommand, CommandRecord
  <1> QED
    BY <1>1, <1>2 DEF Written

Onto(m, pc) == [m EXCEPT !.pc = pc]
Done(m, answer) == [m EXCEPT !.pc = "done", !.answer = answer]

\* The record of a command that goes on to its next statement.
LEMMA OntoFields ==
    ASSUME NEW m \in CommandRecord,
           NEW pc \in {"friendBack", "status", "statusBack"}
    PROVE  /\ Onto(m, pc) \in CommandRecord /\ Onto(m, pc).pc = pc
           /\ Onto(m, pc).pair = m.pair /\ Onto(m, pc).key = m.key
           /\ Onto(m, pc).accept = m.accept /\ Onto(m, pc).answer = m.answer
  BY DEF Onto, CommandRecord

\* The record of a command that has answered.
LEMMA DoneFields ==
    ASSUME NEW m \in CommandRecord, NEW answer \in {"applied", "accepted", "declined"}
    PROVE  /\ Done(m, answer) \in CommandRecord /\ Done(m, answer).pc = "done"
           /\ Done(m, answer).pair = m.pair /\ Done(m, answer).key = m.key
           /\ Done(m, answer).answer = answer
  BY DEF Done, CommandRecord

\* What the replies and the next statements make of the record of a command.
LEMMA ReplyMoves ==
    ASSUME NEW c \in Commands
    PROVE  /\ Reply(c, "refused") => Moves(c, Refused(command[c].key))
           /\ \A answer \in {"applied", "accepted", "declined"} :
                  Reply(c, answer) => Moves(c, Done(command[c], answer))
           /\ \A pc : Reach(c, pc) => Moves(c, Onto(command[c], pc))
  BY DEF Reply, Reach, Moves, Refused, Done, Onto

\* A command that is refused leaves the rows it has written.
LEMMA RefusalStep ==
    ASSUME FriendInv, NEW c \in Commands, Reply(c, "refused"),
           friendApplys' \in [Pairs -> {NoApply, "Wait", "Agree", "Refuse"}],
           friends' \in [Pairs -> Nat],
           Kept(friendApplys, friendApplys', friends, friends')
    PROVE  FriendInv'
  <1>1. command[c] \in CommandRecord /\ command[c].key \in Nat
    BY DEF FriendInv, FriendTypes, CommandRecord
  <1> QED
    BY <1>1, CommandMoves, ReplyMoves, RefusedWritten

\* Every step of a command keeps the invariant.
LEMMA FriendStep == FriendInv /\ [FriendsNext]_friendVars => FriendInv'
  <1> SUFFICES ASSUME FriendInv, [FriendsNext]_friendVars PROVE FriendInv'
    OBVIOUS
  <1> DEFINE Statuses == {NoApply, "Wait", "Agree", "Refuse"}
  <1>0. /\ friendApplys \in [Pairs -> Statuses] /\ friends \in [Pairs -> Nat]
        /\ \A c \in Commands : /\ command[c] \in CommandRecord /\ command[c].key \in Nat
                               /\ Written(friendApplys, friends, command[c])
        /\ "Wait" # NoApply
    BY DEF FriendInv, FriendTypes, CommandRecord, NoApply
  <1>1. ASSUME NEW c \in Commands, NEW p \in Pairs, NEW out, NotifyAddFriend(c, p, out)
        PROVE  FriendInv'
    <2>1. friends' = friends /\ friendApplys' = Inserted(friendApplys, NoApply, p, "Wait", out)
      BY <1>1 DEF NotifyAddFriend
    <2>2. /\ friendApplys' \in [Pairs -> Statuses] /\ friends' \in [Pairs -> Nat]
          /\ Kept(friendApplys, friendApplys', friends, friends')
          /\ friendApplys[p] = NoApply /\ out # "failed" => friendApplys'[p] = "Wait"
      BY <1>0, <2>1, ApplyInserted
    <2>3. CASE friendApplys[p] = NoApply /\ out = "ok"
      <3> DEFINE n == [NoCommand EXCEPT !.pair = p, !.pc = "applyBack"]
      <3>1. Moves(c, n)
        BY <1>1, <2>3 DEF NotifyAddFriend, Moves
      <3>2. n \in CommandRecord /\ n.pair = p /\ n.pc = "applyBack" /\ n.answer = ""
        BY DEF NoCommand, CommandRecord
      <3> HIDE DEF n
      <3>3. Written(friendApplys', friends', n)
        BY <1>0, <2>2, <2>3, <3>2 DEF Written
      <3> QED
        BY <2>2, <3>1, <3>2, <3>3, CommandMoves
    <2>4. CASE ~ (friendApplys[p] = NoApply /\ out = "ok")
      <3> DEFINE n == [NoCommand EXCEPT !.pc = "done", !.answer = "refused"]
      <3>1. Moves(c, n)
        BY <1>1, <2>4 DEF NotifyAddFriend, Moves
      <3>2. n \in CommandRecord /\ n.pc = "done" /\ n.answer = "refused"
        BY DEF NoCommand, CommandRecord
      <3> HIDE DEF n
      <3>3. Written(friendApplys', friends', n)
        BY <3>2 DEF Written
      <3> QED
        BY <2>2, <3>1, <3>2, <3>3, CommandMoves
    <2> QED
      BY <2>3, <2>4
  <1>2. ASSUME NEW c \in Commands, NEW p \in Pairs, RefuseFriend(c, p) PROVE FriendInv'
    <2> DEFINE n == [NoCommand EXCEPT !.pair = p, !.pc = "status"]
    <2>1. Moves(c, n) /\ UNCHANGED <<friendApplys, friends>>
      BY <1>2 DEF RefuseFriend, Moves
    <2>2. n \in CommandRecord /\ n.pair = p /\ n.pc = "status" /\ n.answer = "" /\ n.accept = FALSE
      BY DEF NoCommand, CommandRecord
    <2> HIDE DEF n
    <2>3. Written(friendApplys', friends', n)
      BY <2>2 DEF Written
    <2> QED
      BY <1>0, <2>1, <2>2, <2>3, CommandMoves DEF Kept
  <1>3. ASSUME NEW c \in Commands, NEW p \in Pairs, NEW key \in SessionIds, AcceptFriend(c, p, key)
        PROVE  FriendInv'
    <2> DEFINE n == [NoCommand EXCEPT !.pair = p, !.accept = TRUE, !.key = key, !.pc = "friend"]
    <2>1. Moves(c, n) /\ UNCHANGED <<friendApplys, friends>>
      BY <1>3 DEF AcceptFriend, Moves
    <2>2. key \in Nat /\ key # NoFriend
      BY FriendshipBounds DEF NoFriend
    <2>3. /\ n \in CommandRecord /\ n.pair = p /\ n.pc = "friend" /\ n.answer = "" /\ n.key = key
          /\ n.accept = TRUE
      BY <2>2 DEF NoCommand, CommandRecord
    <2> HIDE DEF n
    <2>4. Written(friendApplys', friends', n)
      BY <2>2, <2>3 DEF Written
    <2> QED
      BY <1>0, <2>1, <2>3, <2>4, CommandMoves DEF Kept
  <1>4. ASSUME NEW c \in Commands, NEW out, ApplyBack(c, out) PROVE FriendInv'
    <2> DEFINE p == Back(command[c].pair)
    <2>0. command[c].pair \in Pairs /\ p \in Pairs /\ friendApplys[command[c].pair] # NoApply
      BY <1>0, <1>4, BackPair DEF ApplyBack, Written
    <2>1. friends' = friends /\ friendApplys' = Inserted(friendApplys, NoApply, p, "Wait", out)
      BY <1>4 DEF ApplyBack
    <2>2. /\ friendApplys' \in [Pairs -> Statuses] /\ friends' \in [Pairs -> Nat]
          /\ Kept(friendApplys, friendApplys', friends, friends')
          /\ friendApplys[p] = NoApply /\ out # "failed" => friendApplys'[p] = "Wait"
      BY <1>0, <2>0, <2>1, ApplyInserted
    <2>3. CASE friendApplys[p] = NoApply /\ out = "ok"
      <3>1. Reply(c, "applied")
        BY <1>4, <2>3 DEF ApplyBack
      <3> DEFINE n == Done(command[c], "applied")
      <3>2. /\ Moves(c, n) /\ n \in CommandRecord /\ n.pc = "done" /\ n.answer = "applied"
            /\ n.pair = command[c].pair
        BY <1>0, <3>1, ReplyMoves, DoneFields
      <3> HIDE DEF n
      <3>3. friendApplys'[n.pair] # NoApply /\ friendApplys'[Back(n.pair)] # NoApply
        BY <1>0, <2>0, <2>2, <2>3, <3>2 DEF Kept
      <3>4. Written(friendApplys', friends', n)
        BY <2>0, <3>2, <3>3 DEF Written
      <3> QED
        BY <2>2, <3>2, <3>4, CommandMoves
    <2>4. CASE ~ (friendApplys[p] = NoApply /\ out = "ok")
      <3>1. Reply(c, "refused")
        BY <1>4, <2>4 DEF ApplyBack
      <3> QED
        BY <2>2, <3>1, RefusalStep
    <2> QED
      BY <2>3, <2>4
  <1>5. ASSUME NEW c \in Commands, NEW out, InsertFriend(c, out) PROVE FriendInv'
    <2> DEFINE p == command[c].pair
    <2>0. p \in Pairs /\ command[c].key # NoFriend /\ command[c].accept /\ command[c].answer = ""
      BY <1>0, <1>5 DEF InsertFriend, Written
    <2>1. friendApplys' = friendApplys /\ friends' = Inserted(friends, NoFriend, p, command[c].key, out)
      BY <1>5 DEF InsertFriend
    <2>2. /\ friendApplys' \in [Pairs -> Statuses] /\ friends' \in [Pairs -> Nat]
          /\ Kept(friendApplys, friendApplys', friends, friends')
          /\ friends[p] = NoFriend /\ out # "failed" => friends'[p] = command[c].key
      BY ZenonT(30), <1>0, <2>0, <2>1, FriendInserted
    <2>3. CASE friends[p] = NoFriend /\ out = "ok"
      <3>1. Reach(c, "friendBack")
        BY <1>5, <2>3 DEF InsertFriend
      <3> DEFINE n == Onto(command[c], "friendBack")
      <3>2. /\ Moves(c, n) /\ n \in CommandRecord /\ n.pc = "friendBack" /\ n.answer = command[c].answer
            /\ n.pair = p /\ n.key = command[c].key /\ n.accept = command[c].accept
        BY <1>0, <3>1, ReplyMoves, OntoFields
      <3> HIDE DEF n
      <3>4. Written(friendApplys', friends', n)
        BY <2>0, <2>2, <2>3, <3>2 DEF Written
      <3> QED
        BY <2>2, <3>2, <3>4, CommandMoves
    <2>4. CASE ~ (friends[p] = NoFriend /\ out = "ok")
      <3>1. Reply(c, "refused")
        BY <1>5, <2>4 DEF InsertFriend
      <3> QED
        BY <2>2, <3>1, RefusalStep
    <2> QED
      BY <2>3, <2>4
  <1>6. ASSUME NEW c \in Commands, NEW out, InsertFriendBack(c, out) PROVE FriendInv'
    <2> DEFINE p == Back(command[c].pair)
    <2>0. /\ command[c].pair \in Pairs /\ p \in Pairs /\ command[c].key # NoFriend
          /\ command[c].accept /\ command[c].answer = "" /\ friends[command[c].pair] = command[c].key
      BY <1>0, <1>6, BackPair DEF InsertFriendBack, Written
    <2>1. friendApplys' = friendApplys /\ friends' = Inserted(friends, NoFriend, p, command[c].key, out)
      BY <1>6 DEF InsertFriendBack
    <2>2. /\ friendApplys' \in [Pairs -> Statuses] /\ friends' \in [Pairs -> Nat]
          /\ Kept(friendApplys, friendApplys', friends, friends')
          /\ friends[p] = NoFriend /\ out # "failed" => friends'[p] = command[c].key
      BY <1>0, <2>0, <2>1, FriendInserted
    <2>3. CASE friends[p] = NoFriend /\ out = "ok"
      <3>1. Reach(c, "status")
        BY <1>6, <2>3 DEF InsertFriendBack
      <3> DEFINE n == Onto(command[c], "status")
      <3>2. /\ Moves(c, n) /\ n \in CommandRecord /\ n.pc = "status" /\ n.answer = command[c].answer
            /\ n.pair = command[c].pair /\ n.key = command[c].key
        BY <1>0, <3>1, ReplyMoves, OntoFields
      <3> HIDE DEF n
      <3>3. Joined(friends', n.pair, n.key)
        BY <2>0, <2>2, <2>3, <3>2 DEF Joined, Kept
      <3>4. Written(friendApplys', friends', n)
        BY <2>0, <3>2, <3>3 DEF Written
      <3> QED
        BY <2>2, <3>2, <3>4, CommandMoves
    <2>4. CASE ~ (friends[p] = NoFriend /\ out = "ok")
      <3>1. Reply(c, "refused")
        BY <1>6, <2>4 DEF InsertFriendBack
      <3> QED
        BY <2>2, <3>1, RefusalStep
    <2> QED
      BY <2>3, <2>4
  <1>7. ASSUME NEW c \in Commands, NEW out, NEW p \in Pairs,
               friendApplys' = Updated(p, ReplyStatus(c), out), friends' = friends
        PROVE  /\ friendApplys' \in [Pairs -> Statuses] /\ friends' \in [Pairs -> Nat]
               /\ Kept(friendApplys, friendApplys', friends, friends')
    <2>1. ReplyStatus(c) \in Statuses /\ ReplyStatus(c) # NoApply
      BY DEF ReplyStatus, NoApply
    <2> QED
      BY <1>0, <1>7, <2>1 DEF Updated, Kept
  <1>8. ASSUME NEW c \in Commands, NEW out, UpdateStatus(c, out) PROVE FriendInv'
    <2>0. /\ command[c].pair \in Pairs /\ command[c].answer = ""
          /\ command[c].accept => Joined(friends, command[c].pair, command[c].key)
      BY <1>0, <1>8 DEF UpdateStatus, Written
    <2>2. /\ friendApplys' \in [Pairs -> Statuses] /\ friends' \in [Pairs -> Nat]
          /\ Kept(friendApplys, friendApplys', friends, friends') /\ friends' = friends
      BY <1>7, <1>8, <2>0 DEF UpdateStatus
    <2>3. CASE out = "ok"
      <3>1. Reach(c, "statusBack")
        BY <1>8, <2>3 DEF UpdateStatus
      <3> DEFINE n == Onto(command[c], "statusBack")
      <3>2. /\ Moves(c, n) /\ n \in CommandRecord /\ n.pc = "statusBack" /\ n.answer = command[c].answer
            /\ n.pair = command[c].pair /\ n.key = command[c].key /\ n.accept = command[c].accept
        BY <1>0, <3>1, ReplyMoves, OntoFields
      <3> HIDE DEF n
      <3>4. Written(friendApplys', friends', n)
        BY <2>0, <2>2, <3>2 DEF Written
      <3> QED
        BY <2>2, <3>2, <3>4, CommandMoves
    <2>4. CASE out # "ok"
      <3>1. Reply(c, "refused")
        BY <1>8, <2>4 DEF UpdateStatus
      <3> QED
        BY <2>2, <3>1, RefusalStep
    <2> QED
      BY <2>3, <2>4
  <1>9. ASSUME NEW c \in Commands, NEW out, UpdateStatusBack(c, out) PROVE FriendInv'
    <2>0. /\ command[c].pair \in Pairs /\ Back(command[c].pair) \in Pairs
          /\ command[c].accept => Joined(friends, command[c].pair, command[c].key)
      BY <1>0, <1>9, BackPair DEF UpdateStatusBack, Written
    <2>2. /\ friendApplys' \in [Pairs -> Statuses] /\ friends' \in [Pairs -> Nat]
          /\ Kept(friendApplys, friendApplys', friends, friends') /\ friends' = friends
      BY <1>7, <1>9, <2>0 DEF UpdateStatusBack
    <2>3. ASSUME NEW answer \in {"accepted", "declined"}, Reply(c, answer),
                 answer = "accepted" => command[c].accept
          PROVE  FriendInv'
      <3> DEFINE n == Done(command[c], answer)
      <3>2. /\ Moves(c, n) /\ n \in CommandRecord /\ n.pc = "done" /\ n.answer = answer
            /\ n.pair = command[c].pair /\ n.key = command[c].key
        BY SMT, <1>0, <2>3, ReplyMoves, DoneFields
      <3> HIDE DEF n
      <3>4. Written(friendApplys', friends', n)
        BY <2>0, <2>2, <2>3, <3>2 DEF Written
      <3> QED
        BY <2>2, <3>2, <3>4, CommandMoves
    <2>4. CASE Reply(c, "refused")
      BY <2>2, <2>4, RefusalStep
    <2>5. \/ Reply(c, "refused") \/ Reply(c, "declined")
          \/ Reply(c, "accepted") /\ command[c].accept
      BY <1>9 DEF UpdateStatusBack
    <2> QED
      BY <2>3, <2>4, <2>5
  <1>10. CASE UNCHANGED friendVars
    BY <1>10 DEF friendVars, friendTables, FriendInv, FriendTypes
  <1> QED
    BY <1>1, <1>2, <1>3, <1>4, <1>5, <1>6, <1>8, <1>9, <1>10 DEF FriendsNext

\* For every set of people and commands: when FriendService answers Success, both
\* directions of the request, or of the friendship under one session id, are stored,
\* whatever other commands ran between its two statements or had one of them fail.
THEOREM FriendshipsTruthful == FriendsSpec => []FriendAnswersTruthful
  <1>1. FriendInv => FriendAnswersTruthful
    BY DEF FriendInv, Written, Joined, FriendAnswersTruthful
  <1> QED
    BY <1>1, FriendInit, FriendStep, PTL DEF FriendsSpec

-----------------------------------------------------------------------------
(* Groups *)

Uids == GroupUsers \cup {""}

GroupRecord == [op : {"", "create", "join", "reply"}, gid : Nat, uid : Uids, accept : BOOLEAN,
                pc : {"idle", "master", "apply", "update", "member", "done"},
                answer : {"", "refused", "created", "applied", "agreed", "declined"}]

ApplyRows == [gid : Nat, uid : Uids, status : {"Wait", "Agree"}]

GroupTypes ==
    /\ groupApplys \subseteq ApplyRows
    /\ gcommand \in [GroupCommands -> GroupRecord]

\* The answers of a command that has made somebody a member.
Joins == {"created", "agreed", "declined"}

InTable(table, g, u) == \E row \in table : row.gid = g /\ row.uid = u

HasMaster(members, g) == \E row \in members : row.gid = g /\ row.role = "Master"

\* What a command m has in the tables by its answer, which ends it.
Stored(members, applys, m) ==
    /\ m.answer # "" => m.pc = "done"
    /\ m.answer = "created" => [gid |-> m.gid, uid |-> m.uid, role |-> "Master"] \in members
    /\ m.answer = "applied" => InTable(applys, m.gid, m.uid)
    /\ m.answer \in Joins => InTable(members, m.gid, m.uid)

\* Nobody is made a member of a group twice.
JoinsOnce(f) ==
    \A c, d \in GroupCommands :
        c # d /\ f[c].answer \in Joins /\ f[d].answer \in Joins
            => <<f[d].gid, f[d].uid>> # <<f[c].gid, f[c].uid>>

\* Command m accounts for group g being without master.
Accounts(m, g) == m.gid = g /\ (m.pc = "master" \/ m.answer = "refused")

Masters(info, members, f) ==
    \A g \in info : HasMaster(members, g) \/ \E c \in GroupCommands : Accounts(f[c], g)

GroupInv ==
    /\ GroupTypes
    /\ \A c \in GroupCommands : Stored(groupMembers, groupApplys, gcommand[c])
    /\ JoinsOnce(gcommand)
    /\ Masters(groupInfo, groupMembers, gcommand)

\* No group is stored initially.
LEMMA GroupInit == GroupsInit => GroupInv
  <1> SUFFICES ASSUME GroupsInit PROVE GroupInv
    OBVIOUS
  <1>1. NoGroupCommand \in GroupRecord /\ NoGroupCommand.answer = ""
    BY DEF NoGroupCommand, GroupRecord, Uids
  <1>2. \A c \in GroupCommands : gcommand[c].answer = ""
    BY <1>1 DEF GroupsInit
  <1>3. GroupTypes
    BY <1>1 DEF GroupsInit, GroupTypes
  <1>4. \A c \in GroupCommands : Stored(groupMembers, groupApplys, gcommand[c])
    BY <1>2 DEF Stored, Joins
  <1>5. JoinsOnce(gcommand)
    BY <1>2 DEF JoinsOnce, Joins
  <1>6. Masters(groupInfo, groupMembers, gcommand)
    BY DEF GroupsInit, Masters
  <1> QED
    BY <1>3, <1>4, <1>5, <1>6 DEF GroupInv

\* One command goes on to the record n.
GroupMoves(c, n) == gcommand' = [gcommand EXCEPT ![c] = n]

\* No row is deleted.
RowsKept ==
    /\ groupMembers \subseteq groupMembers'
    /\ groupApplys' \subseteq ApplyRows
    /\ \A g, u : InTable(groupApplys, g, u) => InTable(groupApplys', g, u)

\* What a step of command c that leaves it as n has to look after.
LEMMA GroupCommandMoves ==
    ASSUME GroupInv, NEW c \in GroupCommands, gcommand[c].pc # "done",
           NEW n \in GroupRecord, GroupMoves(c, n), RowsKept,
           Stored(groupMembers', groupApplys', n),
           n.answer \in Joins => ~ InTable(groupMembers, n.gid, n.uid),
           \A g \in groupInfo' : g \in groupInfo \/ Accounts(n, g),
           gcommand[c].pc = "master" => \/ HasMaster(groupMembers', gcommand[c].gid)
                                        \/ Accounts(n, gcommand[c].gid)
    PROVE  GroupInv'
  <1>1. GroupTypes'
    BY DEF GroupMoves, GroupInv, GroupTypes, RowsKept
  <1>2. gcommand'[c] = n /\ \A d \in GroupCommands \ {c} : gcommand'[d] = gcommand[d]
    BY DEF GroupMoves, GroupInv, GroupTypes
  <1>3. gcommand[c].answer = ""
    BY DEF GroupInv, Stored
  <1>4. ASSUME NEW d \in GroupCommands PROVE Stored(groupMembers', groupApplys', gcommand'[d])
    <2>0. \A g, u : InTable(groupMembers, g, u) => InTable(groupMembers', g, u)
      BY DEF RowsKept, InTable
    <2>1. Stored(groupMembers', groupApplys', gcommand[d])
      BY <2>0 DEF GroupInv, Stored, RowsKept
    <2> QED
      BY <1>2, <2>1
  <1>5. JoinsOnce(gcommand')
    <2>1. ASSUME NEW d \in GroupCommands \ {c}, gcommand[d].answer \in Joins, n.answer \in Joins
          PROVE  <<gcommand[d].gid, gcommand[d].uid>> # <<n.gid, n.uid>>
      BY <2>1 DEF GroupInv, Stored
    <2>2. ASSUME NEW d \in GroupCommands \ {c}, NEW b \in GroupCommands \ {c}, b # d,
                 gcommand[d].answer \in Joins, gcommand[b].answer \in Joins
          PROVE  <<gcommand[d].gid, gcommand[d].uid>> # <<gcommand[b].gid, gcommand[b].uid>>
      BY <2>2 DEF GroupInv, JoinsOnce
    <2> QED
      BY SMT, <1>2, <2>1, <2>2 DEF JoinsOnce
  <1>6. Masters(groupInfo', groupMembers', gcommand')
    <2> SUFFICES ASSUME NEW g \in groupInfo', ~ HasMaster(groupMembers', g)
                 PROVE  \E d \in GroupCommands : Accounts(gcommand'[d], g)
      BY DEF Masters
    <2>1. CASE Accounts(n, g)
      BY <1>2, <2>1
    <2>2. CASE g \in groupInfo
      <3>1. PICK d \in GroupCommands : Accounts(gcommand[d], g)
        BY <2>2 DEF GroupInv, Masters, HasMaster, RowsKept
      <3>2. CASE d # c
        BY <1>2, <3>1, <3>2
      <3>3. CASE d = c
        BY <1>2, <1>3, <3>1, <3>3 DEF Accounts
      <3> QED
        BY <3>2, <3>3
    <2> QED
      BY <2>1, <2>2
  <1> QED
    BY <1>1, <1>4, <1>5, <1>6 DEF GroupInv

GroupOnto(m, pc) == [m EXCEPT !.pc = pc]
GroupDone(m, answer) == [m EXCEPT !.pc = "done", !.answer = answer]
GroupRefused(g) == [NoGroupCommand EXCEPT !.gid = g, !.pc = "done", !.answer = "refused"]
Begun(args, pc) == [op |-> args.op, gid |-> args.gid, uid |-> args.uid, accept |-> args.accept,
                    pc |-> pc, answer |-> ""]

\* The records of commands that have answered, go on, or begin.
LEMMA GroupFields ==
    /\ \A m \in GroupRecord : \A answer \in Joins \cup {"applied"} :
           LET n == GroupDone(m, answer)
           IN  n \in GroupRecord /\ n.pc = "done" /\ n.answer = answer /\ n.gid = m.gid /\ n.uid = m.uid
    /\ \A g \in Nat :
           LET n == GroupRefused(g)
           IN  n \in GroupRecord /\ n.pc = "done" /\ n.answer = "refused" /\ n.gid = g
    /\ \A m \in GroupRecord :
           LET n == GroupOnto(m, "member")
           IN  n \in GroupRecord /\ n.pc = "member" /\ n.answer = m.answer
  <1>1. \A m \in GroupRecord : \A answer \in Joins \cup {"applied"} :
           LET n == GroupDone(m, answer)
           IN  n \in GroupRecord /\ n.pc = "done" /\ n.answer = answer /\ n.gid = m.gid /\ n.uid = m.uid
    BY ZenonT(30) DEF GroupDone, GroupRecord, Joins
  <1>2. ASSUME NEW g \in Nat
        PROVE  LET n == GroupRefused(g)
               IN  n \in GroupRecord /\ n.pc = "done" /\ n.answer = "refused" /\ n.gid = g
    BY DEF GroupRefused, GroupRecord, NoGroupCommand, Uids
  <1>3. \A m \in GroupRecord :
           LET n == GroupOnto(m, "member")
           IN  n \in GroupRecord /\ n.pc = "member" /\ n.answer = m.answer
    BY DEF GroupOnto, GroupRecord
  <1> QED
    BY <1>1, <1>2, <1>3

\* What the helpers of the handlers make of the record of a command.
LEMMA GroupAnswers ==
    ASSUME NEW c \in GroupCommands
    PROVE  /\ \A g : Refuse(c, g) => GroupMoves(c, GroupRefused(g))
           /\ \A answer : Answer(c, answer) => GroupMoves(c, GroupDone(gcommand[c], answer))
           /\ \A pc : Step(c, pc) => GroupMoves(c, GroupOnto(gcommand[c], pc))
           /\ \A args, pc : Enter(c, args, pc) => GroupMoves(c, Begun(args, pc))
  <1>1. \A g : Refuse(c, g) => GroupMoves(c, GroupRefused(g))
    BY DEF Refuse, GroupMoves, GroupRefused
  <1>2. \A answer : Answer(c, answer) => GroupMoves(c, GroupDone(gcommand[c], answer))
    BY DEF Answer, GroupMoves, GroupDone
  <1>3. \A pc : Step(c, pc) => GroupMoves(c, GroupOnto(gcommand[c], pc))
    BY DEF Step, GroupMoves, GroupOnto
  <1>4. \A args, pc : Enter(c, args, pc) => GroupMoves(c, Begun(args, pc))
    BY DEF Enter, GroupMoves, Begun
  <1> QED
    BY <1>1, <1>2, <1>3, <1>4

\* A refused command leaves the rows it has written; only a Create still counts.
LEMMA GroupRefusalStep ==
    ASSUME GroupInv, NEW c \in GroupCommands, gcommand[c].pc # "done", NEW g \in Nat, Refuse(c, g),
           RowsKept, groupInfo' \subseteq groupInfo \cup {g},
           gcommand[c].pc = "master" => g = gcommand[c].gid
    PROVE  GroupInv'
  <1> DEFINE n == GroupRefused(g)
  <1>1. GroupMoves(c, n) /\ n \in GroupRecord /\ n.pc = "done" /\ n.answer = "refused" /\ n.gid = g
    BY GroupAnswers, GroupFields
  <1> HIDE DEF n
  <1>2. Stored(groupMembers', groupApplys', n) /\ n.answer \notin Joins /\ Accounts(n, g)
    BY <1>1 DEF Stored, Joins, Accounts
  <1> QED
    BY <1>1, <1>2, GroupCommandMoves

\* A command that begins writes nothing but perhaps its group.
LEMMA GroupBeginStep ==
    ASSUME GroupInv, NEW c \in GroupCommands, gcommand[c].pc = "idle", NEW args,
           args.op \in {"create", "join", "reply"}, args.gid \in Nat, args.uid \in Uids,
           args.accept \in BOOLEAN,
           NEW pc \in {"master", "apply", "update"}, Enter(c, args, pc), RowsKept,
           \A g \in groupInfo' : g \in groupInfo \/ (pc = "master" /\ args.gid = g)
    PROVE  GroupInv'
  <1> DEFINE n == Begun(args, pc)
  <1>1. GroupMoves(c, n) /\ n.pc = pc /\ n.answer = "" /\ n.gid = args.gid
    BY GroupAnswers DEF Begun
  <1>2. n \in GroupRecord
    BY DEF Begun, GroupRecord
  <1> HIDE DEF n
  <1>3. Stored(groupMembers', groupApplys', n) /\ n.answer \notin Joins
    BY <1>1 DEF Stored, Joins
  <1>4. \A g \in groupInfo' : g \in groupInfo \/ Accounts(n, g)
    BY <1>1 DEF Accounts
  <1> QED
    BY <1>1, <1>2, <1>3, <1>4, GroupCommandMoves

\* What insertGroupMember leaves.
LEMMA MemberInserted ==
    ASSUME NEW g, NEW u, NEW role, NEW out, InsertGroupMember(g, u, role, out),
           groupApplys' = groupApplys, groupApplys \subseteq ApplyRows
    PROVE  /\ RowsKept
           /\ out = "ok" /\ ~ IsMember(g, u) => /\ [gid |-> g, uid |-> u, role |-> role] \in groupMembers'
                                                /\ InTable(groupMembers', g, u)
                                                /\ ~ InTable(groupMembers, g, u)
                                                /\ role = "Master" => HasMaster(groupMembers', g)
  <1> DEFINE row == [gid |-> g, uid |-> u, role |-> role]
  <1>1. row.gid = g /\ row.uid = u /\ row.role = role
    OBVIOUS
  <1>2. groupMembers \subseteq groupMembers'
    BY DEF InsertGroupMember
  <1>3. out = "ok" /\ ~ IsMember(g, u) => row \in groupMembers'
    BY DEF InsertGroupMember
  <1> HIDE DEF row
  <1>4. row \in groupMembers' => /\ InTable(groupMembers', g, u)
                                 /\ role = "Master" => HasMaster(groupMembers', g)
    BY <1>1 DEF InTable, HasMaster
  <1>5. RowsKept
    BY <1>2 DEF RowsKept
  <1>6. InTable(groupMembers, g, u) => IsMember(g, u)
    BY DEF InTable, IsMember
  <1> QED
    BY <1>3, <1>4, <1>5, <1>6 DEF row

\* Every step of a command keeps the invariant.
LEMMA GroupStep == GroupInv /\ [GroupsNext]_groupVars => GroupInv'
  <1> SUFFICES ASSUME GroupInv, [GroupsNext]_groupVars PROVE GroupInv'
    OBVIOUS
  <1>0. /\ groupApplys \subseteq ApplyRows
        /\ \A c \in GroupCommands : gcommand[c] \in GroupRecord /\ c \in Nat
        /\ \A m \in GroupRecord : m.gid \in Nat /\ m.uid \in Uids
    <2>1. groupApplys \subseteq ApplyRows /\ \A c \in GroupCommands : gcommand[c] \in GroupRecord
      BY DEF GroupInv, GroupTypes
    <2>2. \A c \in GroupCommands : c \in Nat
      BY SMT, GroupBounds DEF GroupCommands
    <2>3. \A m \in GroupRecord : m.gid \in Nat /\ m.uid \in Uids
      BY DEF GroupRecord
    <2> QED
      BY <2>1, <2>2, <2>3
  <1>1. UNCHANGED <<groupMembers, groupApplys>> => RowsKept
    BY <1>0 DEF RowsKept
  <1>2. ASSUME NEW c \in GroupCommands, NEW u \in GroupUsers, NEW out, Create(c, u, out)
        PROVE  GroupInv'
    <2>1. /\ gcommand[c].pc = "idle" /\ RowsKept /\ groupInfo' \subseteq groupInfo \cup {c}
      BY <1>1, <1>2 DEF Create, NotBegun
    <2>2. CASE out = "ok"
      <3> DEFINE args == [op |-> "create", gid |-> c, uid |-> u, accept |-> FALSE]
      <3>1. Enter(c, args, "master")
        BY <1>2, <2>2 DEF Create
      <3>2. /\ args.op \in {"create", "join", "reply"} /\ args.gid \in Nat /\ args.uid \in Uids
            /\ args.accept \in BOOLEAN /\ args.gid = c
        BY <1>0 DEF Uids
      <3> HIDE DEF args
      <3> QED
        BY SMT, <2>1, <3>1, <3>2, GroupBeginStep
    <2>3. CASE out # "ok"
      <3>1. Refuse(c, c)
        BY <1>2, <2>3 DEF Create
      <3> QED
        BY <1>0, <2>1, <3>1, GroupRefusalStep
    <2> QED
      BY <2>2, <2>3
  <1>3. ASSUME NEW c \in GroupCommands, NEW u \in GroupUsers, NEW g \in GroupCommands, NEW out,
               NotifyJoin(c, u, g, out)
        PROVE  GroupInv'
    <2>1. /\ gcommand[c].pc = "idle" /\ RowsKept /\ groupInfo' = groupInfo
      BY <1>1, <1>3 DEF NotifyJoin, NotBegun
    <2> DEFINE args == [op |-> "join", gid |-> g, uid |-> u, accept |-> FALSE]
    <2>2. Enter(c, args, "apply") \/ Refuse(c, 0)
      BY <1>3 DEF NotifyJoin
    <2>3. /\ args.op \in {"create", "join", "reply"} /\ args.gid \in Nat /\ args.uid \in Uids
          /\ args.accept \in BOOLEAN
      BY <1>0 DEF Uids
    <2> HIDE DEF args
    <2> QED
      BY SMT, <2>1, <2>2, <2>3, GroupBeginStep, GroupRefusalStep
  <1>4. ASSUME NEW c \in GroupCommands, NEW u \in GroupUsers, NEW g \in GroupCommands, NEW out,
               NEW accept \in BOOLEAN, ReplyJoin(c, u, g, accept, out)
        PROVE  GroupInv'
    <2>1. /\ gcommand[c].pc = "idle" /\ RowsKept /\ groupInfo' = groupInfo
      BY <1>1, <1>4 DEF ReplyJoin, NotBegun
    <2> DEFINE args == [op |-> "reply", gid |-> g, uid |-> u, accept |-> accept]
    <2>2. Enter(c, args, "update") \/ Refuse(c, 0)
      BY <1>4 DEF ReplyJoin
    <2>3. /\ args.op \in {"create", "join", "reply"} /\ args.gid \in Nat /\ args.uid \in Uids
          /\ args.accept \in BOOLEAN
      BY <1>0 DEF Uids
    <2> HIDE DEF args
    <2> QED
      BY SMT, <2>1, <2>2, <2>3, GroupBeginStep, GroupRefusalStep
  <1>5. ASSUME NEW c \in GroupCommands, NEW out, InsertMaster(c, out) PROVE GroupInv'
    <2> DEFINE g == gcommand[c].gid
               u == gcommand[c].uid
    <2>1. /\ gcommand[c].pc = "master" /\ groupInfo' = groupInfo /\ groupApplys' = groupApplys
          /\ InsertGroupMember(g, u, "Master", out) /\ g \in Nat /\ u \in Uids
      BY <1>0, <1>5 DEF InsertMaster
    <2>2. /\ RowsKept
          /\ out = "ok" /\ ~ IsMember(g, u) =>
                 /\ [gid |-> g, uid |-> u, role |-> "Master"] \in groupMembers'
                 /\ InTable(groupMembers', g, u) /\ ~ InTable(groupMembers, g, u)
                 /\ HasMaster(groupMembers', g)
      BY <1>0, <2>1, MemberInserted
    <2>3. CASE out = "ok" /\ ~ IsMember(g, u)
      <3> DEFINE n == GroupDone(gcommand[c], "created")
      <3>1. Answer(c, "created")
        BY <1>5, <2>3 DEF InsertMaster
      <3>2. /\ GroupMoves(c, n) /\ n \in GroupRecord /\ n.pc = "done" /\ n.answer = "created"
            /\ n.gid = g /\ n.uid = u
        BY SMT, <1>0, <3>1, GroupAnswers, GroupFields DEF Joins
      <3> HIDE DEF n
      <3>3. Stored(groupMembers', groupApplys', n)
        BY <2>2, <2>3, <3>2 DEF Stored
      <3> QED
        BY <2>1, <2>2, <2>3, <3>2, <3>3, GroupCommandMoves
    <2>4. CASE ~ (out = "ok" /\ ~ IsMember(g, u))
      <3>1. Refuse(c, g)
        BY <1>5, <2>4 DEF InsertMaster
      <3> QED
        BY <2>1, <2>2, <3>1, GroupRefusalStep
    <2> QED
      BY <2>3, <2>4
  <1>6. ASSUME NEW c \in GroupCommands, NEW out, InsertGroupApply(c, out) PROVE GroupInv'
    <2> DEFINE g == gcommand[c].gid
               u == gcommand[c].uid
               row == [gid |-> g, uid |-> u, status |-> "Wait"]
    <2>1. /\ gcommand[c].pc = "apply" /\ groupInfo' = groupInfo /\ groupMembers' = groupMembers
          /\ g \in Nat /\ u \in Uids
      BY <1>0, <1>6 DEF InsertGroupApply
    <2>2. row \in ApplyRows /\ row.gid = g /\ row.uid = u
      BY <2>1 DEF ApplyRows
    <2>3. /\ groupApplys' \in {groupApplys, groupApplys \cup {row}}
          /\ ~ HasApplied(g, u) /\ out # "failed" => row \in groupApplys'
      BY <1>6 DEF InsertGroupApply
    <2> HIDE DEF row
    <2>4. RowsKept
      BY <1>0, <2>1, <2>2, <2>3 DEF RowsKept, InTable
    <2>5. CASE out = "ok" /\ ~ HasApplied(g, u)
      <3> DEFINE n == GroupDone(gcommand[c], "applied")
      <3>1. Answer(c, "applied")
        BY <1>6, <2>5 DEF InsertGroupApply
      <3>2. /\ GroupMoves(c, n) /\ n \in GroupRecord /\ n.pc = "done" /\ n.answer = "applied"
            /\ n.gid = g /\ n.uid = u /\ "applied" \notin Joins
        BY SMT, <1>0, <3>1, GroupAnswers, GroupFields DEF Joins
      <3> HIDE DEF n
      <3>3. InTable(groupApplys', g, u)
        BY <2>2, <2>3, <2>5 DEF InTable
      <3>4. Stored(groupMembers', groupApplys', n)
        BY <3>2, <3>3 DEF Stored
      <3> QED
        BY <2>1, <2>4, <3>2, <3>4, GroupCommandMoves
    <2>6. CASE ~ (out = "ok" /\ ~ HasApplied(g, u))
      <3>1. Refuse(c, 0)
        BY <1>6, <2>6 DEF InsertGroupApply
      <3> QED
        BY <2>1, <2>4, <3>1, GroupRefusalStep
    <2> QED
      BY <2>5, <2>6
  <1>7. ASSUME NEW c \in GroupCommands, NEW out, UpdateGroupApply(c, out) PROVE GroupInv'
    <2> DEFINE g == gcommand[c].gid
               u == gcommand[c].uid
               Agreed(a) == IF a.gid = g /\ a.uid = u THEN [a EXCEPT !.status = "Agree"] ELSE a
    <2>1. gcommand[c].pc = "update" /\ groupInfo' = groupInfo /\ groupMembers' = groupMembers
      BY <1>7 DEF UpdateGroupApply
    <2>2. groupApplys' \in {groupApplys, {Agreed(a) : a \in groupApplys}}
      BY <1>7 DEF UpdateGroupApply
    <2>3. \A a \in ApplyRows : Agreed(a) \in ApplyRows /\ Agreed(a).gid = a.gid /\ Agreed(a).uid = a.uid
      BY DEF ApplyRows
    <2> HIDE DEF Agreed
    <2>4. RowsKept
      <3>1. groupApplys' \subseteq ApplyRows
        BY SMT, <1>0, <2>2, <2>3
      <3>2. \A h, v : InTable(groupApplys, h, v) => InTable(groupApplys', h, v)
        BY <1>0, <2>2, <2>3 DEF InTable
      <3> QED
        BY <2>1, <3>1, <3>2 DEF RowsKept
    <2>5. CASE Step(c, "member")
      <3> DEFINE n == GroupOnto(gcommand[c], "member")
      <3>1. /\ GroupMoves(c, n) /\ n \in GroupRecord /\ n.pc = "member" /\ n.answer = gcommand[c].answer
        BY <1>0, <2>5, GroupAnswers, GroupFields
      <3> HIDE DEF n
      <3>2. n.answer = "" /\ n.answer \notin Joins
        BY <2>1, <3>1 DEF GroupInv, Stored, Joins
      <3>3. Stored(groupMembers', groupApplys', n)
        BY <3>2 DEF Stored, Joins
      <3> QED
        BY <2>1, <2>4, <3>1, <3>2, <3>3, GroupCommandMoves
    <2>6. CASE Refuse(c, 0)
      BY <2>1, <2>4, <2>6, GroupRefusalStep
    <2> QED
      BY <1>7, <2>5, <2>6 DEF UpdateGroupApply
  <1>8. ASSUME NEW c \in GroupCommands, NEW out, InsertRequestor(c, out) PROVE GroupInv'
    <2> DEFINE g == gcommand[c].gid
               u == gcommand[c].uid
    <2>1. /\ gcommand[c].pc = "member" /\ groupInfo' = groupInfo /\ groupApplys' = groupApplys
          /\ InsertGroupMember(g, u, "Member", out) /\ g \in Nat /\ u \in Uids
      BY <1>0, <1>8 DEF InsertRequestor
    <2>2. /\ RowsKept
          /\ out = "ok" /\ ~ IsMember(g, u) =>
                 InTable(groupMembers', g, u) /\ ~ InTable(groupMembers, g, u)
      BY <1>0, <2>1, MemberInserted
    <2>3. ASSUME NEW answer \in {"agreed", "declined"}, Answer(c, answer), out = "ok", ~ IsMember(g, u)
          PROVE  GroupInv'
      <3> DEFINE n == GroupDone(gcommand[c], answer)
      <3>1. answer \in Joins \cup {"applied"} /\ answer \in Joins /\ answer # "created" /\ answer # "applied" /\ answer # ""
        BY DEF Joins
      <3>2. /\ GroupMoves(c, n) /\ n \in GroupRecord /\ n.pc = "done" /\ n.answer = answer
            /\ n.gid = g /\ n.uid = u
        <4>1. GroupMoves(c, n)
          BY <2>3, GroupAnswers
        <4>2. gcommand[c] \in GroupRecord
          BY <1>0
        <4> QED
          BY ZenonT(30), <3>1, <4>1, <4>2, GroupFields
      <3> HIDE DEF n
      <3>3. Stored(groupMembers', groupApplys', n)
        BY <2>2, <2>3, <3>1, <3>2 DEF Stored
      <3> QED
        BY <2>1, <2>2, <2>3, <3>2, <3>3, GroupCommandMoves
    <2>4. CASE Refuse(c, 0)
      BY <2>1, <2>2, <2>4, GroupRefusalStep
    <2>5. \/ Refuse(c, 0)
          \/ out = "ok" /\ ~ IsMember(g, u) /\ (Answer(c, "agreed") \/ Answer(c, "declined"))
      BY <1>8 DEF InsertRequestor
    <2> QED
      BY <2>3, <2>4, <2>5
  <1>9. CASE UNCHANGED groupVars
    BY <1>9 DEF groupVars, groupTables, GroupInv, GroupTypes
  <1> QED
    BY <1>2, <1>3, <1>4, <1>5, <1>6, <1>7, <1>8, <1>9 DEF GroupsNext

\* For every set of people, groups and commands: a Success of GroupService is backed by
\* the tables, a person joins a group by one reply only though managers answer at the
\* same time, and a group without master is one whose Create still runs or has failed.
THEOREM GroupsTruthful == GroupsSpec => []GroupAnswersTruthful
  <1>1. GroupInv => GroupAnswersTruthful
    <2> SUFFICES ASSUME GroupInv PROVE GroupAnswersTruthful
      OBVIOUS
    <2>1. \A c \in GroupCommands : Stored(groupMembers, groupApplys, gcommand[c])
      BY DEF GroupInv
    <2>2. /\ \A g, u : InTable(groupMembers, g, u) => IsMember(g, u)
          /\ \A g, u : InTable(groupApplys, g, u) => HasApplied(g, u)
      BY DEF InTable, IsMember, HasApplied
    <2>3. ASSUME NEW c \in GroupCommands, NEW d \in GroupCommands \ {c},
                 gcommand[c].answer \in {"agreed", "declined"},
                 gcommand[d].answer \in {"agreed", "declined", "created"}
          PROVE  <<gcommand[d].gid, gcommand[d].uid>> # <<gcommand[c].gid, gcommand[c].uid>>
      BY <2>3 DEF GroupInv, JoinsOnce, Joins
    <2>4. \A g \in groupInfo :
              \/ \E m \in groupMembers : m.gid = g /\ m.role = "Master"
              \/ \E c \in GroupCommands : /\ gcommand[c].gid = g
                                          /\ \/ gcommand[c].pc = "master"
                                             \/ gcommand[c].answer = "refused"
      BY DEF GroupInv, Masters, HasMaster, Accounts
    <2> QED
      BY <2>1, <2>2, <2>3, <2>4 DEF Stored, Joins, GroupAnswersTruthful
  <1> QED
    BY <1>1, GroupInit, GroupStep, PTL DEF GroupsSpec

-----------------------------------------------------------------------------
(* Accounts: the verification codes *)

CodeNumbers == 1..MaxCodes

\* The Redis keys of the codes with what was ever tried against a code.  A code
\* in store has let nobody pass and has attempts left; no two emails share one.
CodesInv(st, tr, us, wr, last) ==
    /\ last \in 0..MaxCodes
    /\ st \in [Emails -> 0..last] /\ tr \in [Emails -> Nat]
    /\ us \in [CodeNumbers -> Nat] /\ wr \in [CodeNumbers -> Nat]
    /\ \A e, f \in Emails : st[e] = st[f] /\ st[e] # NoCode => e = f
    /\ \A e \in Emails : st[e] # NoCode =>
           us[st[e]] = 0 /\ wr[st[e]] <= tr[e] /\ tr[e] < MaxAttempts
    /\ \A k \in CodeNumbers : k > last => us[k] = 0 /\ wr[k] = 0
    /\ \A k \in CodeNumbers : us[k] <= 1 /\ wr[k] <= MaxAttempts

\* A code in store is one that was issued.
LEMMA StoredCode ==
    ASSUME NEW st, NEW tr, NEW us, NEW wr, NEW last, CodesInv(st, tr, us, wr, last)
    PROVE  \A e \in Emails : st[e] # NoCode => st[e] \in CodeNumbers /\ st[e] \in 1..last
  <1>1. MaxCodes \in Nat /\ last \in 0..MaxCodes /\ st \in [Emails -> 0..last]
    BY AccountBounds DEF CodesInv
  <1> QED
    BY SMT, <1>1 DEF CodeNumbers, NoCode

\* A code is generated, and stored or not.
LEMMA CodeGenerated ==
    ASSUME NEW st, NEW tr, NEW us, NEW wr, NEW last, CodesInv(st, tr, us, wr, last), last < MaxCodes,
           NEW e \in Emails
    PROVE  /\ CodesInv(st, tr, us, wr, last + 1)
           /\ CodesInv([st EXCEPT ![e] = last + 1], [tr EXCEPT ![e] = 0], us, wr, last + 1)
  <1>1. MaxCodes \in Nat /\ MaxAttempts \in Nat \ {0} /\ last \in Nat
    BY SMT, AccountBounds DEF CodesInv
  <1>2. CodesInv(st, tr, us, wr, last + 1)
    <2>1. st \in [Emails -> 0..(last + 1)]
      BY SMT, <1>1 DEF CodesInv
    <2> QED
      BY SMTT(30), <1>1, <2>1 DEF CodesInv, CodeNumbers
  <1>3. CodesInv([st EXCEPT ![e] = last + 1], [tr EXCEPT ![e] = 0], us, wr, last + 1)
    <2> DEFINE s == [st EXCEPT ![e] = last + 1]
               t == [tr EXCEPT ![e] = 0]
    <2>1. /\ s \in [Emails -> 0..(last + 1)] /\ t \in [Emails -> Nat]
          /\ s[e] = last + 1 /\ t[e] = 0
          /\ \A f \in Emails \ {e} : s[f] = st[f] /\ t[f] = tr[f] /\ s[f] <= last
      BY SMT, <1>1 DEF CodesInv
    <2>2. us[last + 1] = 0 /\ wr[last + 1] = 0
      BY SMT, <1>1 DEF CodesInv, CodeNumbers
    <2> HIDE DEF s, t
    <2>3. \A f, g \in Emails : s[f] = s[g] /\ s[f] # NoCode => f = g
      BY SMT, <1>1, <2>1 DEF CodesInv
    <2>4. \A f \in Emails : s[f] # NoCode => us[s[f]] = 0 /\ wr[s[f]] <= t[f] /\ t[f] < MaxAttempts
      BY SMT, <1>1, <2>1, <2>2 DEF CodesInv
    <2>5. CodesInv(s, t, us, wr, last + 1)
      BY <1>1, <1>2, <2>1, <2>3, <2>4 DEF CodesInv
    <2> QED
      BY <2>5 DEF s, t
  <1> QED
    BY <1>2, <1>3

\* A code is deleted; what becomes of its attempts does not matter.
LEMMA CodeDeleted ==
    ASSUME NEW st, NEW tr, NEW us, NEW wr, NEW last, CodesInv(st, tr, us, wr, last),
           NEW e \in Emails, NEW left \in Nat
    PROVE  CodesInv([st EXCEPT ![e] = NoCode], [tr EXCEPT ![e] = left], us, wr, last)
  <1> DEFINE s == [st EXCEPT ![e] = NoCode]
             t == [tr EXCEPT ![e] = left]
  <1>0. MaxCodes \in Nat /\ MaxAttempts \in Nat \ {0} /\ last \in Nat
    BY SMT, AccountBounds DEF CodesInv
  <1>1. /\ s \in [Emails -> 0..last] /\ t \in [Emails -> Nat]
        /\ s[e] = NoCode /\ \A f \in Emails \ {e} : s[f] = st[f] /\ t[f] = tr[f]
    BY SMT, <1>0 DEF CodesInv, NoCode
  <1> HIDE DEF s, t
  <1>2. CodesInv(s, t, us, wr, last)
    BY SMT, <1>1 DEF CodesInv
  <1> QED
    BY <1>2 DEF s, t

\* The right code: it lets the request pass and goes.
LEMMA CodeConsumed ==
    ASSUME NEW st, NEW tr, NEW us, NEW wr, NEW last, CodesInv(st, tr, us, wr, last),
           NEW e \in Emails, st[e] # NoCode
    PROVE  /\ st[e] \in CodeNumbers
           /\ CodesInv([st EXCEPT ![e] = NoCode], [tr EXCEPT ![e] = 0],
                       [us EXCEPT ![st[e]] = @ + 1], wr, last)
  <1> DEFINE s == [st EXCEPT ![e] = NoCode]
             t == [tr EXCEPT ![e] = 0]
             u == [us EXCEPT ![st[e]] = @ + 1]
             k == st[e]
  <1>0. MaxCodes \in Nat /\ MaxAttempts \in Nat \ {0} /\ last \in Nat /\ last <= MaxCodes
    BY SMT, AccountBounds DEF CodesInv
  <1>1. k \in CodeNumbers /\ k <= last /\ k # NoCode
    BY SMT, <1>0 DEF CodesInv, CodeNumbers, NoCode
  <1>2. CodesInv(s, t, us, wr, last)
    BY CodeDeleted
  <1>3. /\ u \in [CodeNumbers -> Nat] /\ u[k] = 1 /\ \A j \in CodeNumbers \ {k} : u[j] = us[j]
    BY SMT, <1>1 DEF CodesInv
  <1>4. \A f \in Emails : s[f] # k
    BY <1>1 DEF CodesInv
  <1> HIDE DEF s, t, u, k
  <1>5. \A f \in Emails : s[f] # NoCode => s[f] \in CodeNumbers
    BY <1>2, StoredCode
  <1>6. \A f \in Emails : s[f] # NoCode => u[s[f]] = 0
    BY <1>2, <1>3, <1>4, <1>5 DEF CodesInv
  <1>7. \A j \in CodeNumbers : j > last => u[j] = 0
    BY SMT, <1>0, <1>1, <1>2, <1>3 DEF CodesInv, CodeNumbers
  <1>8. \A j \in CodeNumbers : u[j] <= 1
    BY SMT, <1>2, <1>3 DEF CodesInv
  <1>9. CodesInv(s, t, u, wr, last)
    BY <1>2, <1>3, <1>6, <1>7, <1>8 DEF CodesInv
  <1> QED
    BY <1>1, <1>9 DEF s, t, u, k

\* A wrong code counts; the last one deletes the code.
LEMMA CodeMissed ==
    ASSUME NEW st, NEW tr, NEW us, NEW wr, NEW last, CodesInv(st, tr, us, wr, last),
           NEW e \in Emails, st[e] # NoCode
    PROVE  LET w == [wr EXCEPT ![st[e]] = @ + 1]
           IN  /\ tr[e] + 1 >= MaxAttempts =>
                      CodesInv([st EXCEPT ![e] = NoCode], [tr EXCEPT ![e] = 0], us, w, last)
               /\ ~ (tr[e] + 1 >= MaxAttempts) =>
                      CodesInv(st, [tr EXCEPT ![e] = tr[e] + 1], us, w, last)
  <1> DEFINE s == [st EXCEPT ![e] = NoCode]
             t == [tr EXCEPT ![e] = 0]
             v == [tr EXCEPT ![e] = tr[e] + 1]
             w == [wr EXCEPT ![st[e]] = @ + 1]
             k == st[e]
  <1>0. /\ MaxCodes \in Nat /\ MaxAttempts \in Nat \ {0} /\ last \in Nat /\ last <= MaxCodes
        /\ tr[e] \in Nat
    BY SMT, AccountBounds DEF CodesInv
  <1>1. /\ k \in CodeNumbers /\ k <= last /\ k # NoCode /\ wr[k] \in Nat
        /\ wr[k] <= tr[e] /\ tr[e] < MaxAttempts
    BY SMT, <1>0 DEF CodesInv, CodeNumbers, NoCode
  <1>2. CodesInv(s, t, us, wr, last)
    BY CodeDeleted
  <1>3. /\ w \in [CodeNumbers -> Nat] /\ w[k] = wr[k] + 1 /\ \A j \in CodeNumbers \ {k} : w[j] = wr[j]
    BY SMT, <1>1 DEF CodesInv
  <1>4. \A f \in Emails : s[f] # k
    BY <1>1 DEF CodesInv
  <1>5. v \in [Emails -> Nat] /\ v[e] = tr[e] + 1 /\ \A f \in Emails \ {e} : v[f] = tr[f] /\ st[f] # k
    BY SMT, <1>0, <1>1 DEF CodesInv
  <1> HIDE DEF s, t, v, w
  <1>6. \A f \in Emails : /\ s[f] # NoCode => s[f] \in CodeNumbers
                          /\ st[f] # NoCode => st[f] \in CodeNumbers
    <2>1. \A f \in Emails : st[f] # NoCode => st[f] \in CodeNumbers
      BY StoredCode
    <2>2. \A f \in Emails : s[f] # NoCode => s[f] \in CodeNumbers
      BY <1>2, StoredCode
    <2> QED
      BY <2>1, <2>2
  <1>7. \A j \in CodeNumbers : w[j] <= MaxAttempts
    BY SMT, <1>0, <1>1, <1>2, <1>3 DEF CodesInv
  <1>8. \A j \in CodeNumbers : j > last => w[j] = 0
    BY SMT, <1>0, <1>1, <1>2, <1>3 DEF CodesInv, CodeNumbers
  <1>9. CodesInv(s, t, us, w, last)
    <2>1. \A f \in Emails : s[f] # NoCode => w[s[f]] <= t[f]
      BY <1>2, <1>3, <1>4, <1>6 DEF CodesInv
    <2> QED
      BY <1>2, <1>3, <1>7, <1>8, <2>1 DEF CodesInv
  <1>10. ASSUME ~ (tr[e] + 1 >= MaxAttempts) PROVE CodesInv(st, v, us, w, last)
    <2>1. \A f \in Emails : st[f] # NoCode => w[st[f]] <= v[f] /\ v[f] < MaxAttempts
      <3> SUFFICES ASSUME NEW f \in Emails, st[f] # NoCode
                   PROVE  w[st[f]] <= v[f] /\ v[f] < MaxAttempts
        OBVIOUS
      <3>1. CASE f = e
        BY SMT, <1>0, <1>1, <1>3, <1>5, <1>10, <3>1
      <3>2. CASE f # e
        BY <1>3, <1>5, <1>6, <3>2 DEF CodesInv
      <3> QED
        BY <3>1, <3>2
    <2> QED
      BY <1>3, <1>5, <1>7, <1>8, <2>1 DEF CodesInv
  <1> QED
    BY <1>9, <1>10 DEF s, t, v, w

-----------------------------------------------------------------------------
(* Accounts: who answers for a code *)

RequestRecord ==
    [op : {"", "code", "signUp", "forget", "signIn"}, email : Emails \cup {""},
     name : Usernames \cup {""}, code : Nat,
     pc : {"idle", "send", "clear", "name", "consume", "count", "insert", "modify", "token", "done"},
     answer : {"", "issued", "refused", "registered", "changed", "signedIn"}]

\* The request m mails a code, withdraws it, or has confirmed it.
Owner(m) == m.pc \in {"send", "clear"} \/ m.answer = "issued"

\* What holds of a request m when last codes have been generated.
RequestInv(m, last) ==
    /\ m.answer # "" => m.pc = "done"
    /\ m.pc \in {"name", "consume"} \/ Owner(m) => m.email \in Emails
    /\ Owner(m) => m.code \in 1..last

\* A code that is being mailed, or was confirmed, is in store or spent.
Held(st, sp, m) ==
    m.pc = "send" \/ m.answer = "issued" => m.code \in {st[m.email]} \cup sp

AccountInv ==
    /\ CodesInv(stored, tries, used, wrong, issued)
    /\ req \in [Requests -> RequestRecord]
    /\ \A r \in Requests : RequestInv(req[r], issued) /\ Held(stored, spent, req[r])
    /\ \A r, q \in Requests : r # q /\ Owner(req[r]) /\ Owner(req[q]) => req[r].code # req[q].code

\* No code is in store initially.
LEMMA AccountStart == AccountInit => AccountInv
  <1> SUFFICES ASSUME AccountInit PROVE AccountInv
    OBVIOUS
  <1>0. MaxCodes \in Nat /\ MaxAttempts \in Nat \ {0}
    BY AccountBounds
  <1>1. CodesInv(stored, tries, used, wrong, issued)
    BY SMT, <1>0 DEF AccountInit, CodesInv, CodeNumbers, NoCode
  <1>2. NoRequest \in RequestRecord /\ NoRequest.pc = "idle" /\ NoRequest.answer = ""
    BY DEF NoRequest, RequestRecord, NoCode
  <1>3. req \in [Requests -> RequestRecord] /\ \A r \in Requests : req[r] = NoRequest
    BY <1>2 DEF AccountInit
  <1> QED
    BY <1>1, <1>2, <1>3 DEF AccountInv, RequestInv, Held, Owner

\* A step takes no code out of store but k, unless the code is spent.
Keeps(k) ==
    /\ spent \subseteq spent'
    /\ \A e \in Emails : \/ stored'[e] = stored[e]
                         \/ stored[e] \in {NoCode, k} \cup spent'

\* One request goes on to the record n.
Onward(r, n) == req' = [req EXCEPT ![r] = n]

\* The new record of a request owns what the old one did, or the newest code.
LEMMA RequestMoves ==
    ASSUME AccountInv, NEW r \in Requests, NEW n \in RequestRecord, Onward(r, n),
           CodesInv(stored', tries', used', wrong', issued'), issued' \in {issued, issued + 1},
           NEW k, Keeps(k),
           k = NoCode \/ (Owner(req[r]) /\ k = req[r].code),
           RequestInv(n, issued'), Held(stored', spent', n),
           Owner(n) => \/ Owner(req[r]) /\ n.code = req[r].code
                       \/ issued' = issued + 1 /\ n.code = issued + 1
    PROVE  AccountInv'
  <1>0. issued \in Nat /\ issued' \in Nat /\ issued <= issued'
    BY SMT, AccountBounds DEF AccountInv, CodesInv
  <1>1. req' \in [Requests -> RequestRecord]
    BY DEF Onward, AccountInv
  <1>2. req'[r] = n /\ \A q \in Requests \ {r} : req'[q] = req[q]
    BY DEF Onward, AccountInv
  <1>3. \A q \in Requests : RequestInv(req[q], issued')
    <2>1. \A q \in Requests : RequestInv(req[q], issued)
      BY DEF AccountInv
    <2>2. 1..issued \subseteq 1..issued'
      BY SMT, <1>0
    <2> QED
      BY <2>1, <2>2 DEF RequestInv
  <1>4. ASSUME NEW q \in Requests \ {r} PROVE Held(stored', spent', req[q])
    <2> SUFFICES ASSUME req[q].pc = "send" \/ req[q].answer = "issued"
                 PROVE  req[q].code \in {stored'[req[q].email]} \cup spent'
      BY DEF Held
    <2>1. Owner(req[q]) /\ req[q].email \in Emails /\ req[q].code \in 1..issued
      BY DEF AccountInv, RequestInv, Owner
    <2>2. req[q].code \in {stored[req[q].email]} \cup spent
      BY DEF AccountInv, Held
    <2>3. req[q].code # NoCode
      BY SMT, <1>0, <2>1 DEF NoCode
    <2>4. req[q].code # k
      BY <2>1, <2>3 DEF AccountInv
    <2> QED
      BY <2>1, <2>2, <2>3, <2>4 DEF Keeps
  <1>5. ASSUME NEW q \in Requests \ {r}, Owner(req[q]), Owner(n) PROVE req[q].code # n.code
    <2>1. req[q].code \in 1..issued
      BY <1>5 DEF AccountInv, RequestInv
    <2>2. CASE Owner(req[r]) /\ n.code = req[r].code
      BY <1>5, <2>2 DEF AccountInv
    <2>3. CASE n.code = issued + 1
      BY SMT, <1>0, <2>1, <2>3
    <2> QED
      BY <1>5, <2>2, <2>3
  <1>6. \A q \in Requests : RequestInv(req'[q], issued') /\ Held(stored', spent', req'[q])
    BY <1>2, <1>3, <1>4
  <1>7. \A p, q \in Requests : p # q /\ Owner(req'[p]) /\ Owner(req'[q]) => req'[p].code # req'[q].code
    <2>1. \A p, q \in Requests \ {r} : p # q /\ Owner(req[p]) /\ Owner(req[q]) => req[p].code # req[q].code
      BY DEF AccountInv
    <2> TAKE p, q \in Requests
    <2>2. CASE p # r /\ q # r
      BY <1>2, <2>1, <2>2
    <2>3. CASE p = r /\ q # r
      BY <1>2, <1>5, <2>3
    <2>4. CASE p # r /\ q = r
      BY <1>2, <1>5, <2>4
    <2> QED
      BY <2>2, <2>3, <2>4
  <1> QED
    BY <1>1, <1>6, <1>7 DEF AccountInv

\* The records that Goto, Finish and Start leave.
Going(m, pc) == [m EXCEPT !.pc = pc]
Confirmed(m) == [m EXCEPT !.pc = "done", !.answer = "issued"]
Ended(answer) == [NoRequest EXCEPT !.pc = "done", !.answer = answer]
Started(args, pc) == [op |-> args.op, email |-> args.email, name |-> args.name, code |-> args.code,
                      pc |-> pc, answer |-> ""]

\* The records of requests that go on, have mailed a code, or have answered.
LEMMA RequestFields ==
    /\ \A m \in RequestRecord, pc \in {"clear", "consume", "count", "modify", "insert"} :
           /\ Going(m, pc) \in RequestRecord /\ Going(m, pc).pc = pc
           /\ Going(m, pc).email = m.email /\ Going(m, pc).code = m.code /\ Going(m, pc).answer = m.answer
    /\ \A m \in RequestRecord :
           /\ Confirmed(m) \in RequestRecord /\ Confirmed(m).pc = "done" /\ Confirmed(m).answer = "issued"
           /\ Confirmed(m).email = m.email /\ Confirmed(m).code = m.code
    /\ \A answer \in {"refused", "registered", "changed", "signedIn"} :
           Ended(answer) \in RequestRecord /\ Ended(answer).pc = "done" /\ Ended(answer).answer = answer
  <1>1. \A m \in RequestRecord, pc \in {"clear", "consume", "count", "modify", "insert"} :
           /\ Going(m, pc) \in RequestRecord /\ Going(m, pc).pc = pc
           /\ Going(m, pc).email = m.email /\ Going(m, pc).code = m.code /\ Going(m, pc).answer = m.answer
    <2> TAKE m \in RequestRecord, pc \in {"clear", "consume", "count", "modify", "insert"}
    <2>1. Going(m, pc) \in RequestRecord
      BY DEF Going, RequestRecord
    <2>2. Going(m, pc).pc = pc
      BY DEF Going, RequestRecord
    <2>3. Going(m, pc).email = m.email /\ Going(m, pc).code = m.code /\ Going(m, pc).answer = m.answer
      BY DEF Going, RequestRecord
    <2> QED
      BY <2>1, <2>2, <2>3
  <1>2. \A m \in RequestRecord :
           /\ Confirmed(m) \in RequestRecord /\ Confirmed(m).pc = "done" /\ Confirmed(m).answer = "issued"
           /\ Confirmed(m).email = m.email /\ Confirmed(m).code = m.code
    <2> TAKE m \in RequestRecord
    <2>1. Confirmed(m) \in RequestRecord
      BY DEF Confirmed, RequestRecord
    <2>2. Confirmed(m).pc = "done" /\ Confirmed(m).answer = "issued"
      BY DEF Confirmed, RequestRecord
    <2>3. Confirmed(m).email = m.email /\ Confirmed(m).code = m.code
      BY DEF Confirmed, RequestRecord
    <2> QED
      BY <2>1, <2>2, <2>3
  <1>3. \A answer \in {"refused", "registered", "changed", "signedIn"} :
           Ended(answer) \in RequestRecord /\ Ended(answer).pc = "done" /\ Ended(answer).answer = answer
    BY DEF Ended, RequestRecord, NoRequest, NoCode
  <1> QED
    BY <1>1, <1>2, <1>3

\* What Goto, Finish and Start make of the record of a request.
LEMMA RequestAnswers ==
    ASSUME NEW r \in Requests
    PROVE  /\ \A pc : Goto(r, pc) => Onward(r, Going(req[r], pc))
           /\ Finish(r, "issued") => Onward(r, Confirmed(req[r]))
           /\ \A answer : answer # "issued" /\ Finish(r, answer) => Onward(r, Ended(answer))
           /\ \A args, pc : Start(r, args, pc) => Onward(r, Started(args, pc))
  <1>1. \A pc : Goto(r, pc) => Onward(r, Going(req[r], pc))
    BY DEF Goto, Onward, Going
  <1>2. Finish(r, "issued") => Onward(r, Confirmed(req[r]))
    BY DEF Finish, Onward, Confirmed
  <1>3. \A answer : answer # "issued" /\ Finish(r, answer) => Onward(r, Ended(answer))
    BY DEF Finish, Onward, Ended
  <1>4. \A args, pc : Start(r, args, pc) => Onward(r, Started(args, pc))
    BY DEF Start, Onward, Started
  <1> QED
    BY <1>1, <1>2, <1>3, <1>4

\* A request that ends, or goes on, without a code of its own.
LEMMA OwnsNothing ==
    ASSUME AccountInv, NEW r \in Requests, NEW n \in RequestRecord, Onward(r, n),
           CodesInv(stored', tries', used', wrong', issued'), issued' \in {issued, issued + 1},
           NEW k, Keeps(k), k = NoCode \/ (Owner(req[r]) /\ k = req[r].code),
           n.pc \notin {"send", "clear"}, n.answer # "issued",
           n.answer # "" => n.pc = "done", n.pc \in {"name", "consume"} => n.email \in Emails
    PROVE  AccountInv'
  <1>1. ~ Owner(n) /\ RequestInv(n, issued') /\ Held(stored', spent', n)
    BY DEF Owner, RequestInv, Held
  <1> QED
    BY <1>1, RequestMoves

\* The handlers that leave the codes alone.
LEMMA CodesAlone ==
    ASSUME AccountInv, UNCHANGED codeVars
    PROVE  /\ CodesInv(stored', tries', used', wrong', issued') /\ issued' \in {issued, issued + 1}
           /\ Keeps(NoCode) /\ issued' = issued /\ stored' = stored /\ spent' = spent
  <1>1. /\ stored' = stored /\ tries' = tries /\ used' = used /\ wrong' = wrong
        /\ issued' = issued /\ spent' = spent
    BY DEF codeVars
  <1> QED
    BY <1>1 DEF AccountInv, Keeps

\* A request ends without a confirmed code.
LEMMA EndStep ==
    ASSUME AccountInv, NEW r \in Requests, NEW answer \in {"refused", "registered", "changed", "signedIn"},
           Finish(r, answer), CodesInv(stored', tries', used', wrong', issued'),
           issued' \in {issued, issued + 1},
           NEW k, Keeps(k), k = NoCode \/ (Owner(req[r]) /\ k = req[r].code)
    PROVE  AccountInv'
  <1>1. answer # "issued"
    OBVIOUS
  <1>2. Onward(r, Ended(answer))
    BY <1>1, RequestAnswers
  <1>3. Ended(answer) \in RequestRecord /\ Ended(answer).pc = "done" /\ Ended(answer).answer = answer
    BY RequestFields
  <1> QED
    BY <1>1, <1>2, <1>3, OwnsNothing

\* A request goes on to the next statement of its handler.
LEMMA GoStep ==
    ASSUME AccountInv, NEW r \in Requests, NEW pc \in {"consume", "count", "modify", "insert"},
           Goto(r, pc), req[r].pc \in {"name", "consume", "count"}, pc = "consume" => req[r].pc = "name",
           CodesInv(stored', tries', used', wrong', issued'), issued' \in {issued, issued + 1},
           Keeps(NoCode)
    PROVE  AccountInv'
  <1> DEFINE n == Going(req[r], pc)
  <1>1. req[r] \in RequestRecord /\ RequestInv(req[r], issued)
    BY DEF AccountInv
  <1>2. /\ Onward(r, n) /\ n \in RequestRecord /\ n.pc = pc
        /\ n.email = req[r].email /\ n.answer = req[r].answer
    <2>1. Onward(r, n)
      BY RequestAnswers
    <2>2. pc \in {"clear", "consume", "count", "modify", "insert"}
      OBVIOUS
    <2>3. \A m \in RequestRecord :
             /\ Going(m, pc) \in RequestRecord /\ Going(m, pc).pc = pc
             /\ Going(m, pc).email = m.email /\ Going(m, pc).answer = m.answer
      BY SMT, <2>2, RequestFields
    <2> QED
      BY <1>1, <2>1, <2>3
  <1> HIDE DEF n
  <1>3. n.answer = "" /\ (n.pc \in {"name", "consume"} => n.email \in Emails)
    BY <1>1, <1>2 DEF RequestInv
  <1> QED
    BY <1>2, <1>3, OwnsNothing

\* A request begins that has no code of its own.
LEMMA StartStep ==
    ASSUME AccountInv, NEW r \in Requests, NEW args, NEW pc \in {"name", "consume", "token"},
           Start(r, args, pc), args.op \in {"signUp", "forget", "signIn"},
           args.email \in Emails \cup {""}, args.name \in Usernames, args.code \in Nat,
           pc # "token" => args.email \in Emails, UNCHANGED codeVars
    PROVE  AccountInv'
  <1> DEFINE n == Started(args, pc)
  <1>1. Onward(r, n) /\ n.pc = pc /\ n.answer = "" /\ n.email = args.email
    BY RequestAnswers DEF Started
  <1>2. n \in RequestRecord
    BY DEF Started, RequestRecord
  <1> HIDE DEF n
  <1>3. n.pc \notin {"send", "clear"}
    BY <1>1
  <1> QED
    BY <1>1, <1>2, <1>3, CodesAlone, OwnsNothing

\* The handlers of verification codes, as they change the codes.
LEMMA RequestEmailCodeStep ==
    ASSUME AccountInv, NEW r \in Requests, NEW e \in Emails, NEW out, RequestEmailCode(r, e, out)
    PROVE  AccountInv'
  <1> DEFINE issues == ~ cooldown[e] /\ out # "failed"
             code == issued + 1
  <1>0. /\ CodesInv(stored, tries, used, wrong, issued) /\ issued \in Nat /\ issued < MaxCodes
        /\ issued' = issued + 1 /\ UNCHANGED <<used, wrong>>
    <2>1. CodesInv(stored, tries, used, wrong, issued)
      BY DEF AccountInv
    <2>2. issued \in Nat
      BY SMT, <2>1, AccountBounds DEF CodesInv
    <2> QED
      BY <2>1, <2>2 DEF RequestEmailCode
  <1>1. CASE ~ issues
    <2>1. /\ stored' = stored /\ tries' = tries /\ spent' = spent /\ Finish(r, "refused")
      BY <1>1 DEF RequestEmailCode
    <2>2. CodesInv(stored', tries', used', wrong', issued')
      BY <1>0, <2>1, CodeGenerated
    <2>3. Keeps(NoCode)
      BY <2>1 DEF Keeps
    <2> QED
      BY <1>0, <2>1, <2>2, <2>3, EndStep
  <1>2. CASE issues
    <2>1. /\ stored' = [stored EXCEPT ![e] = code] /\ tries' = [tries EXCEPT ![e] = 0]
          /\ spent' = spent \cup ({stored[e]} \ {NoCode})
      BY <1>2 DEF RequestEmailCode
    <2>2. CodesInv(stored', tries', used', wrong', issued')
      BY <1>0, <2>1, CodeGenerated
    <2>3. Keeps(NoCode) /\ stored'[e] = code
      <3>1. stored \in [Emails -> 0..issued]
        BY <1>0 DEF CodesInv
      <3> QED
        BY <2>1, <3>1 DEF Keeps
    <2>4. CASE out = "ok"
      <3> DEFINE args == [op |-> "code", email |-> e, name |-> "", code |-> code]
                 n == Started(args, "send")
      <3>1. Start(r, args, "send")
        BY <1>2, <2>4 DEF RequestEmailCode
      <3>2. Onward(r, n) /\ n.pc = "send" /\ n.answer = "" /\ n.email = e /\ n.code = code
        BY <3>1, RequestAnswers DEF Started
      <3>3. n \in RequestRecord
        <4>1. args.op = "code" /\ args.email \in Emails /\ args.name = "" /\ args.code \in Nat
          BY SMT, <1>0
        <4> HIDE DEF args
        <4> QED
          BY <4>1 DEF Started, RequestRecord
      <3> HIDE DEF n
      <3>4. code \in 1..issued'
        BY SMT, <1>0
      <3>5. RequestInv(n, issued') /\ Held(stored', spent', n)
        BY <2>3, <3>2, <3>4 DEF RequestInv, Held
      <3> QED
        BY <1>0, <2>2, <2>3, <3>2, <3>3, <3>5, RequestMoves
    <2>5. CASE out # "ok"
      <3>1. Finish(r, "refused")
        BY <1>2, <2>5 DEF RequestEmailCode
      <3> QED
        BY <1>0, <2>2, <2>3, <3>1, EndStep
    <2> QED
      BY <2>4, <2>5
  <1> QED
    BY <1>1, <1>2

\* The mail is out, or it failed and the code is to be withdrawn.
LEMMA SendEmailStep ==
    ASSUME AccountInv, NEW r \in Requests, NEW sent, SendEmail(r, sent)
    PROVE  AccountInv'
  <1>1. /\ req[r] \in RequestRecord /\ req[r].pc = "send" /\ UNCHANGED codeVars
        /\ RequestInv(req[r], issued) /\ Held(stored, spent, req[r]) /\ Owner(req[r])
    BY DEF SendEmail, At, AccountInv, Owner
  <1>2. /\ CodesInv(stored', tries', used', wrong', issued') /\ issued' \in {issued, issued + 1}
        /\ Keeps(NoCode) /\ issued' = issued /\ stored' = stored /\ spent' = spent
    BY <1>1, CodesAlone
  <1>3. ASSUME NEW n \in RequestRecord, Onward(r, n), n.email = req[r].email, n.code = req[r].code,
               \/ n.pc = "done" /\ n.answer = "issued"
               \/ n.pc = "clear" /\ n.answer = ""
        PROVE  AccountInv'
    <2>1. RequestInv(n, issued') /\ Held(stored', spent', n)
      BY <1>1, <1>2, <1>3 DEF RequestInv, Held, Owner
    <2> QED
      BY <1>1, <1>2, <1>3, <2>1, RequestMoves
  <1>4. CASE Finish(r, "issued")
    <2>1. Onward(r, Confirmed(req[r]))
      BY <1>4, RequestAnswers
    <2> QED
      BY <1>1, <1>3, <2>1, RequestFields
  <1>5. CASE Goto(r, "clear")
    <2>1. Onward(r, Going(req[r], "clear"))
      BY <1>5, RequestAnswers
    <2>2. req[r].answer = ""
      BY <1>1 DEF RequestInv
    <2> QED
      <3> DEFINE n == Going(req[r], "clear")
      <3>1. /\ n \in RequestRecord /\ n.pc = "clear" /\ n.answer = req[r].answer
            /\ n.email = req[r].email /\ n.code = req[r].code
        BY ZenonT(30), <1>1, RequestFields
      <3> HIDE DEF n
      <3>2. Onward(r, n)
        BY <2>1 DEF n
      <3> QED
        BY <1>3, <2>2, <3>1, <3>2
  <1> QED
    BY <1>4, <1>5 DEF SendEmail

\* clearVerificationCode takes only the code of its own request out of store.
LEMMA ClearCodeStep ==
    ASSUME AccountInv, NEW r \in Requests, NEW out, ClearCode(r, out)
    PROVE  AccountInv'
  <1> DEFINE e == req[r].email
             clears == out # "failed" /\ stored[e] = req[r].code
  <1>1. /\ req[r].pc = "clear" /\ Owner(req[r]) /\ e \in Emails
        /\ issued' = issued /\ spent' = spent /\ used' = used /\ wrong' = wrong
        /\ Finish(r, "refused")
        /\ CodesInv(stored, tries, used, wrong, issued) /\ stored \in [Emails -> 0..issued]
    BY DEF ClearCode, At, Owner, AccountInv, RequestInv, CodesInv
  <1>2. CASE clears
    <2>1. stored' = [stored EXCEPT ![e] = NoCode] /\ tries' = [tries EXCEPT ![e] = 0]
      BY <1>2 DEF ClearCode
    <2>2. CodesInv(stored', tries', used', wrong', issued')
      BY <1>1, <2>1, CodeDeleted
    <2>3. Keeps(req[r].code)
      BY <1>1, <1>2, <2>1 DEF Keeps
    <2> QED
      BY <1>1, <2>2, <2>3, EndStep
  <1>3. CASE ~ clears
    <2>1. stored' = stored /\ tries' = tries
      BY <1>3 DEF ClearCode
    <2>2. CodesInv(stored', tries', used', wrong', issued') /\ Keeps(NoCode)
      BY <1>1, <2>1 DEF Keeps
    <2> QED
      BY <1>1, <2>2, EndStep
  <1> QED
    BY <1>2, <1>3

\* An expired code is spent.
LEMMA CodeExpiresStep ==
    ASSUME AccountInv, NEW e \in Emails, CodeExpires(e)
    PROVE  AccountInv'
  <1>1. /\ issued' = issued /\ used' = used /\ wrong' = wrong /\ req' = req
        /\ stored' = [stored EXCEPT ![e] = NoCode] /\ spent' = spent \cup {stored[e]}
        /\ CodesInv(stored, tries, used, wrong, issued) /\ stored \in [Emails -> 0..issued]
        /\ tries \in [Emails -> Nat]
    BY DEF CodeExpires, AccountInv, CodesInv
  <1>2. PICK left \in Nat : tries' = [tries EXCEPT ![e] = left]
    BY <1>1 DEF CodeExpires
  <1>3. CodesInv(stored', tries', used', wrong', issued')
    BY <1>1, <1>2, CodeDeleted
  <1>4. ASSUME NEW q \in Requests PROVE Held(stored', spent', req[q])
    <2> SUFFICES ASSUME req[q].pc = "send" \/ req[q].answer = "issued"
                 PROVE  req[q].code \in {stored'[req[q].email]} \cup spent'
      BY DEF Held
    <2>1. req[q].email \in Emails /\ req[q].code \in {stored[req[q].email]} \cup spent
      BY DEF AccountInv, RequestInv, Owner, Held
    <2> QED
      BY <1>1, <2>1
  <1> QED
    BY <1>1, <1>3, <1>4 DEF AccountInv

\* consumeVerificationCode: the script that passes a code deletes it, a wrong one counts.
LEMMA VerifyAndConsumeStep ==
    ASSUME AccountInv, NEW r \in Requests, NEW out, VerifyAndConsume(r, out)
    PROVE  AccountInv'
  <1> DEFINE e     == req[r].email
             runs  == out # "failed" /\ stored[e] # NoCode
             right == runs /\ stored[e] = req[r].code
             last  == runs /\ ~ right /\ LastAttempt(tries[e] + 1)
  <1>1. /\ req[r].pc = "consume" /\ e \in Emails /\ issued' = issued
        /\ CodesInv(stored, tries, used, wrong, issued) /\ stored \in [Emails -> 0..issued]
        /\ tries \in [Emails -> Nat]
    BY DEF VerifyAndConsume, At, AccountInv, RequestInv, CodesInv
  <1>2. ASSUME CodesInv(stored', tries', used', wrong', issued'), Keeps(NoCode) PROVE AccountInv'
    <2>1. Finish(r, "refused") \/ Goto(r, "count") \/ Goto(r, "modify")
      BY DEF VerifyAndConsume
    <2>2. CASE Finish(r, "refused")
      BY <1>1, <1>2, <2>2, EndStep
    <2>3. CASE Goto(r, "count") \/ Goto(r, "modify")
      BY <1>1, <1>2, <2>3, GoStep
    <2> QED
      BY <2>1, <2>2, <2>3
  <1>3. CASE right
    <2>1. /\ stored' = [stored EXCEPT ![e] = NoCode]
          /\ spent' = spent \cup {stored[e]} /\ wrong' = wrong
          /\ used' = [used EXCEPT ![stored[e]] = @ + 1]
          /\ tries' = [tries EXCEPT ![e] = 0]
      BY <1>3 DEF VerifyAndConsume, Deletes
    <2>2. CodesInv(stored', tries', used', wrong', issued')
      BY <1>1, <1>3, <2>1, CodeConsumed
    <2> QED
      BY <1>1, <1>2, <2>1, <2>2 DEF Keeps
  <1>4. CASE last
    <2>1. /\ stored' = [stored EXCEPT ![e] = NoCode]
          /\ spent' = spent \cup {stored[e]} /\ used' = used
          /\ wrong' = [wrong EXCEPT ![stored[e]] = @ + 1]
          /\ tries' = [tries EXCEPT ![e] = 0]
      BY <1>4 DEF VerifyAndConsume, Deletes
    <2>2. CodesInv(stored', tries', used', wrong', issued')
      BY <1>1, <1>4, <2>1, CodeMissed DEF LastAttempt
    <2> QED
      BY <1>1, <1>2, <2>1, <2>2 DEF Keeps
  <1>5. CASE runs /\ ~ right /\ ~ last
    <2>1. /\ stored' = stored /\ spent' = spent /\ used' = used
          /\ wrong' = [wrong EXCEPT ![stored[e]] = @ + 1]
          /\ tries' = [tries EXCEPT ![e] = tries[e] + 1]
      BY <1>5 DEF VerifyAndConsume, Deletes
    <2>2. CodesInv(stored', tries', used', wrong', issued')
      BY <1>1, <1>5, <2>1, CodeMissed DEF LastAttempt
    <2> QED
      BY <1>1, <1>2, <2>1, <2>2 DEF Keeps
  <1>6. CASE ~ runs
    <2>1. /\ stored' = stored /\ spent' = spent /\ used' = used /\ wrong' = wrong
          /\ tries' = [tries EXCEPT ![e] = tries[e]]
      BY <1>6 DEF VerifyAndConsume, Deletes
    <2>2. tries' = tries
      BY <1>1, <2>1
    <2> QED
      BY <1>1, <1>2, <2>1, <2>2 DEF Keeps
  <1> QED
    BY <1>3, <1>4, <1>5, <1>6

\* Every step keeps the invariant.
LEMMA AccountStep == AccountInv /\ [AccountNext]_accountVars => AccountInv'
  <1> SUFFICES ASSUME AccountInv, [AccountNext]_accountVars PROVE AccountInv'
    OBVIOUS
  <1>0. \A code \in 1..MaxCodes : code \in Nat
    BY SMT, AccountBounds
  <1>1. ASSUME NEW r \in Requests, UNCHANGED codeVars,
               \E answer \in {"refused", "registered", "changed", "signedIn"} : Finish(r, answer)
        PROVE  AccountInv'
    BY <1>1, CodesAlone, EndStep
  <1>2. ASSUME NEW r \in Requests, NEW e \in Emails, NEW u \in Usernames, NEW code \in 1..MaxCodes,
               NEW out, SignUp(r, e, u, code, out)
        PROVE  AccountInv'
    <2> DEFINE args == [op |-> "signUp", email |-> e, name |-> u, code |-> code]
    <2>1. UNCHANGED codeVars /\ (Finish(r, "refused") \/ Start(r, args, "name"))
      BY <1>2 DEF SignUp
    <2>2. args.op = "signUp" /\ args.email = e /\ args.name = u /\ args.code = code
      OBVIOUS
    <2> HIDE DEF args
    <2> QED
      BY <1>0, <1>1, <2>1, <2>2, StartStep
  <1>3. ASSUME NEW r \in Requests, NEW e \in Emails, NEW u \in Usernames, NEW code \in 1..MaxCodes,
               NEW out, ForgetPassword(r, e, u, code, out)
        PROVE  AccountInv'
    <2> DEFINE args == [op |-> "forget", email |-> e, name |-> u, code |-> code]
    <2>1. UNCHANGED codeVars /\ (Finish(r, "refused") \/ Start(r, args, "consume"))
      BY <1>3 DEF ForgetPassword
    <2>2. args.op = "forget" /\ args.email = e /\ args.name = u /\ args.code = code
      OBVIOUS
    <2> HIDE DEF args
    <2> QED
      BY <1>0, <1>1, <2>1, <2>2, StartStep
  <1>4. ASSUME NEW r \in Requests, NEW u \in Usernames, NEW password, NEW picked, NEW out,
               SignIn(r, u, password, picked, out)
        PROVE  AccountInv'
    <2> DEFINE args == [op |-> "signIn", email |-> "", name |-> u, code |-> NoCode]
    <2>1. UNCHANGED codeVars /\ (Finish(r, "refused") \/ Start(r, args, "token"))
      BY <1>4 DEF SignIn
    <2>2. args.op = "signIn" /\ args.email = "" /\ args.name = u /\ args.code = NoCode
      OBVIOUS
    <2>3. NoCode \in Nat
      BY DEF NoCode
    <2> HIDE DEF args
    <2> QED
      BY <1>1, <2>1, <2>2, <2>3, StartStep
  <1>5. ASSUME NEW r \in Requests, NEW out,
               HasUsername(r, out) \/ CountUsers(r, out)
        PROVE  AccountInv'
    <2>1. /\ UNCHANGED codeVars
          /\ \/ Finish(r, "refused")
             \/ req[r].pc = "name" /\ Goto(r, "consume")
             \/ req[r].pc = "count" /\ Goto(r, "insert")
      BY <1>5 DEF HasUsername, CountUsers, At
    <2> QED
      BY <1>1, <2>1, CodesAlone, GoStep
  <1>6. ASSUME NEW r \in Requests, NEW out,
               InsertUser(r, out) \/ ModifyPassword(r, out) \/ SetChatAuthToken(r, out)
        PROVE  AccountInv'
    <2>1. /\ UNCHANGED codeVars
          /\ \/ Finish(r, "refused") \/ Finish(r, "registered")
             \/ Finish(r, "changed") \/ Finish(r, "signedIn")
      BY <1>6 DEF InsertUser, ModifyPassword, SetChatAuthToken
    <2> QED
      BY <1>1, <2>1
  <1>7. ASSUME NEW e \in Emails, CooldownExpires(e) PROVE AccountInv'
    BY <1>7 DEF CooldownExpires, AccountInv
  <1>8. CASE UNCHANGED accountVars
    BY <1>8 DEF accountVars, accountTables, AccountInv
  <1> QED
    BY ZenonT(30), <1>2, <1>3, <1>4, <1>5, <1>6, <1>7, <1>8, RequestEmailCodeStep, SendEmailStep, ClearCodeStep,
       CodeExpiresStep, VerifyAndConsumeStep DEF AccountNext

\* For every number of emails, requests, codes and attempts: a verification code lets
\* one request pass at most, and at most maxAttempts wrong codes are tried against it,
\* over all interleavings of sign-ups, resets, re-issues, expiries and failed mails.
THEOREM CodesLimited == AccountSpec => []CodeLimits
  <1>1. AccountInv => CodeLimits
    BY DEF AccountInv, CodesInv, CodeNumbers, CodeLimits
  <1> QED
    BY <1>1, AccountStart, AccountStep, PTL DEF AccountSpec

\* For every number of emails, requests, codes and attempts: a code that was confirmed
\* to its user is in store until it is consumed, replaced, expired or out of attempts;
\* the late clearVerificationCode of another request never removes it.
THEOREM ConfirmedCodesLive == AccountSpec => []IssuedCodeLive
  <1>1. AccountInv => IssuedCodeLive
    BY DEF AccountInv, Held, IssuedCodeLive
  <1> QED
    BY <1>1, AccountStart, AccountStep, PTL DEF AccountSpec
=============================================================================
