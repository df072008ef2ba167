----------------------------- MODULE Friendship -----------------------------
(***************************************************************************)
(* Friend requests at a Message node (server/message/src/service/          *)
(* Friend.cc) and the rows they write (Mysql.h).  A request and a          *)
(* friendship are stored once per direction, by two statements without a   *)
(* transaction, so that commands of the two people, or repeated ones,      *)
(* interleave between them.  The pushes that follow are left to MessageLink. *)
(***************************************************************************)
EXTENDS Integers, Database

CONSTANTS
    People,
    SessionIds,   \* what generateSessionId can return, each once
    IntSpan,      \* 2^32, scaled down with SessionIds
    MaxCommands   \* bound: friend commands

ASSUME FriendshipBounds ==
    MaxCommands \in Nat /\ IntSpan \in Nat \ {0} /\ SessionIds \subseteq Nat \ {0}

VARIABLES
    friendApplys,   \* status of the row (fromUid, toUid)
    friends,        \* sessionId of the row (uidA, uidB)
    command         \* the commands

friendTables == <<friendApplys, friends, command>>
friendVars == <<friendTables, dbFaults>>

\* No such row; 0 is no session id.
NoApply == "none"
NoFriend == 0

Commands == 1..MaxCommands
Pairs == {p \in People \X People : p[1] # p[2]}
Back(p) == <<p[2], p[1]>>

NoCommand == [pair |-> <<>>, accept |-> FALSE, key |-> 0, pc |-> "idle", answer |-> ""]

\* StoreReplyAddFriend returns the 64-bit session id as an int: a conversion
\* modulo 2^32 into the signed range.
ToInt(key) == ((key + IntSpan \div 2) % IntSpan) - IntSpan \div 2

FriendsInit ==
    /\ friendApplys = [p \in Pairs |-> NoApply]
    /\ friends = [p \in Pairs |-> NoFriend]
    /\ command = [c \in Commands |-> NoCommand]
    /\ dbFaults = 0

\* Commands take the numbers in order.
Unused(c) ==
    command[c].pc = "idle" /\ \A d \in 1..(c - 1) : command[d].pc # "idle"

Reach(c, pc) == command' = [command EXCEPT ![c].pc = pc]

\* The answer; of a refused command only the id it has used up counts.
Reply(c, answer) ==
    command' = [command EXCEPT ![c] =
                   IF answer = "refused"
                   THEN [NoCommand EXCEPT !.key = command[c].key, !.pc = "done", !.answer = answer]
                   ELSE [@ EXCEPT !.pc = "done", !.answer = answer]]

\* An INSERT of the row p into a table with that primary key.
Inserted(table, none, p, value, out) ==
    IF table[p] = none /\ out # "failed" THEN [table EXCEPT ![p] = value] ELSE table

-----------------------------------------------------------------------------
(* NotifyAddFriend: insertFriendApply writes (from, to), then (to, from)   *)

NotifyAddFriend(c, p, out) ==
    /\ Unused(c)
    /\ Calls(out)
    /\ friendApplys' = Inserted(friendApplys, NoApply, p, "Wait", out)
    /\ command' = [command EXCEPT ![c] =
           IF friendApplys[p] = NoApply /\ out = "ok"
           THEN [NoCommand EXCEPT !.pair = p, !.pc = "applyBack"]
           ELSE [NoCommand EXCEPT !.pc = "done", !.answer = "refused"]]
    /\ UNCHANGED friends

ApplyBack(c, out) ==
    LET p == Back(command[c].pair)
    IN  /\ command[c].pc = "applyBack"
        /\ Calls(out)
        /\ friendApplys' = Inserted(friendApplys, NoApply, p, "Wait", out)
        /\ Reply(c, IF friendApplys[p] = NoApply /\ out = "ok" THEN "applied" ELSE "refused")
        /\ UNCHANGED friends

-----------------------------------------------------------------------------
(* ReplyAddFriend: StoreReplyAddFriend                                     *)

\* A refusal goes straight to the status of the request.
RefuseFriend(c, p) ==
    /\ Unused(c)
    /\ command' = [command EXCEPT ![c] = [NoCommand EXCEPT !.pair = p, !.pc = "status"]]
    /\ UNCHANGED <<friendApplys, friends, dbFaults>>

\* generateSessionId.  Its -1 for a failure does not fit the unsigned column:
\* insertFriend fails then, as it may anyway.
AcceptFriend(c, p, key) ==
    /\ Unused(c)
    /\ \A d \in Commands : key # command[d].key
    /\ command' = [command EXCEPT ![c] = [NoCommand EXCEPT !.pair = p, !.accept = TRUE,
                                              !.key = key, !.pc = "friend"]]
    /\ UNCHANGED <<friendApplys, friends, dbFaults>>

\* insertFriend writes (from, to), then (to, from).
InsertFriend(c, out) ==
    LET p == command[c].pair
    IN  /\ command[c].pc = "friend"
        /\ Calls(out)
        /\ friends' = Inserted(friends, NoFriend, p, command[c].key, out)
        /\ IF friends[p] = NoFriend /\ out = "ok" THEN Reach(c, "friendBack") ELSE Reply(c, "refused")
        /\ UNCHANGED friendApplys

\* Mutant: the second insertion's failure is overlooked.
InsertFriendBackAnyway(c, out) ==
    LET p == Back(command[c].pair)
    IN  /\ command[c].pc = "friendBack"
        /\ Calls(out)
        /\ friends' = Inserted(friends, NoFriend, p, command[c].key, out)
        /\ Reach(c, "status")
        /\ UNCHANGED friendApplys

InsertFriendBack(c, out) ==
    LET p == Back(command[c].pair)
    IN  /\ command[c].pc = "friendBack"
        /\ Calls(out)
        /\ friends' = Inserted(friends, NoFriend, p, command[c].key, out)
        /\ IF friends[p] = NoFriend /\ out = "ok" THEN Reach(c, "status") ELSE Reply(c, "refused")
        /\ UNCHANGED friendApplys

\* updateFriendApplyStatus: an UPDATE per direction, which may meet no row.
ReplyStatus(c) == IF command[c].accept THEN "Agree" ELSE "Refuse"

Updated(p, status, out) ==
    IF friendApplys[p] # NoApply /\ out # "failed"
    THEN [friendApplys EXCEPT ![p] = status] ELSE friendApplys

UpdateStatus(c, out) ==
    /\ command[c].pc = "status"
    /\ Calls(out)
    /\ friendApplys' = Updated(command[c].pair, ReplyStatus(c), out)
    /\ IF out = "ok" THEN Reach(c, "statusBack") ELSE Reply(c, "refused")
    /\ UNCHANGED friends

\* The answer takes an id that the conversion turns into -1 for a failure.
UpdateStatusBack(c, out) ==
    /\ command[c].pc = "statusBack"
    /\ Calls(out)
    /\ friendApplys' = Updated(Back(command[c].pair), ReplyStatus(c), out)
    /\ Reply(c, IF out # "ok" \/ ToInt(command[c].key) = -1 THEN "refused"
                ELSE IF command[c].accept THEN "accepted" ELSE "declined")
    /\ UNCHANGED friends

FriendsNext ==
    \E c \in Commands :
        \/ \E p \in Pairs : \/ \E out \in Outcomes : NotifyAddFriend(c, p, out)
                            \/ RefuseFriend(c, p)
                            \/ \E key \in SessionIds : AcceptFriend(c, p, key)
        \/ \E out \in Outcomes :
               \/ ApplyBack(c, out) \/ InsertFriend(c, out) \/ InsertFriendBack(c, out)
               \/ UpdateStatus(c, out) \/ UpdateStatusBack(c, out)

FriendsSpec == FriendsInit /\ [][FriendsNext]_friendVars

-----------------------------------------------------------------------------
(* Properties                                                              *)

\* A command that answers Success has been stored in both directions, whatever
\* ran between its two statements: both people see the request, and an
\* accepted friendship joins both under one session id, for good.
FriendAnswersTruthful ==
    \A c \in Commands :
        LET p == command[c].pair
        IN  /\ command[c].answer = "applied" =>
                   friendApplys[p] # NoApply /\ friendApplys[Back(p)] # NoApply
            /\ command[c].answer = "accepted" =>
                   friends[p] = command[c].key /\ friends[Back(p)] = command[c].key
=============================================================================
