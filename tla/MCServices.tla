----------------------------- MODULE MCServices -----------------------------
(***************************************************************************)
(* The services that work on the databases: receipts and synchronisation   *)
(* of a conversation, accounts, friendships and groups.  They share no     *)
(* state but the count of database faults and are checked in one run: a    *)
(* behaviour is one of the service in `focus`, the others stand still.     *)
(***************************************************************************)
EXTENDS ConversationView, Account, Friendship, GroupMembership, TLC

CONSTANTS alice, bob, chat, team

VARIABLE focus

\* A direct conversation, and a group that bob joins some time.
MCFounders == chat :> {alice, bob} @@ team :> {alice}

\* No limit, one, and more than the server allows.
MCPullCounts == {0, 1, 9}

\* Ids on both sides of the scaled-down int: 3 becomes -1, 6 becomes -2.
MCSessionIds == {1, 3, 6}

\* No property looks at client message ids, so a message has that of its place.
NamedByPlace ==
    \A c \in Chats : \A i \in 1..Len(log'[c]) : log'[c][i].cid = IF c = team THEN i ELSE i + 2

\* Receipts on both conversations, which stay short.
ReceiptsNext ==
    \/ GrowLog /\ NamedByPlace /\ \A c \in Chats : Len(log'[c]) <= 2
    \/ Acknowledge

\* Synchronisation of the group while its log grows.
WalkNext ==
    \/ GrowLog /\ NamedByPlace /\ log'[chat] = <<>>
    \/ Synchronise /\ \A u \in Readers : pull'[u].chat = team

MCInit ==
    /\ focus \in {"receipts", "walk", "account", "friends", "groups"}
    /\ Init /\ AccountInit /\ FriendsInit /\ GroupsInit

MCNext ==
    /\ UNCHANGED focus
    /\ \/ focus = "receipts" /\ ReceiptsNext /\ UNCHANGED <<accountVars, friendVars, groupVars>>
       \/ focus = "walk" /\ WalkNext /\ UNCHANGED <<accountVars, friendVars, groupVars>>
       \/ focus = "account" /\ AccountNext /\ UNCHANGED <<vars, friendTables, groupTables>>
       \/ focus = "friends" /\ FriendsNext /\ UNCHANGED <<vars, accountTables, groupTables>>
       \/ focus = "groups" /\ GroupsNext /\ UNCHANGED <<vars, accountTables, friendTables>>

MCSpec == MCInit /\ [][MCNext]_<<focus, vars, accountVars, friendVars, groupVars>>
=============================================================================
