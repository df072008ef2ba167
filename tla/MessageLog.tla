----------------------------- MODULE MessageLog -----------------------------
(***************************************************************************)
(* What the message store promises: per conversation a log that only grows *)
(* at its end, in which a sender's clientMessageId occurs once over all    *)
(* conversations, and for every member the position from which the log is  *)
(* theirs (conversationMembers.joinedSeq, 0 while there is no row).        *)
(***************************************************************************)
EXTENDS Integers, Sequences

CONSTANTS Users,     \* user ids
          Direct,    \* direct conversations (type 1)
          Groups,    \* group conversations (type 2)
          ClientIds, \* clientMessageIds
          Contents,  \* message texts
          Founders   \* the friends of a direct conversation, a group's first members

Chats == Direct \cup Groups

ASSUME ChatsAssumption == Direct \cap Groups = {} /\ Founders \in [Chats -> SUBSET Users]

VARIABLES log,       \* the committed messages of each conversation, by conversationSeq
          joined     \* conversationMembers.joinedSeq

logVars == <<log, joined>>

Entry == [sender : Users, cid : ClientIds, content : Contents]

\* The (senderId, clientMessageId) pairs in use.
Used(k) == \E c \in Chats : \E i \in 1..Len(log[c]) : log[c][i].sender = k.sender
                                                  /\ log[c][i].cid = k.cid

LogInit ==
    /\ log = [c \in Chats |-> <<>>]
    /\ joined = [c \in Chats |-> [u \in Users |-> 0]]

\* Users a message of conversation c may enrol.
MayEnrol(c, ms) == Founders[c] \subseteq ms /\ (c \in Direct => ms = Founders[c])

\* INSERT IGNORE INTO conversationMembers for the users ms.
Enrolled(c, ms) ==
    [u \in Users |-> IF u \in ms /\ joined[c][u] = 0
                     THEN IF c \in Direct THEN 1 ELSE Len(log[c]) + 1
                     ELSE joined[c][u]]

\* A new message is accepted.
Accept(c, e, ms) ==
    /\ e.sender \in ms /\ ~Used(e)
    /\ log' = [log EXCEPT ![c] = Append(@, e)]
    /\ joined' = [joined EXCEPT ![c] = Enrolled(c, ms)]

\* A repeated command adds no message; the member rows it inserts stay.
Enrol(c, ms) ==
    /\ log[c] # <<>>
    /\ joined' = [joined EXCEPT ![c] = Enrolled(c, ms)]
    /\ UNCHANGED log

LogNext ==
    \E c \in Chats, ms \in SUBSET Users :
        /\ MayEnrol(c, ms)
        /\ \/ \E e \in Entry : Accept(c, e, ms)
           \/ Enrol(c, ms)

LogSpec == LogInit /\ [][LogNext]_logVars
=============================================================================
