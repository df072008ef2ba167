-------------------------- MODULE ConversationView --------------------------
(***************************************************************************)
(* What a member does with a conversation: acknowledge its messages        *)
(* (MessageService::Ack) and fetch them by sequence number                 *)
(* (MessageService::PullSessionMessages), while the log grows.  The log is *)
(* the abstract one, which MessageStore implements.                        *)
(***************************************************************************)
EXTENDS MessageLog, FiniteSetsExt

CONSTANTS Readers,       \* the users who synchronise
          Times,         \* values of readDateTime
          NoTime,        \* the empty readDateTime
          PullCounts,    \* the limits clients ask for
          DefaultCount,  \* page size when none is asked for (50 in the code)
          MaxCount,      \* largest page (100 in the code)
          MaxLog         \* bound: messages per conversation

ASSUME ViewAssumption ==
    /\ Readers \subseteq Users /\ NoTime \notin Times
    /\ PullCounts \subseteq Int
    /\ DefaultCount \in 1..MaxCount /\ MaxCount \in Nat /\ MaxLog \in Nat

VARIABLES deliveredSeq,  \* conversationMembers.deliveredSeq
          readSeq,       \* conversationMembers.readSeq
          status,        \* messages.status by conversation and seq
          readTime,      \* messages.readDateTime
          pull           \* a member walking through a conversation page by page

viewVars == <<deliveredSeq, readSeq, status, readTime>>
vars == <<log, joined, viewVars, pull>>

-----------------------------------------------------------------------------
(* Data *)

\* db::Message::Status
WAIT == 1
DELIVERED == 2
READ == 3

Init ==
    /\ LogInit
    /\ deliveredSeq = [c \in Chats |-> [u \in Users |-> 0]]
    /\ readSeq = [c \in Chats |-> [u \in Users |-> 0]]
    /\ status = [c \in Chats |-> [s \in 1..MaxLog |-> WAIT]]
    /\ readTime = [c \in Chats |-> [s \in 1..MaxLog |-> NoTime]]
    /\ pull = [u \in Readers |-> [pc |-> "idle", chat |-> CHOOSE c \in Chats : TRUE, after |-> 0,
                                count |-> 0, latest |-> 0, from |-> 0, got |-> {}]]

Greatest(a, b) == IF a >= b THEN a ELSE b

-----------------------------------------------------------------------------
(* Receipts *)

\* Mutant: every READ receipt writes its time.
LastReadTime(c, s, kind, t) == IF kind = READ THEN t ELSE readTime[c][s]

\* readDateTime after a receipt: the first READ receipt sets it.
ReadTime(c, s, kind, t) ==
    IF kind = READ /\ (status[c][s] < READ \/ readTime[c][s] = NoTime) THEN t ELSE readTime[c][s]

\* messages.status after a receipt.
Status(c, s, kind) == Greatest(status[c][s], kind)

\* UPDATE messages, as both kinds of receipt do it.
Mark(c, s, kind, t) ==
    /\ readTime' = [readTime EXCEPT ![c][s] = ReadTime(c, s, kind, t)]
    /\ status' = [status EXCEPT ![c][s] = Status(c, s, kind)]

\* Mutant: a READ receipt moves only the read cursor.
ReadCursorOnly(u, c, s, kind) ==
    /\ deliveredSeq' = [deliveredSeq EXCEPT ![c][u] = IF kind = READ THEN @ ELSE Greatest(@, s)]
    /\ readSeq' = [readSeq EXCEPT ![c][u] = IF kind = READ THEN Greatest(@, s) ELSE @]

\* UPDATE conversationMembers
AdvanceCursors(u, c, s, kind) ==
    /\ deliveredSeq' = [deliveredSeq EXCEPT ![c][u] = Greatest(@, s)]
    /\ readSeq' = [readSeq EXCEPT ![c][u] = IF kind = READ THEN Greatest(@, s) ELSE @]

\* A receipt with conversation id and seq: acknowledgeConversationMessage.
\* One transaction whose SELECT ... FOR UPDATE locks every row it uses.  Only
\* the receiver of a direct message may acknowledge it; the status of a group
\* message is left alone.
AckConversation(u, c, s, kind, t) ==
    /\ joined[c][u] # 0
    /\ c \in Direct => u # log[c][s].sender
    /\ IF c \in Direct THEN Mark(c, s, kind, t) ELSE UNCHANGED <<status, readTime>>
    /\ AdvanceCursors(u, c, s, kind)
    /\ UNCHANGED <<log, joined, pull>>

\* A receipt of the old protocol: updateMessageForReceiver.  A group message
\* has the group as its receiver, so no member may acknowledge it this way.
AckLegacy(u, c, s, kind, t) ==
    /\ c \in Direct
    /\ u \in Founders[c] \ {log[c][s].sender}
    /\ Mark(c, s, kind, t)
    /\ UNCHANGED <<log, joined, deliveredSeq, readSeq, pull>>

-----------------------------------------------------------------------------
(* Synchronisation: syncConversation *)

\* boundedCount
BoundedCount(n) == LET k == IF n > 0 THEN n ELSE DefaultCount
                   IN  IF k > MaxCount THEN MaxCount ELSE k

\* The first SELECT of a pull by u of at most n messages of c after seq after:
\* latestSeq, joinedSeq and leftSeq, which nothing in the repository ever sets
\* (COALESCE gives latestSeq).
Membership(u, c, after, n) ==
    /\ joined[c][u] # 0
    /\ pull' = [pull EXCEPT ![u] = [pull[u] EXCEPT !.pc = "paging", !.chat = c,
                   !.count = BoundedCount(n), !.latest = Len(log[c]),
                   !.after = Greatest(after, joined[c][u] - 1),
                   !.from = IF pull[u].pc = "idle" THEN after ELSE pull[u].from]]
    /\ UNCHANGED <<log, joined, viewVars>>

\* A member starts a walk at any seq.
PullStart(u, c, after, n) == pull[u].pc = "idle" /\ Membership(u, c, after, n)

\* There was more: the member goes on where the last page ended.
PullNext(u, n) == pull[u].pc = "ready" /\ Membership(u, pull[u].chat, pull[u].after, n)

\* The rows of the second SELECT, before LIMIT.
Rows(u) == {s \in 1..Len(log[pull[u].chat]) : pull[u].after < s /\ s <= pull[u].latest}

\* The first boundedCount of them.
Page(u) == {s \in Rows(u) : Cardinality({r \in Rows(u) : r < s}) < pull[u].count}

\* Mutant: more only when another full page is left.
HasFullPage(u) == Cardinality(Rows(u)) >= 2 * pull[u].count

\* LIMIT boundedCount + 1 found one row too many.
HasMore(u) == Cardinality(Rows(u)) > pull[u].count

\* nextSeq
NextSeq(u) == IF Page(u) = {} THEN pull[u].after ELSE Max(Page(u))

\* The page arrives; the member asks for the next one while there is more.
PullPage(u) ==
    /\ pull[u].pc = "paging"
    /\ pull' = [pull EXCEPT ![u] = [@ EXCEPT !.pc = IF HasMore(u) THEN "ready" ELSE "done",
                   !.after = NextSeq(u), !.got = pull[u].got \cup Page(u)]]
    /\ UNCHANGED <<log, joined, viewVars>>

GrowLog ==
    LogNext /\ (\A c \in Chats : Len(log'[c]) <= MaxLog) /\ UNCHANGED <<viewVars, pull>>

\* Only a READ receipt has a time to write.
Acknowledge ==
    \E u \in Users, c \in Chats : \E s \in 1..Len(log[c]) :
        \E r \in {<<DELIVERED, NoTime>>} \cup {<<READ, t>> : t \in Times} :
            AckConversation(u, c, s, r[1], r[2]) \/ AckLegacy(u, c, s, r[1], r[2])

Synchronise ==
    \E u \in Readers :
        \/ \E c \in Chats, after \in 0..MaxLog, n \in PullCounts : PullStart(u, c, after, n)
        \/ \E n \in PullCounts : PullNext(u, n)
        \/ PullPage(u)

Next == GrowLog \/ Acknowledge \/ Synchronise

Spec == Init /\ [][Next]_vars

-----------------------------------------------------------------------------
(* Properties *)

\* A member's cursors stay in order: nothing is read that was not delivered,
\* nothing delivered that was not sent.  And whatever mix of old and new
\* receipts arrived, a message has a read time exactly when its status is READ.
ReceiptsOrdered ==
    /\ \A c \in Chats, u \in Users :
           readSeq[c][u] <= deliveredSeq[c][u] /\ deliveredSeq[c][u] <= Len(log[c])
    /\ \A c \in Chats : \A s \in 1..MaxLog : status[c][s] = READ <=> readTime[c][s] # NoTime

\* Receipts that arrive late, twice or out of order take nothing back: no
\* cursor and no status goes down, and the first read time stays.
ReceiptsMonotone ==
    [][/\ \A c \in Chats, u \in Users :
              deliveredSeq'[c][u] >= deliveredSeq[c][u] /\ readSeq'[c][u] >= readSeq[c][u]
       /\ \A c \in Chats : \A s \in 1..MaxLog :
              /\ status'[c][s] >= status[c][s]
              /\ readTime[c][s] # NoTime => readTime'[c][s] = readTime[c][s]]_vars

\* A member who walks from any seq until hasMore is false holds every message
\* of the conversation after that seq that was theirs to see when the last
\* page was cut, and none from before they joined.
WalkComplete ==
    \A u \in Readers : pull[u].pc = "done" =>
        pull[u].got = (Greatest(pull[u].from, joined[pull[u].chat][u] - 1) + 1)..pull[u].latest
=============================================================================
