---------------------------- MODULE MessageStore ----------------------------
(***************************************************************************)
(* The Message nodes' workers accepting text messages into MySQL:          *)
(* acceptDirectText and acceptGroupText under MessageService::AcceptText   *)
(* and AcceptGroupText, up to the push to the recipients.                  *)
(*                                                                         *)
(* InnoDB runs at its default REPEATABLE READ.  The first SELECT of a      *)
(* transaction fixes the snapshot its plain SELECTs read; INSERT, UPDATE,  *)
(* INSERT ... SELECT and SELECT ... FOR UPDATE read and lock the current   *)
(* rows.  The upsert of the conversation row therefore serialises the      *)
(* transactions of a conversation, and the duplicate check, a plain        *)
(* SELECT, still looks at the snapshot taken before that lock was granted. *)
(***************************************************************************)
EXTENDS Integers, FiniteSets

CONSTANTS Users, Direct, Groups, ClientIds, Contents,
          Founders,   \* [Direct \cup Groups -> SUBSET Users]: the friends of a direct
                      \* conversation, the first members of a group
          Commands,   \* the commands clients send, and send again
          Workers,    \* worker threads of all Message nodes
          NoWorker,
          MaxSeq,     \* bound: messages per conversation
          MaxFaults   \* bound: transactions MySQL breaks off, workers that die

Chats == Direct \cup Groups

ASSUME NoWorkerAssumption == NoWorker \notin Workers
ASSUME MessageBounds == MaxSeq \in Nat /\ MaxFaults \in Nat
ASSUME FoundersAssumption == Founders \in [Chats -> SUBSET Users]
ASSUME CommandsAssumption ==
    Commands \subseteq [sender : Users, cid : ClientIds, chat : Chats, content : Contents]
ASSUME DirectAssumption == Direct \cap Groups = {}

VARIABLES members,    \* friends and groupMembers, committed
          messages,   \* committed rows of messages
          latestSeq,  \* conversations.latestSeq, 0 while there is no row
          joinedSeq,  \* conversationMembers.joinedSeq, 0 while there is no row
          lock,       \* who holds the lock of the conversation row
          tx,         \* the request of each worker
          pushes,     \* history: how often each message was pushed
          faults      \* faults so far

vars == <<members, messages, latestSeq, joinedSeq, lock, tx, pushes, faults>>

-----------------------------------------------------------------------------
(* Data *)

\* A row of messages; messageId is left out, (chat, seq) identifies it
\* (uk_messages_conversation_seq).
Row == [sender : Users, cid : ClientIds, chat : Chats, content : Contents, seq : 1..MaxSeq]

Command == [sender : Users, cid : ClientIds, chat : Chats, content : Contents]

\* Where a worker stands in its transaction.
PC == {"idle",
       "begun",       \* the sender was looked up, the snapshot is fixed
       "inserting",   \* the conversation is locked, no duplicate was found
       "committing",  \* all statements succeeded, COMMIT is next
       "reply"}       \* the transaction is over, AcceptText builds the reply

\* UserNotFriend stands for acceptGroupText's MessageOwnershipInvalid too.
Error == {"Success", "UserNotFriend", "IdempotencyConflict", "MysqlFailed"}

NoCommand == [sender |-> NoWorker]

Tx == [pc : PC, cmd : Command \cup {NoCommand}, snap : SUBSET Row, seen : SUBSET Users,
       enrol : SUBSET Users, seq : 0..MaxSeq, duplicate : BOOLEAN, error : Error]

IdleTx == [pc |-> "idle", cmd |-> NoCommand, snap |-> {}, seen |-> {}, enrol |-> {},
           seq |-> 0, duplicate |-> FALSE, error |-> "Success"]

TypeOK ==
    /\ members \in [Chats -> SUBSET Users]
    /\ messages \in SUBSET Row
    /\ latestSeq \in [Chats -> 0..MaxSeq]
    /\ joinedSeq \in [Chats -> [Users -> 0..MaxSeq + 1]]
    /\ lock \in [Chats -> Workers \cup {NoWorker}]
    /\ tx \in [Workers -> Tx]
    /\ pushes \in [Chats -> [1..MaxSeq -> Nat]]
    /\ faults \in 0..MaxFaults

Init ==
    /\ members = Founders
    /\ messages = {}
    /\ latestSeq = [c \in Chats |-> 0]
    /\ joinedSeq = [c \in Chats |-> [u \in Users |-> 0]]
    /\ lock = [c \in Chats |-> NoWorker]
    /\ tx = [w \in Workers |-> IdleTx]
    /\ pushes = [c \in Chats |-> [s \in 1..MaxSeq |-> 0]]
    /\ faults = 0

-----------------------------------------------------------------------------
(* Statements *)

\* The key of uk_messages_sender_client.
SameKey(m, cmd) == m.sender = cmd.sender /\ m.cid = cmd.cid

\* Mutant: the texts are not compared.
SameChat(m, cmd) == m.chat = cmd.chat

\* sameCommand: same conversation (hence receiver), same text.
SameCommand(m, cmd) == m.chat = cmd.chat /\ m.content = cmd.content

\* Mutant: a member joins after the message that brought them in.
FromNextMessage(w) ==
    LET c == tx[w].cmd.chat
    IN  [u \in Users |-> IF u \in tx[w].enrol /\ joinedSeq[c][u] = 0
                         THEN IF c \in Direct THEN 1 ELSE latestSeq[c] + 2
                         ELSE joinedSeq[c][u]]

\* The member rows the transaction inserts (INSERT IGNORE).
Enrolled(w) ==
    LET c == tx[w].cmd.chat
    IN  [u \in Users |-> IF u \in tx[w].enrol /\ joinedSeq[c][u] = 0
                         THEN IF c \in Direct THEN 1 ELSE latestSeq[c] + 1
                         ELSE joinedSeq[c][u]]

\* Mutant: a transaction goes back to the pool open.
KeepsLock(w) == lock

\* Rolling back, or committing, gives up the lock of the conversation row.
Unlocked(w) == [c \in Chats |-> IF lock[c] = w THEN NoWorker ELSE lock[c]]

\* The request ends with a reply that carries this error.
Ended(w, error) == [tx EXCEPT ![w] = [@ EXCEPT !.pc = "reply", !.error = error]]

-----------------------------------------------------------------------------
(* A worker *)

\* startTransaction and the SELECT of the friend or the group member.  The
\* column groupMembers.speech is 0 throughout: nothing in the repository
\* writes it.
Begin(w, cmd) ==
    /\ tx[w].pc = "idle"
    /\ tx' = [tx EXCEPT ![w] =
                [pc |-> IF cmd.sender \in members[cmd.chat] THEN "begun" ELSE "reply",
                 cmd |-> cmd, snap |-> messages, seen |-> members[cmd.chat], enrol |-> {},
                 seq |-> 0, duplicate |-> FALSE,
                 error |-> IF cmd.sender \in members[cmd.chat] THEN "Success" ELSE "UserNotFriend"]]
    /\ UNCHANGED <<members, messages, latestSeq, joinedSeq, lock, pushes, faults>>

\* Mutant: SELECT latestSeq without FOR UPDATE, before the row is locked.
LockSnapshotSeq(w) ==
    LET cmd   == tx[w].cmd
        found == {m \in tx[w].snap : SameKey(m, cmd)}
    IN  /\ tx[w].pc = "begun" /\ lock[cmd.chat] = NoWorker
        /\ latestSeq[cmd.chat] < MaxSeq
        /\ lock' = [lock EXCEPT ![cmd.chat] = w]
        /\ found = {}
        /\ tx' = [tx EXCEPT ![w] = [@ EXCEPT !.pc = "inserting", !.enrol = members[cmd.chat],
                     !.seq = Cardinality({m \in tx[w].snap : m.chat = cmd.chat}) + 1]]
        /\ UNCHANGED <<members, messages, latestSeq, joinedSeq, pushes, faults>>

\* The upsert of the conversation waits for its row; then the member rows,
\* SELECT latestSeq FOR UPDATE and the duplicate check run under that lock.
Lock(w) ==
    LET cmd   == tx[w].cmd
        found == {m \in tx[w].snap : SameKey(m, cmd)}
    IN  /\ tx[w].pc = "begun" /\ lock[cmd.chat] = NoWorker
        /\ \/ /\ found = {} /\ latestSeq[cmd.chat] < MaxSeq
              /\ lock' = [lock EXCEPT ![cmd.chat] = w]
              /\ tx' = [tx EXCEPT ![w] = [@ EXCEPT !.pc = "inserting",
                           !.enrol = members[cmd.chat], !.seq = latestSeq[cmd.chat] + 1]]
           \/ \E m \in found :
              /\ SameCommand(m, cmd)
              /\ lock' = [lock EXCEPT ![cmd.chat] = w]
              /\ tx' = [tx EXCEPT ![w] = [@ EXCEPT !.pc = "committing",
                           !.enrol = members[cmd.chat], !.seq = m.seq, !.duplicate = TRUE]]
           \/ \E m \in found :
              /\ ~SameCommand(m, cmd)
              /\ tx' = Ended(w, "IdempotencyConflict")
              /\ UNCHANGED lock
        /\ UNCHANGED <<members, messages, latestSeq, joinedSeq, pushes, faults>>

\* Mutant: the table has no unique key on (senderId, clientMessageId).
InsertAnyway(w) ==
    /\ tx[w].pc = "inserting"
    /\ tx' = [tx EXCEPT ![w] = [@ EXCEPT !.pc = "committing"]]
    /\ UNCHANGED <<members, messages, latestSeq, joinedSeq, lock, pushes, faults>>

\* UPDATE latestSeq and INSERT INTO messages.  The unique key makes the insert
\* wait for another transaction's uncommitted row and fail on a committed one.
Insert(w) ==
    LET cmd == tx[w].cmd
    IN  /\ tx[w].pc = "inserting"
        /\ \A v \in Workers \ {w} : ~(/\ tx[v].pc = "committing" /\ ~tx[v].duplicate
                                      /\ SameKey(tx[v].cmd, cmd))
        /\ \/ /\ \E m \in messages : SameKey(m, cmd)
              /\ tx' = Ended(w, "MysqlFailed")
              /\ lock' = Unlocked(w)
           \/ /\ ~\E m \in messages : SameKey(m, cmd)
              /\ tx' = [tx EXCEPT ![w] = [@ EXCEPT !.pc = "committing"]]
              /\ UNCHANGED lock
        /\ UNCHANGED <<members, messages, latestSeq, joinedSeq, pushes, faults>>

\* Mutant: the row gets the sequence number that was read.
RowWithReadSeq(w) == [sender |-> tx[w].cmd.sender, cid |-> tx[w].cmd.cid,
                      chat |-> tx[w].cmd.chat, content |-> tx[w].cmd.content,
                      seq |-> tx[w].seq - 1]

NewRow(w) == [sender |-> tx[w].cmd.sender, cid |-> tx[w].cmd.cid, chat |-> tx[w].cmd.chat,
              content |-> tx[w].cmd.content, seq |-> tx[w].seq]

\* What COMMIT makes visible.
Committed(w) ==
    LET c == tx[w].cmd.chat
    IN  /\ messages' = IF tx[w].duplicate THEN messages ELSE messages \cup {NewRow(w)}
        /\ latestSeq' = [latestSeq EXCEPT ![c] = IF tx[w].duplicate THEN @ ELSE tx[w].seq]
        /\ joinedSeq' = [joinedSeq EXCEPT ![c] = Enrolled(w)]
        /\ lock' = Unlocked(w)

Commit(w) ==
    /\ tx[w].pc = "committing"
    /\ Committed(w)
    /\ tx' = Ended(w, "Success")
    /\ UNCHANGED <<members, pushes, faults>>

\* The connection breaks after MySQL committed and before the worker knows.
CommitUnknown(w) ==
    /\ tx[w].pc = "committing" /\ faults < MaxFaults
    /\ Committed(w)
    /\ tx' = Ended(w, "MysqlFailed")
    /\ faults' = faults + 1
    /\ UNCHANGED <<members, pushes>>

\* A statement throws (deadlock victim, lock wait timeout, lost connection):
\* roll back and answer MysqlFailed.
Abort(w) ==
    /\ tx[w].pc \in {"begun", "inserting", "committing"} /\ faults < MaxFaults
    /\ tx' = Ended(w, "MysqlFailed")
    /\ lock' = Unlocked(w)
    /\ faults' = faults + 1
    /\ UNCHANGED <<members, messages, latestSeq, joinedSeq, pushes>>

\* The process dies; MySQL rolls back what was not committed.
Crash(w) ==
    /\ tx[w].pc # "idle" /\ faults < MaxFaults
    /\ tx' = [tx EXCEPT ![w] = IdleTx]
    /\ lock' = Unlocked(w)
    /\ faults' = faults + 1
    /\ UNCHANGED <<members, messages, latestSeq, joinedSeq, pushes>>

\* Mutant: every accepted command is pushed.
DeliverAlways(w) == tx[w].error = "Success"

\* shouldDeliver of AcceptText and AcceptGroupText.
ShouldDeliver(w) == tx[w].error = "Success" /\ ~tx[w].duplicate

\* recipientUid, recipientUids: the plain SELECT of the group reads the snapshot.
Recipients(w) == tx[w].seen \ {tx[w].cmd.sender}

\* The reply leaves, then the push to every recipient.
Reply(w) ==
    /\ tx[w].pc = "reply"
    /\ pushes' = IF ShouldDeliver(w)
                 THEN [pushes EXCEPT ![tx[w].cmd.chat][tx[w].seq] = @ + 1] ELSE pushes
    /\ tx' = [tx EXCEPT ![w] = IdleTx]
    /\ UNCHANGED <<members, messages, latestSeq, joinedSeq, lock, faults>>

\* Somebody is added to a group (GroupService).
Join(g, u) ==
    /\ u \notin members[g]
    /\ members' = [members EXCEPT ![g] = @ \cup {u}]
    /\ UNCHANGED <<messages, latestSeq, joinedSeq, lock, tx, pushes, faults>>

Next ==
    \/ \E w \in Workers, cmd \in Commands : Begin(w, cmd)
    \/ \E w \in Workers : Lock(w)
    \/ \E w \in Workers : Insert(w)
    \/ \E w \in Workers : Commit(w)
    \/ \E w \in Workers : CommitUnknown(w)
    \/ \E w \in Workers : Abort(w)
    \/ \E w \in Workers : Crash(w)
    \/ \E w \in Workers : Reply(w)
    \/ \E g \in Groups, u \in Users : Join(g, u)

Spec == Init /\ [][Next]_vars

\* Workers run on; InnoDB grants a row lock in the order it was asked for, so
\* one that is free again and again is granted.
Fairness ==
    \A w \in Workers : /\ SF_vars(Lock(w)) /\ SF_vars(Insert(w))
                       /\ WF_vars(Commit(w)) /\ WF_vars(Reply(w))

FairSpec == Spec /\ Fairness

-----------------------------------------------------------------------------
(* Properties *)

\* The sequence numbers of a conversation are exactly 1..latestSeq, one row
\* each, however the transactions interleave and fail: the FOR UPDATE read is
\* current when the row is inserted.
SeqDense ==
    \A c \in Chats :
        /\ {m.seq : m \in {r \in messages : r.chat = c}} = 1..latestSeq[c]
        /\ \A m, r \in messages : m.chat = c /\ r.chat = c /\ m.seq = r.seq => m = r

\* A reply is true of the table: Success names the row of this very command,
\* IdempotencyConflict means the id belongs to another command.
ReplyTruthful ==
    \A w \in Workers : tx[w].pc = "reply" =>
        /\ tx[w].error = "Success" =>
              \E m \in messages : /\ SameKey(m, tx[w].cmd) /\ m.chat = tx[w].cmd.chat
                                  /\ m.content = tx[w].cmd.content /\ m.seq = tx[w].seq
        /\ tx[w].error = "IdempotencyConflict" =>
              \E m \in messages : SameKey(m, tx[w].cmd)
                                  /\ (m.chat # tx[w].cmd.chat \/ m.content # tx[w].cmd.content)

\* A clientMessageId is stored once: a command sent again, to any worker, in
\* any conversation, after any failure, never becomes a second message.
StoredOnce == \A m, r \in messages : SameKey(m, r) => m = r

\* A message is pushed at most once: of all the requests that carry it only
\* the one that inserted the row delivers.
PushedOnce == \A c \in Chats : \A s \in 1..MaxSeq : pushes[c][s] <= 1

\* Whoever a message is pushed to can also fetch it by sequence number: the
\* recipients come from the snapshot, the member rows from the current table.
PushedCanSync ==
    \A w \in Workers : tx[w].pc = "reply" /\ ShouldDeliver(w) =>
        \A u \in Recipients(w) : joinedSeq[tx[w].cmd.chat][u] \in 1..tx[w].seq

\* The store implements the abstract log.
LogOf == [c \in Chats |-> [i \in 1..latestSeq[c] |->
            LET m == CHOOSE r \in messages : r.chat = c /\ r.seq = i
            IN  [sender |-> m.sender, cid |-> m.cid, content |-> m.content]]]

Log == INSTANCE MessageLog WITH log <- LogOf, joined <- joinedSeq

ImplementsLog == Log!LogSpec

\* Every request gets its reply: nobody waits for a lock for ever.
RequestsComplete == \A w \in Workers : tx[w].pc = "begun" ~> tx[w].pc = "idle"

\* docs/feature-server-verification.md S16: the same clientMessageId with the
\* same text returns the original result, with another text an error that is
\* not retryable.  So an id that is stored is never answered with MysqlFailed
\* (checked with no faults).
DuplicateReturnsOriginal ==
    \A w \in Workers :
        tx[w].pc = "reply" /\ tx[w].error = "MysqlFailed"
        => ~\E m \in messages : SameKey(m, tx[w].cmd)
=============================================================================
