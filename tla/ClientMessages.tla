--------------------------- MODULE ClientMessages ---------------------------
(***************************************************************************)
(* The client's messages: AppController with its snapshot in memory and    *)
(* SqliteClientRepository below it, over the connection of                 *)
(* ClientConnection.tla.  An outgoing message is written to the database   *)
(* together with an outbox row, sent, accepted or rejected, and resent     *)
(* after a new login as long as its outcome is open; incoming messages     *)
(* come as pushes or by pulling after the stored cursor.                   *)
(*                                                                         *)
(* One account and one conversation.  The server is external: a log that   *)
(* stores each client message id once and numbers the messages, which is   *)
(* what MessageStore.tla shows of the real one.  A message's server id and *)
(* its conversation seq are one number here.                               *)
(***************************************************************************)
EXTENDS ClientConnection, Functions

CONSTANTS MaxMessages, \* bound: messages the user writes
          Peer,        \* the log entries of others
          MaxLog,      \* bound: messages in the conversation
          PageSize,    \* the limit of PullConversationMessages
          MaxFaults    \* bound: lost connections and requests, late answers, failed attempts,
                       \* restarts, database errors

ASSUME ClientBounds == MaxMessages \in Nat /\ MaxLog \in Nat /\ PageSize \in Nat \ {0} /\ MaxFaults \in Nat
ASSUME PeerAssumption == Peer \notin Nat

VARIABLES auth,      \* authentication_busy_ and authentication_completed_
          rec,       \* snapshot_: own messages
          seen,      \* snapshot_: messages that came from the server, by id
          row,       \* table messages: own messages
          stored,    \* table messages: rows of messages that came from the server
          outbox,    \* table outbox
          cursor,    \* table sync_state
          attached,  \* the conversation's remoteConversationId is known
          log,       \* the server's conversation
          acked,     \* history: messages the client has acknowledged
          mixedUp,   \* history: an answer was taken for that of a later request
          faults     \* faults so far

dbVars == <<row, stored, outbox, cursor, attached>>
appVars == <<auth, rec, seen, dbVars, acked, mixedUp>>
vars == <<connVars, appVars, log, faults>>

-----------------------------------------------------------------------------
(* Data *)

\* Own messages, by minus their client message id, counted from the first.
Messages == 1..MaxMessages

Unsettled == {"PendingLocal", "WaitingAccept", "Unknown", "RetryableFailed"}
Settled == {"Accepted", "Delivered", "Read", "PermanentFailed"}

NoRecord == [st |-> "none", id |-> 0]

Send(m) == [kind |-> "send", m |-> m]
Pull(after) == [kind |-> "pull", after |-> after]

\* CanTransition of MessageListModel.
CanTransition(from, to) ==
  \/ from = "PendingLocal" /\ to \in {"WaitingAccept", "Unknown", "RetryableFailed", "PermanentFailed"}
  \/ from = "WaitingAccept" /\ to \in {"Accepted", "Unknown", "RetryableFailed", "PermanentFailed"}
  \/ from = "Accepted" /\ to \in {"Delivered", "Read"}
  \/ from = "Delivered" /\ to = "Read"
  \/ from = "Unknown" /\ to \in {"WaitingAccept", "Accepted", "Delivered", "Read",
                                 "RetryableFailed", "PermanentFailed"}
  \/ from = "RetryableFailed" /\ to \in {"PendingLocal", "WaitingAccept", "Accepted", "PermanentFailed"}

\* m is next_client_message_id_, which LoadScenario sets one past the ids of all messages.
NextId(m) ==
  \A n \in Messages : /\ n >= m => rec[n].st = "none"
                      /\ n + 1 = m => rec[n].st # "none"

Waiting == {m \in Messages : rec[m].st \in Unsettled}
QueuedSends == {queue["send"][i].m : i \in 1..Len(queue["send"])}

-----------------------------------------------------------------------------
(* SqliteClientRepository: each function is one transaction *)

\* EnqueueOutgoing, and what sendMessage stores for the message right after it.
EnqueueOutgoing(m, s) ==
  /\ row' = [row EXCEPT ![m] = [st |-> s, id |-> 0]]
  /\ outbox' = outbox \cup {m}
  /\ UNCHANGED <<stored, cursor, attached>>

\* Mutant: every failure ends the outbox row.
UpdateDeliveryStateDrops(ms, s) ==
  /\ row' = [m \in Messages |-> IF m \in ms /\ row[m].st # "none" THEN [row[m] EXCEPT !.st = s] ELSE row[m]]
  /\ outbox' = (IF s \in Settled \cup {"Unknown", "RetryableFailed"} THEN outbox \ ms ELSE outbox)
  /\ UNCHANGED <<stored, cursor, attached>>

\* UpdateDeliveryState, once for each of ms.
UpdateDeliveryState(ms, s) ==
  /\ row' = [m \in Messages |-> IF m \in ms /\ row[m].st # "none" THEN [row[m] EXCEPT !.st = s] ELSE row[m]]
  /\ outbox' = (IF s \in Settled THEN outbox \ ms ELSE outbox)
  /\ UNCHANGED <<stored, cursor, attached>>

\* Some row of the table already has this message_id.
IdTaken(i, except) == i \in stored \/ \E m \in Messages \ {except} : row[m].id = i

\* AcceptOutgoing; message_id and (conversation, seq) are unique columns, and a
\* violation rolls the whole transaction back.
AcceptOutgoing(m, i) ==
  IF IdTaken(i, m)
    THEN UNCHANGED <<row, outbox, cursor>>
    ELSE /\ row' = [row EXCEPT ![m] = [st |-> "Accepted", id |-> i]]
         /\ outbox' = outbox \ {m}
         /\ cursor' = (IF i > cursor THEN i ELSE cursor)

\* ApplyIncomingBatch: INSERT OR IGNORE, and a cursor that does not go back.
ApplyIncomingBatch(batch, next) ==
  /\ stored' = stored \cup {i \in batch : ~IdTaken(i, 0)}
  /\ cursor' = (IF next >= cursor THEN next ELSE cursor)
  /\ UNCHANGED <<row, outbox>>

-----------------------------------------------------------------------------
(* AppController: the user *)

Fault == faults < MaxFaults /\ faults' = faults + 1
Idle == UNCHANGED <<state, desired, sock, backoff, attempts, expired, quitTimer>>

\* The messages ms as they come in the list: the one ascending sequence of them.
Ascending(ms) == {s \in UNION {[1..k -> ms] : k \in 0..MaxMessages} :
                    Range(s) = ms /\ \A i, j \in DOMAIN s : i < j => s[i] < s[j]}

\* UpdateMessageState, once for each of ms.
UpdateMessageState(ms, s) ==
  LET changed == {m \in ms : CanTransition(rec[m].st, s)}
  IN /\ rec' = [m \in Messages |-> IF m \in changed THEN [rec[m] EXCEPT !.st = s] ELSE rec[m]]
     /\ UpdateDeliveryState(changed, s)

\* HandleGatewayFailure for requests without an answer: the outcome of ms is open.
HandleGatewayFailure(ms) == UpdateMessageState(ms, "Unknown")

\* AttachRemoteConversation, with SetRemoteConversationId of the repository.
AttachRemoteConversation == attached' = TRUE

\* sendMessage.  Without a connection the message is stored as Unknown; with one it is
\* waiting for its acceptance when the request is queued.
SendMessage(m) ==
  /\ NextId(m)
  /\ LET s == IF IsReady THEN "WaitingAccept" ELSE "Unknown"
     IN rec' = [rec EXCEPT ![m].st = s] /\ EnqueueOutgoing(m, s)
  /\ IF IsReady THEN Queue(Asked(<<>>, <<Send(m)>>)) ELSE UNCHANGED wireVars
  /\ Idle /\ UNCHANGED <<auth, seen, acked, mixedUp, log, faults, down>>

\* sendMessage when EnqueueOutgoing fails: the message lives in memory only.
SendMessageUnsaved(m) ==
  /\ NextId(m) /\ Fault
  /\ rec' = [rec EXCEPT ![m].st = "PermanentFailed"]
  /\ UNCHANGED <<connVars, auth, seen, dbVars, acked, mixedUp, log>>

\* retryMessage.
RetryMessage(m) ==
  /\ rec[m].st = "RetryableFailed" /\ IsReady
  /\ UpdateMessageState({m}, "WaitingAccept")
  /\ Queue(Asked(<<>>, <<Send(m)>>))
  /\ Idle /\ UNCHANGED <<auth, seen, acked, mixedUp, log, faults, down>>

\* selectConversation and markRead acknowledge the last message of others in the list,
\* whose order is left open here.
MarkRead(i) ==
  /\ IsReady /\ attached /\ i \in seen /\ log[i] = Peer
  /\ acked' = acked \cup {i}
  /\ UNCHANGED <<connVars, auth, rec, seen, dbVars, mixedUp, log, faults>>

\* authenticate: the sign-in request goes to the Gate.
Authenticate ==
  /\ auth = "required" /\ auth' = "asking"
  /\ UNCHANGED <<connVars, rec, seen, dbVars, acked, mixedUp, log, faults>>

\* The slot of OperationFailed.
SignInFailed ==
  /\ auth = "asking" /\ auth' = "required"
  /\ UNCHANGED <<connVars, rec, seen, dbVars, acked, mixedUp, log, faults>>

\* The slot of SignInSucceeded.  Requests that still wait are failed by Open.
SignInSucceeded ==
  /\ auth = "asking" /\ auth' = "busy"
  /\ Open
  /\ HandleGatewayFailure(QueuedSends)
  /\ UNCHANGED <<seen, acked, mixedUp, log, faults>>

\* The connection's owner closes it.
Leave ==
  /\ state \in {"Connecting", "Authenticating", "Ready", "Reconnecting"}
  /\ Close
  /\ UNCHANGED <<appVars, log, faults>>

\* The process ends and starts again; LoadScenario reads the tables.
Reload ==
  /\ Fault
  /\ state' = "Disconnected" /\ desired' = FALSE /\ sock' = "unconnected"
  /\ backoff' = FALSE /\ attempts' = 0 /\ expired' = FALSE /\ quitTimer' = FALSE
  /\ queue' = NoQueue /\ timers' = {} /\ up' = <<>> /\ down' = <<>>
  /\ auth' = "required"
  /\ rec' = row' /\ seen' = stored'
  /\ UNCHANGED <<acked, mixedUp, log>>

Restart == UNCHANGED dbVars /\ Reload

\* The process ends inside sendMessage, between its two transactions.
CrashInSendMessage(m) == NextId(m) /\ EnqueueOutgoing(m, "PendingLocal") /\ Reload

-----------------------------------------------------------------------------
(* AppController: the connection's signals *)

GatewayConnected == SocketConnected /\ UNCHANGED <<appVars, log, faults>>
GatewayUnreachable == ConnectFails /\ Fault /\ UNCHANGED <<appVars, log>>
ReconnectTimer == Reconnect /\ UNCHANGED <<appVars, log, faults>>
LeaveTimeout == QuitTimeout /\ UNCHANGED <<appVars, log, faults>>
SessionExpires == TokenExpires /\ UNCHANGED <<appVars, log, faults>>

\* Mutant: a request the lost connection has failed counts as rejected.
ConnectionLostRejects ==
  /\ Disconnected
  /\ UpdateMessageState(QueuedSends, "PermanentFailed")
  /\ auth' = (IF desired /\ state # "Closing" /\ expired THEN "required" ELSE auth)
  /\ IF sock = "closing" THEN UNCHANGED faults ELSE Fault
  /\ UNCHANGED <<seen, acked, mixedUp, log>>

\* HandleGatewayFailure for every request the lost connection has failed, and
\* CredentialsExpired when the token's time is over.
ConnectionLost ==
  /\ Disconnected
  /\ HandleGatewayFailure(QueuedSends)
  /\ auth' = (IF desired /\ state # "Closing" /\ expired THEN "required" ELSE auth)
  /\ IF sock = "closing" THEN UNCHANGED faults ELSE Fault
  /\ UNCHANGED <<seen, acked, mixedUp, log>>

\* HandleGatewayFailure for a request that has timed out.  The server's budget for a
\* request is 3 s and the timer's 5 s, so an answer that is still to come is a fault.
Timeout(k) ==
  /\ RequestTimeout(k)
  /\ IF k = "send" THEN HandleGatewayFailure({Head(queue[k]).m}) ELSE UNCHANGED <<rec, dbVars>>
  /\ IF InFlight(k) THEN Fault ELSE UNCHANGED faults
  /\ UNCHANGED <<auth, seen, acked, mixedUp, log>>

Receives(k) == sock \in {"connected", "closing"} /\ down # <<>> /\ Head(down).kind = k

\* SyncKnownConversations.
SyncKnownConversations == IF attached THEN <<Pull(cursor)>> ELSE <<>>

\* The requests of ResumePendingOutgoing for the messages ms, in this order.
ResumePendingOutgoing(ms) == [i \in 1..Len(ms) |-> Send(ms[i])]

\* Mutant: only the messages whose outcome is unknown are sent again.
AuthenticatedUnknownOnly ==
  LET unknown == {m \in Waiting : rec[m].st = "Unknown"}
  IN /\ Receives("login") /\ Head(down).ok
     /\ auth' = "completed"
     /\ \E ms \in Ascending(unknown) :
          LoginAccepted(Asked(SyncKnownConversations, ResumePendingOutgoing(ms)))
     /\ UpdateMessageState(unknown, "WaitingAccept")
     /\ UNCHANGED <<seen, acked, mixedUp, log, faults>>

\* The slot of Authenticated: SyncKnownConversations, then ResumePendingOutgoing.
Authenticated ==
  /\ Receives("login") /\ Head(down).ok
  /\ auth' = "completed"
  /\ \E ms \in Ascending(Waiting) :
       LoginAccepted(Asked(SyncKnownConversations, ResumePendingOutgoing(ms)))
  /\ UpdateMessageState(Waiting, "WaitingAccept")
  /\ UNCHANGED <<seen, acked, mixedUp, log, faults>>

\* A refused login: CredentialsExpired for a bad token, else only a report.
LoginError ==
  /\ Receives("login") /\ ~Head(down).ok
  /\ LoginRefused
  /\ auth' = (IF Head(down).token THEN "required" ELSE auth)
  /\ UNCHANGED <<rec, seen, dbVars, acked, mixedUp, log, faults>>

QuitResponse ==
  /\ Receives("quit") /\ QuitAnswered
  /\ UNCHANGED <<appVars, log, faults>>

\* HandleGatewayResponse for a response nobody waits for any more.
Unexpected(k) ==
  /\ Receives(k) /\ UnexpectedResponse(k) /\ Idle
  /\ UNCHANGED <<appVars, log, faults>>

\* The answer names no request: it is taken for that of the front.
TakenForFront == mixedUp' = (mixedUp \/ Head(down).m # Head(queue["send"]).m)

\* HandleGatewayResponse: the front of the queue has been rejected.
SendRejected ==
  /\ Receives("send") /\ Head(down).id = 0
  /\ CompleteFront("send", NoQueue) /\ Idle /\ TakenForFront
  /\ UpdateMessageState({Head(queue["send"]).m},
                        IF Head(down).retryable THEN "RetryableFailed" ELSE "PermanentFailed")
  /\ UNCHANGED <<auth, seen, acked, log, faults>>

\* HandleGatewayResponse: the front of the queue has been accepted.  The record in
\* memory changes whatever AcceptOutgoing returns.
SendAccepted ==
  /\ Receives("send") /\ Head(down).id # 0
  /\ CompleteFront("send", NoQueue) /\ Idle /\ TakenForFront
  /\ LET m == Head(queue["send"]).m
     IN /\ rec' = [rec EXCEPT ![m] = [st |-> "Accepted", id |-> Head(down).id]]
        /\ AcceptOutgoing(m, Head(down).id)
  /\ AttachRemoteConversation
  /\ UNCHANGED <<auth, seen, stored, acked, log, faults>>

Known(i) == i \in seen \/ \E m \in Messages : rec[m].id = i

\* HandleGatewayResponse: a page of the conversation.
PullAnswered ==
  /\ Receives("pull") /\ Head(down).ok
  /\ LET page == Head(down)
         additions == {i \in page.seqs : ~Known(i)}
     IN /\ CompleteFront("pull", IF page.more THEN Asked(<<Pull(page.next)>>, <<>>) ELSE NoQueue) /\ Idle
        /\ ApplyIncomingBatch(additions, page.next)
        /\ seen' = seen \cup additions
        /\ acked' = (IF IsReady THEN acked \cup {i \in additions : log[i] = Peer} ELSE acked)
  /\ AttachRemoteConversation
  /\ UNCHANGED <<auth, rec, mixedUp, log, faults>>

\* The same, when ApplyIncomingBatch fails: the pull is not continued.
PullUnsaved ==
  /\ Receives("pull") /\ Head(down).ok /\ Fault
  /\ CompleteFront("pull", NoQueue) /\ Idle
  /\ AttachRemoteConversation
  /\ UNCHANGED <<auth, rec, seen, row, stored, outbox, cursor, acked, mixedUp, log>>

\* HandleGatewayResponse: the pull was answered with an error.
PullRefused ==
  /\ Receives("pull") /\ ~Head(down).ok
  /\ CompleteFront("pull", NoQueue) /\ Idle
  /\ UNCHANGED <<auth, rec, seen, dbVars, acked, mixedUp, log, faults>>

Acknowledge(i) == acked' = IF IsReady THEN acked \cup {i} ELSE acked

\* Mutant: acknowledged although it was not saved.
PushUnsavedAcked ==
  /\ Receives("push") /\ ~Known(Head(down).id) /\ Fault
  /\ down' = Tail(down) /\ UNCHANGED wireVars /\ Idle
  /\ Acknowledge(Head(down).id)
  /\ AttachRemoteConversation
  /\ UNCHANGED <<auth, rec, seen, row, stored, outbox, cursor, mixedUp, log>>

\* HandleGatewayPush when ApplyIncomingBatch fails: no acknowledgement.
PushUnsaved ==
  /\ Receives("push") /\ ~Known(Head(down).id) /\ Fault
  /\ down' = Tail(down) /\ UNCHANGED wireVars /\ Idle
  /\ AttachRemoteConversation
  /\ UNCHANGED <<auth, rec, seen, row, stored, outbox, cursor, acked, mixedUp, log>>

\* HandleGatewayPush of a text message: saved with its seq as the new cursor, then
\* acknowledged; one that is known is only acknowledged.
Push ==
  /\ Receives("push")
  /\ down' = Tail(down) /\ UNCHANGED wireVars /\ Idle
  /\ LET i == Head(down).id
     IN /\ IF Known(i) THEN UNCHANGED <<seen, row, stored, outbox, cursor>>
                       ELSE seen' = seen \cup {i} /\ ApplyIncomingBatch({i}, i)
        /\ Acknowledge(i)
  /\ AttachRemoteConversation
  /\ UNCHANGED <<auth, rec, mixedUp, log, faults>>

-----------------------------------------------------------------------------
(* The server, external *)

Arrives(k) == sock # "unconnected" /\ up # <<>> /\ Head(up).kind = k

Replies(frame) ==
  /\ up' = Tail(up) /\ down' = Append(down, frame)
  /\ UNCHANGED <<state, desired, sock, backoff, attempts, expired, queue, timers, quitTimer>>
  /\ UNCHANGED appVars

Answer(frame) == Replies(frame) /\ UNCHANGED faults

ServerLogin ==
  /\ Arrives("login") /\ UNCHANGED log
  /\ \/ ~expired /\ Answer([kind |-> "login", ok |-> TRUE, token |-> FALSE])
     \/ expired /\ Answer([kind |-> "login", ok |-> FALSE, token |-> TRUE])
     \/ Answer([kind |-> "login", ok |-> FALSE, token |-> FALSE])

ServerQuit == Arrives("quit") /\ Answer([kind |-> "quit"]) /\ UNCHANGED log

IdOf(m) == CHOOSE i \in 1..Len(log) : log[i] = m

\* m is not in the frame: it is there for mixedUp.
SendAnswer(m, i, retryable) == [kind |-> "send", m |-> m, id |-> i, retryable |-> retryable]

\* A message is stored once; a client message id that is known returns the first id.
ServerSend ==
  /\ Arrives("send")
  /\ LET m == Head(up).m
     IN \/ /\ m \in Range(log) /\ UNCHANGED log
           /\ Answer(SendAnswer(m, IdOf(m), FALSE))
        \/ /\ m \notin Range(log) /\ Len(log) < MaxLog
           /\ log' = Append(log, m) /\ Answer(SendAnswer(m, Len(log) + 1, FALSE))
        \/ m \notin Range(log) /\ UNCHANGED log /\ Answer(SendAnswer(m, 0, FALSE))
        \/ UNCHANGED log /\ Answer(SendAnswer(m, 0, TRUE))

ServerPull ==
  /\ Arrives("pull") /\ UNCHANGED log
  /\ LET after == Head(up).after
         last  == IF after + PageSize < Len(log) THEN after + PageSize ELSE Len(log)
     IN Answer([kind |-> "pull", ok |-> TRUE, seqs |-> after+1..last, more |-> last < Len(log),
                next |-> IF last > after THEN last ELSE after])

ServerPullFails ==
  /\ Arrives("pull") /\ Fault /\ UNCHANGED log
  /\ Replies([kind |-> "pull", ok |-> FALSE])

\* A request gets lost behind the gateway; nothing is answered.
ServerLoses ==
  /\ \E k \in Kinds : Arrives(k)
  /\ Fault /\ up' = Tail(up)
  /\ UNCHANGED <<state, desired, sock, backoff, attempts, expired, queue, timers, quitTimer, down>>
  /\ UNCHANGED <<appVars, log>>

PeerWrites ==
  /\ Len(log) < MaxLog /\ log' = Append(log, Peer)
  /\ UNCHANGED <<connVars, appVars, faults>>

\* A push, in any order and as often as the gateway likes, one copy at a time.
ServerPushes(i) ==
  /\ IsReady /\ i \in 1..Len(log) /\ log[i] = Peer
  /\ \A j \in 1..Len(down) : down[j].kind = "push" => down[j].id # i
  /\ down' = Append(down, [kind |-> "push", id |-> i])
  /\ UNCHANGED <<state, desired, sock, backoff, attempts, expired, queue, timers, quitTimer, up>>
  /\ UNCHANGED <<appVars, log, faults>>

-----------------------------------------------------------------------------
(* Specification *)

Init ==
  /\ ConnInit
  /\ auth = "required"
  /\ rec = [m \in Messages |-> NoRecord] /\ row = rec
  /\ seen = {} /\ stored = {} /\ outbox = {} /\ cursor = 0 /\ attached = FALSE
  /\ log = <<>> /\ acked = {} /\ mixedUp = FALSE /\ faults = 0

User ==
  \/ \E m \in Messages : SendMessage(m) \/ SendMessageUnsaved(m) \/ RetryMessage(m) \/ CrashInSendMessage(m)
  \/ \E i \in 1..MaxLog : MarkRead(i)
  \/ Authenticate \/ Leave \/ Restart

Gate == SignInFailed \/ SignInSucceeded

Sockets == GatewayConnected \/ GatewayUnreachable \/ ConnectionLost

Clocks == ReconnectTimer \/ LeaveTimeout \/ SessionExpires \/ \E k \in Kinds : Timeout(k)

Receive ==
  \/ Authenticated \/ LoginError \/ QuitResponse \/ SendRejected \/ SendAccepted
  \/ PullAnswered \/ PullUnsaved \/ PullRefused \/ PushUnsaved \/ Push
  \/ \E k \in Kinds : Unexpected(k)

Server ==
  \/ ServerLogin \/ ServerQuit \/ ServerSend \/ ServerPull \/ ServerPullFails \/ ServerLoses \/ PeerWrites
  \/ \E i \in 1..MaxLog : ServerPushes(i)

Next == User \/ Gate \/ Sockets \/ Clocks \/ Receive \/ Server

Spec == Init /\ [][Next]_vars

-----------------------------------------------------------------------------
(* Properties *)

\* Nothing the user has written and the database has taken gets lost: it is in the outbox
\* with an open state, so that the next login sends it again, or it was rejected for good,
\* or the server has it.  The one exception the code admits is an answer that comes after
\* the timeout of its request and is taken for that of the next, since CompleteFront goes
\* by the kind of the response.  (EnqueueOutgoing, UpdateDeliveryState, AcceptOutgoing)
NothingLost ==
  ~mixedUp => \A m \in Messages :
    row[m].st # "none" => \/ m \in outbox /\ row[m].st \in Unsettled
                          \/ m \notin outbox /\ row[m].st = "PermanentFailed"
                          \/ m \notin outbox /\ m \in Range(log)

\* What the client shows of an outgoing message is what the server did, with the same
\* exception: an id and seq are those under which this very message is stored, and a
\* message that failed for good is not in the conversation.  Timeouts, lost connections
\* and restarts leave the outcome open.  (HandleGatewayResponse, HandleGatewayFailure)
ShownTruthfully ==
  ~mixedUp => \A m \in Messages :
    /\ rec[m].id # 0 => rec[m].id <= Len(log) /\ log[rec[m].id] = m
    /\ row[m].id # 0 => row[m].id <= Len(log) /\ log[row[m].id] = m
    /\ rec[m].st = "PermanentFailed" => m \notin Range(log)

\* While the connection is ready, a message shown as waiting for its acceptance has a
\* request in the queue: some response, timeout or disconnect will end the waiting.
\* (ResumePendingOutgoing, FailAllPending, CompleteFront)
WaitingIsPending ==
  IsReady => \A m \in Messages : rec[m].st = "WaitingAccept" => m \in QueuedSends

\* An incoming message is acknowledged only when the database has it, so a restart after
\* the acknowledgement does not lose it.  (HandleGatewayPush, HandleGatewayResponse)
AckedIsSaved == \A i \in acked : i \in stored \/ \E m \in Messages : row[m].id = i

\* The sync cursor is the last seq up to which the client has every message, so pulling
\* after it repairs what pushes have missed.  (HandleGatewayPush, AcceptOutgoing)
CursorContiguous == \A i \in 1..cursor : i \in stored \/ \E m \in Messages : row[m].id = i
=============================================================================
