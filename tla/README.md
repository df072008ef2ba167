# A TLA+ model of the wimi server

wimi is an instant-messaging system in C++: a Qt client, and five kinds of server
processes around MySQL and Redis. This directory holds TLA+ modules for the parts
in which processes, threads and failures interleave, TLC runs that check them on
small instances, and TLAPS proofs, for every instance, of the safety properties that
these runs find to hold.

Paths below are relative to `src/`. `PROJECT.json` gives the source lines of every
definition.

## The system

```
            HTTP                 gRPC
  client ---------> Gate -----------------> State
     |                                        ^
     | TCP frames                             | placement, topology
     v              bidirectional gRPC        |
  Connection Gateway <=======================> Message node ---> File node
     |                                        |
     +------ Redis (leases, tokens, codes) ---+--- MySQL (messages, friends, groups)
```

| part | state | operations | hard behaviour |
|---|---|---|---|
| Connection Gateway, sessions (`server/gateway/src/GatewaySession.cc`, `SessionRegistry.cc`) | the sessions of its process, one per user; per session the user and the lease | login (`Authenticate`, `Bind`), lease refresh, forward, close (`Remove`) | a login, an older login, a clean-up and a TTL racing; process restart; lost Redis replies |
| Connection Gateway, frames out (`GatewaySession.cc`) | write queue, reliable writes by id | `SendRaw`, `SendReliable`, `WriteLoop`, retransmission, transport ACK | ACK before registration, a full queue, three attempts |
| Links (`server/gateway/src/MessageLink.cc`) | one stream per Message node, pending commands by request id, reconnect timers | `Forward`, `OnFrame`, `ExpirePending`, `OnLinkDone`, `RetryPending`, `ApplyTopology`, `Stop` | results, deadlines, retries and stream ends racing; streams replaced while the old one is still about |
| Gateway streams at the node (`server/message/src/service/GatewayStreamService.cc`) | the registered stream per gateway, `draining` | register, command, reply, deliver, drain | registration order, replies on dead streams, drain racing registration |
| Message acceptance (`MessageService.cc`, `server/public/include/Mysql.h`) | tables `conversations`, `messages`, `conversationMembers` | `acceptDirectText`, `acceptGroupText` | snapshot reads against locking reads, unique keys, deadlocks, a commit whose outcome is unknown, repeated commands |
| Receipts and synchronisation (same files) | status and read time of messages, cursors of members | `acknowledgeConversationMessage`, `updateMessageForReceiver`, `syncConversation` | late and repeated receipts of two protocols, paging through a log that grows |
| Friends, groups (`Friend.cc`, `Group.cc`) | `friends`, `friendApplys`, `groups`, `groupMembers` | apply, accept, create, join | concurrent acceptance, several statements without a transaction |
| Gate (`server/gate/src/service`) | tokens, verification codes | sign up, sign in, reset password, request a code | a code consumed before the step it was for fails |
| State (`server/state/src/service`) | none that outlives a call | pick a gateway, list Message nodes | none |
| File node (`server/file/src/service`) | task queue per worker | upload a chunk | acknowledged before it is written |
| Thread pool, connection pools (`server/public`) | bounded queues | post, stop; acquire, release | stop against waiting posters, a pool that shrinks, nested acquisition |
| Client (`client/src`) | outbox and messages in SQLite, request queue, cursors | send, retry, resume, push, pull | gaps, time-outs against late answers, restart with unanswered messages |

What should be right, and is stated below: at any time at most one session of a
user counts, and it is the newest one; a message is stored once, at one place in one
conversation, whatever is repeated or fails; whoever is pushed a message can fetch
it; a member who synchronises misses nothing; receipts are never taken back; every
command is answered exactly once; the gateway always gets back to a node that is up;
what a client has written survives time-outs and restarts; what a command reports as
stored is stored, although most commands are several statements without a transaction;
a bounded queue keeps its bound and nobody sleeps beside work.

## Modules

| module | what it is |
|---|---|
| `SessionLease` | session ownership: sessions, registries, Redis lease, the Message node's fence |
| `SessionLeaseProofs` | theorems about `SessionLease` |
| `MessageLog` | the abstract promise of the store: an append-only log per conversation |
| `MessageStore` | the workers' MySQL transactions that implement `MessageLog` |
| `MessageStoreProofs` | theorems about `MessageStore`: types, sequence numbers, ids, replies, pushes, member rows; it implements `MessageLog` |
| `ConversationView` | receipts and synchronisation, on top of `MessageLog` |
| `MessageLink` | the gateway's streams to the Message nodes, both ends |
| `MessageLinkProofs` | theorems about `MessageLink`: answers, registration |
| `MessageRunsProofs` | theorems about `MessageLink`: how often a command runs |
| `GatewayWrites` | the frames a gateway session sends, with retransmission and transport ACK |
| `ClientConnection` | the client's connection: login, request queue, time-outs, reconnection |
| `ClientMessages` | the client's outbox, messages and cursor, on top of `ClientConnection` |
| `ClientProofs` | theorems about `ClientMessages` |
| `Database` | what a call of the data layer can come to |
| `Account` | verification codes, sign-up, password reset, sign-in at the Gate |
| `Friendship`, `GroupMembership` | friend requests and groups at a Message node |
| `ServiceProofs` | theorems about `Account`, `Friendship` and `GroupMembership` |
| `ThreadPool` | the bounded pool of the Message nodes |
| `TransportProofs` | theorems about `GatewayWrites` and `ThreadPool` |
| `ConnectionPool` | the Redis, MySQL and RPC connection pools |
| `FileWorkers` | the File node's upload calls and workers |
| `ViewWakeupProofs` | theorems about `ConversationView`, `ConnectionPool` and `FileWorkers` |
| `MC...` | values of the constants for TLC, and the composition of parts in one run |

Definitions whose comment begins with *Mutant* are not part of a specification.
Each is a variant of the definition that follows it, with a mistake the code could
have had; put in its place, it breaks the property `PROJECT.json` names.

### SessionLease

`GatewaySession::Run` is a coroutine on a strand; it leaves the strand for Redis
calls. `conn[c].pc` says where it stands. Each atomic step of the code is an action:
a Redis script (`bindSessionLease`, `refreshSessionLease`, `clearSessionLease`), a
section under the registry's mutex (`BindLocal`, `RemoveLocal`), a handler of the
strand (`LoginDone`, `FencedClose`, `CloseInContext`), a task of a Message worker
(`Fence`). `BindRedisFails` covers both a script that never ran and a reply that was
lost. `Restart` takes a gateway process away with its sessions and leaves its leases
in Redis and its commands under way. Time is `Age` and `Expire`: a lease that was
refreshed has to age before it expires. `GoneSession` is a destroyed session, whose
weak pointer in the registry can no longer be locked.

Left out: rate limits, the wording of replies, services the gateway answers itself
(they change none of this state), and the writes to the client.

### MessageLog, MessageStore

A worker runs a command as one transaction. The actions are its parts as other
transactions can tell them apart: `Begin` (the first SELECT, which fixes the
snapshot), `Lock` (the upsert that waits for the conversation row, and all that runs
under the lock up to the duplicate check), `Insert` (which waits for and fails on
the unique key of sender and clientMessageId), `Commit`, `Reply` (the answer, then
the push). `Abort` is any statement that throws, `CommitUnknown` a COMMIT that took
effect although the worker saw an exception, `Crash` the loss of the process. The
direct and the group version have the same shape and share the actions; what
differs is where members come from and the position they join at. MySQL itself is
modelled from how the code uses it: REPEATABLE READ, locking reads of current rows,
unique keys.

`MessageLog` has the log and the member positions only; `ImplementsLog` maps the
tables to it. An `Enrol` step is a repeated group command, which adds member rows
and no message.

### ConversationView

Extends `MessageLog`, so its log is the one the store is shown to implement. A
receipt is one step (one transaction whose locking SELECT comes first, or one
UPDATE); a page of `syncConversation` is two (two SELECTs without a transaction),
with anything in between.

### MessageLink

A gateway, its streams and the nodes at their other end. `Slots` bounds the streams
of one node that exist at a time: a replaced stream lives on until gRPC reports it
done, and its node may still read from it. `Forward`, `RetryPending`,
`ApplyTopology`, `Stop` and `HandleRegister` are split at their mutex sections.
A link is `closed` from OnDone until the handler that OnDone posts has run. Request
ids come from clients, so two calls may carry the same one. A fault is a stream
that breaks, a node that exits, a drain, or a new topology. Which of several healthy
links is preferred is left open: the code's hash and inflight counters only choose.
Of heartbeats there is one consequence, `IdleStop`: a link that never became
healthy is stopped after 30 s.

### GatewayWrites

`SendRaw` and `SendReliable` run on any thread (`sender[p].pc`): they touch the
atomic counter of queued frames and the closed flag, one step each, and post to the
strand. The strand is a sequence of tasks that run one at a time, so a task is one
action (`Run...`). A frame is its ack seq, or `Raw`. `credit` is a history variable:
how often a delivery may still go out, three times less what was sent and nothing
after an ACK that found its entry. `kMaxQueuedWrites` and the number of deliveries
are constants, the three attempts are as in the code.

### ClientConnection, ClientMessages

The client runs on one Qt event loop; a signal calls its slots before the emitting
function goes on. An action is one event with all its slots: the part of
`ConnectionGatewayClient` is in `ClientConnection`, that of `AppController` and of the
SQLite repository in `ClientMessages`, and the latter conjoins the two. A response
goes to the front of the queue of its kind whatever request it answers
(`CompleteFront`); `mixedUp` remembers that a late answer was taken for that of the
next request. A fault is a time-out, a broken connection, a restart, or a database
write that fails. The server is a log that stores each message id once, which is what
`StoredOnce` and `SeqDense` say of the real one.

### Account, Friendship, GroupMembership

One step per Redis script or SQL statement, and `Database` says what each can come
to: success, failure without effect, or effect with the answer lost. Commands
interleave between their steps. `Account` has the code, its attempts and its cooldown
as three keys that expire separately. `Friendship` keeps the width of the session id:
`StoreReplyAddFriend` returns a 64-bit id as an int, and a result of -1 counts as a
failure; `IntSpan` stands for 2^32.

### ThreadPool, ConnectionPool, FileWorkers

Mutex sections are steps; a notification after the unlock is a step of its own; a wait
tests its predicate again whenever it ends. Where a flag is set without the mutex
(`Close` of the pools, the destructor of a file worker), testing the predicate and
falling asleep are two steps with the mutex held, so that the flag may change between
them. In `ConnectionPool` a caller may hold a connection and ask for another
(`generateId` inside a command). In `FileWorkers` the route counter is a static int
without a lock: each read and write is a step, and an index past the end, which is
undefined behaviour, ends the behaviour.

## Runs

| run | instance | checks | distinct states |
|---|---|---|---|
| `SessionLease` | 1 user, 2 gateways, 2 connections, 2 logins, 1 restart per gateway, 2 commands | types; the lease in Redis is the newest; a generation names one login; an open session is the registered one; registries hold live sessions; clean-up clears its own lease only; the fence is monotone | 247,657 |
| `SessionLeaseLive` | the same without commands, with fairness | a dead connection's lease goes; a superseded session goes | 27,352 |
| `SessionLeaseReplace` | 1 gateway, 2 connections | **violated**: see Findings | |
| `MessageStore` | 2 workers, a direct conversation and a group, 5 commands, 3 messages each, 1 fault | types; dense sequence numbers; truthful replies; ids stored once; pushed at most once; recipients can synchronise | 284,636 |
| `MessageStoreLog` | 2 workers, 3 commands of one id, 1 fault, with fairness | implements `MessageLog`; every request is answered | 11,426 |
| `MessageStoreDuplicate` | one command sent repeatedly, no faults | **violated**: see Findings | |
| `Services` | 2 users, a direct conversation and a group; logs of 2 for receipts, of 5 for paging (2 by default, at most 3); 1 e-mail address, 4 requests, 2 codes of 2 attempts; 3 friend commands, 3 group commands; 1 database fault | receipts ordered and never taken back; a walk is complete; a mailed code stays good; codes and attempts are limited; friend and group answers are true | 311,218 |
| `Transport` | client: 2 own messages, a log of 2, pages of 1, 1 or 2 faults; session: 1 ack seq, 2 threads, a queue of 2, 2 deliveries; pool: 3 tasks, 2 workers, 2 stoppers, a queue of 1; connections: 3 callers, a pool of 2, nesting of 2; File node: 3 uploads, 2 workers | client: nothing lost, shown truthfully, waiting means queued, acknowledged means saved; session: queue bounded, repetitions limited, slow clients closed; pools and workers: drained at stop, nobody sleeps beside work, a connection or a chunk, chunks run once | 1,213,402 |
| `ClientGap` | 1 own message, a log of 2 | **violated**: see Findings | |
| `MessageLink` | 2 nodes, 1 stream each at a time, 2 calls with one id, 1 fault | one callback per call; executions bounded; no command ahead of registration | 1,333,288 |
| `MessageLinkLive` | 1 call, with fairness | calls are answered; links recover | 173,202 |
| `MessageLinkStale` | 2 streams of a node at a time | **violated**: see Findings | |

Why these bounds are enough to be interesting. Two connections are what a race for a
lease needs, two gateways let it happen across processes and two logins per user
make one of them old. In the store, two workers and a fault meet every pair of
transactions; the commands repeat an id with the same text, with another text, in
another conversation, by another sender and by somebody who joins later. Five
messages are more than two pages of two. `Services` and `Transport` hold several parts
that share no state (`Services`: none but the count of faults); a behaviour moves one
of them, named by `focus`, so the state space is the sum and not the product of
theirs. There, two codes let a late withdrawal meet a newer code, three commands let
two others run between the statements of one, and three tasks, callers or uploads are
one more than the workers or connections. Queues of one task or two frames fill up.
`SessionIds` are on both sides of the scaled-down int and one of them becomes -1. In
`MessageLink` one stream per node at a time suffices for callbacks and retries;
streams that overlap matter for the registration, and the violated run has them.
Symmetry is used only where no liveness is checked. `CHECK_DEADLOCK FALSE` stands
where connections, calls, commands or messages run out or a pool has stopped, which
are ends the real system may come to as well.

### Fairness

* `SessionLease`: the TTL runs by itself; handlers posted to a strand and Redis calls
  end; a closed socket makes the read loop return. `Refresh` is strongly fair: an
  open client sends its heartbeat on a timer, so its next packet comes, and every
  20 s a packet refreshes. Nothing forces a login, a command or a restart.
* `MessageStore`: a worker goes on; InnoDB grants a lock that is free again and again
  (it queues the waiters, hence strong fairness of `Lock` and `Insert`). Nothing
  forces a client to send.
* `MessageLink`: handlers and timers run while the io_context does; gRPC ends a
  stream that is cancelled or whose other end is gone; workers finish. Nothing
  forces a call, a fault or `Stop`.
* `Services` and `Transport` check safety only and assume no fairness. That a sleeper is
  woken is stated there as an invariant: a notification is on its way.

## Findings

Four runs state what a document or comment of the repository says, and fail.

1. *A new generation replaces the old connection* (`docs/feature-server-verification.md:53`).
   `Bind` publishes in Redis before it takes the registry's mutex, and the entry is
   stored without comparing generations (`SessionRegistry.cc:35`). Two logins that
   pass Redis in one order and the mutex in the other leave the older one registered
   and close the newer one. `LeaseIsNewest` and `FencedMonotone` still hold, and by
   `SupersededGoes` the older one does not last.
2. *A repeated clientMessageId returns the original result* (`docs/feature-server-verification.md:58`).
   The duplicate check is a plain SELECT and reads the snapshot that was fixed before
   the lock was waited for (`Mysql.h:667`). A repetition that waits for its original
   fails on the unique key and is answered `MysqlFailed`, which is retryable; a
   further repetition gets the original result. `StoredOnce` holds.
3. *stream_epoch tells reconnected streams apart* (`gateway_message.proto:10`).
   `Register` does not compare it (`GatewayStreamService.cc:355`). When the
   registration of a replaced stream is handled after that of its successor, the
   node keeps the stale one, and forgets the gateway when it ends, while the gateway
   goes on sending on the new one: its commands run and their replies are dropped.
4. *The client repairs missed pushes with its last contiguous seq*
   (`docs/feature-server-verification.md:60`). `HandleGatewayPush` and
   `AcceptOutgoing` take the seq they are given as the new cursor without looking for
   a gap (`client/src/app/AppController.cc:1146`). After a push that was lost, the
   next push or accepted message moves the cursor past the missing one and no later
   pull asks for it.

Seen while modelling, and stated here without a run of its own:

* A link that `ApplyTopology` removes leaves its pending commands to their deadline
  (`MessageLink.cc:701`), although `OnLinkDone` is to retry them (`:213`).
  `CallsAnswered` holds.
* `ReplyJoin` adds the member and records an agreement whether the manager agreed or
  declined (`Group.cc:199`, `:211`, `:228`); `GroupAnswersTruthful` says what remains
  true. `PullNotify` reads `friendApplys` (`Group.cc:136`).
* `getFriendApplyList` selects by `fromUid` (`Mysql.h:1118`), and the client takes
  `apply.from()` as the id of a request (`AppController.cc:986`).
* An acceptance of a friend that failed between its two insertions fails on the
  primary key when it is repeated.
* A connection attempt of the client that fails is not rescheduled: only `disconnected`
  does that, and a socket that never connected does not emit it
  (`ConnectionGatewayClient.cc:72`).
* The pools' `Close` sets the flag without the mutex (`Redis.h:136`), so a caller may
  fall asleep after the notification; their destructor joins the keeper thread with
  the mutex held (`Redis.h:84`). `~FileWorker` sets its flag without the mutex too,
  and chunks that are still queued then are dropped after having been acknowledged.

## Proofs

The proof modules follow the same plan: the type invariant, strengthened by what
the program counter says about the other fields, is inductive by itself; further
layers are each inductive relative to the ones before. They assume of the constants
only the named `ASSUME`s of the modules: `NoOne` (`NoWorker`) is none of the ids, the
bounds are naturals, `Founders` and `Commands` have their types, direct
conversations are not groups, calls are not the names of frames, the peer's messages
are not numbered like the client's own, page sizes, attempts and limits are positive
where the code's are, and the sets whose members are counted (threads, tasks, callers,
uploads) are finite. Otherwise the sets may be of any size and the bounds of any value.

TLC has checked the inductive invariants on the instances of the runs before they were
proved.

`SessionLeaseProofs`:

* `Inv1` = `TypeOK` and, for each session, which of user, lease and login in progress
  are set at each place. Gives `TypeCorrect`.
* `Inv2`: every lease anywhere has a generation at most the counter's, the one in
  Redis exactly the counter's, two with one generation are equal, and what the fence
  last let through is no newer than the counter. A step either *keeps* the leases of
  a user (`Keeps`: none appear) or *publishes* one with the next generation
  (`Publishes`); the lemma `LeasesStep` sorts the actions into the two, and the rest
  of the proof looks only at these. Gives `LeaseNewest`, `UniqueGenerations`,
  `FenceIsMonotone` and `ClearsOwn`. `LeaseIsNewest` alone is not inductive: a refresh
  or a fence compares leases held elsewhere.
* `Inv3`: a registry entry belongs to a session that stands (it logged in and has not
  reached its clean-up), and an open session is its registry's entry. Gives
  `OpenRegistered` and `RegistryLive`. Neither half is inductive without the other.

`MessageStoreProofs`:

* `Inv1` types; `Inv2` a worker past `Lock` holds its conversation's lock, and a
  snapshot is a subset of the table; `Inv3` a worker about to insert holds exactly
  latestSeq + 1, and numbers are dense (`DenseSequence`; needs `Inv2`: nobody else
  moves latestSeq meanwhile); `Inv4` ids are stored once and no two uncommitted rows
  share one (`IdStoredOnce`); `Inv5` what a transaction has found is in the table
  (`RepliesAreTruthful`; rows are never removed); `Inv6` every message has at most one
  push, done or still owed (`MessagePushedOnce`); `Inv7` whoever a transaction has
  seen as a member gets a member row no later than the message (`RecipientsCanSync`).

The module ends with `Spec => ImplementsLog` (`StoreImplementsLog`). `Inv8`: the member
table of a conversation, and what a transaction is about to enrol, contain the
founders, and are the founders in a direct conversation; the sender was a member in
the snapshot. `LogWith` reads any dense table as logs; adding the row with the next
number appends its entry (`RowAppends`, from `Inv3`). A commit is then `Accept`, or
`Enrol` for a duplicate, and every other step leaves the logs alone. `Inv4` is what
makes the accepted id unused, `Inv5` what makes the log of a duplicate non-empty.

`TransportProofs`, about `GatewayWrites`, for any set of ack seqs, any finite set of
threads, any limit above 0 and any number of deliveries:

* `WriteInv` = types, `CreditInv` and `RefusedInv`. `CreditInv`: nobody's credit
  is negative, and while a delivery has an entry its credit is three minus its sendings.
  Gives `RepetitionsBounded`; `credit >= 0` alone does not survive a repetition, whose
  guard counts sendings. `RefusedInv`: a refused send has closed the session or posted
  its close to the strand. Gives `SlowClientsClose`.
* `CountInv`: the counter is exact, and the frames that were let in, on threads, on the
  strand and in the queue together, are within the limit, while the counter alone may
  pass it by the senders about to be refused (`Balanced`, `BalanceMoves` hold the
  arithmetic). Gives `QueueStaysBounded`.

and about `ThreadPool`, for any finite set of tasks, any non-empty set of workers, any
stoppers and any queue size above 0:

* `PoolInv`: a task is in one place at most (in the queue or with one worker), it is
  there exactly while it was accepted and not called, and a worker that left did so
  with the flag set and the queue empty. Gives `TasksKept` and `StopDrains`.
* `WakeInv`: whenever all workers that are left sleep before a task, a notification is
  on its way; callers sleep before a stopped pool only until Stop wakes them, and
  before a running one only while the callers already woken can fill the queue. The
  property itself does not tell the two apart, so it is not inductive. Gives `WakeupsReachSleepers`.

`MessageLinkProofs`, for any sets of calls, request ids, nodes and streams and any
number of faults:

* `CallInv`: an entry of `pending` stands under its own call's id and that call has no
  answer yet; nor has a call that has not come to `pending` or was refused. Gives
  `CallsAnsweredOnce`. That a count is at most 1 is not inductive: it takes that
  whoever answers has removed the entry in the same mutex section.
* `StreamsInv`: once the gateway takes a stream for registered, or a frame that says so
  is on its way (`Told`), the node's end takes commands or is gone (`Ready`), and this
  stays so for whoever has chosen the stream; an object that is free remembers nothing
  of the stream before. Gives `CommandsFollowRegistration`. The lemmas `StreamMoves`
  and `StreamsMove` reduce an action to what it does to the two ends of one stream.

`MessageRunsProofs`: `RunsInv` is a budget. The executions of a command, its copies (on
streams, with workers, taken by `RetryPending` and not sent yet), one for a call that
`Forward` has still to queue and one for an attempt not yet counted are together at
most 1, or 2 when its service may be retried. `Grows` and `Turns` say by how much a step
moves each part, `BudgetKept` that a step pays for what it adds. Gives `RunsBounded`.

`ServiceProofs`, for any people, groups, e-mail addresses, requests and limits:

* `FriendInv`: what a command has written by the statement it is at (`Written`); rows
  are never removed and a friendship's id never changes, so another command leaves it
  true (`WrittenStays`). Gives `FriendshipsTruthful`.
* `GroupInv`: what an answered command has stored, that nobody is made a member twice,
  and that a group without master has a command to account for it. Gives `GroupsTruthful`.
* `AccountInv`: a code in store let nobody pass and has attempts left, no two addresses
  share one, wrong guesses are within the counter's, no two requests own one code, and
  a code being mailed or confirmed is in store or spent. Gives `CodesLimited` and
  `ConfirmedCodesLive`. Without the ownership, a late withdrawal could not be told from
  one that takes another request's code.

`ViewWakeupProofs`, about `ConversationView`, for any users, conversations and page sizes:

* `ReceiptInv` = types and `ReceiptsOrdered`. Gives `ReceiptsInOrder`, and with every
  step `ReceiptsForward`.
* `PagesInv`: what a walk holds is the interval from where it began, or from the
  member's joining, to `after`, and `after` has not passed the latestSeq of the last page.
  `PageRows` turns LIMIT, a count of rows, into the end of an interval. Gives `WalksComplete`.

and about `ConnectionPool` and `FileWorkers`, for any finite sets of callers and uploads
and any number of connections and workers:

* `ConnectionInv`: who holds the mutex between two steps, and that a caller about to
  sleep has seen an empty queue to which nothing was returned since. Gives
  `ConnectionsReachCallers`.
* `FileInv`: a chunk lies in one place, exactly from `PushTask` to its run, and a worker
  asleep beside a chunk is about to be told. Gives `ChunksReachDisk`. The calls may read
  and write the route counter in any order: the invariant asks only that the index was
  in range, since an index out of range ends the behaviour.

`ClientProofs`, for any number of own messages, any log and page size and any number of
faults. `ClientInv` is inductive as a whole (`ClientInvariant`); its parts:

* `Queues`: the queue of send requests holds every message once that waits, and while the
  connection is ready it holds them all. Gives `ClientWaitsForAnswers`. That
  `ResumePendingOutgoing` queues nothing for the second time takes `Connection`: while a
  login is unanswered the queue is empty.
* `Tables`: the outbox holds exactly the rows in an open state, and memory and database
  agree except where `AcceptOutgoing` failed after the list was changed. Whatever is on the
  wire or in the server's log has a row.
* `Connection`: nothing is on the wire before the socket is connected, and no message
  before the login was answered.
* `Incoming`: frames from the gateway tell what the log says, and what the client has shown
  of others, or acknowledged, is stored. Gives `ClientAcksWhatIsSaved`.
* `Outgoing` and `Outcomes`, as long as no answer was taken for that of another request:
  a message is on the wire once, as request or as answer, and then it is the front of the
  queue or its request has timed out; and a refusal, shown, stored or still under way,
  means that the message is not in the log. Give `ClientLosesNothing` and
  `ClientShowsTruth`. Neither is inductive: that a late answer settles the right message
  needs the place of the request in the queue, and a refusal under way must stay true while
  the log grows, which it does because the one request of its message is gone.

Most steps leave rows and requests of own messages alone: `QuietStep` says what they may
do, and `QuietInv` is proved once for all of them. `Writes` and `Takes` say what the others
do to the wire, by the messages they write, so that the sequences themselves are looked at
only in the lemmas about `Enqueue`, `Frames`, `Head` and `Tail`.

The proof modules make Zenon the default prover (`USE Zenon`), and leaves with arithmetic
or sequences cite `SMT`.

Only model-checked: the liveness properties (fairness is out of the prover's reach). The
properties of the four violated runs do not hold, so there is nothing to prove.

## Not modelled

* User interface, serialisation, frame codecs, logging, metrics, configuration,
  accept loops and start-up: no protocol state of their own.
* The State node: it reads its configuration and picks; `MessageLink` takes its answers
  as inputs of `ApplyTopology`.
* Reads without consequences (the pulls of the old protocol, user look-ups), and the
  pushes and notifications of the Message nodes: a look-up of the lease and one write
  to a stream. What may be pushed is in `MessageStore`, what the gateway does with it
  in `GatewayWrites`, what the client does with it in `ClientMessages`.
* The client's lists of contacts, requests and groups, and its drafts: copies of what
  the server answered last, or of what the user typed, without protocol state.
* Heartbeats, except for what their absence leads to.
* The bytes of files, and `initUserinfo` (one insertion).
* A composition of `SessionLease`, `GatewayWrites` and `ClientMessages`: a push that is
  lost with its session is a push that is lost in `ClientMessages`, and nothing in
  `GatewayWrites` depends on who owns the session.
