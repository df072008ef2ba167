--------------------------- MODULE GatewayWrites ---------------------------
(***************************************************************************)
(* The write side of one GatewaySession: frames queue for the socket, up   *)
(* to a limit, and a delivery with an ack seq is sent again every 5 s      *)
(* until the client's transport ACK, three times at most.                  *)
(*                                                                         *)
(* SendRaw and SendReliable are called on threads of the gRPC stream and   *)
(* of the session itself; they touch two atomics and post to the strand.   *)
(* Whatever runs on the strand runs alone.  A frame is its ack seq, or Raw *)
(* for one without (responses, errors, the answer to QUIT).                *)
(***************************************************************************)
EXTENDS Integers, Sequences, FiniteSets

CONSTANTS Seqs,           \* ack seqs of reliable deliveries
          Raw,            \* a frame without one
          Senders,        \* threads that call SendRaw or SendReliable
          MaxQueued,      \* kMaxQueuedWrites
          MaxDeliveries   \* bound: sends of SendReliable for a seq, and of SendRaw

ASSUME WriteBounds == MaxQueued \in Nat \ {0} /\ MaxDeliveries \in Nat /\ IsFiniteSet(Senders)
ASSUME RawAssumption == Raw \notin Seqs

MaxSendings == 3

VARIABLES closed,          \* closed
          queuedWrites,    \* queuedWrites
          writeQueue,      \* writeQueue
          writeActive,     \* writeActive: async_write of the front is under way
          closeAfterWrite, \* closeAfterWrite
          strand,          \* tasks posted to the strand
          sender,          \* where each sender stands
          sendings,        \* reliableWrites: attempts, 0 without an entry
          armed,           \* entries whose timer is running
          sends,           \* sends so far, by frame
          credit,          \* history: repetitions a seq is still entitled to
          refused          \* history: some send was refused for a full queue

writeVars == <<closed, queuedWrites, writeQueue, writeActive, closeAfterWrite, strand, sender,
               sendings, armed, sends, credit, refused>>

Frame == Seqs \cup {Raw}

\* How many tasks of a kind wait in a queue of the strand.
Count(do, tasks) == Cardinality({i \in 1..Len(tasks) : tasks[i].do = do})

-----------------------------------------------------------------------------
(* Data *)

\* CloseInContext.
CloseInContext ==
  /\ closed' = TRUE
  /\ IF closed THEN UNCHANGED <<sendings, armed>>
               ELSE sendings' = [s \in Seqs |-> 0] /\ armed' = {}

-----------------------------------------------------------------------------
(* SendRaw and SendReliable *)

\* The test of closed and the fetch_add; the counter may pass the limit for a moment.
Reserve(p, f) ==
  /\ sender[p].pc = "idle" /\ ~closed
  /\ sends[f] < MaxDeliveries /\ sends' = [sends EXCEPT ![f] = @ + 1]
  /\ queuedWrites' = queuedWrites + 1
  /\ sender' = [sender EXCEPT ![p] = [pc |-> IF queuedWrites + 1 > MaxQueued THEN "over" ELSE "post",
                                      f |-> f]]
  /\ UNCHANGED <<closed, writeQueue, writeActive, closeAfterWrite, strand, sendings, armed, credit, refused>>

\* Mutant: the refused frame stays counted.
RefuseCounted(p) ==
  /\ sender[p].pc = "over"
  /\ strand' = Append(strand, [do |-> "close"])
  /\ sender' = [sender EXCEPT ![p].pc = "idle"]
  /\ refused' = TRUE
  /\ UNCHANGED <<closed, queuedWrites, writeQueue, writeActive, closeAfterWrite, sendings, armed, sends, credit>>

\* Mutant: a full queue refuses the frame and keeps the connection.
RefuseOnly(p) ==
  /\ sender[p].pc = "over"
  /\ queuedWrites' = queuedWrites - 1
  /\ sender' = [sender EXCEPT ![p].pc = "idle"]
  /\ refused' = TRUE
  /\ UNCHANGED <<closed, strand, writeQueue, writeActive, closeAfterWrite, sendings, armed, sends, credit>>

\* The queue is full: the client is too slow, Close.
Refuse(p) ==
  /\ sender[p].pc = "over"
  /\ queuedWrites' = queuedWrites - 1
  /\ strand' = Append(strand, [do |-> "close"])
  /\ sender' = [sender EXCEPT ![p].pc = "idle"]
  /\ refused' = TRUE
  /\ UNCHANGED <<closed, writeQueue, writeActive, closeAfterWrite, sendings, armed, sends, credit>>

\* SendRaw posts the frame; SendReliable goes on to post its registration.
Post(p) ==
  /\ sender[p].pc = "post"
  /\ strand' = Append(strand, [do |-> "push", f |-> sender[p].f])
  /\ sender' = [sender EXCEPT ![p].pc = IF sender[p].f = Raw THEN "idle" ELSE "register"]
  /\ UNCHANGED <<closed, queuedWrites, writeQueue, writeActive, closeAfterWrite, sendings, armed, sends,
                 credit, refused>>

PostRegistration(p) ==
  /\ sender[p].pc = "register"
  /\ strand' = Append(strand, [do |-> "register", f |-> sender[p].f])
  /\ sender' = [sender EXCEPT ![p].pc = "idle"]
  /\ UNCHANGED <<closed, queuedWrites, writeQueue, writeActive, closeAfterWrite, sendings, armed, sends,
                 credit, refused>>

-----------------------------------------------------------------------------
(* On the strand *)

Runs(do) == strand # <<>> /\ Head(strand).do = do

\* The task SendRaw has posted; it starts WriteLoop when none is running.
RunPush ==
  /\ Runs("push") /\ strand' = Tail(strand)
  /\ IF closed
       THEN queuedWrites' = queuedWrites - 1 /\ UNCHANGED <<writeQueue, writeActive>>
       ELSE /\ writeQueue' = Append(writeQueue, Head(strand).f) /\ writeActive' = TRUE
            /\ UNCHANGED queuedWrites
  /\ UNCHANGED <<closed, closeAfterWrite, sender, sendings, armed, sends, credit, refused>>

\* The task SendReliable has posted: a fresh entry, the timer of an older one cancelled.
\* On a closed session the entry stays without a timer.
RunRegister ==
  /\ Runs("register") /\ strand' = Tail(strand)
  /\ LET s == Head(strand).f
     IN /\ sendings' = [sendings EXCEPT ![s] = 1]
        /\ credit' = [credit EXCEPT ![s] = MaxSendings - 1]
        /\ armed' = (IF closed THEN armed \ {s} ELSE armed \cup {s})
  /\ UNCHANGED <<closed, queuedWrites, writeQueue, writeActive, closeAfterWrite, sender, sends, refused>>

RunClose ==
  /\ Runs("close") /\ strand' = Tail(strand)
  /\ CloseInContext
  /\ UNCHANGED <<queuedWrites, writeQueue, writeActive, closeAfterWrite, sender, sends, credit, refused>>

\* A 5 s timer expires: from here on cancelling it comes too late.
TimerExpires(s) ==
  /\ s \in armed /\ armed' = armed \ {s}
  /\ strand' = Append(strand, [do |-> "expire", f |-> s])
  /\ UNCHANGED <<closed, queuedWrites, writeQueue, writeActive, closeAfterWrite, sender, sendings, sends,
                 credit, refused>>

\* The timer's handler, with its SendRaw, for an entry that is still there.
RunExpire ==
  LET s == Head(strand).f
      erased == [sendings EXCEPT ![s] = 0]
  IN /\ Runs("expire") /\ sendings[s] > 0
     /\ IF sendings[s] >= MaxSendings \/ closed
          THEN strand' = Tail(strand) /\ sendings' = erased /\ UNCHANGED <<queuedWrites, armed, credit, refused>>
          ELSE IF queuedWrites + 1 > MaxQueued
          THEN /\ strand' = Append(Tail(strand), [do |-> "close"]) /\ sendings' = erased /\ refused' = TRUE
               /\ UNCHANGED <<queuedWrites, armed, credit>>
          ELSE /\ strand' = Append(Tail(strand), [do |-> "push", f |-> s])
               /\ sendings' = [sendings EXCEPT ![s] = @ + 1] /\ armed' = armed \cup {s}
               /\ queuedWrites' = queuedWrites + 1 /\ credit' = [credit EXCEPT ![s] = @ - 1]
               /\ UNCHANGED refused
     /\ UNCHANGED <<closed, writeQueue, writeActive, closeAfterWrite, sender, sends>>

\* The handler finds no entry.
RunExpireStale ==
  /\ Runs("expire") /\ sendings[Head(strand).f] = 0
  /\ strand' = Tail(strand)
  /\ UNCHANGED <<closed, queuedWrites, writeQueue, writeActive, closeAfterWrite, sender, sendings, armed,
                 sends, credit, refused>>

\* Mutant: the timer is cancelled, the entry stays.
AcknowledgeTransportKeeps(s) ==
  /\ ~closed /\ sendings[s] > 0
  /\ armed' = armed \ {s}
  /\ credit' = [credit EXCEPT ![s] = 0]
  /\ UNCHANGED <<closed, queuedWrites, writeQueue, writeActive, closeAfterWrite, strand, sender, sendings,
                 sends, refused>>

\* HandlePacket of an ACK: AcknowledgeTransport, for a seq that has an entry.
AcknowledgeTransport(s) ==
  /\ ~closed /\ sendings[s] > 0
  /\ sendings' = [sendings EXCEPT ![s] = 0] /\ armed' = armed \ {s}
  /\ credit' = [credit EXCEPT ![s] = 0]
  /\ UNCHANGED <<closed, queuedWrites, writeQueue, writeActive, closeAfterWrite, strand, sender, sends, refused>>

\* HandlePacket of QUIT: its answer goes the way of SendRaw, then closeAfterWrite is set.
QuitRequested ==
  /\ ~closed /\ ~closeAfterWrite /\ closeAfterWrite' = TRUE
  /\ IF queuedWrites + 1 > MaxQueued
       THEN strand' = Append(strand, [do |-> "close"]) /\ refused' = TRUE /\ UNCHANGED queuedWrites
       ELSE /\ strand' = Append(strand, [do |-> "push", f |-> Raw]) /\ queuedWrites' = queuedWrites + 1
            /\ UNCHANGED refused
  /\ UNCHANGED <<closed, writeQueue, writeActive, sender, sendings, armed, sends, credit>>

\* WriteLoop after an async_write: the frame leaves the queue.  An error closes; so does
\* an empty queue after QUIT.
WriteDone(ok) ==
  /\ writeActive
  /\ writeQueue' = Tail(writeQueue) /\ queuedWrites' = queuedWrites - 1
  /\ writeActive' = (ok /\ writeQueue' # <<>> /\ ~closed)
  /\ IF ~ok \/ (closeAfterWrite /\ writeQueue' = <<>>) THEN CloseInContext ELSE UNCHANGED <<closed, sendings, armed>>
  /\ UNCHANGED <<closeAfterWrite, strand, sender, sends, credit, refused>>

\* Run ends on a read error: the client has gone.
ReadFails ==
  /\ ~closed /\ CloseInContext
  /\ UNCHANGED <<queuedWrites, writeQueue, writeActive, closeAfterWrite, strand, sender, sends, credit, refused>>

-----------------------------------------------------------------------------
(* Specification *)

WritesInit ==
  /\ closed = FALSE /\ closeAfterWrite = FALSE /\ writeActive = FALSE /\ refused = FALSE
  /\ queuedWrites = 0 /\ writeQueue = <<>> /\ strand = <<>>
  /\ sender = [p \in Senders |-> [pc |-> "idle", f |-> Raw]]
  /\ sendings = [s \in Seqs |-> 0] /\ armed = {}
  /\ sends = [f \in Frame |-> 0] /\ credit = [s \in Seqs |-> 0]

Strand == RunPush \/ RunRegister \/ RunClose \/ RunExpire \/ RunExpireStale

WritesNext ==
  \/ \E p \in Senders : (\E f \in Frame : Reserve(p, f)) \/ Refuse(p) \/ Post(p) \/ PostRegistration(p)
  \/ Strand
  \/ \E s \in Seqs : TimerExpires(s) \/ AcknowledgeTransport(s)
  \/ QuitRequested \/ ReadFails
  \/ \E ok \in BOOLEAN : WriteDone(ok)

WritesSpec == WritesInit /\ [][WritesNext]_writeVars

-----------------------------------------------------------------------------
(* Properties *)

\* Every frame is counted from its fetch_add until it is written or dropped, whatever the
\* interleaving with the close, and the session holds at most kMaxQueuedWrites of them.
\* (SendRaw, WriteLoop)
QueueBounded ==
  /\ queuedWrites = Len(writeQueue) + Count("push", strand)
                    + Cardinality({p \in Senders : sender[p].pc \in {"over", "post"}})
  /\ Len(writeQueue) <= MaxQueued

\* A delivery goes out three times at most, and not once more after the ACK that has
\* found its entry, even when the entry's timer had expired before the ACK was read.
\* (ArmReliableWrite, AcknowledgeTransport)
RepetitionsEarned == \A s \in Seqs : credit[s] >= 0

\* A client that reads too slowly for its queue is disconnected: once a send has been
\* refused, by whichever thread, the session is closed or its close is on the strand.
\* (SendRaw, ArmReliableWrite)
SlowClientCloses == refused => closed \/ Count("close", strand) > 0

=============================================================================
