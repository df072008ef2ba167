----------------------------- MODULE ThreadPool -----------------------------
(***************************************************************************)
(* The bounded pool that runs the Message Service's business work          *)
(* (server/public/src/ThreadPool.cc).  Callers queue tasks and may wait    *)
(* for room; workers take them in order; Stop drains what was accepted and *)
(* joins the workers.  One mutex and two condition variables connect them: *)
(* `condition` (a task or the stop flag for the workers) and `queueSpace`  *)
(* (room or the stop flag for the callers).                                *)
(*                                                                         *)
(* A critical section is one step.  A notification sent after the unlock   *)
(* is a step of its own, since anything may happen between the two.  A     *)
(* wait that ends, by a notification or by its deadline, tests its         *)
(* predicate again under the mutex, as wait and wait_until do.             *)
(***************************************************************************)
EXTENDS Naturals, Sequences, FiniteSets

CONSTANTS
    Tasks,         \* the tasks, each submitted once by a thread of its own
    Workers,       \* the worker threads
    Stoppers,      \* the threads that call Stop (an owner, the destructor)
    MaxQueueSize   \* options.maxQueueSize

\* The constructor starts at least one worker; a task is not a name of the
\* states of a worker that runs none.
ASSUME PoolBounds ==
    /\ MaxQueueSize \in Nat \ {0}
    /\ Workers # {}
    /\ IsFiniteSet(Tasks) /\ Tasks \cap {"popping", "blocked", "exited"} = {}

VARIABLES
    taskQueue,   \* the queued tasks
    stopping,    \* the stop flag
    poster,      \* where each PostUntil call stands
    worker,      \* where each worker stands: a task while it runs one
    stopper,     \* where each Stop call stands
    ran          \* how often each task was called

poolVars == <<taskQueue, stopping, poster, worker, stopper, ran>>

PosterStates == {"idle", "waiting", "woken", "notify", "accepted",
                 "stopped", "timedOut"}

WorkerStates == {"popping", "blocked", "exited"} \cup Tasks

StopperStates == {"idle", "wakeWorkers", "wakePosters", "join", "joined",
                  "returned"}

\* The constructor: the workers start at the top of their loop.
PoolInit ==
    /\ taskQueue = <<>>
    /\ stopping = FALSE
    /\ poster = [t \in Tasks |-> "idle"]
    /\ worker = [w \in Workers |-> "popping"]
    /\ stopper = [s \in Stoppers |-> "idle"]
    /\ ran = [t \in Tasks |-> 0]

\* notify_one on a condition: one of the threads blocked on it, if any, wakes.
NotifyOne(state, from, to, threads) ==
    LET blocked == {x \in threads : state[x] = from}
    IN  IF blocked = {} THEN {state}
        ELSE {[state EXCEPT ![x] = to] : x \in blocked}

\* notify_all on a condition.
NotifyAll(state, from, to, threads) ==
    [x \in threads |-> IF state[x] = from THEN to ELSE state[x]]

-----------------------------------------------------------------------------
(* PostUntil and Post, whose acquire deadline is already there             *)

\* The tail of the critical section, once there is room or the stop flag.
Admit(t) ==
    IF stopping
    THEN poster' = [poster EXCEPT ![t] = "stopped"] /\ UNCHANGED taskQueue
    ELSE poster' = [poster EXCEPT ![t] = "notify"] /\ taskQueue' = Append(taskQueue, t)

PostUntil(t) ==
    /\ poster[t] = "idle"
    /\ IF stopping \/ Len(taskQueue) < MaxQueueSize
       THEN Admit(t)
       ELSE poster' = [poster EXCEPT ![t] = "waiting"] /\ UNCHANGED taskQueue
    /\ UNCHANGED <<stopping, worker, stopper, ran>>

\* A notified caller tests for room again.
Resume(t) ==
    /\ poster[t] = "woken"
    /\ IF stopping \/ Len(taskQueue) < MaxQueueSize
       THEN Admit(t)
       ELSE poster' = [poster EXCEPT ![t] = "waiting"] /\ UNCHANGED taskQueue
    /\ UNCHANGED <<stopping, worker, stopper, ran>>

\* The acquire deadline passes; the predicate is tested a last time.
AcquireTimeout(t) ==
    /\ poster[t] \in {"waiting", "woken"}
    /\ IF stopping \/ Len(taskQueue) < MaxQueueSize
       THEN Admit(t)
       ELSE poster' = [poster EXCEPT ![t] = "timedOut"] /\ UNCHANGED taskQueue
    /\ UNCHANGED <<stopping, worker, stopper, ran>>

\* Mutant: the accepted task is queued and no worker is told.
NotifyNobody(t) ==
    /\ poster[t] = "notify"
    /\ poster' = [poster EXCEPT ![t] = "accepted"]
    /\ UNCHANGED <<taskQueue, stopping, worker, stopper, ran>>

\* condition.notify_one, after the unlock; the caller learns of Accepted.
Notify(t) ==
    /\ poster[t] = "notify"
    /\ poster' = [poster EXCEPT ![t] = "accepted"]
    /\ worker' \in NotifyOne(worker, "blocked", "popping", Workers)
    /\ UNCHANGED <<taskQueue, stopping, stopper, ran>>

-----------------------------------------------------------------------------
(* WorkerLoop                                                              *)

\* Mutant: a worker leaves at the stop flag, tasks queued or not.
PopTaskAbandons(w) ==
    /\ worker[w] = "popping"
    /\ IF stopping
       THEN worker' = [worker EXCEPT ![w] = "exited"] /\ UNCHANGED <<taskQueue, poster>>
       ELSE IF taskQueue = <<>>
       THEN worker' = [worker EXCEPT ![w] = "blocked"] /\ UNCHANGED <<taskQueue, poster>>
       ELSE /\ worker' = [worker EXCEPT ![w] = Head(taskQueue)]
            /\ taskQueue' = Tail(taskQueue)
            /\ poster' \in NotifyOne(poster, "waiting", "woken", Tasks)
    /\ UNCHANGED <<stopping, stopper, ran>>

\* PopTask: wait for a task or the stop flag; leave only when both the flag is
\* set and the queue is empty; else take the head and announce the room.
PopTask(w) ==
    /\ worker[w] = "popping"
    /\ IF taskQueue = <<>>
       THEN /\ worker' = [worker EXCEPT ![w] = IF stopping THEN "exited" ELSE "blocked"]
            /\ UNCHANGED <<taskQueue, poster>>
       ELSE /\ worker' = [worker EXCEPT ![w] = Head(taskQueue)]
            /\ taskQueue' = Tail(taskQueue)
            /\ poster' \in NotifyOne(poster, "waiting", "woken", Tasks)
    /\ UNCHANGED <<stopping, stopper, ran>>

\* The task is called, expired or not, and what it throws is caught.
RunTask(w) ==
    /\ worker[w] \in Tasks
    /\ ran' = [ran EXCEPT ![worker[w]] = @ + 1]
    /\ worker' = [worker EXCEPT ![w] = "popping"]
    /\ UNCHANGED <<taskQueue, stopping, poster, stopper>>

-----------------------------------------------------------------------------
(* Stop                                                                    *)

\* The flag is set once; a second caller returns at once, the work going on.
Stop(s) ==
    /\ stopper[s] = "idle"
    /\ stopper' = [stopper EXCEPT ![s] = IF stopping THEN "returned" ELSE "wakeWorkers"]
    /\ stopping' = TRUE
    /\ UNCHANGED <<taskQueue, poster, worker, ran>>

StopWakesWorkers(s) ==
    /\ stopper[s] = "wakeWorkers"
    /\ stopper' = [stopper EXCEPT ![s] = "wakePosters"]
    /\ worker' = NotifyAll(worker, "blocked", "popping", Workers)
    /\ UNCHANGED <<taskQueue, stopping, poster, ran>>

StopWakesPosters(s) ==
    /\ stopper[s] = "wakePosters"
    /\ stopper' = [stopper EXCEPT ![s] = "join"]
    /\ poster' = NotifyAll(poster, "waiting", "woken", Tasks)
    /\ UNCHANGED <<taskQueue, stopping, worker, ran>>

\* join returns for every worker, and workers is cleared.
StopJoins(s) ==
    /\ stopper[s] = "join"
    /\ \A w \in Workers : worker[w] = "exited"
    /\ stopper' = [stopper EXCEPT ![s] = "joined"]
    /\ UNCHANGED <<taskQueue, stopping, poster, worker, ran>>

PoolNext ==
    \/ \E t \in Tasks : PostUntil(t) \/ Resume(t) \/ AcquireTimeout(t) \/ Notify(t)
    \/ \E w \in Workers : PopTask(w) \/ RunTask(w)
    \/ \E s \in Stoppers : \/ Stop(s) \/ StopWakesWorkers(s)
                           \/ StopWakesPosters(s) \/ StopJoins(s)

PoolSpec == PoolInit /\ [][PoolNext]_poolVars

-----------------------------------------------------------------------------
(* Properties                                                              *)

\* Every accepted task is called exactly once before Stop returns to the
\* caller that stopped the pool, and no other task is called: PopTask gives
\* up only on an empty queue, PostUntil accepts nothing once the flag is set,
\* so that no task slips in behind the last worker.
DrainedAtStop ==
    \A s \in Stoppers : stopper[s] = "joined" =>
        /\ taskQueue = <<>>
        /\ \A t \in Tasks :
               ran[t] = IF poster[t] \in {"notify", "accepted"} THEN 1 ELSE 0

\* No notification is missed: a task is left in the queue with every worker
\* that is left asleep only while its own submitter, or a Stop, is about to
\* wake one; and a caller sleeps before a queue with room only while another
\* caller was woken for that room, or a Stop is about to wake them all.
NobodySleepsOnWork ==
    /\ (/\ taskQueue # <<>>
        /\ \E w \in Workers : worker[w] = "blocked"
        /\ \A w \in Workers : worker[w] \in {"blocked", "exited"})
           => \/ \E t \in Tasks : poster[t] = "notify"
              \/ \E s \in Stoppers : stopper[s] = "wakeWorkers"
    /\ (\E t \in Tasks : poster[t] = "waiting") =>
           \/ Len(taskQueue) = MaxQueueSize
           \/ \E s \in Stoppers : stopper[s] \in {"wakeWorkers", "wakePosters"}
           \/ MaxQueueSize - Len(taskQueue) <=
                  Cardinality({t \in Tasks : poster[t] = "woken"})
=============================================================================
