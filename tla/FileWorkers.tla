---------------------------- MODULE FileWorkers ----------------------------
(***************************************************************************)
(* The File node (server/file/src/service/Service.cc).  An Upload call     *)
(* hands its chunk to one of the workers, in turn, and is answered before  *)
(* the chunk is written; a worker writes what is in its queue.             *)
(*                                                                         *)
(* gRPC runs Upload calls on several threads.  routeCount is a static int  *)
(* without a lock, so every access to it is a step of its own.  A worker   *)
(* tests its wait's predicate and falls asleep in two steps with its mutex *)
(* held, since the destructor sets the stop flag without the mutex.        *)
(***************************************************************************)
EXTENDS Naturals, Sequences, FiniteSets

CONSTANTS
    Uploads,      \* the Upload calls, one chunk each
    WorkerSize    \* number of workers

ASSUME FileBounds == WorkerSize \in Nat \ {0} /\ IsFiniteSet(Uploads)

VARIABLES
    routeCount,   \* the worker whose turn it is
    upload,       \* where each Upload call stands
    lane,         \* the index each call has read, until it is used
    counted,      \* the value each call is about to store in routeCount
    tasks,        \* per worker, the queue
    fileWorker,   \* per worker, where its thread stands
    fileStop,     \* per worker, its stop flag
    teardown,     \* the worker ~FileServiceImpl is at, and how far it is
    processed,    \* per chunk, how often its task was run
    undefined     \* a call has indexed past the end of workers

fileVars == <<routeCount, upload, lane, counted, tasks, fileWorker, fileStop,
              teardown, processed, undefined>>

Lanes == 0..(WorkerSize - 1)

FilesInit ==
    /\ routeCount = 0
    /\ upload = [u \in Uploads |-> "idle"]
    /\ lane = [u \in Uploads |-> 0]
    /\ counted = [u \in Uploads |-> 0]
    /\ tasks = [w \in Lanes |-> <<>>]
    /\ fileWorker = [w \in Lanes |-> "loop"]
    /\ fileStop = [w \in Lanes |-> FALSE]
    /\ teardown = [at |-> 0, pc |-> "serving"]
    /\ processed = [u \in Uploads |-> 0]
    /\ undefined = FALSE

\* The thread of worker w holds executeMutex between two steps.
Locked(w) == fileWorker[w] = "sleeping"

Proceed(u, pc) == upload' = [upload EXCEPT ![u] = pc]

-----------------------------------------------------------------------------
(* Upload and the two PushTask                                             *)

\* workers[routeCount].  An index past the end is undefined behaviour, and the
\* model goes no further.
Route(u) ==
    /\ upload[u] = "idle"
    /\ teardown.pc = "serving"
    /\ IF routeCount \in Lanes
       THEN Proceed(u, "push") /\ lane' = [lane EXCEPT ![u] = routeCount] /\ UNCHANGED undefined
       ELSE undefined' = TRUE /\ UNCHANGED <<upload, lane>>
    /\ UNCHANGED <<routeCount, counted, tasks, fileWorker, fileStop, teardown, processed>>

\* Mutant: the worker is not told of the chunk.
PushTaskSilently(u) ==
    /\ upload[u] = "push"
    /\ ~ Locked(lane[u])
    /\ tasks' = [tasks EXCEPT ![lane[u]] = Append(@, u)]
    /\ Proceed(u, "count")
    /\ UNCHANGED <<routeCount, lane, counted, fileWorker, fileStop, teardown, processed, undefined>>

\* FileWorker::PushTask, under the worker's mutex.
PushTask(u) ==
    /\ upload[u] = "push"
    /\ ~ Locked(lane[u])
    /\ tasks' = [tasks EXCEPT ![lane[u]] = Append(@, u)]
    /\ Proceed(u, "notify")
    /\ UNCHANGED <<routeCount, lane, counted, fileWorker, fileStop, teardown, processed, undefined>>

Notified(w) == [fileWorker EXCEPT ![w] = IF @ = "asleep" THEN "testing" ELSE @]

\* cond.notify_one, after the unlock.
NotifyWorker(u) ==
    /\ upload[u] = "notify"
    /\ fileWorker' = Notified(lane[u])
    /\ lane' = [lane EXCEPT ![u] = 0]
    /\ Proceed(u, "count")
    /\ UNCHANGED <<routeCount, counted, tasks, fileStop, teardown, processed, undefined>>

\* routeCount++, a load and a store.
LoadCount(u) ==
    /\ upload[u] = "count"
    /\ counted' = [counted EXCEPT ![u] = routeCount + 1]
    /\ Proceed(u, "store")
    /\ UNCHANGED <<routeCount, lane, tasks, fileWorker, fileStop, teardown, processed, undefined>>

StoreCount(u) ==
    /\ upload[u] = "store"
    /\ routeCount' = counted[u]
    /\ counted' = [counted EXCEPT ![u] = 0]
    /\ Proceed(u, "test")
    /\ UNCHANGED <<lane, tasks, fileWorker, fileStop, teardown, processed, undefined>>

TestCount(u) ==
    /\ upload[u] = "test"
    /\ Proceed(u, IF routeCount >= WorkerSize THEN "wrap" ELSE "ok")
    /\ UNCHANGED <<routeCount, lane, counted, tasks, fileWorker, fileStop, teardown, processed,
                   undefined>>

\* Back to the first worker; the call is answered OK.
WrapCount(u) ==
    /\ upload[u] = "wrap"
    /\ routeCount' = 0
    /\ Proceed(u, "ok")
    /\ UNCHANGED <<lane, counted, tasks, fileWorker, fileStop, teardown, processed, undefined>>

-----------------------------------------------------------------------------
(* The thread of a worker                                                  *)

WorkerGoes(w, pc) == fileWorker' = [fileWorker EXCEPT ![w] = pc]

\* while (!stopEnable)
Loop(w) ==
    /\ fileWorker[w] = "loop"
    /\ WorkerGoes(w, IF fileStop[w] THEN "ended" ELSE "testing")
    /\ UNCHANGED <<routeCount, upload, lane, counted, tasks, fileStop, teardown, processed, undefined>>

\* The predicate of the wait; then the front task runs, with the mutex held,
\* and is popped.  A write that fails is only logged.
WaitOrProcess(w) ==
    /\ fileWorker[w] = "testing"
    /\ IF fileStop[w] THEN WorkerGoes(w, "ended") /\ UNCHANGED <<tasks, processed>>
       ELSE IF tasks[w] = <<>> THEN WorkerGoes(w, "sleeping") /\ UNCHANGED <<tasks, processed>>
       ELSE /\ WorkerGoes(w, "loop")
            /\ tasks' = [tasks EXCEPT ![w] = Tail(@)]
            /\ processed' = [processed EXCEPT ![Head(tasks[w])] = @ + 1]
    /\ UNCHANGED <<routeCount, upload, lane, counted, fileStop, teardown, undefined>>

GoesToSleep(w) ==
    /\ fileWorker[w] = "sleeping"
    /\ WorkerGoes(w, "asleep")
    /\ UNCHANGED <<routeCount, upload, lane, counted, tasks, fileStop, teardown, processed, undefined>>

-----------------------------------------------------------------------------
(* FileServer::Stop                                                        *)

\* Shutdown waits for the calls that run; then the workers go, one by one.
Shutdown ==
    /\ teardown.pc = "serving"
    /\ \A u \in Uploads : upload[u] \in {"idle", "ok"}
    /\ teardown' = [at |-> 0, pc |-> "flag"]
    /\ UNCHANGED <<routeCount, upload, lane, counted, tasks, fileWorker, fileStop, processed, undefined>>

\* ~FileWorker: the flag, the notification, the join.
SetStop ==
    /\ teardown.pc = "flag"
    /\ fileStop' = [fileStop EXCEPT ![teardown.at] = TRUE]
    /\ teardown' = [teardown EXCEPT !.pc = "wake"]
    /\ UNCHANGED <<routeCount, upload, lane, counted, tasks, fileWorker, processed, undefined>>

WakeForStop ==
    /\ teardown.pc = "wake"
    /\ fileWorker' = Notified(teardown.at)
    /\ teardown' = [teardown EXCEPT !.pc = "join"]
    /\ UNCHANGED <<routeCount, upload, lane, counted, tasks, fileStop, processed, undefined>>

JoinWorker ==
    /\ teardown.pc = "join"
    /\ fileWorker[teardown.at] = "ended"
    /\ teardown' = IF teardown.at + 1 \in Lanes THEN [at |-> teardown.at + 1, pc |-> "flag"]
                   ELSE [teardown EXCEPT !.pc = "stopped"]
    /\ UNCHANGED <<routeCount, upload, lane, counted, tasks, fileWorker, fileStop, processed, undefined>>

FilesNext ==
    /\ ~ undefined
    /\ \/ \E u \in Uploads : \/ Route(u) \/ PushTask(u) \/ NotifyWorker(u)
                             \/ LoadCount(u) \/ StoreCount(u) \/ TestCount(u) \/ WrapCount(u)
       \/ \E w \in Lanes : Loop(w) \/ WaitOrProcess(w) \/ GoesToSleep(w)
       \/ Shutdown \/ SetStop \/ WakeForStop \/ JoinWorker

FilesSpec == FilesInit /\ [][FilesNext]_fileVars

-----------------------------------------------------------------------------
(* Properties                                                              *)

\* A chunk that was handed to a worker is in one queue or was run once, never
\* both and never twice, however the calls race for routeCount; and a worker
\* sleeps beside a queued chunk only while an Upload call is about to wake it.
\* (FileServiceImpl::PushTask, FileWorker)
ChunksKept ==
    /\ \A u \in Uploads : upload[u] \notin {"idle", "push"} =>
           processed[u] + Cardinality({p \in Lanes \X (1..Cardinality(Uploads)) :
                              p[2] <= Len(tasks[p[1]]) /\ tasks[p[1]][p[2]] = u}) = 1
    /\ \A w \in Lanes : tasks[w] # <<>> /\ fileWorker[w] \in {"sleeping", "asleep"} =>
           \E u \in Uploads : upload[u] = "notify" /\ lane[u] = w
=============================================================================
