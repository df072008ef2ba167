--------------------------- MODULE ConnectionPool ---------------------------
(***************************************************************************)
(* The connection pools of the servers (server/public/include): RedisPool  *)
(* (Redis.h), MysqlPool (Mysql.h) and RpcPool (RpcPool.h).  They share one *)
(* scheme: a mutex, a condition variable, a stop flag and the idle         *)
(* connections; a caller borrows one, waiting until its deadline, and      *)
(* gives it back.  RedisPool and MysqlPool have a thread that checks the   *)
(* idle connections once a minute, with the mutex held, and replaces the   *)
(* broken ones; RpcPool has none.                                          *)
(*                                                                         *)
(* A connection has no identity here: `idle` counts them.  Close sets the  *)
(* atomic stop flag without the mutex, so it is a step of its own between  *)
(* any two others, also inside another thread's critical section: the test *)
(* of a wait's predicate and the wait itself are therefore two steps, the  *)
(* mutex held from the one to the other, and the minute's check is one     *)
(* step per connection.                                                    *)
(***************************************************************************)
EXTENDS Naturals, FiniteSets

CONSTANTS
    Callers,     \* threads that use the data layer
    PoolSize,    \* connections the constructor opens
    MaxDepth     \* bound: how deep generateId may call itself

ASSUME ConnectionPoolBounds ==
    PoolSize \in Nat /\ MaxDepth \in Nat /\ IsFiniteSet(Callers)

VARIABLES
    family,      \* which of the three pools this is
    idle,        \* connections in the queue
    stopEnable,  \* the stop flag (isStop in RpcPool)
    mutex,       \* who holds the mutex between two steps, or NoOne
    caller,      \* where each caller stands in GetConnectionUntil
    held,        \* connections each caller has borrowed
    keeper,      \* the keep-alive thread
    toCheck,     \* connections the running check has not looked at
    closer       \* the thread that closes and then destroys the pool

connectionVars ==
    <<family, idle, stopEnable, mutex, caller, held, keeper, toCheck, closer>>

NoOne == "no one"
Keeper == "keeper"
Closer == "closer"

ASSUME CallersAssumption == Callers \cap {NoOne, Keeper, Closer} = {}

\* Callers that will look at the queue without being notified again.
Awake == {c \in Callers : caller[c] \in {"testing", "late"}}

\* condVar.notify_one and notify_all.
WakeOne ==
    LET asleep == {c \in Callers : caller[c] = "asleep"}
    IN  IF asleep = {} THEN {caller}
        ELSE {[caller EXCEPT ![c] = "testing"] : c \in asleep}

WakeAll ==
    [c \in Callers |-> IF caller[c] = "asleep" THEN "testing" ELSE caller[c]]

\* The constructors: connections that cannot be opened are left out, and a
\* pool with none starts no thread.
ConnectionsInit ==
    /\ family \in {"redis", "mysql", "rpc"}
    /\ idle \in 0..PoolSize
    /\ stopEnable = FALSE
    /\ mutex = NoOne
    /\ caller = [c \in Callers |-> "out"]
    /\ held = [c \in Callers |-> 0]
    /\ keeper = IF family = "rpc" \/ idle = 0 THEN "none" ELSE "sleeping"
    /\ toCheck = 0
    /\ closer = "idle"

-----------------------------------------------------------------------------
(* GetConnectionUntil and ReturnConnection                                 *)

\* executeTemplate asks for a connection; generateId asks for a second one
\* while it holds the first, when its millisecond is used up.
GetConnection(c) ==
    /\ caller[c] = "out"
    /\ held[c] < (IF family = "redis" THEN MaxDepth ELSE 1)
    /\ closer \notin {"joining", "gone"}
    /\ caller' = [caller EXCEPT ![c] = "testing"]
    /\ UNCHANGED <<family, idle, stopEnable, mutex, held, keeper, toCheck, closer>>

\* The predicate holds: nothing when the pool is closed, else a connection.
Obtain(c) ==
    /\ caller' = [caller EXCEPT ![c] = "out"]
    /\ IF stopEnable \/ idle = 0
       THEN UNCHANGED <<idle, held>>
       ELSE idle' = idle - 1 /\ held' = [held EXCEPT ![c] = @ + 1]
    /\ UNCHANGED mutex

\* The mutex is taken and the predicate tested; when it fails the mutex is
\* kept until the thread sleeps.
TestConnections(c) ==
    /\ caller[c] = "testing"
    /\ mutex = NoOne
    /\ IF stopEnable \/ idle > 0
       THEN Obtain(c)
       ELSE /\ caller' = [caller EXCEPT ![c] = "sleeping"]
            /\ mutex' = c
            /\ UNCHANGED <<idle, held>>
    /\ UNCHANGED <<family, stopEnable, keeper, toCheck, closer>>

FallAsleep(c) ==
    /\ caller[c] = "sleeping"
    /\ caller' = [caller EXCEPT ![c] = "asleep"]
    /\ mutex' = NoOne
    /\ UNCHANGED <<family, idle, stopEnable, held, keeper, toCheck, closer>>

DeadlinePasses(c) ==
    /\ caller[c] = "asleep"
    /\ caller' = [caller EXCEPT ![c] = "late"]
    /\ UNCHANGED <<family, idle, stopEnable, mutex, held, keeper, toCheck, closer>>

\* The predicate is tested a last time; without a connection the call returns
\* nothing, and executeTemplate a default value.
LastTest(c) ==
    /\ caller[c] = "late"
    /\ mutex = NoOne
    /\ Obtain(c)
    /\ UNCHANGED <<family, stopEnable, keeper, toCheck, closer>>

\* Mutant: the connection goes back and nobody is told.
ReturnConnectionSilently(c) ==
    /\ caller[c] = "out"
    /\ held[c] > 0
    /\ mutex = NoOne
    /\ held' = [held EXCEPT ![c] = @ - 1]
    /\ idle' = IF stopEnable THEN idle ELSE idle + 1
    /\ UNCHANGED <<family, stopEnable, mutex, caller, keeper, toCheck, closer>>

\* The connection is destroyed instead when the pool is closed.
ReturnConnection(c) ==
    /\ caller[c] = "out"
    /\ held[c] > 0
    /\ mutex = NoOne
    /\ held' = [held EXCEPT ![c] = @ - 1]
    /\ IF stopEnable
       THEN UNCHANGED <<idle, caller>>
       ELSE idle' = idle + 1 /\ caller' \in WakeOne
    /\ UNCHANGED <<family, stopEnable, mutex, keeper, toCheck, closer>>

-----------------------------------------------------------------------------
(* The keep-alive thread                                                   *)

\* The loop condition, then keepConnectionHandle when the minute is over.
MinuteOver ==
    /\ keeper = "sleeping"
    /\ keeper' = IF stopEnable THEN "ended" ELSE "due"
    /\ UNCHANGED <<family, idle, stopEnable, mutex, caller, held, toCheck, closer>>

KeepConnections ==
    /\ keeper = "due"
    /\ mutex = NoOne
    /\ keeper' = "checking"
    /\ toCheck' = idle
    /\ mutex' = Keeper
    /\ UNCHANGED <<family, idle, stopEnable, caller, held, closer>>

\* One connection: still good or replaced, or lost when no new one opens (which
\* also ends MysqlPool's check).
CheckConnection(lost) ==
    /\ keeper = "checking"
    /\ toCheck > 0
    /\ ~ stopEnable
    /\ idle' = IF lost THEN idle - 1 ELSE idle
    /\ toCheck' = IF lost /\ family = "mysql" THEN 0 ELSE toCheck - 1
    /\ UNCHANGED <<family, stopEnable, mutex, caller, held, keeper, closer>>

\* The end of the check, which notifies nobody.
CheckEnds ==
    /\ keeper = "checking"
    /\ toCheck = 0 \/ stopEnable
    /\ keeper' = "sleeping"
    /\ toCheck' = 0
    /\ mutex' = NoOne
    /\ UNCHANGED <<family, idle, stopEnable, caller, held, closer>>

-----------------------------------------------------------------------------
(* Close, and the destructor                                               *)

ClosePool ==
    /\ closer = "idle"
    /\ closer' = "closing"
    /\ stopEnable' = TRUE
    /\ UNCHANGED <<family, idle, mutex, caller, held, keeper, toCheck>>

CloseNotifies ==
    /\ closer = "closing"
    /\ closer' = "closed"
    /\ caller' = WakeAll
    /\ UNCHANGED <<family, idle, stopEnable, mutex, held, keeper, toCheck>>

\* The destructor runs when the callers are gone; it keeps the mutex while it
\* joins the keep-alive thread.
Destroy ==
    /\ closer = "closed"
    /\ mutex = NoOne
    /\ \A c \in Callers : caller[c] = "out" /\ held[c] = 0
    /\ closer' = "joining"
    /\ mutex' = Closer
    /\ idle' = 0
    /\ UNCHANGED <<family, stopEnable, caller, held, keeper, toCheck>>

Destroyed ==
    /\ closer = "joining"
    /\ keeper \in {"none", "ended"}
    /\ closer' = "gone"
    /\ mutex' = NoOne
    /\ UNCHANGED <<family, idle, stopEnable, caller, held, keeper, toCheck>>

ConnectionsNext ==
    \/ \E c \in Callers : \/ GetConnection(c) \/ TestConnections(c)
                          \/ FallAsleep(c) \/ DeadlinePasses(c)
                          \/ LastTest(c) \/ ReturnConnection(c)
    \/ MinuteOver \/ KeepConnections \/ CheckEnds
    \/ \E lost \in BOOLEAN : CheckConnection(lost)
    \/ ClosePool \/ CloseNotifies \/ Destroy \/ Destroyed

ConnectionsSpec == ConnectionsInit /\ [][ConnectionsNext]_connectionVars

-----------------------------------------------------------------------------
(* Properties                                                              *)

\* While the pool is open, nobody sleeps past a connection they could have:
\* when callers sleep, at least as many others as there are idle connections
\* are on their way to the queue.  ReturnConnection notifies one caller for
\* each connection, the check pops and pushes under the mutex without a
\* notification, and a caller whose deadline passes looks once more.
NobodySleepsOnConnection ==
    (~ stopEnable /\ \E c \in Callers : caller[c] = "asleep")
        => Cardinality(Awake) >= idle
=============================================================================
