---------------------------- MODULE MCTransport ----------------------------
(***************************************************************************)
(* The client, the write side of a gateway session, the thread and         *)
(* connection pools of the servers, and the workers of the File node.      *)
(* They share no state and are checked in one run: a behaviour is one of   *)
(* the part in `focus`, the others stand still.                            *)
(***************************************************************************)
EXTENDS ClientMessages, GatewayWrites, ThreadPool, ConnectionPool, FileWorkers

VARIABLE focus

\* One fault with two messages, or two faults with one message of one side.
ClientNext == Next /\ (faults' <= 1 \/ (rec'[2] = NoRecord /\ Len(log') <= 1))

MCInit ==
    /\ focus \in {"client", "writes", "tasks", "connections", "files"}
    /\ Init /\ WritesInit /\ PoolInit /\ ConnectionsInit /\ FilesInit
    /\ focus # "connections" => family = "rpc" /\ idle = 0

MCNext ==
    /\ UNCHANGED focus
    /\ \/ focus = "client" /\ ClientNext /\ UNCHANGED <<writeVars, poolVars, connectionVars, fileVars>>
       \/ focus = "writes" /\ WritesNext /\ UNCHANGED <<vars, poolVars, connectionVars, fileVars>>
       \/ focus = "tasks" /\ PoolNext /\ UNCHANGED <<vars, writeVars, connectionVars, fileVars>>
       \/ focus = "connections" /\ ConnectionsNext /\ UNCHANGED <<vars, writeVars, poolVars, fileVars>>
       \/ focus = "files" /\ FilesNext /\ UNCHANGED <<vars, writeVars, poolVars, connectionVars>>

MCSpec == MCInit /\ [][MCNext]_<<focus, vars, writeVars, poolVars, connectionVars, fileVars>>
=============================================================================
