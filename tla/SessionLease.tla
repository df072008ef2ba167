---------------------------- MODULE SessionLease ----------------------------
(***************************************************************************)
(* Who owns a user's session.  A client connection logs in at a Connection *)
(* Gateway; the gateway publishes a lease in Redis (SessionRegistry::Bind),*)
(* records the connection in its local registry, refreshes the lease while *)
(* the client is active and clears it when the connection ends.  A Message *)
(* node lets a command through only while the lease it was sent under is   *)
(* the current one (the fence in GatewayStreamReactor::HandleCommand).     *)
(*                                                                         *)
(* Redis scripts are atomic; everything between two Redis calls, two mutex *)
(* sections or two handlers of a connection's strand may interleave.       *)
(***************************************************************************)
EXTENDS Integers, FiniteSets

CONSTANTS Users,          \* user ids
          Gateways,       \* gatewayIds
          Connections,    \* physical TCP connections (connectionId)
          NoOne,          \* "no user", "no gateway" and "no connection"
          MaxGeneration,  \* bound: logins published per user
          MaxInstance,    \* bound: process incarnations per gateway
          MaxCommands     \* bound: commands in flight

ASSUME NoOneAssumption == /\ NoOne \notin Users
                          /\ NoOne \notin Gateways
                          /\ NoOne \notin Connections

ASSUME BoundsAssumption == /\ MaxGeneration \in Nat
                           /\ MaxInstance \in Nat
                           /\ MaxCommands \in Nat

VARIABLES generation,  \* Redis im:sessionGeneration:<uid>
          redis,       \* Redis im:session:<uid>, NoLease when absent
          fresh,       \* the lease's TTL was (re)started and is not about to run out
          instance,    \* incarnation of each gateway process (instanceId)
          sessions,    \* SessionRegistry::sessions of each gateway process
          conn,        \* GatewaySession objects
          commands,    \* CommandEnvelopes between a gateway and a Message worker
          lastPassed   \* history: generation of the last command the fence let through

vars == <<generation, redis, fresh, instance, sessions, conn, commands, lastPassed>>

-----------------------------------------------------------------------------
(* Data *)

\* db::SessionLease; the empty lease has generation 0.
Lease == [gateway : Gateways, instance : Nat, conn : Connections, generation : Nat \ {0}]

NoLease == [gateway |-> NoOne, instance |-> 0, conn |-> NoOne, generation |-> 0]

\* SessionRegistry::LocalSession, a weak pointer to a session and its lease.
LocalSession == [conn : Connections, lease : Lease]

NoSession == [conn |-> NoOne, lease |-> NoLease]

\* Where the coroutine GatewaySession::Run of a connection stands.
PC == {"absent",      \* not connected yet
       "reading",     \* waiting for the next packet
       "binding",     \* Authenticate passed its checks, Bind calls Redis next
       "bound",       \* Redis answered, the registry's mutex section is next
       "loggedIn",    \* Bind returned, the strand stores its result next
       "refreshed",   \* the lease was refreshed, the command is forwarded next
       "fenced",      \* the refresh failed, CloseInContext is next
       "removing",    \* Run left its loop, the mutex section of Remove is next
       "clearing",    \* Remove erased the entry, clearSessionLease is next
       "gone"}        \* the GatewaySession is destroyed

\* closing: Close() was posted to the strand; want, next: the login in progress.
Session == [pc : PC, gateway : Gateways \cup {NoOne}, uid : Users \cup {NoOne},
            lease : Lease \cup {NoLease}, want : Users \cup {NoOne},
            next : Lease \cup {NoLease}, closed : BOOLEAN, closing : BOOLEAN]

NewSession == [pc |-> "absent", gateway |-> NoOne, uid |-> NoOne, lease |-> NoLease,
               want |-> NoOne, next |-> NoLease, closed |-> FALSE, closing |-> FALSE]

\* The GatewaySession is destroyed, and with it what it knew.
GoneSession == [NewSession EXCEPT !.pc = "gone", !.closed = TRUE]

\* gateway::CommandEnvelope reduced to the identity the fence compares; a
\* rejected one is on its way back as AuthenticationRequired.
Command == [uid : Users, lease : Lease, rejected : BOOLEAN]

TypeOK ==
    /\ generation \in [Users -> Nat]
    /\ redis \in [Users -> Lease \cup {NoLease}]
    /\ fresh \in [Users -> BOOLEAN]
    /\ instance \in [Gateways -> Nat]
    /\ sessions \in [Gateways -> [Users -> LocalSession \cup {NoSession}]]
    /\ conn \in [Connections -> Session]
    /\ commands \subseteq Command
    /\ lastPassed \in [Users -> Nat]

Init ==
    /\ generation = [u \in Users |-> 0]
    /\ redis = [u \in Users |-> NoLease]
    /\ fresh = [u \in Users |-> FALSE]
    /\ instance = [g \in Gateways |-> 1]
    /\ sessions = [g \in Gateways |-> [u \in Users |-> NoSession]]
    /\ conn = [c \in Connections |-> NewSession]
    /\ commands = {}
    /\ lastPassed = [u \in Users |-> 0]

-----------------------------------------------------------------------------
(* Redis scripts *)

\* Mutant: the script encodes the generation it read before INCR.
BindGenerationBeforeIncr(u, c) ==
    LET lease == [gateway |-> conn[c].gateway, instance |-> instance[conn[c].gateway],
                  conn |-> c, generation |-> generation[u]]
    IN  /\ generation[u] < MaxGeneration
        /\ generation' = [generation EXCEPT ![u] = @ + 1]
        /\ redis' = [redis EXCEPT ![u] = lease]
        /\ fresh' = [fresh EXCEPT ![u] = TRUE]

\* Mutant: the next generation is computed and never stored.
BindWithoutIncr(u, c) ==
    LET lease == [gateway |-> conn[c].gateway, instance |-> instance[conn[c].gateway],
                  conn |-> c, generation |-> generation[u] + 1]
    IN  /\ redis' = [redis EXCEPT ![u] = lease]
        /\ fresh' = [fresh EXCEPT ![u] = TRUE]
        /\ UNCHANGED generation

\* bindSessionLease for connection c: INCR the generation, SETEX the lease.
bindSessionLease(u, c) ==
    LET lease == [gateway |-> conn[c].gateway, instance |-> instance[conn[c].gateway],
                  conn |-> c, generation |-> generation[u] + 1]
    IN  /\ generation[u] < MaxGeneration
        /\ generation' = [generation EXCEPT ![u] = @ + 1]
        /\ redis' = [redis EXCEPT ![u] = lease]
        /\ fresh' = [fresh EXCEPT ![u] = TRUE]

\* Mutant: only the gateway is compared.
HoldsByGateway(u, lease) == redis[u] # NoLease /\ redis[u].gateway = lease.gateway

\* Mutant: nothing is compared.
HoldsAnything(u, lease) == redis[u] # NoLease

\* The compare of refreshSessionLease and clearSessionLease.
Holds(u, lease) == redis[u] # NoLease /\ redis[u] = lease

\* Mutant: refresh sets the caller's lease again instead of extending a match.
RefreshBySet(u, lease) ==
    /\ redis' = [redis EXCEPT ![u] = lease]
    /\ fresh' = [fresh EXCEPT ![u] = TRUE]
    /\ UNCHANGED generation

\* refreshSessionLease: EXPIRE when the whole identity matches.
refreshSessionLease(u, lease) ==
    /\ fresh' = [fresh EXCEPT ![u] = @ \/ Holds(u, lease)]
    /\ UNCHANGED <<generation, redis>>

\* clearSessionLease: DEL when the whole identity matches.
clearSessionLease(u, lease) ==
    /\ redis' = [redis EXCEPT ![u] = IF Holds(u, lease) THEN NoLease ELSE @]
    /\ fresh' = [fresh EXCEPT ![u] = @ /\ ~Holds(u, lease)]
    /\ UNCHANGED generation

-----------------------------------------------------------------------------
(* A connection: GatewaySession with SessionRegistry *)

\* The registry's weak_ptr can still be locked.
Alive(c) == c # NoOne /\ conn[c].pc # "gone"

Connect(c, g) ==
    /\ conn[c].pc = "absent"
    /\ conn' = [conn EXCEPT ![c] = [@ EXCEPT !.pc = "reading", !.gateway = g]]
    /\ UNCHANGED <<generation, redis, fresh, instance, sessions, commands, lastPassed>>

\* ID_LOGIN_INIT_REQ with a valid token and a profile; a connection bound to
\* another user is refused (UidInvalid).  Refused logins change nothing.
LoginStart(c, u) ==
    /\ conn[c].pc = "reading" /\ ~conn[c].closed
    /\ conn[c].uid \in {NoOne, u}
    /\ conn' = [conn EXCEPT ![c] = [@ EXCEPT !.pc = "binding", !.want = u]]
    /\ UNCHANGED <<generation, redis, fresh, instance, sessions, commands, lastPassed>>

\* Bind, first half: the lease is published before the registry is locked.
BindRedis(c) ==
    /\ conn[c].pc = "binding"
    /\ bindSessionLease(conn[c].want, c)
    /\ conn' = [conn EXCEPT ![c] = [@ EXCEPT !.pc = "bound", !.next = redis'[conn[c].want]]]
    /\ UNCHANGED <<instance, sessions, commands, lastPassed>>

\* Redis is unavailable, before or after it ran the script: generation -1,
\* Bind returns an empty lease and the login fails with DependencyUnavailable.
BindRedisFails(c) ==
    /\ conn[c].pc = "binding"
    /\ \/ UNCHANGED <<generation, redis, fresh>>
       \/ bindSessionLease(conn[c].want, c)
    /\ conn' = [conn EXCEPT ![c] = [@ EXCEPT !.pc = "reading", !.want = NoOne]]
    /\ UNCHANGED <<instance, sessions, commands, lastPassed>>

\* Bind, second half: replace the registered session and close the old one.
BindLocal(c) ==
    LET g   == conn[c].gateway
        u   == conn[c].want
        old == sessions[g][u].conn
    IN  /\ conn[c].pc = "bound"
        /\ sessions' = [sessions EXCEPT ![g][u] = [conn |-> c, lease |-> conn[c].next]]
        /\ conn' = [d \in Connections |->
                      IF d = c THEN [conn[d] EXCEPT !.pc = "loggedIn"]
                      ELSE IF d = old /\ Alive(d) THEN [conn[d] EXCEPT !.closing = TRUE]
                      ELSE conn[d]]
        /\ UNCHANGED <<generation, redis, fresh, instance, commands, lastPassed>>

\* Back on the strand: HandlePacket stores the lease and the user.
LoginDone(c) ==
    /\ conn[c].pc = "loggedIn"
    /\ conn' = [conn EXCEPT ![c] = [@ EXCEPT !.pc = "reading", !.lease = conn[c].next,
                            !.uid = conn[c].want, !.want = NoOne, !.next = NoLease]]
    /\ UNCHANGED <<generation, redis, fresh, instance, sessions, commands, lastPassed>>

\* A packet more than 20 s after the last refresh: refresh, or be fenced.
\* A Redis error counts as a failed compare.
Refresh(c) ==
    /\ conn[c].pc = "reading" /\ ~conn[c].closed /\ conn[c].uid # NoOne
    /\ \/ /\ refreshSessionLease(conn[c].uid, conn[c].lease)
          /\ conn' = [conn EXCEPT ![c] = [@ EXCEPT !.pc = IF Holds(conn[c].uid, conn[c].lease)
                                           THEN "refreshed" ELSE "fenced"]]
       \/ /\ UNCHANGED <<generation, redis, fresh>>
          /\ conn' = [conn EXCEPT ![c] = [@ EXCEPT !.pc = "fenced"]]
    /\ UNCHANGED <<instance, sessions, commands, lastPassed>>

\* Mutant: a failed refresh is only logged.
FencedStaysOpen(c) ==
    /\ conn[c].pc = "fenced"
    /\ conn' = [conn EXCEPT ![c] = [@ EXCEPT !.pc = "reading"]]
    /\ UNCHANGED <<generation, redis, fresh, instance, sessions, commands, lastPassed>>

\* The refresh failed: HandlePacket closes the connection.
FencedClose(c) ==
    /\ conn[c].pc = "fenced"
    /\ conn' = [conn EXCEPT ![c] = [@ EXCEPT !.pc = "reading", !.closed = TRUE]]
    /\ UNCHANGED <<generation, redis, fresh, instance, sessions, commands, lastPassed>>

\* The packet becomes a CommandEnvelope (or is answered locally: no envelope),
\* at once or after the refresh it was due for.
Forward(c) ==
    /\ conn[c].uid # NoOne
    /\ \/ conn[c].pc = "reading" /\ ~conn[c].closed
       \/ conn[c].pc = "refreshed"
    /\ conn' = [conn EXCEPT ![c] = [@ EXCEPT !.pc = "reading"]]
    /\ \/ /\ Cardinality(commands) < MaxCommands
          /\ commands' = commands \cup {[uid |-> conn[c].uid, lease |-> conn[c].lease,
                                         rejected |-> FALSE]}
       \/ commands' = commands
    /\ UNCHANGED <<generation, redis, fresh, instance, sessions, lastPassed>>

\* The handler Close() posted to the strand.
CloseInContext(c) ==
    /\ conn[c].closing /\ Alive(c)
    /\ conn' = [conn EXCEPT ![c] = [@ EXCEPT !.closing = FALSE, !.closed = TRUE]]
    /\ UNCHANGED <<generation, redis, fresh, instance, sessions, commands, lastPassed>>

\* Mutant: a session that was closed from this side skips Remove.
LeaveLoopWithoutRemove(c) ==
    /\ conn[c].pc = "reading"
    /\ conn' = [conn EXCEPT ![c] = IF conn[c].uid # NoOne /\ ~conn[c].closed
                                   THEN [@ EXCEPT !.pc = "removing", !.closed = TRUE]
                                   ELSE GoneSession]
    /\ UNCHANGED <<generation, redis, fresh, instance, sessions, commands, lastPassed>>

\* Run leaves its loop: the peer hung up, or the socket was closed here.
LeaveLoop(c) ==
    /\ conn[c].pc = "reading"
    /\ conn' = [conn EXCEPT ![c] = IF conn[c].uid # NoOne
                                   THEN [@ EXCEPT !.pc = "removing", !.closed = TRUE]
                                   ELSE GoneSession]
    /\ UNCHANGED <<generation, redis, fresh, instance, sessions, commands, lastPassed>>

\* Mutant: Remove erases the user's entry whoever owns it.
RemoveAnyone(c) ==
    /\ conn[c].pc = "removing"
    /\ conn' = [conn EXCEPT ![c] = [@ EXCEPT !.pc = "clearing"]]
    /\ sessions' = [sessions EXCEPT ![conn[c].gateway][conn[c].uid] = NoSession]
    /\ UNCHANGED <<generation, redis, fresh, instance, commands, lastPassed>>

\* Remove, first half: erase the entry unless another live session owns it.
RemoveLocal(c) ==
    LET g       == conn[c].gateway
        u       == conn[c].uid
        current == sessions[g][u].conn
    IN  /\ conn[c].pc = "removing"
        /\ IF current = NoOne \/ (Alive(current) /\ current # c)
           THEN /\ conn' = [conn EXCEPT ![c] = GoneSession]
                /\ UNCHANGED sessions
           ELSE /\ conn' = [conn EXCEPT ![c] = [@ EXCEPT !.pc = "clearing"]]
                /\ sessions' = [sessions EXCEPT ![g][u] = NoSession]
        /\ UNCHANGED <<generation, redis, fresh, instance, commands, lastPassed>>

\* Remove, second half: clear the lease in Redis, or fail to reach it.
RemoveRedis(c) ==
    /\ conn[c].pc = "clearing"
    /\ conn' = [conn EXCEPT ![c] = GoneSession]
    /\ \/ clearSessionLease(conn[c].uid, conn[c].lease)
       \/ UNCHANGED <<generation, redis, fresh>>
    /\ UNCHANGED <<instance, sessions, commands, lastPassed>>

-----------------------------------------------------------------------------
(* The Message node, the gateway process and time *)

\* Mutant: the fence compares the gateway process and not the connection.
FenceByProcess(command) ==
    /\ redis[command.uid] # NoLease
    /\ redis[command.uid].gateway = command.lease.gateway
    /\ redis[command.uid].instance = command.lease.instance

\* The lease check in the background task of HandleCommand.
FenceAccepts(command) == redis[command.uid] # NoLease /\ redis[command.uid] = command.lease

\* The worker reads the lease and runs the command or refuses it.
Fence(command) ==
    /\ ~command.rejected
    /\ IF FenceAccepts(command)
       THEN /\ commands' = commands \ {command}
            /\ lastPassed' = [lastPassed EXCEPT ![command.uid] = command.lease.generation]
       ELSE /\ commands' = (commands \ {command}) \cup {[command EXCEPT !.rejected = TRUE]}
            /\ UNCHANGED lastPassed
    /\ UNCHANGED <<generation, redis, fresh, instance, sessions, conn>>

\* The result callback closes the session when the error is
\* AuthenticationRequired and the session still exists.
Rejected(command) ==
    /\ command.rejected
    /\ commands' = commands \ {command}
    /\ conn' = [c \in Connections |->
                  IF c = command.lease.conn /\ Alive(c)
                  THEN [conn[c] EXCEPT !.closing = TRUE] ELSE conn[c]]
    /\ UNCHANGED <<generation, redis, fresh, instance, sessions, lastPassed>>

\* The gateway process dies with all its connections and starts again under
\* a new instanceId; its leases stay in Redis, its commands at the Message node.
Restart(g) ==
    /\ instance[g] < MaxInstance
    /\ instance' = [instance EXCEPT ![g] = @ + 1]
    /\ sessions' = [sessions EXCEPT ![g] = [u \in Users |-> NoSession]]
    /\ conn' = [c \in Connections |-> IF conn[c].gateway = g THEN GoneSession ELSE conn[c]]
    /\ UNCHANGED <<generation, redis, fresh, commands, lastPassed>>

\* Most of the TTL has passed since the lease was set or refreshed.
Age(u) ==
    /\ redis[u] # NoLease /\ fresh[u]
    /\ fresh' = [fresh EXCEPT ![u] = FALSE]
    /\ UNCHANGED <<generation, redis, instance, sessions, conn, commands, lastPassed>>

\* The TTL runs out; the generation counter has none.
Expire(u) ==
    /\ redis[u] # NoLease /\ ~fresh[u]
    /\ redis' = [redis EXCEPT ![u] = NoLease]
    /\ UNCHANGED <<generation, fresh, instance, sessions, conn, commands, lastPassed>>

Next ==
    \/ \E c \in Connections, g \in Gateways : Connect(c, g)
    \/ \E c \in Connections, u \in Users : LoginStart(c, u)
    \/ \E c \in Connections : BindRedis(c)
    \/ \E c \in Connections : BindRedisFails(c)
    \/ \E c \in Connections : BindLocal(c)
    \/ \E c \in Connections : LoginDone(c)
    \/ \E c \in Connections : Refresh(c)
    \/ \E c \in Connections : FencedClose(c)
    \/ \E c \in Connections : Forward(c)
    \/ \E c \in Connections : CloseInContext(c)
    \/ \E c \in Connections : LeaveLoop(c)
    \/ \E c \in Connections : RemoveLocal(c)
    \/ \E c \in Connections : RemoveRedis(c)
    \/ \E command \in commands : Fence(command)
    \/ \E command \in commands : Rejected(command)
    \/ \E g \in Gateways : Restart(g)
    \/ \E u \in Users : Age(u)
    \/ \E u \in Users : Expire(u)

Spec == Init /\ [][Next]_vars

\* The TTL runs by itself; a client keeps sending (its heartbeat timer), so a
\* refresh falls due again and again; the strand runs what is posted to it and
\* the business pool runs what it was given.
Fairness ==
    /\ \A u \in Users : WF_vars(Age(u)) /\ WF_vars(Expire(u))
    /\ \A c \in Connections :
          /\ SF_vars(Refresh(c))
          /\ WF_vars(FencedClose(c)) /\ WF_vars(CloseInContext(c))
          /\ WF_vars(BindLocal(c)) /\ WF_vars(LoginDone(c))
          /\ WF_vars(BindRedis(c) \/ BindRedisFails(c))
          /\ WF_vars(conn[c].closed /\ LeaveLoop(c))
          /\ WF_vars(conn[c].pc = "refreshed" /\ Forward(c))
          /\ WF_vars(RemoveLocal(c)) /\ WF_vars(RemoveRedis(c))

FairSpec == Spec /\ Fairness

-----------------------------------------------------------------------------
(* Properties *)

\* Every lease some part of the system holds for user u.
LeasesOf(u) ==
    ({redis[u]} \cup {sessions[g][u].lease : g \in Gateways}
       \cup {conn[c].lease : c \in {d \in Connections : conn[d].uid = u}}
       \cup {conn[c].next : c \in {d \in Connections : conn[d].want = u}}
       \cup {command.lease : command \in {m \in commands : m.uid = u}}) \ {NoLease}

\* Whatever order logins, refreshes, clean-ups, expiries and restarts happen
\* in, the lease in Redis is the one of the latest login: refreshSessionLease
\* and clearSessionLease never bring an older one back.
LeaseIsNewest == \A u \in Users : redis[u] # NoLease => redis[u].generation = generation[u]

\* A generation identifies one login: two leases of a user that meet anywhere
\* (Redis, a registry, a session, a command in flight) with the same generation
\* are the same lease, so comparing generations is enough to fence.
GenerationsUnique ==
    \A u \in Users : \A l, k \in LeasesOf(u) : l.generation = k.generation => l = k

\* The login of connection c as u went through the registry.
Registered(c, u) == conn[c].uid = u \/ (conn[c].pc = "loggedIn" /\ conn[c].want = u)

\* A logged-in connection that is open and has not been told to close is the
\* one its gateway's registry names: pushes reach it, and no second connection
\* of the same user stays open on the gateway.
OpenSessionIsRegistered ==
    \A c \in Connections, u \in Users :
        /\ Registered(c, u) /\ conn[c].pc # "gone"
        /\ ~conn[c].closed /\ ~conn[c].closing
        => sessions[conn[c].gateway][u].conn = c

\* The registry never keeps an entry for a destroyed session: every path out
\* of Run that leaves an entry behind leaves somebody else's.
RegistryHoldsLiveSessions ==
    \A g \in Gateways, u \in Users : sessions[g][u] # NoSession => Alive(sessions[g][u].conn)

\* A clean-up (Remove) deletes only the lease of the connection that ends; it
\* never takes away the lease of a login that happened meanwhile.
ClearsOwnLeaseOnly ==
    [][\A u \in Users : redis[u] # NoLease /\ redis'[u] = NoLease /\ fresh[u]
          => conn[redis[u].conn].pc = "clearing"]_vars

\* Once a command of a newer login has passed the Message node's fence, no
\* command of an older login of that user passes any more.
FencedMonotone == [][\A u \in Users : lastPassed'[u] >= lastPassed[u]]_vars

\* A lease that names a destroyed connection (crash, lost clean-up, lost bind
\* reply) does not stay: nobody can keep refreshing it.
StaleLeaseGoes ==
    \A u \in Users : \A c \in Connections :
        redis[u].conn = c /\ conn[c].pc = "gone" ~> redis[u].conn # c

\* Connection c is logged in under a lease a later login has superseded.
Superseded(c) == conn[c].uid # NoOne /\ conn[c].lease.generation < generation[conn[c].uid]

\* A superseded connection, on whichever gateway it is, is closed in the end
\* or has logged in anew.
SupersededGoes == \A c \in Connections : Superseded(c) ~> (conn[c].closed \/ ~Superseded(c))

\* docs/feature-server-verification.md S11: a new generation replaces the old
\* connection.  Read as: Bind never closes a connection of a later login.
NewGenerationReplacesOld ==
    [][\A c, d \in Connections :
          /\ conn[c].pc = "bound" /\ conn'[c].pc = "loggedIn"
          /\ d # c /\ ~conn[d].closing /\ conn'[d].closing
          => sessions[conn[c].gateway][conn[c].want].lease.generation
                < conn[c].next.generation]_vars
=============================================================================
