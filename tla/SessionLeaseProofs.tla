------------------------- MODULE SessionLeaseProofs -------------------------
(***************************************************************************)
(* Proofs of the safety properties of SessionLease, for every set of users,*)
(* gateways and connections and every bound.                               *)
(***************************************************************************)
EXTENDS SessionLease, TLAPS

\* Zenon is the default prover; a leaf with arithmetic or sequences cites SMT.
USE Zenon

-----------------------------------------------------------------------------
(* First layer: types, and what each program point of Run knows. *)

\* s is a state the session of connection c can be in: what the program
\* counter of its coroutine says about its other fields.
SessionOK(c, s) ==
    /\ s \in Session
    /\ s.pc \notin {"absent", "gone"} => s.gateway \in Gateways
    /\ s.pc \in {"absent", "gone"} => s.gateway = NoOne /\ s.uid = NoOne
    /\ s.pc \in {"binding", "bound", "loggedIn"} => s.want \in Users
    /\ s.pc \notin {"binding", "bound", "loggedIn"} => s.want = NoOne
    /\ s.pc \in {"bound", "loggedIn"} => s.next \in Lease /\ s.next.conn = c
    /\ s.pc \notin {"bound", "loggedIn"} => s.next = NoLease
    /\ s.uid # NoOne => s.lease \in Lease /\ s.lease.conn = c
    /\ s.pc \in {"refreshed", "fenced", "removing", "clearing"} => s.uid # NoOne
    /\ s.want # NoOne /\ s.uid # NoOne => s.want = s.uid
    /\ s.pc \in {"removing", "clearing", "gone"} => s.closed

ConnOK == \A c \in Connections : SessionOK(c, conn[c])

Inv1 == TypeOK /\ ConnOK

\* The empty lease is not a lease.
LEMMA NoLeaseIsNoLease == NoLease \notin Lease
  BY DEF NoLease, Lease

\* The empty registry entry is not an entry.
LEMMA NoSessionIsNoSession == NoSession \notin LocalSession
  BY NoOneAssumption DEF NoSession, LocalSession

\* A session that has not connected, and one that is destroyed, are possible.
LEMMA IdleSessionsOK == ASSUME NEW c PROVE SessionOK(c, NewSession) /\ SessionOK(c, GoneSession)
  BY NoLeaseIsNoLease DEF SessionOK, Session, PC, NewSession, GoneSession

\* One fact per step of a session: the step leads to a possible session.
LEMMA ConnectOK ==
    ASSUME NEW c, NEW s, SessionOK(c, s), s.pc = "absent", NEW g \in Gateways
    PROVE  SessionOK(c, [s EXCEPT !.pc = "reading", !.gateway = g])
  BY DEF SessionOK, Session, PC

\* A login of the same user, or the first one, may start.
LEMMA LoginStartOK ==
    ASSUME NEW c, NEW s, SessionOK(c, s), s.pc = "reading", NEW u \in Users, s.uid \in {NoOne, u}
    PROVE  SessionOK(c, [s EXCEPT !.pc = "binding", !.want = u])
  BY NoOneAssumption DEF SessionOK, Session, PC

\* The published lease is kept with the login.
LEMMA BindRedisOK ==
    ASSUME NEW c, NEW s, SessionOK(c, s), s.pc = "binding", NEW l \in Lease, l.conn = c
    PROVE  SessionOK(c, [s EXCEPT !.pc = "bound", !.next = l])
  BY NoOneAssumption DEF SessionOK, Session, PC

\* A failed bind forgets the login in progress.
LEMMA BindRedisFailsOK ==
    ASSUME NEW c, NEW s, SessionOK(c, s), s.pc = "binding"
    PROVE  SessionOK(c, [s EXCEPT !.pc = "reading", !.want = NoOne])
  BY NoOneAssumption DEF SessionOK, Session, PC

\* The registry section changes only the program point.
LEMMA BindLocalOK ==
    ASSUME NEW c, NEW s, SessionOK(c, s), s.pc = "bound"
    PROVE  SessionOK(c, [s EXCEPT !.pc = "loggedIn"])
  BY NoOneAssumption DEF SessionOK, Session, PC

\* The strand stores what Bind returned.
LEMMA LoginDoneOK ==
    ASSUME NEW c, NEW s, SessionOK(c, s), s.pc = "loggedIn"
    PROVE  SessionOK(c, [s EXCEPT !.pc = "reading", !.lease = s.next,
                                  !.uid = s.want, !.want = NoOne, !.next = NoLease])
  BY NoOneAssumption DEF SessionOK, Session, PC

\* A logged-in session that is reading, forwarding or has just been refreshed
\* or fenced moves between these points.
LEMMA MoveOK ==
    ASSUME NEW c, NEW s, SessionOK(c, s), s.uid # NoOne,
           s.pc \in {"reading", "refreshed", "fenced"},
           NEW p \in {"reading", "refreshed", "fenced"}
    PROVE  SessionOK(c, [s EXCEPT !.pc = p])
  BY NoOneAssumption DEF SessionOK, Session, PC

\* A fenced session is closed in place.
LEMMA FencedCloseOK ==
    ASSUME NEW c, NEW s, SessionOK(c, s), s.pc = "fenced"
    PROVE  SessionOK(c, [s EXCEPT !.pc = "reading", !.closed = TRUE])
  BY NoOneAssumption DEF SessionOK, Session, PC

\* Posting Close and running it touch two flags.
LEMMA CloseOK ==
    ASSUME NEW c, NEW s, SessionOK(c, s)
    PROVE  /\ SessionOK(c, [s EXCEPT !.closing = FALSE, !.closed = TRUE])
           /\ SessionOK(c, [s EXCEPT !.closing = TRUE])
  BY ZenonT(40), NoOneAssumption DEF SessionOK, Session, PC

\* A logged-in session leaves its loop towards Remove.
LEMMA LeaveLoopOK ==
    ASSUME NEW c, NEW s, SessionOK(c, s), s.pc = "reading", s.uid # NoOne
    PROVE  SessionOK(c, [s EXCEPT !.pc = "removing", !.closed = TRUE])
  BY NoOneAssumption DEF SessionOK, Session, PC

\* After the registry section Redis is next.
LEMMA RemoveOK ==
    ASSUME NEW c, NEW s, SessionOK(c, s), s.pc = "removing"
    PROVE  SessionOK(c, [s EXCEPT !.pc = "clearing"])
  BY NoOneAssumption DEF SessionOK, Session, PC

\* Replacing one session by a possible one keeps them all possible.
LEMMA UpdateConn ==
    ASSUME TypeOK, ConnOK, NEW c \in Connections, NEW s, SessionOK(c, s),
           conn' = [conn EXCEPT ![c] = s]
    PROVE  conn' \in [Connections -> Session] /\ ConnOK'
  BY SMT DEF TypeOK, ConnOK, SessionOK

\* The first layer holds initially.
LEMMA Inv1Init == Init => Inv1
  <1> SUFFICES ASSUME Init PROVE Inv1
    OBVIOUS
  <1>1. ConnOK
    BY IdleSessionsOK DEF Init, ConnOK
  <1>2. TypeOK
    BY IdleSessionsOK DEF Init, TypeOK, SessionOK
  <1> QED
    BY <1>1, <1>2 DEF Inv1

\* A lease bindSessionLease publishes is a lease of the connection.
LEMMA BindType ==
    ASSUME TypeOK, ConnOK, NEW c \in Connections, conn[c].pc = "binding",
           bindSessionLease(conn[c].want, c)
    PROVE  /\ redis'[conn[c].want] \in Lease
           /\ redis'[conn[c].want].conn = c
           /\ generation' \in [Users -> Nat]
           /\ redis' \in [Users -> Lease \cup {NoLease}]
           /\ fresh' \in [Users -> BOOLEAN]
  <1>1. conn[c].want \in Users /\ conn[c].gateway \in Gateways
    BY DEF ConnOK, SessionOK
  <1>2. [gateway |-> conn[c].gateway, instance |-> instance[conn[c].gateway],
         conn |-> c, generation |-> generation[conn[c].want] + 1] \in Lease
    BY SMT, <1>1 DEF TypeOK, Lease
  <1>3. redis'[conn[c].want] = [gateway |-> conn[c].gateway,
                               instance |-> instance[conn[c].gateway],
                               conn |-> c, generation |-> generation[conn[c].want] + 1]
    BY <1>1 DEF TypeOK, bindSessionLease
  <1> QED
    BY SMT, <1>1, <1>2, <1>3 DEF TypeOK, bindSessionLease

\* The first layer is inductive: one step per action.
LEMMA Inv1Next == Inv1 /\ [Next]_vars => Inv1'
  <1> SUFFICES ASSUME Inv1, [Next]_vars PROVE Inv1'
    OBVIOUS
  <1>a. TypeOK /\ ConnOK
    BY DEF Inv1
  <1>b. ASSUME NEW c \in Connections PROVE SessionOK(c, conn[c])
    BY <1>a DEF ConnOK
  <1>0. CASE UNCHANGED vars
    BY <1>0, <1>a DEF Inv1, TypeOK, ConnOK, vars
  <1>1. ASSUME NEW c \in Connections, NEW g \in Gateways, Connect(c, g) PROVE Inv1'
    <2>1. SessionOK(c, [conn[c] EXCEPT !.pc = "reading", !.gateway = g])
      BY <1>1, <1>b, ConnectOK DEF Connect
    <2>2. conn' \in [Connections -> Session] /\ ConnOK'
      BY <1>1, <1>a, <2>1, UpdateConn DEF Connect
    <2> QED
      BY <1>1, <1>a, <2>2 DEF Inv1, TypeOK, Connect
  <1>2. ASSUME NEW c \in Connections, NEW u \in Users, LoginStart(c, u) PROVE Inv1'
    <2>1. SessionOK(c, [conn[c] EXCEPT !.pc = "binding", !.want = u])
      BY <1>2, <1>b, LoginStartOK DEF LoginStart
    <2>2. conn' \in [Connections -> Session] /\ ConnOK'
      BY <1>2, <1>a, <2>1, UpdateConn DEF LoginStart
    <2> QED
      BY <1>2, <1>a, <2>2 DEF Inv1, TypeOK, LoginStart
  <1>3. ASSUME NEW c \in Connections, BindRedis(c) PROVE Inv1'
    <2>1. SessionOK(c, [conn[c] EXCEPT !.pc = "bound", !.next = redis'[conn[c].want]])
      BY <1>3, <1>a, <1>b, BindType, BindRedisOK DEF BindRedis
    <2>2. conn' \in [Connections -> Session] /\ ConnOK'
      BY <1>3, <1>a, <2>1, UpdateConn DEF BindRedis
    <2> QED
      BY <1>3, <1>a, <2>2, BindType DEF Inv1, TypeOK, BindRedis
  <1>4. ASSUME NEW c \in Connections, BindRedisFails(c) PROVE Inv1'
    <2>1. SessionOK(c, [conn[c] EXCEPT !.pc = "reading", !.want = NoOne])
      BY <1>4, <1>b, BindRedisFailsOK DEF BindRedisFails
    <2>2. conn' \in [Connections -> Session] /\ ConnOK'
      BY <1>4, <1>a, <2>1, UpdateConn DEF BindRedisFails
    <2> QED
      BY <1>4, <1>a, <2>2, BindType DEF Inv1, TypeOK, BindRedisFails
  <1>5. ASSUME NEW c \in Connections, BindLocal(c) PROVE Inv1'
    <2>1. ASSUME NEW d \in Connections PROVE SessionOK(d, conn'[d])
      BY ZenonT(40), <1>5, <1>a, <1>b, BindLocalOK, CloseOK DEF BindLocal
    <2>2. conn' \in [Connections -> Session]
      <3>1. \A d \in Connections : conn'[d] \in Session
        BY <2>1 DEF SessionOK
      <3>2. conn' = [d \in Connections |-> conn'[d]]
        BY <1>5 DEF BindLocal
      <3> QED
        BY <3>1, <3>2
    <2>3. conn[c].gateway \in Gateways /\ conn[c].want \in Users
          /\ [conn |-> c, lease |-> conn[c].next] \in LocalSession
      BY <1>5, <1>b DEF BindLocal, SessionOK, LocalSession
    <2>4. sessions' \in [Gateways -> [Users -> LocalSession \cup {NoSession}]]
      BY <1>5, <1>a, <2>3 DEF TypeOK, BindLocal
    <2> QED
      BY ZenonT(40), <1>5, <1>a, <2>1, <2>2, <2>4 DEF Inv1, TypeOK, ConnOK, BindLocal
  <1>6. ASSUME NEW c \in Connections, LoginDone(c) PROVE Inv1'
    <2>1. SessionOK(c, [conn[c] EXCEPT !.pc = "reading", !.lease = conn[c].next,
                                       !.uid = conn[c].want, !.want = NoOne, !.next = NoLease])
      BY <1>6, <1>b, LoginDoneOK DEF LoginDone
    <2>2. conn' \in [Connections -> Session] /\ ConnOK'
      BY <1>6, <1>a, <2>1, UpdateConn DEF LoginDone
    <2> QED
      BY <1>6, <1>a, <2>2 DEF Inv1, TypeOK, LoginDone
  <1>7. ASSUME NEW c \in Connections, Refresh(c) PROVE Inv1'
    <2>1. PICK p \in {"refreshed", "fenced"} : conn' = [conn EXCEPT ![c] = [@ EXCEPT !.pc = p]]
      BY <1>7 DEF Refresh
    <2>2. SessionOK(c, [conn[c] EXCEPT !.pc = p])
      BY <1>7, <1>b, MoveOK DEF Refresh
    <2>3. conn' \in [Connections -> Session] /\ ConnOK'
      BY <1>a, <2>1, <2>2, UpdateConn
    <2>4. fresh' \in [Users -> BOOLEAN] /\ UNCHANGED <<generation, redis>>
      BY <1>7, <1>a DEF Refresh, refreshSessionLease, TypeOK, Holds
    <2> QED
      BY <1>7, <1>a, <2>3, <2>4 DEF Inv1, TypeOK, Refresh
  <1>8. ASSUME NEW c \in Connections, FencedClose(c) PROVE Inv1'
    <2>1. SessionOK(c, [conn[c] EXCEPT !.pc = "reading", !.closed = TRUE])
      BY <1>8, <1>b, FencedCloseOK DEF FencedClose
    <2>2. conn' \in [Connections -> Session] /\ ConnOK'
      BY <1>8, <1>a, <2>1, UpdateConn DEF FencedClose
    <2> QED
      BY <1>8, <1>a, <2>2 DEF Inv1, TypeOK, FencedClose
  <1>9. ASSUME NEW c \in Connections, Forward(c) PROVE Inv1'
    <2>1. SessionOK(c, [conn[c] EXCEPT !.pc = "reading"])
      BY <1>9, <1>b, MoveOK DEF Forward
    <2>2. conn' \in [Connections -> Session] /\ ConnOK'
      BY <1>9, <1>a, <2>1, UpdateConn DEF Forward
    <2>3. [uid |-> conn[c].uid, lease |-> conn[c].lease, rejected |-> FALSE] \in Command
      BY <1>9, <1>b DEF Forward, SessionOK, Session, Command
    <2>4. commands' \subseteq Command
      BY <1>9, <1>a, <2>3 DEF Forward, TypeOK
    <2> QED
      BY <1>9, <1>a, <2>2, <2>4 DEF Inv1, TypeOK, Forward
  <1>10. ASSUME NEW c \in Connections, CloseInContext(c) PROVE Inv1'
    <2>1. SessionOK(c, [conn[c] EXCEPT !.closing = FALSE, !.closed = TRUE])
      BY <1>b, CloseOK
    <2>2. conn' \in [Connections -> Session] /\ ConnOK'
      BY <1>10, <1>a, <2>1, UpdateConn DEF CloseInContext
    <2> QED
      BY <1>10, <1>a, <2>2 DEF Inv1, TypeOK, CloseInContext
  <1>11. ASSUME NEW c \in Connections, LeaveLoop(c) PROVE Inv1'
    <2>1. PICK s : SessionOK(c, s) /\ conn' = [conn EXCEPT ![c] = s]
      BY <1>11, <1>b, LeaveLoopOK, IdleSessionsOK DEF LeaveLoop
    <2>2. conn' \in [Connections -> Session] /\ ConnOK'
      BY <1>a, <2>1, UpdateConn
    <2> QED
      BY <1>11, <1>a, <2>2 DEF Inv1, TypeOK, LeaveLoop
  <1>12. ASSUME NEW c \in Connections, RemoveLocal(c) PROVE Inv1'
    <2>1. PICK s : SessionOK(c, s) /\ conn' = [conn EXCEPT ![c] = s]
      BY <1>12, <1>b, RemoveOK, IdleSessionsOK DEF RemoveLocal
    <2>2. conn' \in [Connections -> Session] /\ ConnOK'
      BY <1>a, <2>1, UpdateConn
    <2>3. conn[c].gateway \in Gateways /\ conn[c].uid \in Users
      BY <1>12, <1>b DEF RemoveLocal, SessionOK, Session
    <2>4. sessions' \in [Gateways -> [Users -> LocalSession \cup {NoSession}]]
      <3>1. \/ sessions' = sessions
            \/ sessions' = [sessions EXCEPT ![conn[c].gateway][conn[c].uid] = NoSession]
        BY <1>12 DEF RemoveLocal
      <3> QED
        BY SMTT(30), <1>a, <2>3, <3>1 DEF TypeOK
    <2> QED
      BY <1>12, <1>a, <2>2, <2>4 DEF Inv1, TypeOK, RemoveLocal
  <1>13. ASSUME NEW c \in Connections, RemoveRedis(c) PROVE Inv1'
    <2>1. conn' \in [Connections -> Session] /\ ConnOK'
      BY <1>13, <1>a, IdleSessionsOK, UpdateConn DEF RemoveRedis
    <2>2. /\ redis' \in [Users -> Lease \cup {NoLease}]
          /\ fresh' \in [Users -> BOOLEAN]
          /\ UNCHANGED generation
      BY <1>13, <1>a DEF TypeOK, RemoveRedis, clearSessionLease, Holds
    <2> QED
      BY <1>13, <1>a, <2>1, <2>2 DEF Inv1, TypeOK, RemoveRedis
  <1>14. ASSUME NEW m \in commands, Fence(m) PROVE Inv1'
    <2>1. m \in Command
      BY <1>a DEF TypeOK
    <2>2. [m EXCEPT !.rejected = TRUE] \in Command /\ m.uid \in Users /\ m.lease.generation \in Nat
      BY <2>1 DEF Command, Lease
    <2>3. commands' \subseteq Command
      BY <1>14, <1>a, <2>2 DEF TypeOK, Fence
    <2>4. lastPassed' \in [Users -> Nat]
      BY <1>14, <1>a, <2>2 DEF TypeOK, Fence
    <2> QED
      BY <1>14, <1>a, <2>3, <2>4 DEF Inv1, TypeOK, ConnOK, Fence
  <1>15. ASSUME NEW m \in commands, Rejected(m) PROVE Inv1'
    <2>1. ASSUME NEW d \in Connections PROVE SessionOK(d, conn'[d])
      BY <1>15, <1>b, CloseOK DEF Rejected
    <2>2. conn' \in [Connections -> Session]
      BY <1>15, <2>1 DEF Rejected, SessionOK
    <2> QED
      BY <1>15, <1>a, <2>1, <2>2 DEF Inv1, TypeOK, ConnOK, Rejected
  <1>16. ASSUME NEW g \in Gateways, Restart(g) PROVE Inv1'
    <2>1. ASSUME NEW d \in Connections PROVE SessionOK(d, conn'[d])
      BY <1>16, <1>b, IdleSessionsOK DEF Restart
    <2>2. conn' \in [Connections -> Session]
      BY <1>16, <2>1 DEF Restart, SessionOK
    <2> QED
      BY SMT, <1>16, <1>a, <2>1, <2>2 DEF Inv1, TypeOK, ConnOK, Restart
  <1>17. ASSUME NEW u \in Users, Age(u) PROVE Inv1'
    BY <1>17, <1>a DEF Inv1, TypeOK, ConnOK, Age
  <1>18. ASSUME NEW u \in Users, Expire(u) PROVE Inv1'
    BY <1>18, <1>a DEF Inv1, TypeOK, ConnOK, Expire
  <1> QED
    BY <1>0, <1>1, <1>2, <1>3, <1>4, <1>5, <1>6, <1>7, <1>8, <1>9, <1>10, <1>11, <1>12,
       <1>13, <1>14, <1>15, <1>16, <1>17, <1>18 DEF Next

\* Every variable keeps its type along every behaviour.
THEOREM TypeCorrect == Spec => []TypeOK
  <1>1. Inv1 => TypeOK
    BY DEF Inv1
  <1> QED
    BY Inv1Init, Inv1Next, <1>1, PTL DEF Spec

-----------------------------------------------------------------------------
(* Second layer: leases.  Whatever a step does, the leases the system holds *)
(* of a user are old ones, or the one lease a login publishes with the next *)
(* generation.                                                              *)

Inv2 ==
    /\ LeaseIsNewest
    /\ \A u \in Users : \A l \in LeasesOf(u) : l.generation <= generation[u]
    /\ GenerationsUnique
    /\ \A u \in Users : lastPassed[u] <= generation[u]

\* Membership in LeasesOf, before and after a step.
LEMMA LeasesOfBefore ==
    ASSUME NEW u \in Users, NEW l
    PROVE  l \in LeasesOf(u) <=>
             /\ l # NoLease
             /\ \/ l = redis[u]
                \/ \E g \in Gateways : l = sessions[g][u].lease
                \/ \E c \in Connections : conn[c].uid = u /\ l = conn[c].lease
                \/ \E c \in Connections : conn[c].want = u /\ l = conn[c].next
                \/ \E m \in commands : m.uid = u /\ l = m.lease
  BY DEF LeasesOf

\* The same after a step.
LEMMA LeasesOfAfter ==
    ASSUME NEW u \in Users, NEW l
    PROVE  l \in LeasesOf(u)' <=>
             /\ l # NoLease
             /\ \/ l = redis'[u]
                \/ \E g \in Gateways : l = sessions'[g][u].lease
                \/ \E c \in Connections : conn'[c].uid = u /\ l = conn'[c].lease
                \/ \E c \in Connections : conn'[c].want = u /\ l = conn'[c].next
                \/ \E m \in commands' : m.uid = u /\ l = m.lease
  BY DEF LeasesOf

\* A step that publishes nothing for u.
Keeps(u) ==
    /\ generation'[u] = generation[u]
    /\ redis'[u] \in {redis[u], NoLease}
    /\ LeasesOf(u)' \subseteq LeasesOf(u)

\* A step that publishes a login of u.
Publishes(u) ==
    /\ generation'[u] = generation[u] + 1
    /\ redis'[u].generation = generation[u] + 1
    /\ LeasesOf(u)' \subseteq LeasesOf(u) \cup {redis'[u]}

\* The script publishes for the user who logs in and touches no other.
LEMMA BindPublishes ==
    ASSUME Inv1, NEW c \in Connections, conn[c].pc = "binding",
           bindSessionLease(conn[c].want, c),
           UNCHANGED <<sessions, commands>>,
           \A d \in Connections : d # c => conn'[d] = conn[d],
           conn'[c].uid = conn[c].uid, conn'[c].lease = conn[c].lease,
           \/ conn'[c].next = redis'[conn[c].want] /\ conn'[c].want = conn[c].want
           \/ conn'[c].next = NoLease,
           NEW u \in Users
    PROVE  Keeps(u) \/ Publishes(u)
  <1>1. conn[c].want \in Users
    BY DEF Inv1, ConnOK, SessionOK
  <1>2. CASE u = conn[c].want
    <2>1. generation'[u] = generation[u] + 1 /\ redis'[u].generation = generation[u] + 1
      BY <1>1, <1>2 DEF bindSessionLease, Inv1, TypeOK
    <2>2. LeasesOf(u)' \subseteq LeasesOf(u) \cup {redis'[u]}
      BY SMT, <1>2, LeasesOfBefore, LeasesOfAfter
    <2> QED
      BY <2>1, <2>2 DEF Publishes
  <1>3. CASE u # conn[c].want
    <2>1. generation'[u] = generation[u] /\ redis'[u] = redis[u]
      BY <1>1, <1>3 DEF bindSessionLease, Inv1, TypeOK
    <2>2. LeasesOf(u)' \subseteq LeasesOf(u)
      BY SMT, <1>3, <2>1, LeasesOfBefore, LeasesOfAfter
    <2> QED
      BY <2>1, <2>2 DEF Keeps
  <1> QED
    BY <1>2, <1>3

\* Every step keeps a user's leases or publishes one new one.
LEMMA LeasesStep ==
    ASSUME Inv1, [Next]_vars, NEW u \in Users
    PROVE  Keeps(u) \/ Publishes(u)
  <1>a. TypeOK /\ \A c \in Connections : SessionOK(c, conn[c])
    BY DEF Inv1, ConnOK
  <1> USE NoOneAssumption, LeasesOfBefore, LeasesOfAfter
  <1>0. CASE UNCHANGED vars
    BY SMT, <1>0 DEF vars, Keeps
  <1>1. ASSUME NEW c \in Connections, NEW g \in Gateways, Connect(c, g) PROVE Keeps(u)
    <2>1. /\ conn'[c].uid = conn[c].uid /\ conn'[c].lease = conn[c].lease
          /\ conn'[c].want = conn[c].want /\ conn'[c].next = conn[c].next
          /\ \A d \in Connections : d # c => conn'[d] = conn[d]
      BY SMT, <1>1, <1>a DEF Connect, TypeOK, SessionOK, Session
    <2> QED
      BY SMT, <1>1, <2>1 DEF Connect, Keeps
  <1>2. ASSUME NEW c \in Connections, NEW v \in Users, LoginStart(c, v) PROVE Keeps(u)
    <2>1. /\ conn'[c].uid = conn[c].uid /\ conn'[c].lease = conn[c].lease
          /\ conn'[c].next = NoLease
          /\ \A d \in Connections : d # c => conn'[d] = conn[d]
      BY SMT, <1>2, <1>a DEF LoginStart, TypeOK, SessionOK, Session
    <2> QED
      BY SMT, <1>2, <2>1 DEF LoginStart, Keeps
  <1>3. ASSUME NEW c \in Connections, BindRedis(c) PROVE Keeps(u) \/ Publishes(u)
    <2>1. /\ conn'[c].uid = conn[c].uid /\ conn'[c].lease = conn[c].lease
          /\ conn'[c].next = redis'[conn[c].want] /\ conn'[c].want = conn[c].want
          /\ \A d \in Connections : d # c => conn'[d] = conn[d]
      BY SMT, <1>3, <1>a DEF BindRedis, TypeOK, SessionOK, Session
    <2> QED
      BY <1>3, <2>1, BindPublishes DEF BindRedis
  <1>4. ASSUME NEW c \in Connections, BindRedisFails(c) PROVE Keeps(u) \/ Publishes(u)
    <2>1. /\ conn'[c].uid = conn[c].uid /\ conn'[c].lease = conn[c].lease
          /\ conn'[c].next = NoLease /\ conn'[c].want = NoOne
          /\ \A d \in Connections : d # c => conn'[d] = conn[d]
      BY SMT, <1>4, <1>a DEF BindRedisFails, TypeOK, SessionOK, Session
    <2>2. CASE UNCHANGED <<generation, redis, fresh>>
      BY SMT, <1>4, <2>1, <2>2 DEF BindRedisFails, Keeps
    <2>3. CASE bindSessionLease(conn[c].want, c)
      BY <1>4, <2>1, <2>3, BindPublishes DEF BindRedisFails
    <2> QED
      BY <1>4, <2>2, <2>3 DEF BindRedisFails
  <1>5. ASSUME NEW c \in Connections, BindLocal(c) PROVE Keeps(u)
    <2>1. \A d \in Connections : /\ conn'[d].uid = conn[d].uid /\ conn'[d].lease = conn[d].lease
                                  /\ conn'[d].want = conn[d].want /\ conn'[d].next = conn[d].next
      BY SMT, <1>5, <1>a DEF BindLocal, SessionOK, Session
    <2>2. ASSUME NEW g \in Gateways
          PROVE  \/ sessions'[g][u].lease = sessions[g][u].lease
                 \/ sessions'[g][u].lease = conn[c].next /\ conn[c].want = u
      BY SMT, <1>5, <1>a DEF BindLocal, TypeOK
    <2> QED
      BY SMT, <1>5, <2>1, <2>2 DEF BindLocal, Keeps
  <1>6. ASSUME NEW c \in Connections, LoginDone(c) PROVE Keeps(u)
    <2>1. /\ conn'[c].uid = conn[c].want /\ conn'[c].lease = conn[c].next
          /\ conn'[c].want = NoOne
          /\ \A d \in Connections : d # c => conn'[d] = conn[d]
      BY SMT, <1>6, <1>a DEF LoginDone, TypeOK, SessionOK, Session
    <2> QED
      BY SMT, <1>6, <2>1 DEF LoginDone, Keeps
  <1>7. ASSUME NEW c \in Connections, Refresh(c) PROVE Keeps(u)
    <2>1. PICK p : conn' = [conn EXCEPT ![c] = [@ EXCEPT !.pc = p]]
      BY <1>7 DEF Refresh
    <2>2. /\ conn'[c].uid = conn[c].uid /\ conn'[c].lease = conn[c].lease
          /\ conn'[c].want = conn[c].want /\ conn'[c].next = conn[c].next
          /\ \A d \in Connections : d # c => conn'[d] = conn[d]
      BY SMT, <2>1, <1>a DEF TypeOK, SessionOK, Session
    <2> QED
      BY SMT, <1>7, <2>2 DEF Refresh, refreshSessionLease, Keeps
  <1>8. ASSUME NEW c \in Connections, FencedClose(c) PROVE Keeps(u)
    <2>1. /\ conn'[c].uid = conn[c].uid /\ conn'[c].lease = conn[c].lease
          /\ conn'[c].want = conn[c].want /\ conn'[c].next = conn[c].next
          /\ \A d \in Connections : d # c => conn'[d] = conn[d]
      BY SMT, <1>8, <1>a DEF FencedClose, TypeOK, SessionOK, Session
    <2> QED
      BY SMT, <1>8, <2>1 DEF FencedClose, Keeps
  <1>9. ASSUME NEW c \in Connections, Forward(c) PROVE Keeps(u)
    <2>1. /\ conn'[c].uid = conn[c].uid /\ conn'[c].lease = conn[c].lease
          /\ conn'[c].want = conn[c].want /\ conn'[c].next = conn[c].next
          /\ \A d \in Connections : d # c => conn'[d] = conn[d]
      BY SMT, <1>9, <1>a DEF Forward, TypeOK, SessionOK, Session
    <2> QED
      BY SMT, <1>9, <2>1 DEF Forward, Keeps
  <1>10. ASSUME NEW c \in Connections, CloseInContext(c) PROVE Keeps(u)
    <2>1. /\ conn'[c].uid = conn[c].uid /\ conn'[c].lease = conn[c].lease
          /\ conn'[c].want = conn[c].want /\ conn'[c].next = conn[c].next
          /\ \A d \in Connections : d # c => conn'[d] = conn[d]
      BY SMT, <1>10, <1>a DEF CloseInContext, TypeOK, SessionOK, Session
    <2> QED
      BY SMT, <1>10, <2>1 DEF CloseInContext, Keeps
  <1>11. ASSUME NEW c \in Connections, LeaveLoop(c) PROVE Keeps(u)
    <2>1. /\ \/ conn'[c].uid = conn[c].uid /\ conn'[c].lease = conn[c].lease
             \/ conn'[c].uid = NoOne
          /\ conn'[c].next = NoLease
          /\ \A d \in Connections : d # c => conn'[d] = conn[d]
      BY SMT, <1>11, <1>a DEF LeaveLoop, GoneSession, NewSession, TypeOK, SessionOK, Session
    <2> QED
      BY SMT, <1>11, <2>1 DEF LeaveLoop, Keeps
  <1>12. ASSUME NEW c \in Connections, RemoveLocal(c) PROVE Keeps(u)
    <2>1. /\ \/ conn'[c].uid = conn[c].uid /\ conn'[c].lease = conn[c].lease
             \/ conn'[c].uid = NoOne
          /\ conn'[c].next = NoLease
          /\ \A d \in Connections : d # c => conn'[d] = conn[d]
      <3>1. CASE conn' = [conn EXCEPT ![c] = GoneSession]
        BY <1>a, <3>1 DEF GoneSession, NewSession, TypeOK
      <3>2. CASE conn' = [conn EXCEPT ![c] = [@ EXCEPT !.pc = "clearing"]]
        <4>1. conn[c] \in Session /\ conn[c].next = NoLease
          BY <1>12, <1>a DEF RemoveLocal, TypeOK, SessionOK
        <4> QED
          BY SMT, <1>a, <3>2, <4>1 DEF TypeOK, Session
      <3> QED
        BY <1>12, <3>1, <3>2 DEF RemoveLocal
    <2>2. \/ sessions' = sessions
          \/ sessions' = [sessions EXCEPT ![conn[c].gateway][conn[c].uid] = NoSession]
      BY <1>12 DEF RemoveLocal
    <2>3. ASSUME NEW g \in Gateways
          PROVE  sessions'[g][u].lease \in {sessions[g][u].lease, NoLease}
      BY SMT, <1>a, <2>2 DEF TypeOK, NoSession
    <2> QED
      BY SMT, <1>12, <2>1, <2>3 DEF RemoveLocal, Keeps
  <1>13. ASSUME NEW c \in Connections, RemoveRedis(c) PROVE Keeps(u)
    <2>1. /\ conn'[c].uid = NoOne /\ conn'[c].want = NoOne
          /\ \A d \in Connections : d # c => conn'[d] = conn[d]
      BY ZenonT(30), <1>13, <1>a DEF RemoveRedis, GoneSession, NewSession, TypeOK
    <2>2. redis'[u] \in {redis[u], NoLease} /\ generation' = generation
      BY SMT, <1>13, <1>a DEF RemoveRedis, clearSessionLease, TypeOK
    <2> QED
      BY SMT, <1>13, <2>1, <2>2 DEF RemoveRedis, Keeps
  <1>14. ASSUME NEW m \in commands, Fence(m) PROVE Keeps(u)
    <2>1. [m EXCEPT !.rejected = TRUE].uid = m.uid /\ [m EXCEPT !.rejected = TRUE].lease = m.lease
      BY SMT, <1>a DEF TypeOK, Command
    <2>2. \A k \in commands' : \E j \in commands : k.uid = j.uid /\ k.lease = j.lease
      <3>1. commands' \subseteq commands \cup {[m EXCEPT !.rejected = TRUE]}
        BY <1>14 DEF Fence
      <3> QED
        BY <2>1, <3>1, m \in commands
    <2>3. UNCHANGED <<generation, redis, sessions, conn>>
      BY <1>14 DEF Fence
    <2> QED
      BY SMT, <2>2, <2>3 DEF Keeps
  <1>15. ASSUME NEW m \in commands, Rejected(m) PROVE Keeps(u)
    <2>1. \A d \in Connections : /\ conn'[d].uid = conn[d].uid /\ conn'[d].lease = conn[d].lease
                                  /\ conn'[d].want = conn[d].want /\ conn'[d].next = conn[d].next
      BY SMT, <1>15, <1>a DEF Rejected, SessionOK, Session
    <2> QED
      BY SMT, <1>15, <2>1 DEF Rejected, Keeps
  <1>16. ASSUME NEW g \in Gateways, Restart(g) PROVE Keeps(u)
    <2>1. \A d \in Connections : conn'[d] = conn[d] \/ (conn'[d].uid = NoOne /\ conn'[d].want = NoOne)
      BY <1>16 DEF Restart, GoneSession, NewSession
    <2>2. \A h \in Gateways : sessions'[h][u].lease \in {sessions[h][u].lease, NoLease}
      BY SMT, <1>16, <1>a DEF Restart, TypeOK, NoSession
    <2> QED
      BY SMT, <1>16, <2>1, <2>2 DEF Restart, Keeps
  <1>17. ASSUME NEW v \in Users, Age(v) PROVE Keeps(u)
    BY SMT, <1>17 DEF Age, Keeps
  <1>18. ASSUME NEW v \in Users, Expire(v) PROVE Keeps(u)
    <2>1. redis'[u] \in {redis[u], NoLease}
      BY <1>18, <1>a DEF Expire, TypeOK
    <2> QED
      BY SMT, <1>18, <2>1 DEF Expire, Keeps
  <1> QED
    BY <1>0, <1>1, <1>2, <1>3, <1>4, <1>5, <1>6, <1>7, <1>8, <1>9, <1>10, <1>11, <1>12,
       <1>13, <1>14, <1>15, <1>16, <1>17, <1>18 DEF Next

\* The second layer holds initially: there are no leases.
LEMMA Inv2Init == Init => Inv2
  <1> SUFFICES ASSUME Init PROVE Inv2
    OBVIOUS
  <1>1. ASSUME NEW u \in Users, NEW l \in LeasesOf(u) PROVE FALSE
    BY <1>1, LeasesOfBefore, NoOneAssumption DEF Init, NewSession, NoSession
  <1> QED
    BY SMT, <1>1 DEF Init, Inv2, LeaseIsNewest, GenerationsUnique

\* The fence moves the history only to the current generation.
LEMMA PassedStep ==
    ASSUME Inv1, LeaseIsNewest, [Next]_vars, NEW u \in Users
    PROVE  \/ lastPassed'[u] = lastPassed[u]
           \/ lastPassed'[u] = generation[u]
  <1>1. ASSUME NEW m \in commands, Fence(m)
        PROVE  lastPassed'[u] = lastPassed[u] \/ lastPassed'[u] = generation[u]
    <2>1. CASE FenceAccepts(m)
      <3>1. m.uid \in Users
        BY DEF Inv1, TypeOK, Command
      <3>2. m.lease.generation = generation[m.uid]
        BY <2>1, <3>1 DEF FenceAccepts, LeaseIsNewest
      <3> QED
        BY <1>1, <2>1, <3>1, <3>2 DEF Fence, Inv1, TypeOK
    <2>2. CASE ~FenceAccepts(m)
      BY <1>1, <2>2 DEF Fence
    <2> QED
      BY <2>1, <2>2
  <1>2. CASE ~\E m \in commands : Fence(m)
    BY <1>2 DEF Next, vars, Connect, LoginStart, BindRedis, BindRedisFails, BindLocal, LoginDone,
       Refresh, FencedClose, Forward, CloseInContext, LeaveLoop, RemoveLocal, RemoveRedis,
       Rejected, Restart, Age, Expire
  <1> QED
    BY <1>1, <1>2

\* What LeasesOf collects are proper leases.
LEMMA LeasesAreLeases ==
    ASSUME Inv1, NEW u \in Users, NEW l \in LeasesOf(u)
    PROVE  l \in Lease
  BY SMT, LeasesOfBefore, NoOneAssumption
     DEF Inv1, TypeOK, Session, LocalSession, NoSession, Command

\* The second layer is inductive, given the first.
LEMMA Inv2Next == Inv1 /\ Inv2 /\ [Next]_vars => Inv2'
  <1> SUFFICES ASSUME Inv1, Inv2, [Next]_vars PROVE Inv2'
    OBVIOUS
  <1>1. ASSUME NEW u \in Users
        PROVE  Keeps(u) \/ Publishes(u)
    BY LeasesStep
  <1>2. generation \in [Users -> Nat] /\ lastPassed \in [Users -> Nat]
    BY DEF Inv1, TypeOK
  <1>3. ASSUME NEW u \in Users PROVE redis'[u] # NoLease => redis'[u].generation = generation'[u]
    BY <1>1, <1>2 DEF Inv2, LeaseIsNewest, Keeps, Publishes, NoLease
  <1>4. ASSUME NEW u \in Users, NEW l \in LeasesOf(u)' PROVE l.generation <= generation'[u]
    <2>1. CASE Keeps(u)
      BY <1>4, <2>1 DEF Inv2, Keeps
    <2>2. CASE Publishes(u)
      <3>1. CASE l \in LeasesOf(u)
        <4>1. l.generation \in Nat /\ l.generation <= generation[u]
          BY <3>1, LeasesAreLeases DEF Inv2, Lease
        <4> QED
          BY SMT, <1>2, <2>2, <4>1 DEF Publishes
      <3>2. CASE l = redis'[u]
        BY SMT, <1>2, <2>2, <3>2 DEF Publishes
      <3> QED
        BY <1>4, <2>2, <3>1, <3>2 DEF Publishes
    <2> QED
      BY <1>1, <2>1, <2>2
  <1>5. ASSUME NEW u \in Users, NEW l \in LeasesOf(u)', NEW k \in LeasesOf(u)',
               l.generation = k.generation
        PROVE  l = k
    <2>1. CASE Keeps(u)
      BY <1>5, <2>1 DEF Inv2, GenerationsUnique, Keeps
    <2>2. CASE Publishes(u)
      <3>1. ASSUME NEW j \in LeasesOf(u) PROVE j.generation # generation[u] + 1
        <4>1. j.generation \in Nat /\ j.generation <= generation[u]
          BY <3>1, LeasesAreLeases DEF Inv2, Lease
        <4> QED
          BY SMT, <1>2, <4>1
      <3> QED
        BY <1>5, <2>2, <3>1 DEF Inv2, GenerationsUnique, Publishes
    <2> QED
      BY <1>1, <2>1, <2>2
  <1>6. ASSUME NEW u \in Users PROVE lastPassed'[u] <= generation'[u]
    <2>1. lastPassed'[u] \in Nat /\ lastPassed'[u] <= generation[u]
      BY SMT, <1>2, PassedStep DEF Inv2
    <2>2. generation'[u] = generation[u] \/ generation'[u] = generation[u] + 1
      BY <1>1 DEF Keeps, Publishes
    <2> QED
      BY SMT, <1>2, <2>1, <2>2
  <1> QED
    BY <1>3, <1>4, <1>5, <1>6 DEF Inv2, LeaseIsNewest, GenerationsUnique

\* The lease invariant holds in every reachable state.
THEOREM Inv2Holds == Spec => [](Inv1 /\ Inv2)
  BY Inv1Init, Inv2Init, Inv1Next, Inv2Next, PTL DEF Spec

\* The lease in Redis is always the one of the user's latest login.
THEOREM LeaseNewest == Spec => []LeaseIsNewest
  <1>1. Inv1 /\ Inv2 => LeaseIsNewest
    BY DEF Inv2
  <1> QED
    BY <1>1, Inv2Holds, PTL

\* Leases of a user with equal generations are equal, wherever they are held.
THEOREM UniqueGenerations == Spec => []GenerationsUnique
  <1>1. Inv1 /\ Inv2 => GenerationsUnique
    BY DEF Inv2
  <1> QED
    BY <1>1, Inv2Holds, PTL

\* The fence never lets a command of an older login through after one of a
\* newer login.
THEOREM FenceIsMonotone == Spec => FencedMonotone
  <1>1. Inv1 /\ Inv2 /\ [Next]_vars => [\A u \in Users : lastPassed'[u] >= lastPassed[u]]_vars
    <2> SUFFICES ASSUME Inv1, Inv2, [Next]_vars, NEW u \in Users
                 PROVE  lastPassed'[u] >= lastPassed[u]
      OBVIOUS
    <2>1. lastPassed[u] \in Nat /\ generation[u] \in Nat /\ lastPassed[u] <= generation[u]
      BY DEF Inv1, TypeOK, Inv2
    <2> QED
      BY SMT, <2>1, PassedStep DEF Inv2
  <1> QED
    BY <1>1, Inv2Holds, PTL DEF Spec, FencedMonotone

\* Only the clean-up of the connection a lease names removes it before its
\* TTL has run down.
THEOREM ClearsOwn == Spec => ClearsOwnLeaseOnly
  <1>1. ASSUME Inv1, [Next]_vars, NEW u \in Users,
               redis[u] # NoLease, redis'[u] = NoLease, fresh[u]
        PROVE  conn[redis[u].conn].pc = "clearing"
    <2>1. ASSUME NEW c \in Connections, RemoveRedis(c)
          PROVE  conn[redis[u].conn].pc = "clearing"
      <3>1. /\ conn[c].pc = "clearing" /\ conn[c].uid \in Users
            /\ conn[c].lease.conn = c
        BY <1>1, <2>1, NoOneAssumption DEF RemoveRedis, Inv1, ConnOK, SessionOK, Session
      <3>2. CASE clearSessionLease(conn[c].uid, conn[c].lease)
        <4>1. u = conn[c].uid /\ redis[u] = conn[c].lease
          BY <1>1, <3>1, <3>2 DEF clearSessionLease, Holds, Inv1, TypeOK
        <4> QED
          BY <3>1, <4>1
      <3>3. CASE redis' = redis
        BY <1>1, <3>3
      <3> QED
        BY <2>1, <3>2, <3>3 DEF RemoveRedis
    <2>2. ASSUME NEW c \in Connections, NEW v \in Users, bindSessionLease(v, c) PROVE FALSE
      <3>1. redis'[u] = redis[u] \/ redis'[u].generation = generation[u] + 1
        BY SMT, <2>2 DEF bindSessionLease, Inv1, TypeOK
      <3> QED
        BY SMT, <1>1, <3>1 DEF NoLease, Inv1, TypeOK
    <2>3. ASSUME NEW c \in Connections, BindRedis(c) \/ BindRedisFails(c) PROVE FALSE
      <3>1. conn[c].want \in Users
        BY <1>1, <2>3 DEF BindRedis, BindRedisFails, Inv1, ConnOK, SessionOK
      <3>2. CASE bindSessionLease(conn[c].want, c)
        BY <2>2, <3>1, <3>2
      <3>3. CASE redis' = redis
        BY <1>1, <3>3
      <3> QED
        BY <2>3, <3>2, <3>3 DEF BindRedis, BindRedisFails
    <2>4. ASSUME NEW v \in Users, Expire(v) PROVE FALSE
      BY <1>1, <2>4 DEF Expire, Inv1, TypeOK
    <2> QED
      BY <1>1, <2>1, <2>3, <2>4 DEF Next, vars, Connect, LoginStart, BindLocal, LoginDone,
         Refresh, refreshSessionLease, FencedClose, Forward, CloseInContext, LeaveLoop,
         RemoveLocal, Fence, Rejected, Restart, Age
  <1>2. Inv1 /\ [Next]_vars => [\A u \in Users : redis[u] # NoLease /\ redis'[u] = NoLease /\ fresh[u]
                                   => conn[redis[u].conn].pc = "clearing"]_vars
    BY <1>1
  <1> QED
    BY <1>2, Inv1Init, Inv1Next, PTL DEF Spec, ClearsOwnLeaseOnly

-----------------------------------------------------------------------------
(* Third layer: the registry.  An entry names a session of its own gateway  *)
(* that is registered for its user and has not passed Remove; a session     *)
(* that is open is the entry.  Each half needs the other: Remove may erase  *)
(* an entry whose session is destroyed, and only the first half says that   *)
(* there is none.                                                           *)

Standing(c, u) == Registered(c, u) /\ conn[c].pc \notin {"gone", "clearing"}

Open(c, u) == /\ Registered(c, u) /\ conn[c].pc # "gone"
              /\ ~conn[c].closed /\ ~conn[c].closing

EntriesStand ==
    \A g \in Gateways, u \in Users, c \in Connections :
        sessions[g][u].conn = c => conn[c].gateway = g /\ Standing(c, u)

OpenIsEntry ==
    \A c \in Connections, u \in Users :
        Open(c, u) => sessions[conn[c].gateway][u].conn = c

Inv3 == EntriesStand /\ OpenIsEntry

\* A step that leaves the registries alone, lets no standing session fall and
\* opens none.
LEMMA QuietStep ==
    ASSUME Inv3, sessions' = sessions,
           \A c \in Connections, u \in Users :
               Standing(c, u) => Standing(c, u)' /\ conn'[c].gateway = conn[c].gateway,
           \A c \in Connections, u \in Users :
               Open(c, u)' => Open(c, u) /\ conn'[c].gateway = conn[c].gateway
    PROVE  Inv3'
  <1>1. EntriesStand'
    BY ZenonT(30) DEF Inv3, EntriesStand
  <1>2. OpenIsEntry'
    BY SMT DEF Inv3, OpenIsEntry
  <1> QED
    BY <1>1, <1>2 DEF Inv3

\* The same, for a step that changes one session.
LEMMA QuietSession ==
    ASSUME Inv3, sessions' = sessions, NEW c \in Connections,
           \A d \in Connections : d # c => conn'[d] = conn[d],
           \A u \in Users :
               Standing(c, u) => Standing(c, u)' /\ conn'[c].gateway = conn[c].gateway,
           \A u \in Users :
               Open(c, u)' => Open(c, u) /\ conn'[c].gateway = conn[c].gateway
    PROVE  Inv3'
  <1>1. ASSUME NEW d \in Connections, d # c, NEW u \in Users
        PROVE  (Standing(d, u)' <=> Standing(d, u)) /\ (Open(d, u)' <=> Open(d, u))
    BY <1>1 DEF Standing, Open, Registered
  <1>2. \A d \in Connections, u \in Users :
            Standing(d, u) => Standing(d, u)' /\ conn'[d].gateway = conn[d].gateway
    BY <1>1
  <1>3. \A d \in Connections, u \in Users :
            Open(d, u)' => Open(d, u) /\ conn'[d].gateway = conn[d].gateway
    BY <1>1
  <1> QED
    BY <1>2, <1>3, QuietStep

\* The third layer holds initially: the registries are empty.
LEMMA Inv3Init == Init => Inv3
  BY SMT, NoOneAssumption
     DEF Init, Inv3, EntriesStand, OpenIsEntry, Open, Registered, NewSession, NoSession

\* BindLocal puts the entry in place and posts Close to the one it replaces.
LEMMA BindLocalRegistry ==
    ASSUME Inv1, Inv3, NEW c \in Connections, BindLocal(c)
    PROVE  Inv3'
  <1> DEFINE g == conn[c].gateway
             u == conn[c].want
             old == sessions[g][u].conn
  <1>1. /\ conn[c].pc = "bound" /\ g \in Gateways /\ u \in Users
        /\ conn[c].uid \in {NoOne, u}
        /\ conn \in [Connections -> Session]
        /\ sessions \in [Gateways -> [Users -> LocalSession \cup {NoSession}]]
    BY SMT, NoOneAssumption DEF BindLocal, Inv1, TypeOK, ConnOK, SessionOK
  <1>2. /\ sessions' = [sessions EXCEPT ![g][u] = [conn |-> c, lease |-> conn[c].next]]
        /\ conn'[c] = [conn[c] EXCEPT !.pc = "loggedIn"]
        /\ \A d \in Connections : d # c =>
              conn'[d] = IF d = old /\ Alive(d) THEN [conn[d] EXCEPT !.closing = TRUE] ELSE conn[d]
    BY <1>1 DEF BindLocal
  <1>3. /\ conn'[c].pc = "loggedIn" /\ conn'[c].want = u /\ conn'[c].uid = conn[c].uid
        /\ conn'[c].gateway = g /\ conn'[c].closed = conn[c].closed
        /\ conn'[c].closing = conn[c].closing
    BY SMT, <1>1, <1>2 DEF Session
  <1>4. ASSUME NEW d \in Connections, d # c
        PROVE  /\ conn'[d].pc = conn[d].pc /\ conn'[d].want = conn[d].want
               /\ conn'[d].uid = conn[d].uid /\ conn'[d].gateway = conn[d].gateway
               /\ conn'[d].closed = conn[d].closed
               /\ \/ conn'[d].closing = conn[d].closing /\ ~(d = old /\ Alive(d))
                  \/ conn'[d].closing = TRUE
    <2>1. conn[d] \in Session
      BY <1>1
    <2>2. CASE d = old /\ Alive(d)
      BY <1>2, <1>4, <2>1, <2>2 DEF Session
    <2>3. CASE ~(d = old /\ Alive(d))
      BY <1>2, <1>4, <2>3
    <2> QED
      BY <2>2, <2>3
  <1>5. ASSUME NEW h \in Gateways, NEW v \in Users
        PROVE  \/ h = g /\ v = u /\ sessions'[h][v].conn = c
               \/ ~(h = g /\ v = u) /\ sessions'[h][v] = sessions[h][v]
    BY <1>1, <1>2
  <1> HIDE DEF g, u, old
  <1>6. EntriesStand'
    <2> SUFFICES ASSUME NEW h \in Gateways, NEW v \in Users, NEW d \in Connections,
                        sessions'[h][v].conn = d
                 PROVE  conn'[d].gateway = h /\ Standing(d, v)'
      BY DEF EntriesStand
    <2>1. CASE h = g /\ v = u
      BY <1>3, <1>5, <2>1 DEF Standing, Registered
    <2>2. CASE ~(h = g /\ v = u)
      <3>1. conn[d].gateway = h /\ Standing(d, v)
        BY SMT, <1>5, <2>2 DEF Inv3, EntriesStand
      <3>2. CASE d = c
        BY <1>1, <1>3, <3>1, <3>2 DEF Standing, Registered, g
      <3>3. CASE d # c
        BY <1>4, <3>1, <3>3 DEF Standing, Registered
      <3> QED
        BY <3>2, <3>3
    <2> QED
      BY <2>1, <2>2
  <1>7. OpenIsEntry'
    <2> SUFFICES ASSUME NEW d \in Connections, NEW v \in Users, Open(d, v)'
                 PROVE  sessions'[conn'[d].gateway][v].conn = d
      BY DEF OpenIsEntry
    <2>1. CASE d = c
      BY SMT, <1>1, <1>3, <1>5, <2>1, NoOneAssumption DEF Open, Registered
    <2>2. CASE d # c
      <3>1. Open(d, v) /\ conn'[d].gateway = conn[d].gateway /\ ~(d = old /\ Alive(d))
        BY <1>4, <2>2 DEF Open, Registered
      <3>2. conn[d].gateway \in Gateways
        BY SMT, <3>1, NoOneAssumption DEF Open, Registered, Inv1, ConnOK, SessionOK
      <3>3. sessions[conn[d].gateway][v].conn = d /\ Alive(d)
        BY <3>1, NoOneAssumption DEF Inv3, OpenIsEntry, Open, Alive
      <3>4. ~(conn[d].gateway = g /\ v = u)
        BY <3>1, <3>3 DEF old
      <3> QED
        BY <1>5, <3>1, <3>2, <3>3, <3>4
    <2> QED
      BY <2>1, <2>2
  <1> QED
    BY <1>6, <1>7 DEF Inv3

\* Remove erases the entry of the connection that ends, or leaves the registry
\* to the session that has replaced it.
LEMMA RemoveLocalRegistry ==
    ASSUME Inv1, Inv3, NEW c \in Connections, RemoveLocal(c)
    PROVE  Inv3'
  <1> DEFINE g == conn[c].gateway
             u == conn[c].uid
             current == sessions[g][u].conn
  <1>1. /\ conn[c].pc = "removing" /\ g \in Gateways /\ u \in Users /\ conn[c].closed
        /\ conn[c] \in Session /\ conn \in [Connections -> Session]
        /\ sessions \in [Gateways -> [Users -> LocalSession \cup {NoSession}]]
    BY NoOneAssumption DEF RemoveLocal, Inv1, TypeOK, ConnOK, SessionOK, Session
  <1>2. \A d \in Connections : d # c => conn'[d] = conn[d]
    BY <1>1 DEF RemoveLocal
  <1>3. current \in Connections => Alive(current)
    BY SMT, <1>1, NoOneAssumption DEF Inv3, EntriesStand, Standing, Alive
  <1>4. current \in Connections \cup {NoOne}
    BY SMT, <1>1 DEF LocalSession, NoSession
  <1>5. ASSUME NEW v \in Users PROVE ~Open(c, v)'
    <2>1. conn'[c].pc = "gone" \/ conn'[c].closed
      <3>1. CASE conn' = [conn EXCEPT ![c] = GoneSession]
        BY <1>1, <3>1 DEF GoneSession, NewSession
      <3>2. CASE conn' = [conn EXCEPT ![c] = [@ EXCEPT !.pc = "clearing"]]
        BY <1>1, <3>2 DEF Session
      <3> QED
        BY <3>1, <3>2 DEF RemoveLocal
    <2> QED
      BY <2>1 DEF Open
  <1>6. ASSUME NEW h \in Gateways, NEW v \in Users, sessions[h][v].conn = c
        PROVE  h = g /\ v = u
    BY SMT, <1>1, <1>6 DEF Inv3, EntriesStand, Standing, Registered
  <1>7. CASE current = c
    <2>1. sessions' = [sessions EXCEPT ![g][u] = NoSession]
      BY <1>7, NoOneAssumption DEF RemoveLocal
    <2>2. ASSUME NEW h \in Gateways, NEW v \in Users
          PROVE  \/ h = g /\ v = u /\ sessions'[h][v] = NoSession
                 \/ ~(h = g /\ v = u) /\ sessions'[h][v] = sessions[h][v]
      BY <1>1, <2>1
    <2> HIDE DEF g, u, current
    <2>3. EntriesStand'
      <3> SUFFICES ASSUME NEW h \in Gateways, NEW v \in Users, NEW d \in Connections,
                          sessions'[h][v].conn = d
                   PROVE  conn'[d].gateway = h /\ Standing(d, v)'
        BY DEF EntriesStand
      <3>1. sessions[h][v].conn = d /\ d # c
        BY SMT, <1>6, <2>2, NoOneAssumption DEF NoSession
      <3> QED
        BY SMT, <1>2, <3>1 DEF Inv3, EntriesStand, Standing, Registered
    <2>4. OpenIsEntry'
      <3> SUFFICES ASSUME NEW d \in Connections, NEW v \in Users, Open(d, v)'
                   PROVE  sessions'[conn'[d].gateway][v].conn = d
        BY DEF OpenIsEntry
      <3>1. d # c /\ conn'[d] = conn[d]
        BY <1>2, <1>5
      <3>2. Open(d, v)
        BY SMT, <3>1 DEF Open, Registered
      <3>3. conn[d].gateway \in Gateways
        BY SMT, <3>2, NoOneAssumption DEF Open, Registered, Inv1, ConnOK, SessionOK
      <3>4. sessions[conn[d].gateway][v].conn = d
        BY <3>2 DEF Inv3, OpenIsEntry
      <3> QED
        BY <1>7, <2>2, <3>1, <3>3, <3>4 DEF current
    <2> QED
      BY <2>3, <2>4 DEF Inv3
  <1>8. CASE current # c
    <2>1. sessions' = sessions /\ conn'[c] = GoneSession
      BY <1>1, <1>3, <1>4, <1>8 DEF RemoveLocal
    <2> HIDE DEF g, u, current
    <2>2. EntriesStand'
      <3> SUFFICES ASSUME NEW h \in Gateways, NEW v \in Users, NEW d \in Connections,
                          sessions[h][v].conn = d
                   PROVE  conn'[d].gateway = h /\ Standing(d, v)'
        BY <2>1 DEF EntriesStand
      <3>1. d # c
        BY <1>6, <1>8 DEF current
      <3> QED
        BY SMT, <1>2, <3>1 DEF Inv3, EntriesStand, Standing, Registered
    <2>3. OpenIsEntry'
      <3> SUFFICES ASSUME NEW d \in Connections, NEW v \in Users, Open(d, v)'
                   PROVE  sessions[conn'[d].gateway][v].conn = d
        BY <2>1 DEF OpenIsEntry
      <3>1. d # c /\ conn'[d] = conn[d]
        BY <1>2, <1>5
      <3> QED
        BY <3>1 DEF Open, Registered, Inv3, OpenIsEntry
    <2> QED
      BY <2>2, <2>3 DEF Inv3
  <1> QED
    BY <1>7, <1>8

\* A restart empties one registry and ends exactly its sessions.
LEMMA RestartRegistry ==
    ASSUME Inv1, Inv3, NEW g \in Gateways, Restart(g)
    PROVE  Inv3'
  <1>1. /\ sessions'[g] = [u \in Users |-> NoSession]
        /\ \A h \in Gateways : h # g => sessions'[h] = sessions[h]
    BY DEF Restart, Inv1, TypeOK
  <1>2. \A c \in Connections : conn'[c] = IF conn[c].gateway = g THEN GoneSession ELSE conn[c]
    BY DEF Restart
  <1>3. EntriesStand'
    <2> SUFFICES ASSUME NEW h \in Gateways, NEW v \in Users, NEW d \in Connections,
                        sessions'[h][v].conn = d
                 PROVE  conn'[d].gateway = h /\ Standing(d, v)'
      BY DEF EntriesStand
    <2>1. h # g /\ sessions[h][v].conn = d
      BY SMT, <1>1, NoOneAssumption DEF NoSession
    <2>2. conn[d].gateway = h /\ Standing(d, v)
      BY <2>1 DEF Inv3, EntriesStand
    <2> QED
      BY <1>2, <2>1, <2>2 DEF Standing, Registered
  <1>4. OpenIsEntry'
    <2> SUFFICES ASSUME NEW d \in Connections, NEW v \in Users, Open(d, v)'
                 PROVE  sessions'[conn'[d].gateway][v].conn = d
      BY DEF OpenIsEntry
    <2>1. conn'[d].pc # "gone"
      BY DEF Open
    <2>2. conn'[d] = conn[d] /\ conn[d].gateway # g
      BY <1>2, <2>1 DEF GoneSession, NewSession
    <2>3. Open(d, v)
      BY <2>2 DEF Open, Registered
    <2>4. conn[d].gateway \in Gateways
      BY SMT, <2>3, NoOneAssumption DEF Open, Registered, Inv1, ConnOK, SessionOK
    <2> QED
      BY SMT, <1>1, <2>2, <2>3, <2>4 DEF Inv3, OpenIsEntry
  <1> QED
    BY <1>3, <1>4 DEF Inv3

\* The third layer is inductive, given the first.
LEMMA Inv3Next == Inv1 /\ Inv3 /\ [Next]_vars => Inv3'
  <1> SUFFICES ASSUME Inv1, Inv3, [Next]_vars PROVE Inv3'
    OBVIOUS
  <1>a. conn \in [Connections -> Session] /\ \A c \in Connections : SessionOK(c, conn[c])
    BY DEF Inv1, TypeOK, ConnOK
  <1> USE NoOneAssumption
  <1>0. CASE UNCHANGED vars
    BY SMT, <1>0 DEF vars, Inv3, EntriesStand, OpenIsEntry, Standing, Open, Registered
  <1>1. ASSUME NEW c \in Connections, NEW g \in Gateways, Connect(c, g) PROVE Inv3'
    <2>1. /\ conn'[c].pc = "reading" /\ conn'[c].uid = NoOne
          /\ \A d \in Connections : d # c => conn'[d] = conn[d]
      BY SMT, <1>1, <1>a DEF Connect, SessionOK, Session
    <2>2. \A u \in Users : Standing(c, u) => Standing(c, u)' /\ conn'[c].gateway = conn[c].gateway
      BY SMT, <1>1, <2>1, <1>a DEF Connect, Standing, Registered, SessionOK
    <2>3. \A u \in Users : Open(c, u)' => Open(c, u) /\ conn'[c].gateway = conn[c].gateway
      BY <1>1, <2>1, <1>a DEF Connect, Open, Registered, SessionOK
    <2> QED
      BY <1>1, <2>1, <2>2, <2>3, QuietSession DEF Connect
  <1>2. ASSUME NEW c \in Connections, NEW v \in Users, LoginStart(c, v) PROVE Inv3'
    <2>1. /\ conn'[c].pc = "binding"
          /\ conn'[c].gateway = conn[c].gateway
          /\ conn'[c].uid = conn[c].uid /\ conn'[c].closed = conn[c].closed /\ conn'[c].closing = conn[c].closing
          /\ \A d \in Connections : d # c => conn'[d] = conn[d]
      BY SMT, <1>2, <1>a DEF LoginStart, SessionOK, Session
    <2>2. \A u \in Users : Standing(c, u) => Standing(c, u)' /\ conn'[c].gateway = conn[c].gateway
      BY <1>2, <2>1, <1>a DEF LoginStart, Standing, Registered, SessionOK
    <2>3. \A u \in Users : Open(c, u)' => Open(c, u) /\ conn'[c].gateway = conn[c].gateway
      BY <1>2, <2>1, <1>a DEF LoginStart, Open, Registered, SessionOK
    <2> QED
      BY <1>2, <2>1, <2>2, <2>3, QuietSession DEF LoginStart
  <1>3. ASSUME NEW c \in Connections, BindRedis(c) PROVE Inv3'
    <2>1. /\ conn'[c].pc = "bound"
          /\ conn'[c].gateway = conn[c].gateway
          /\ conn'[c].uid = conn[c].uid /\ conn'[c].closed = conn[c].closed /\ conn'[c].closing = conn[c].closing
          /\ \A d \in Connections : d # c => conn'[d] = conn[d]
      BY SMT, <1>3, <1>a DEF BindRedis, SessionOK, Session
    <2>2. \A u \in Users : Standing(c, u) => Standing(c, u)' /\ conn'[c].gateway = conn[c].gateway
      BY <1>3, <2>1, <1>a DEF BindRedis, Standing, Registered, SessionOK
    <2>3. \A u \in Users : Open(c, u)' => Open(c, u) /\ conn'[c].gateway = conn[c].gateway
      BY <1>3, <2>1, <1>a DEF BindRedis, Open, Registered, SessionOK
    <2> QED
      BY <1>3, <2>1, <2>2, <2>3, QuietSession DEF BindRedis
  <1>4. ASSUME NEW c \in Connections, BindRedisFails(c) PROVE Inv3'
    <2>1. /\ conn'[c].pc = "reading"
          /\ conn'[c].gateway = conn[c].gateway
          /\ conn'[c].uid = conn[c].uid /\ conn'[c].closed = conn[c].closed /\ conn'[c].closing = conn[c].closing
          /\ \A d \in Connections : d # c => conn'[d] = conn[d]
      BY SMT, <1>4, <1>a DEF BindRedisFails, SessionOK, Session
    <2>2. \A u \in Users : Standing(c, u) => Standing(c, u)' /\ conn'[c].gateway = conn[c].gateway
      BY <1>4, <2>1, <1>a DEF BindRedisFails, Standing, Registered, SessionOK
    <2>3. \A u \in Users : Open(c, u)' => Open(c, u) /\ conn'[c].gateway = conn[c].gateway
      BY <1>4, <2>1, <1>a DEF BindRedisFails, Open, Registered, SessionOK
    <2> QED
      BY <1>4, <2>1, <2>2, <2>3, QuietSession DEF BindRedisFails
  <1>5. ASSUME NEW c \in Connections, BindLocal(c) PROVE Inv3'
    BY <1>5, BindLocalRegistry
  <1>6. ASSUME NEW c \in Connections, LoginDone(c) PROVE Inv3'
    <2>1. /\ conn'[c].pc = "reading"
          /\ conn'[c].gateway = conn[c].gateway
          /\ conn'[c].uid = conn[c].want
          /\ conn'[c].closed = conn[c].closed /\ conn'[c].closing = conn[c].closing
          /\ \A d \in Connections : d # c => conn'[d] = conn[d]
      BY SMT, <1>6, <1>a DEF LoginDone, SessionOK, Session
    <2>2. \A u \in Users : Standing(c, u) => Standing(c, u)' /\ conn'[c].gateway = conn[c].gateway
      BY SMT, <1>6, <2>1, <1>a DEF LoginDone, Standing, Registered, SessionOK
    <2>3. \A u \in Users : Open(c, u)' => Open(c, u) /\ conn'[c].gateway = conn[c].gateway
      BY <1>6, <2>1, <1>a DEF LoginDone, Open, Registered, SessionOK
    <2> QED
      BY <1>6, <2>1, <2>2, <2>3, QuietSession DEF LoginDone
  <1>7. ASSUME NEW c \in Connections, Refresh(c) PROVE Inv3'
    <2>1. PICK p \in {"refreshed", "fenced"} : conn' = [conn EXCEPT ![c] = [@ EXCEPT !.pc = p]]
      BY <1>7 DEF Refresh
    <2>2. /\ conn'[c].pc \in {"refreshed", "fenced"}
          /\ conn'[c].gateway = conn[c].gateway
          /\ conn'[c].uid = conn[c].uid /\ conn'[c].closed = conn[c].closed /\ conn'[c].closing = conn[c].closing
          /\ \A d \in Connections : d # c => conn'[d] = conn[d]
      BY <2>1, <1>a DEF Session
    <2>3. \A u \in Users : Standing(c, u) => Standing(c, u)' /\ conn'[c].gateway = conn[c].gateway
      BY <1>7, <2>2 DEF Refresh, Standing, Registered
    <2>4. \A u \in Users : Open(c, u)' => Open(c, u) /\ conn'[c].gateway = conn[c].gateway
      BY <1>7, <2>2 DEF Refresh, Open, Registered
    <2> QED
      BY <1>7, <2>2, <2>3, <2>4, QuietSession DEF Refresh
  <1>8. ASSUME NEW c \in Connections, FencedClose(c) PROVE Inv3'
    <2>1. /\ conn'[c].pc = "reading"
          /\ conn'[c].gateway = conn[c].gateway
          /\ conn'[c].uid = conn[c].uid /\ conn'[c].closed
          /\ \A d \in Connections : d # c => conn'[d] = conn[d]
      BY SMT, <1>8, <1>a DEF FencedClose, SessionOK, Session
    <2>2. \A u \in Users : Standing(c, u) => Standing(c, u)' /\ conn'[c].gateway = conn[c].gateway
      BY <1>8, <2>1, <1>a DEF FencedClose, Standing, Registered, SessionOK
    <2>3. \A u \in Users : Open(c, u)' => Open(c, u) /\ conn'[c].gateway = conn[c].gateway
      BY <1>8, <2>1, <1>a DEF FencedClose, Open, Registered, SessionOK
    <2> QED
      BY <1>8, <2>1, <2>2, <2>3, QuietSession DEF FencedClose
  <1>9. ASSUME NEW c \in Connections, Forward(c) PROVE Inv3'
    <2>1. /\ conn'[c].pc = "reading"
          /\ conn'[c].gateway = conn[c].gateway
          /\ conn'[c].uid = conn[c].uid /\ conn'[c].closed = conn[c].closed /\ conn'[c].closing = conn[c].closing
          /\ \A d \in Connections : d # c => conn'[d] = conn[d]
      BY SMT, <1>9, <1>a DEF Forward, SessionOK, Session
    <2>2. \A u \in Users : Standing(c, u) => Standing(c, u)' /\ conn'[c].gateway = conn[c].gateway
      BY <1>9, <2>1, <1>a DEF Forward, Standing, Registered, SessionOK
    <2>3. \A u \in Users : Open(c, u)' => Open(c, u) /\ conn'[c].gateway = conn[c].gateway
      BY <1>9, <2>1, <1>a DEF Forward, Open, Registered, SessionOK
    <2> QED
      BY <1>9, <2>1, <2>2, <2>3, QuietSession DEF Forward
  <1>10. ASSUME NEW c \in Connections, CloseInContext(c) PROVE Inv3'
    <2>1. /\ conn'[c].pc = conn[c].pc /\ conn'[c].want = conn[c].want
          /\ conn'[c].gateway = conn[c].gateway
          /\ conn'[c].uid = conn[c].uid /\ conn'[c].closed
          /\ \A d \in Connections : d # c => conn'[d] = conn[d]
      BY SMT, <1>10, <1>a DEF CloseInContext, SessionOK, Session
    <2>2. \A u \in Users : Standing(c, u) => Standing(c, u)' /\ conn'[c].gateway = conn[c].gateway
      BY <1>10, <2>1, <1>a DEF CloseInContext, Standing, Registered, SessionOK
    <2>3. \A u \in Users : Open(c, u)' => Open(c, u) /\ conn'[c].gateway = conn[c].gateway
      BY <1>10, <2>1, <1>a DEF CloseInContext, Open, Registered, SessionOK
    <2> QED
      BY <1>10, <2>1, <2>2, <2>3, QuietSession DEF CloseInContext
  <1>11. ASSUME NEW c \in Connections, LeaveLoop(c) PROVE Inv3'
    <2>1. CASE conn[c].uid # NoOne
      <3>1. conn' = [conn EXCEPT ![c] = [@ EXCEPT !.pc = "removing", !.closed = TRUE]]
        BY <1>11, <2>1 DEF LeaveLoop
      <3>2. /\ conn'[c].pc = "removing" /\ conn'[c].gateway = conn[c].gateway
            /\ conn'[c].uid = conn[c].uid /\ conn'[c].closed
            /\ \A d \in Connections : d # c => conn'[d] = conn[d]
        BY <1>a, <3>1 DEF Session
      <3>3. \A u \in Users : Standing(c, u) => Standing(c, u)' /\ conn'[c].gateway = conn[c].gateway
        BY <1>11, <3>2 DEF LeaveLoop, Standing, Registered
      <3>4. \A u \in Users : ~Open(c, u)'
        BY <3>2 DEF Open
      <3> QED
        BY <1>11, <3>2, <3>3, <3>4, QuietSession DEF LeaveLoop
    <2>2. CASE conn[c].uid = NoOne
      <3>1. /\ conn'[c].pc = "gone"
            /\ \A d \in Connections : d # c => conn'[d] = conn[d]
        BY <1>11, <1>a, <2>2 DEF LeaveLoop, GoneSession, NewSession
      <3>2. \A u \in Users : ~Standing(c, u)
        BY <1>11, <2>2 DEF LeaveLoop, Standing, Registered
      <3>3. \A u \in Users : ~Open(c, u)'
        BY <3>1 DEF Open
      <3> QED
        BY <1>11, <3>1, <3>2, <3>3, QuietSession DEF LeaveLoop
    <2> QED
      BY <2>1, <2>2
  <1>12. ASSUME NEW c \in Connections, RemoveLocal(c) PROVE Inv3'
    BY <1>12, RemoveLocalRegistry
  <1>13. ASSUME NEW c \in Connections, RemoveRedis(c) PROVE Inv3'
    <2>1. /\ conn'[c].pc = "gone"
          /\ \A d \in Connections : d # c => conn'[d] = conn[d]
      BY <1>13, <1>a DEF RemoveRedis, GoneSession, NewSession
    <2>2. \A u \in Users : ~Standing(c, u)
      BY <1>13 DEF RemoveRedis, Standing
    <2>3. \A u \in Users : ~Open(c, u)'
      BY <2>1 DEF Open
    <2> QED
      BY <1>13, <2>1, <2>2, <2>3, QuietSession DEF RemoveRedis
  <1>14. ASSUME NEW m \in commands, Fence(m) PROVE Inv3'
    BY SMT, <1>14 DEF Fence, Inv3, EntriesStand, OpenIsEntry, Standing, Open, Registered
  <1>15. ASSUME NEW m \in commands, Rejected(m) PROVE Inv3'
    <2>1. ASSUME NEW d \in Connections
          PROVE  /\ conn'[d].pc = conn[d].pc /\ conn'[d].uid = conn[d].uid
                 /\ conn'[d].want = conn[d].want /\ conn'[d].gateway = conn[d].gateway
                 /\ conn'[d].closed = conn[d].closed
                 /\ conn'[d].closing = conn[d].closing \/ conn'[d].closing = TRUE
      <3>1. conn[d] \in Session
        BY <1>a
      <3>2. conn'[d] = conn[d] \/ conn'[d] = [conn[d] EXCEPT !.closing = TRUE]
        BY <1>15 DEF Rejected
      <3> QED
        BY <3>1, <3>2 DEF Session
    <2>2. \A d \in Connections, u \in Users :
              Standing(d, u) => Standing(d, u)' /\ conn'[d].gateway = conn[d].gateway
      BY <2>1 DEF Standing, Registered
    <2>3. \A d \in Connections, u \in Users :
              Open(d, u)' => Open(d, u) /\ conn'[d].gateway = conn[d].gateway
      BY <2>1 DEF Open, Registered
    <2> QED
      BY <1>15, <2>2, <2>3, QuietStep DEF Rejected
  <1>16. ASSUME NEW g \in Gateways, Restart(g) PROVE Inv3'
    BY <1>16, RestartRegistry
  <1>17. ASSUME NEW v \in Users, Age(v) \/ Expire(v) PROVE Inv3'
    BY SMT, <1>17 DEF Age, Expire, Inv3, EntriesStand, OpenIsEntry, Standing, Open, Registered
  <1> QED
    BY <1>0, <1>1, <1>2, <1>3, <1>4, <1>5, <1>6, <1>7, <1>8, <1>9, <1>10, <1>11, <1>12,
       <1>13, <1>14, <1>15, <1>16, <1>17 DEF Next

\* The registry invariant holds in every reachable state.
THEOREM Inv3Holds == Spec => [](Inv1 /\ Inv3)
  BY Inv1Init, Inv3Init, Inv1Next, Inv3Next, PTL DEF Spec

\* On a gateway the one open connection of a user is the registered one.
THEOREM OpenRegistered == Spec => []OpenSessionIsRegistered
  <1>1. Inv1 /\ Inv3 => OpenSessionIsRegistered
    BY DEF Inv3, OpenIsEntry, Open, OpenSessionIsRegistered
  <1> QED
    BY <1>1, Inv3Holds, PTL

\* A registry entry never outlives the session it names.
THEOREM RegistryLive == Spec => []RegistryHoldsLiveSessions
  <1>1. Inv1 /\ Inv3 => RegistryHoldsLiveSessions
    <2> SUFFICES ASSUME Inv1, Inv3, NEW g \in Gateways, NEW u \in Users,
                        sessions[g][u] # NoSession
                 PROVE  Alive(sessions[g][u].conn)
      BY DEF RegistryHoldsLiveSessions
    <2>1. sessions[g][u].conn \in Connections
      BY SMT DEF Inv1, TypeOK, LocalSession
    <2> QED
      BY SMT, <2>1, NoOneAssumption DEF Inv3, EntriesStand, Standing, Alive
  <1> QED
    BY <1>1, Inv3Holds, PTL
=============================================================================
