------------------------- MODULE MessageStoreProofs -------------------------
(***************************************************************************)
(* Proofs about MessageStore, for every set of users, conversations,       *)
(* commands and workers and every bound: types, locks, sequence numbers,   *)
(* client message ids, replies, pushes and member rows, each layer on top  *)
(* of the ones before, and that the transactions implement MessageLog.     *)
(***************************************************************************)
EXTENDS MessageStore, Sequences, TLAPS

\* Zenon is the default prover; a leaf with arithmetic or sequences cites SMT.
USE Zenon

-----------------------------------------------------------------------------
(* First layer: types. *)

\* A possible request of a worker.
TxOK(t) ==
    /\ t \in Tx
    /\ t.pc # "idle" => t.cmd \in Command
    /\ t.pc \in {"begun", "inserting"} => ~t.duplicate
    /\ t.pc \in {"inserting", "committing"} => t.seq \in 1..MaxSeq

Inv1 == TypeOK /\ \A w \in Workers : TxOK(tx[w])

\* An idle worker's request is possible.
LEMMA IdleOK == TxOK(IdleTx)
  BY SMT, MessageBounds DEF TxOK, Tx, IdleTx, PC, Error

\* The request a transaction starts with is possible.
LEMMA BeginOK ==
    ASSUME NEW cmd \in Command, NEW p \in {"begun", "reply"}, NEW e \in Error,
           NEW snap \in SUBSET Row, NEW seen \in SUBSET Users
    PROVE  TxOK([pc |-> p, cmd |-> cmd, snap |-> snap, seen |-> seen, enrol |-> {},
                 seq |-> 0, duplicate |-> FALSE, error |-> e])
  <1>1. p \in PC /\ 0 \in 0..MaxSeq
    BY SMT, MessageBounds DEF PC
  <1> QED
    BY <1>1 DEF Tx, TxOK

\* The request that holds the lock is possible.
LEMMA LockOK ==
    ASSUME NEW t, TxOK(t), t.pc = "begun", NEW enrol \in SUBSET Users, NEW s \in 1..MaxSeq
    PROVE  /\ TxOK([t EXCEPT !.pc = "inserting", !.enrol = enrol, !.seq = s])
           /\ TxOK([t EXCEPT !.pc = "committing", !.enrol = enrol, !.seq = s, !.duplicate = TRUE])
  <1>1. s \in 0..MaxSeq /\ {"inserting", "committing"} \subseteq PC
    BY SMT, MessageBounds DEF PC
  <1>2. t \in Tx /\ t.cmd \in Command /\ ~t.duplicate
    BY DEF TxOK
  <1>3. TxOK([t EXCEPT !.pc = "inserting", !.enrol = enrol, !.seq = s])
    BY <1>1, <1>2 DEF TxOK, Tx
  <1>4. TxOK([t EXCEPT !.pc = "committing", !.enrol = enrol, !.seq = s, !.duplicate = TRUE])
    BY <1>1, <1>2 DEF TxOK, Tx
  <1> QED
    BY <1>3, <1>4

\* The request whose row is inserted is possible.
LEMMA InsertOK ==
    ASSUME NEW t, TxOK(t), t.pc = "inserting"
    PROVE  TxOK([t EXCEPT !.pc = "committing"])
  BY DEF TxOK, Tx, PC

\* The request that is over is possible.
LEMMA EndOK ==
    ASSUME NEW t, TxOK(t), t.pc # "idle", NEW e \in Error
    PROVE  TxOK([t EXCEPT !.pc = "reply", !.error = e])
  BY DEF TxOK, Tx, PC

\* A worker's update keeps all requests possible.
LEMMA UpdateTx ==
    ASSUME Inv1, NEW w \in Workers, NEW t, TxOK(t), tx' = [tx EXCEPT ![w] = t]
    PROVE  tx' \in [Workers -> Tx] /\ \A v \in Workers : TxOK(tx'[v])
  BY DEF Inv1, TypeOK, TxOK

\* Types hold initially.
LEMMA Inv1Init == Init => Inv1
  BY SMT, IdleOK, MessageBounds, FoundersAssumption DEF Init, Inv1, TypeOK, TxOK

\* Giving up a lock leaves a lock table.
LEMMA UnlockedType ==
    ASSUME TypeOK, NEW w \in Workers
    PROVE  Unlocked(w) \in [Chats -> Workers \cup {NoWorker}]
  BY DEF TypeOK, Unlocked

-----------------------------------------------------------------------------
(* What each action does to the fields of a request. *)

Others(w) == \A v \in Workers : v # w => tx'[v] = tx[v]

\* The transaction starts.
LEMMA BeginFacts ==
    ASSUME Inv1, NEW w \in Workers, NEW cmd \in Commands, Begin(w, cmd)
    PROVE  /\ tx'[w].pc \in {"begun", "reply"}
           /\ tx'[w].pc = "reply" => tx'[w].error = "UserNotFriend"
           /\ tx'[w].duplicate = FALSE
           /\ tx'[w].cmd = cmd /\ tx'[w].snap = messages /\ tx'[w].seen = members[cmd.chat]
           /\ Others(w)
           /\ tx' \in [Workers -> Tx] /\ \A v \in Workers : TxOK(tx'[v])
  <1>1. cmd \in Command
    BY CommandsAssumption DEF Command
  <1> DEFINE p == IF cmd.sender \in members[cmd.chat] THEN "begun" ELSE "reply"
             e == IF cmd.sender \in members[cmd.chat] THEN "Success" ELSE "UserNotFriend"
             t == [pc |-> p, cmd |-> cmd, snap |-> messages, seen |-> members[cmd.chat],
                   enrol |-> {}, seq |-> 0, duplicate |-> FALSE, error |-> e]
  <1>2. tx' = [tx EXCEPT ![w] = t]
    BY DEF Begin
  <1>3. members[cmd.chat] \in SUBSET Users /\ messages \in SUBSET Row
    BY <1>1 DEF Inv1, TypeOK, Command
  <1>4. p \in {"begun", "reply"} /\ e \in Error /\ (p = "reply" => e = "UserNotFriend")
    BY DEF Error
  <1>5. tx'[w] = t
    BY <1>2 DEF Inv1, TypeOK
  <1> HIDE DEF p, e
  <1>6. TxOK(t)
    BY <1>1, <1>3, <1>4, BeginOK
  <1>7. /\ tx'[w].pc = p /\ tx'[w].error = e /\ tx'[w].cmd = cmd /\ tx'[w].snap = messages
        /\ tx'[w].seen = members[cmd.chat] /\ tx'[w].duplicate = FALSE
    BY SMT, <1>5
  <1>8. tx' \in [Workers -> Tx] /\ \A v \in Workers : TxOK(tx'[v])
    BY <1>2, <1>6, UpdateTx
  <1>9. Others(w)
    BY <1>2 DEF Inv1, TypeOK, Others
  <1> QED
    BY <1>4, <1>7, <1>8, <1>9

\* The request ends with an error code.
LEMMA EndedFacts ==
    ASSUME Inv1, NEW w \in Workers, NEW e \in Error, tx[w].pc # "idle", tx' = Ended(w, e)
    PROVE  /\ tx'[w].pc = "reply" /\ tx'[w].error = e
           /\ tx'[w].cmd = tx[w].cmd /\ tx'[w].snap = tx[w].snap /\ tx'[w].seen = tx[w].seen
           /\ tx'[w].seq = tx[w].seq /\ tx'[w].duplicate = tx[w].duplicate
           /\ Others(w)
           /\ tx' \in [Workers -> Tx] /\ \A v \in Workers : TxOK(tx'[v])
  <1>1. tx' = [tx EXCEPT ![w] = [tx[w] EXCEPT !.pc = "reply", !.error = e]]
    BY DEF Ended
  <1>2. TxOK([tx[w] EXCEPT !.pc = "reply", !.error = e])
    BY EndOK DEF Inv1
  <1>3. tx' \in [Workers -> Tx] /\ \A v \in Workers : TxOK(tx'[v])
    BY <1>1, <1>2, UpdateTx
  <1>4. tx'[w] = [tx[w] EXCEPT !.pc = "reply", !.error = e] /\ tx[w] \in Tx /\ Others(w)
    BY <1>1 DEF Inv1, TypeOK, Others
  <1> QED
    BY <1>3, <1>4 DEF Tx

\* The three outcomes of locking the conversation.
LockNew(w) ==
    /\ ~\E m \in tx[w].snap : SameKey(m, tx[w].cmd)
    /\ latestSeq[tx[w].cmd.chat] < MaxSeq
    /\ lock' = [lock EXCEPT ![tx[w].cmd.chat] = w]
    /\ tx'[w].pc = "inserting" /\ tx'[w].enrol = members[tx[w].cmd.chat]
    /\ tx'[w].seq = latestSeq[tx[w].cmd.chat] + 1

LockDuplicate(w) ==
    /\ \E m \in tx[w].snap : /\ SameKey(m, tx[w].cmd) /\ SameCommand(m, tx[w].cmd)
                             /\ tx'[w].seq = m.seq
    /\ lock' = [lock EXCEPT ![tx[w].cmd.chat] = w]
    /\ tx'[w].pc = "committing" /\ tx'[w].duplicate /\ tx'[w].enrol = members[tx[w].cmd.chat]

LockConflict(w) ==
    /\ \E m \in tx[w].snap : SameKey(m, tx[w].cmd) /\ ~SameCommand(m, tx[w].cmd)
    /\ lock' = lock
    /\ tx'[w].pc = "reply" /\ tx'[w].error = "IdempotencyConflict"

\* Locking has one of these outcomes and keeps what the request knew.
LEMMA LockFacts ==
    ASSUME Inv1, NEW w \in Workers, Lock(w)
    PROVE  /\ LockNew(w) \/ LockDuplicate(w) \/ LockConflict(w)
           /\ tx[w].pc = "begun" /\ lock[tx[w].cmd.chat] = NoWorker
           /\ tx'[w].cmd = tx[w].cmd /\ tx'[w].snap = tx[w].snap /\ tx'[w].seen = tx[w].seen
           /\ LockNew(w) => tx'[w].duplicate = tx[w].duplicate
           /\ Others(w)
           /\ tx' \in [Workers -> Tx] /\ \A v \in Workers : TxOK(tx'[v])
  <1>1. /\ tx[w] \in Tx /\ TxOK(tx[w]) /\ tx[w].pc = "begun" /\ tx[w].cmd \in Command
        /\ lock[tx[w].cmd.chat] = NoWorker
    BY DEF Lock, Inv1, TypeOK, TxOK
  <1>2. /\ tx[w].cmd.chat \in Chats /\ members[tx[w].cmd.chat] \in SUBSET Users
        /\ latestSeq[tx[w].cmd.chat] \in 0..MaxSeq
    BY <1>1 DEF Command, Inv1, TypeOK
  <1> DEFINE c == tx[w].cmd.chat
             t1 == [tx[w] EXCEPT !.pc = "inserting", !.enrol = members[c], !.seq = latestSeq[c] + 1]
             t2(m) == [tx[w] EXCEPT !.pc = "committing", !.enrol = members[c], !.seq = m.seq,
                                    !.duplicate = TRUE]
  <1>3. CASE /\ ~\E m \in tx[w].snap : SameKey(m, tx[w].cmd)
             /\ latestSeq[c] < MaxSeq
             /\ lock' = [lock EXCEPT ![c] = w]
             /\ tx' = [tx EXCEPT ![w] = t1]
    <2>0. latestSeq[c] + 1 \in 1..MaxSeq
      BY SMT, <1>2, <1>3, MessageBounds
    <2>1. TxOK(t1)
      BY <1>1, <1>2, <2>0, LockOK
    <2>2. tx' \in [Workers -> Tx] /\ \A v \in Workers : TxOK(tx'[v])
      BY <1>3, <2>1, UpdateTx
    <2>3. tx'[w] = t1 /\ Others(w)
      BY <1>3 DEF Inv1, TypeOK, Others
    <2>4. /\ tx'[w].cmd = tx[w].cmd /\ tx'[w].snap = tx[w].snap /\ tx'[w].seen = tx[w].seen
          /\ tx'[w].duplicate = tx[w].duplicate /\ tx'[w].pc = "inserting"
          /\ tx'[w].enrol = members[c] /\ tx'[w].seq = latestSeq[c] + 1
      BY <1>1, <2>3 DEF Tx
    <2> QED
      BY <1>1, <1>3, <2>2, <2>3, <2>4 DEF LockNew
  <1>4. ASSUME NEW m \in tx[w].snap, SameKey(m, tx[w].cmd), SameCommand(m, tx[w].cmd),
               lock' = [lock EXCEPT ![c] = w], tx' = [tx EXCEPT ![w] = t2(m)]
        PROVE  /\ LockDuplicate(w) /\ ~LockNew(w) /\ Others(w)
               /\ tx'[w].cmd = tx[w].cmd /\ tx'[w].snap = tx[w].snap /\ tx'[w].seen = tx[w].seen
               /\ tx' \in [Workers -> Tx] /\ \A v \in Workers : TxOK(tx'[v])
    <2>1. m.seq \in 1..MaxSeq
      BY <1>1 DEF Tx, Row
    <2>2. TxOK(t2(m))
      BY <1>1, <1>2, <2>1, LockOK
    <2>3. tx' \in [Workers -> Tx] /\ \A v \in Workers : TxOK(tx'[v])
      BY <1>4, <2>2, UpdateTx
    <2>4. tx'[w] = t2(m) /\ Others(w)
      BY <1>4 DEF Inv1, TypeOK, Others
    <2>5. /\ tx'[w].cmd = tx[w].cmd /\ tx'[w].snap = tx[w].snap /\ tx'[w].seen = tx[w].seen
          /\ tx'[w].seq = m.seq /\ tx'[w].pc = "committing" /\ tx'[w].duplicate
          /\ tx'[w].enrol = members[c]
      BY <1>1, <2>4 DEF Tx
    <2> QED
      BY <1>4, <2>3, <2>4, <2>5 DEF LockDuplicate, LockNew
  <1>5. ASSUME NEW m \in tx[w].snap, SameKey(m, tx[w].cmd), ~SameCommand(m, tx[w].cmd),
               lock' = lock, tx' = Ended(w, "IdempotencyConflict")
        PROVE  /\ LockConflict(w) /\ ~LockNew(w) /\ Others(w)
               /\ tx'[w].cmd = tx[w].cmd /\ tx'[w].snap = tx[w].snap /\ tx'[w].seen = tx[w].seen
               /\ tx' \in [Workers -> Tx] /\ \A v \in Workers : TxOK(tx'[v])
    BY <1>1, <1>5, EndedFacts DEF LockConflict, LockNew, Error
  <1> QED
    BY <1>1, <1>3, <1>4, <1>5 DEF Lock

\* The insert succeeds, or the unique key refuses it.
LEMMA InsertFacts ==
    ASSUME Inv1, NEW w \in Workers, Insert(w)
    PROVE  /\ tx[w].pc = "inserting"
           /\ \/ /\ \E m \in messages : SameKey(m, tx[w].cmd)
                 /\ tx'[w].pc = "reply" /\ tx'[w].error = "MysqlFailed" /\ lock' = Unlocked(w)
              \/ /\ ~\E m \in messages : SameKey(m, tx[w].cmd)
                 /\ \A v \in Workers \ {w} : tx[v].pc = "committing" /\ ~tx[v].duplicate
                                              => ~SameKey(tx[v].cmd, tx[w].cmd)
                 /\ tx'[w].pc = "committing" /\ lock' = lock
           /\ tx'[w].cmd = tx[w].cmd /\ tx'[w].snap = tx[w].snap /\ tx'[w].seen = tx[w].seen
           /\ tx'[w].seq = tx[w].seq /\ tx'[w].duplicate = tx[w].duplicate
           /\ tx'[w].enrol = tx[w].enrol
           /\ Others(w)
           /\ tx' \in [Workers -> Tx] /\ \A v \in Workers : TxOK(tx'[v])
  <1>1. tx[w] \in Tx /\ TxOK(tx[w]) /\ tx[w].pc = "inserting"
    BY DEF Insert, Inv1, TypeOK
  <1>2. CASE /\ \E m \in messages : SameKey(m, tx[w].cmd)
             /\ tx' = Ended(w, "MysqlFailed") /\ lock' = Unlocked(w)
    <2>1. "MysqlFailed" \in Error
      BY DEF Error
    <2>2. tx'[w] = [tx[w] EXCEPT !.pc = "reply", !.error = "MysqlFailed"]
      BY <1>2 DEF Inv1, TypeOK, Ended
    <2>3. tx'[w].enrol = tx[w].enrol
      BY <1>1, <2>2 DEF Tx
    <2> QED
      BY <1>1, <1>2, <2>1, <2>3, EndedFacts
  <1>3. CASE /\ ~\E m \in messages : SameKey(m, tx[w].cmd)
             /\ tx' = [tx EXCEPT ![w] = [@ EXCEPT !.pc = "committing"]] /\ lock' = lock
    <2>1. TxOK([tx[w] EXCEPT !.pc = "committing"])
      BY <1>1, InsertOK
    <2>2. tx' \in [Workers -> Tx] /\ \A v \in Workers : TxOK(tx'[v])
      BY <1>3, <2>1, UpdateTx
    <2>3. tx'[w] = [tx[w] EXCEPT !.pc = "committing"] /\ Others(w)
      BY <1>3 DEF Inv1, TypeOK, Others
    <2>4. /\ tx'[w].cmd = tx[w].cmd /\ tx'[w].snap = tx[w].snap /\ tx'[w].seen = tx[w].seen
          /\ tx'[w].seq = tx[w].seq /\ tx'[w].duplicate = tx[w].duplicate
          /\ tx'[w].enrol = tx[w].enrol /\ tx'[w].pc = "committing"
      BY <1>1, <2>3 DEF Tx
    <2>5. \A v \in Workers \ {w} : tx[v].pc = "committing" /\ ~tx[v].duplicate
                                    => ~SameKey(tx[v].cmd, tx[w].cmd)
      BY DEF Insert
    <2> QED
      BY <1>1, <1>3, <2>2, <2>3, <2>4, <2>5
  <1> QED
    BY <1>2, <1>3 DEF Insert

\* A worker that becomes idle.
LEMMA IdleFacts ==
    ASSUME Inv1, NEW w \in Workers, tx' = [tx EXCEPT ![w] = IdleTx]
    PROVE  /\ tx'[w].pc = "idle" /\ tx'[w].snap = {} /\ Others(w)
           /\ tx' \in [Workers -> Tx] /\ \A v \in Workers : TxOK(tx'[v])
  <1>1. tx' \in [Workers -> Tx] /\ \A v \in Workers : TxOK(tx'[v])
    BY IdleOK, UpdateTx
  <1>2. tx'[w] = IdleTx /\ Others(w)
    BY DEF Inv1, TypeOK, Others
  <1> QED
    BY <1>1, <1>2 DEF IdleTx

\* What COMMIT writes has the right types.
LEMMA CommittedType ==
    ASSUME Inv1, NEW w \in Workers, tx[w].pc = "committing", Committed(w)
    PROVE  /\ messages' \in SUBSET Row /\ latestSeq' \in [Chats -> 0..MaxSeq]
           /\ joinedSeq' \in [Chats -> [Users -> 0..MaxSeq + 1]]
           /\ lock' \in [Chats -> Workers \cup {NoWorker}]
  <1>1. /\ tx[w].cmd \in Command /\ tx[w].seq \in 1..MaxSeq /\ tx[w].cmd.chat \in Chats
        /\ tx[w] \in Tx
    BY DEF Inv1, TxOK, Command
  <1>2. NewRow(w) \in Row
    BY <1>1 DEF NewRow, Row, Command
  <1>3. messages' \in SUBSET Row
    BY <1>2 DEF Committed, Inv1, TypeOK
  <1>4. latestSeq' \in [Chats -> 0..MaxSeq]
    BY SMT, <1>1, MessageBounds DEF Committed, Inv1, TypeOK
  <1>5. Enrolled(w) \in [Users -> 0..MaxSeq + 1]
    <2> SUFFICES ASSUME NEW u \in Users PROVE Enrolled(w)[u] \in 0..MaxSeq + 1
      BY DEF Enrolled
    <2>1. latestSeq[tx[w].cmd.chat] \in 0..MaxSeq /\ joinedSeq[tx[w].cmd.chat][u] \in 0..MaxSeq + 1
      BY SMT, <1>1 DEF Inv1, TypeOK
    <2>2. Enrolled(w)[u] \in {1, latestSeq[tx[w].cmd.chat] + 1, joinedSeq[tx[w].cmd.chat][u]}
      BY DEF Enrolled
    <2> QED
      BY SMT, <2>1, <2>2, MessageBounds
  <1>6. joinedSeq' \in [Chats -> [Users -> 0..MaxSeq + 1]]
    BY <1>1, <1>5 DEF Committed, Inv1, TypeOK
  <1>7. lock' \in [Chats -> Workers \cup {NoWorker}]
    BY UnlockedType DEF Committed, Inv1
  <1> QED
    BY <1>3, <1>4, <1>6, <1>7

\* Counting one more push leaves a table of counters.
LEMMA Increment ==
    ASSUME NEW S, NEW f \in [S -> Nat], NEW k
    PROVE  [f EXCEPT ![k] = @ + 1] \in [S -> Nat]
  <1> DEFINE h == [f EXCEPT ![k] = @ + 1]
  <1>1. DOMAIN h = S /\ h = [i \in S |-> IF i = k THEN f[k] + 1 ELSE f[i]]
    OBVIOUS
  <1>2. ASSUME NEW i \in S PROVE (IF i = k THEN f[k] + 1 ELSE f[i]) \in Nat
    BY SMT
  <1> QED
    BY <1>1, <1>2

\* Types are preserved: one step per action.
LEMMA Inv1Next == Inv1 /\ [Next]_vars => Inv1'
  <1> SUFFICES ASSUME Inv1, [Next]_vars PROVE Inv1'
    OBVIOUS
  <1>a. TypeOK
    BY DEF Inv1
  <1>0. CASE UNCHANGED vars
    BY <1>0 DEF vars, Inv1, TypeOK
  <1>1. ASSUME NEW w \in Workers, NEW cmd \in Commands, Begin(w, cmd) PROVE Inv1'
    BY <1>1, BeginFacts DEF Begin, Inv1, TypeOK
  <1>2. ASSUME NEW w \in Workers, Lock(w) PROVE Inv1'
    <2>1. tx' \in [Workers -> Tx] /\ \A v \in Workers : TxOK(tx'[v])
      BY <1>2, LockFacts
    <2>2. lock' \in [Chats -> Workers \cup {NoWorker}]
      <3>1. \/ lock' = [lock EXCEPT ![tx[w].cmd.chat] = w]
            \/ lock' = lock
        BY <1>2 DEF Lock
      <3> QED
        BY <1>a, <3>1 DEF TypeOK
    <2> QED
      BY <1>2, <2>1, <2>2 DEF Lock, Inv1, TypeOK
  <1>3. ASSUME NEW w \in Workers, Insert(w) PROVE Inv1'
    <2>1. tx' \in [Workers -> Tx] /\ \A v \in Workers : TxOK(tx'[v])
      BY <1>3, InsertFacts
    <2>2. lock' \in [Chats -> Workers \cup {NoWorker}]
      BY SMT, <1>3, <1>a, InsertFacts, UnlockedType DEF TypeOK
    <2> QED
      BY <1>3, <2>1, <2>2 DEF Insert, Inv1, TypeOK
  <1>4. ASSUME NEW w \in Workers, Commit(w) \/ CommitUnknown(w) PROVE Inv1'
    <2>1. tx[w].pc = "committing" /\ Committed(w)
      BY <1>4 DEF Commit, CommitUnknown
    <2>2. tx' \in [Workers -> Tx] /\ \A v \in Workers : TxOK(tx'[v])
      BY <1>4, <2>1, EndedFacts DEF Commit, CommitUnknown, Error
    <2>3. members' \in [Chats -> SUBSET Users] /\ pushes' \in [Chats -> [1..MaxSeq -> Nat]]
      BY <1>4, <1>a DEF Commit, CommitUnknown, TypeOK
    <2>4. faults' \in 0..MaxFaults
      BY SMT, <1>4, <1>a, MessageBounds DEF Commit, CommitUnknown, TypeOK
    <2> QED
      BY <2>1, <2>2, <2>3, <2>4, CommittedType DEF Inv1, TypeOK
  <1>5. ASSUME NEW w \in Workers, Abort(w) PROVE Inv1'
    <2>1. tx' \in [Workers -> Tx] /\ \A v \in Workers : TxOK(tx'[v])
      BY <1>5, EndedFacts DEF Abort, Error
    <2>2. faults' \in 0..MaxFaults
      BY SMT, <1>5, <1>a, MessageBounds DEF Abort, TypeOK
    <2> QED
      BY <1>5, <1>a, <2>1, <2>2, UnlockedType DEF Abort, Inv1, TypeOK
  <1>6. ASSUME NEW w \in Workers, Crash(w) PROVE Inv1'
    <2>1. tx' \in [Workers -> Tx] /\ \A v \in Workers : TxOK(tx'[v])
      BY <1>6, IdleFacts DEF Crash
    <2>2. faults' \in 0..MaxFaults
      BY SMT, <1>6, <1>a, MessageBounds DEF Crash, TypeOK
    <2> QED
      BY <1>6, <1>a, <2>1, <2>2, UnlockedType DEF Crash, Inv1, TypeOK
  <1>7. ASSUME NEW w \in Workers, Reply(w) PROVE Inv1'
    <2>1. tx' \in [Workers -> Tx] /\ \A v \in Workers : TxOK(tx'[v])
      BY <1>7, IdleFacts DEF Reply
    <2>2. pushes' \in [Chats -> [1..MaxSeq -> Nat]]
      <3>1. CASE pushes' = [pushes EXCEPT ![tx[w].cmd.chat][tx[w].seq] = @ + 1]
        <4> DEFINE c == tx[w].cmd.chat
                   row == [pushes[c] EXCEPT ![tx[w].seq] = @ + 1]
        <4>1. c \in Chats /\ pushes[c] \in [1..MaxSeq -> Nat]
          BY <1>7, <1>a DEF Reply, Inv1, TxOK, Command, TypeOK
        <4>2. row \in [1..MaxSeq -> Nat]
          BY <4>1, Increment
        <4> HIDE DEF row
        <4>3. pushes' = [pushes EXCEPT ![c] = row]
          BY <3>1 DEF row
        <4> QED
          BY <1>a, <4>1, <4>2, <4>3 DEF TypeOK
      <3> QED
        BY <1>7, <1>a, <3>1 DEF Reply, TypeOK
    <2> QED
      BY <1>7, <2>1, <2>2 DEF Reply, Inv1, TypeOK
  <1>8. ASSUME NEW g \in Groups, NEW u \in Users, Join(g, u) PROVE Inv1'
    BY <1>8 DEF Join, Inv1, TypeOK, Chats
  <1> QED
    BY <1>0, <1>1, <1>2, <1>3, <1>4, <1>5, <1>6, <1>7, <1>8 DEF Next

\* Every reachable state of the store has the declared types.
THEOREM TypeCorrect == Spec => []TypeOK
  <1>1. Inv1 => TypeOK
    BY DEF Inv1
  <1> QED
    BY <1>1, Inv1Init, Inv1Next, PTL DEF Spec

-----------------------------------------------------------------------------
(* Second layer: locks and snapshots. *)

Holds(t) == t.pc \in {"inserting", "committing"}

\* The lock of a conversation is held by the worker that inserts or commits in
\* it; what was seen in a snapshot is still there; whoever the snapshot showed as
\* a member gets a member row.
Inv2 ==
    \A w \in Workers :
        /\ Holds(tx[w]) => lock[tx[w].cmd.chat] = w
        /\ tx[w].snap \subseteq messages
        /\ tx[w].pc # "idle" => tx[w].seen \subseteq members[tx[w].cmd.chat]
        /\ Holds(tx[w]) => tx[w].seen \subseteq tx[w].enrol

\* COMMIT: the fields of the request, then the tables.
LEMMA CommitFacts ==
    ASSUME Inv1, NEW w \in Workers, Commit(w) \/ CommitUnknown(w)
    PROVE  /\ tx[w].pc = "committing" /\ tx[w].cmd.chat \in Chats /\ Committed(w)
           /\ tx'[w].pc = "reply" /\ tx'[w].error \in {"Success", "MysqlFailed"}
           /\ tx'[w].cmd = tx[w].cmd /\ tx'[w].snap = tx[w].snap /\ tx'[w].seen = tx[w].seen
           /\ tx'[w].seq = tx[w].seq /\ tx'[w].duplicate = tx[w].duplicate
           /\ Others(w) /\ members' = members /\ pushes' = pushes
           /\ messages \subseteq messages'
  <1>1. tx[w].pc = "committing" /\ Committed(w) /\ members' = members /\ pushes' = pushes
    BY DEF Commit, CommitUnknown
  <1>2. tx[w].cmd.chat \in Chats
    BY <1>1 DEF Inv1, TxOK, Command
  <1>3. messages \subseteq messages'
    BY <1>1 DEF Committed
  <1>4. CASE tx' = Ended(w, "Success")
    BY <1>1, <1>2, <1>3, <1>4, EndedFacts DEF Error
  <1>5. CASE tx' = Ended(w, "MysqlFailed")
    BY <1>1, <1>2, <1>3, <1>5, EndedFacts DEF Error
  <1> QED
    BY <1>4, <1>5 DEF Commit, CommitUnknown

\* Breaking off: the request ends with MysqlFailed.
LEMMA AbortFacts ==
    ASSUME Inv1, NEW w \in Workers, Abort(w)
    PROVE  /\ tx[w].pc # "idle"
           /\ tx'[w].pc = "reply" /\ tx'[w].error = "MysqlFailed"
           /\ tx'[w].cmd = tx[w].cmd /\ tx'[w].snap = tx[w].snap /\ tx'[w].seen = tx[w].seen
           /\ Others(w) /\ lock' = Unlocked(w)
  BY EndedFacts DEF Abort, Error

\* Nobody holds a lock or has a snapshot initially.
LEMMA Inv2Init == Init => Inv2
  BY SMT DEF Init, Inv2, IdleTx, Holds

\* Giving up a worker's own locks leaves those of the others.
LEMMA UnlockedOthers ==
    ASSUME Inv1, NEW w \in Workers, NEW v \in Workers, v # w, NEW c \in Chats, lock[c] = v
    PROVE  Unlocked(w)[c] = v
  BY DEF Unlocked

\* A worker's conversation is a conversation.
LEMMA ChatOf ==
    ASSUME Inv1, NEW w \in Workers, tx[w].pc # "idle"
    PROVE  tx[w].cmd.chat \in Chats
  BY DEF Inv1, TxOK, Command

\* What a step has to do to keep the second layer: one worker moves, the others
\* keep their locks, tables only grow.
LEMMA Inv2Step ==
    ASSUME Inv1, Inv2, NEW w \in Workers, Others(w), messages \subseteq messages',
           \A c \in Chats : members[c] \subseteq members'[c],
           \A v \in Workers : v # w =>
              \A c \in Chats : lock[c] = v => lock'[c] = v,
           Holds(tx'[w]) => /\ lock'[tx'[w].cmd.chat] = w
                            /\ tx'[w].seen \subseteq tx'[w].enrol,
           tx'[w].snap \subseteq messages',
           tx'[w].pc # "idle" => tx'[w].seen \subseteq members'[tx'[w].cmd.chat]
    PROVE  Inv2'
  <1> SUFFICES ASSUME NEW v \in Workers
               PROVE  /\ Holds(tx'[v]) => lock'[tx'[v].cmd.chat] = v
                      /\ tx'[v].snap \subseteq messages'
                      /\ tx'[v].pc # "idle" => tx'[v].seen \subseteq members'[tx'[v].cmd.chat]
                      /\ Holds(tx'[v]) => tx'[v].seen \subseteq tx'[v].enrol
    BY DEF Inv2, Holds
  <1>1. CASE v = w
    BY <1>1
  <1>2. CASE v # w
    <2>1. tx'[v] = tx[v]
      BY <1>2 DEF Others
    <2>2. tx[v].pc # "idle" => tx[v].cmd.chat \in Chats
      BY ChatOf
    <2>3. Holds(tx[v]) => tx[v].pc # "idle"
      BY DEF Holds
    <2> QED
      BY <1>2, <2>1, <2>2, <2>3 DEF Inv2
  <1> QED
    BY <1>1, <1>2

\* Locks and snapshots are preserved: one step per action.
LEMMA Inv2Next == Inv1 /\ Inv2 /\ [Next]_vars => Inv2'
  <1> SUFFICES ASSUME Inv1, Inv2, [Next]_vars PROVE Inv2'
    OBVIOUS
  <1>a. ASSUME NEW w \in Workers, NEW v \in Workers, v # w, lock' = Unlocked(w)
        PROVE  \A c \in Chats : lock[c] = v => lock'[c] = v
    BY <1>a, UnlockedOthers
  <1>0. CASE UNCHANGED vars
    BY <1>0 DEF vars, Inv2, Holds
  <1>1. ASSUME NEW w \in Workers, NEW cmd \in Commands, Begin(w, cmd) PROVE Inv2'
    BY <1>1, BeginFacts, Inv2Step DEF Begin, Holds
  <1>2. ASSUME NEW w \in Workers, Lock(w) PROVE Inv2'
    <2>1. /\ tx[w].cmd.chat \in Chats /\ lock[tx[w].cmd.chat] = NoWorker
          /\ tx[w].snap \subseteq messages /\ tx[w].seen \subseteq members[tx[w].cmd.chat]
      BY <1>2, LockFacts, ChatOf DEF Inv2
    <2>2. \A v \in Workers : v # w => \A c \in Chats : lock[c] = v => lock'[c] = v
      <3>1. CASE lock' = [lock EXCEPT ![tx[w].cmd.chat] = w]
        BY <2>1, <3>1, NoWorkerAssumption DEF Inv1, TypeOK
      <3>2. CASE lock' = lock
        BY <3>2
      <3> QED
        BY <1>2, <3>1, <3>2 DEF Lock
    <2>3. /\ messages' = messages /\ members' = members
      BY <1>2 DEF Lock
    <2>4. Holds(tx'[w]) => /\ lock'[tx'[w].cmd.chat] = w
                           /\ tx'[w].seen \subseteq tx'[w].enrol
      <3>1. tx'[w].cmd = tx[w].cmd /\ tx'[w].seen = tx[w].seen
        BY <1>2, LockFacts
      <3>2. CASE LockNew(w) \/ LockDuplicate(w)
        <4>1. /\ lock' = [lock EXCEPT ![tx[w].cmd.chat] = w]
              /\ tx'[w].enrol = members[tx[w].cmd.chat]
          BY <3>2 DEF LockNew, LockDuplicate
        <4>2. lock'[tx[w].cmd.chat] = w
          BY <2>1, <4>1 DEF Inv1, TypeOK
        <4> QED
          BY <2>1, <3>1, <4>1, <4>2
      <3>3. CASE LockConflict(w)
        BY <3>3 DEF LockConflict, Holds
      <3> QED
        BY <1>2, <3>2, <3>3, LockFacts
    <2> QED
      BY <1>2, <2>1, <2>2, <2>3, <2>4, LockFacts, Inv2Step
  <1>3. ASSUME NEW w \in Workers, Insert(w) PROVE Inv2'
    <2>1. /\ tx[w].cmd.chat \in Chats /\ lock[tx[w].cmd.chat] = w
          /\ tx[w].snap \subseteq messages /\ tx[w].seen \subseteq members[tx[w].cmd.chat]
          /\ tx[w].seen \subseteq tx[w].enrol
      BY <1>3, InsertFacts, ChatOf DEF Inv2, Holds
    <2>2. /\ messages' = messages /\ members' = members
      BY <1>3 DEF Insert
    <2>3. \A v \in Workers : v # w => \A c \in Chats : lock[c] = v => lock'[c] = v
      BY <1>3, <1>a, InsertFacts
    <2> QED
      BY SMT, <1>3, <2>1, <2>2, <2>3, InsertFacts, Inv2Step DEF Holds
  <1>4. ASSUME NEW w \in Workers, Commit(w) \/ CommitUnknown(w) PROVE Inv2'
    <2>1. /\ tx[w].snap \subseteq messages /\ tx[w].seen \subseteq members[tx[w].cmd.chat]
      BY <1>4, CommitFacts DEF Inv2, Holds
    <2>2. \A v \in Workers : v # w => \A c \in Chats : lock[c] = v => lock'[c] = v
      BY <1>4, <1>a, CommitFacts DEF Committed
    <2> QED
      BY <1>4, <2>1, <2>2, CommitFacts, Inv2Step DEF Holds
  <1>5. ASSUME NEW w \in Workers, Abort(w) PROVE Inv2'
    <2>1. /\ tx[w].snap \subseteq messages /\ tx[w].seen \subseteq members[tx[w].cmd.chat]
      BY <1>5, AbortFacts DEF Inv2
    <2>2. /\ messages' = messages /\ members' = members
      BY <1>5 DEF Abort
    <2> QED
      BY <1>5, <1>a, <2>1, <2>2, AbortFacts, Inv2Step DEF Holds
  <1>6. ASSUME NEW w \in Workers, Crash(w) PROVE Inv2'
    <2>1. /\ messages' = messages /\ members' = members /\ lock' = Unlocked(w)
          /\ tx' = [tx EXCEPT ![w] = IdleTx]
      BY <1>6 DEF Crash
    <2>2. tx'[w].pc = "idle" /\ tx'[w].snap = {} /\ Others(w)
      BY <2>1, IdleFacts
    <2>3. ~Holds(tx'[w])
      BY <2>2 DEF Holds
    <2> QED
      BY <1>a, <2>1, <2>2, <2>3, Inv2Step
  <1>7. ASSUME NEW w \in Workers, Reply(w) PROVE Inv2'
    BY <1>7, IdleFacts, Inv2Step DEF Reply, Holds
  <1>8. ASSUME NEW g \in Groups, NEW u \in Users, Join(g, u) PROVE Inv2'
    <2>1. \A c \in Chats : members[c] \subseteq members'[c]
      BY <1>8 DEF Join, Inv1, TypeOK
    <2>2. UNCHANGED <<messages, lock, tx>>
      BY <1>8 DEF Join
    <2> QED
      BY <2>1, <2>2, ChatOf DEF Inv2, Holds
  <1> QED
    BY <1>0, <1>1, <1>2, <1>3, <1>4, <1>5, <1>6, <1>7, <1>8 DEF Next

-----------------------------------------------------------------------------
(* Third layer: sequence numbers. *)

\* The request is about to add a row.
Pending(t) == t.pc = "inserting" \/ (t.pc = "committing" /\ ~t.duplicate)

\* Rows and numbers correspond one to one, and a request about to add a row
\* still has the next number.
Inv3 ==
    /\ \A m \in messages : m.seq <= latestSeq[m.chat]
    /\ \A c \in Chats : \A i \in 1..latestSeq[c] : \E m \in messages : m.chat = c /\ m.seq = i
    /\ \A m, r \in messages : m.chat = r.chat /\ m.seq = r.seq => m = r
    /\ \A w \in Workers : Pending(tx[w]) => tx[w].seq = latestSeq[tx[w].cmd.chat] + 1

\* The table is empty initially.
LEMMA Inv3Init == Init => Inv3
  <1> SUFFICES ASSUME Init PROVE Inv3
    OBVIOUS
  <1>1. \A c \in Chats : 1..latestSeq[c] = {}
    BY SMT DEF Init
  <1>2. \A w \in Workers : ~Pending(tx[w])
    BY DEF Init, IdleTx, Pending
  <1> QED
    BY <1>1, <1>2 DEF Init, Inv3

\* A step that leaves the tables alone.
LEMMA Inv3Quiet ==
    ASSUME Inv1, Inv3, NEW w \in Workers, Others(w), UNCHANGED <<messages, latestSeq>>,
           Pending(tx'[w]) => tx'[w].seq = latestSeq[tx'[w].cmd.chat] + 1
    PROVE  Inv3'
  <1>1. ASSUME NEW v \in Workers, Pending(tx'[v])
        PROVE  tx'[v].seq = latestSeq[tx'[v].cmd.chat] + 1
    BY <1>1 DEF Inv3, Others
  <1> QED
    BY SMT, <1>1 DEF Inv3, Pending

\* A row is added with the next number, under the lock of its conversation.
LEMMA Inv3Commit ==
    ASSUME Inv1, Inv2, Inv3, NEW w \in Workers, Commit(w) \/ CommitUnknown(w), ~tx[w].duplicate
    PROVE  Inv3'
  <1> DEFINE c == tx[w].cmd.chat
             s == tx[w].seq
  <1>1. /\ c \in Chats /\ latestSeq[c] \in 0..MaxSeq /\ s = latestSeq[c] + 1
        /\ lock[c] = w /\ Others(w) /\ Committed(w) /\ tx'[w].pc = "reply"
    BY CommitFacts DEF Inv1, Inv2, Inv3, TypeOK, Pending, Holds
  <1>2. messages' = messages \cup {NewRow(w)} /\ NewRow(w).chat = c /\ NewRow(w).seq = s
    BY <1>1 DEF Committed, NewRow
  <1>3. latestSeq'[c] = s /\ \A d \in Chats : d # c => latestSeq'[d] = latestSeq[d]
    BY <1>1 DEF Committed, Inv1, TypeOK
  <1>4. \A m \in messages : m.chat \in Chats /\ m.seq \in Nat
    BY SMT DEF Inv1, TypeOK, Row
  <1>5. \A d \in Chats : latestSeq[d] \in Nat
    BY SMT, MessageBounds DEF Inv1, TypeOK
  <1> HIDE DEF c, s
  <1>6. ASSUME NEW m \in messages' PROVE m.seq <= latestSeq'[m.chat]
    <2>1. CASE m = NewRow(w)
      BY SMT, <1>1, <1>2, <1>3, <2>1
    <2>2. CASE m \in messages
      <3>1. m.seq <= latestSeq[m.chat]
        BY <2>2 DEF Inv3
      <3>2. CASE m.chat = c
        BY SMT, <1>1, <1>3, <1>4, <1>5, <2>2, <3>1, <3>2
      <3>3. CASE m.chat # c
        BY <1>3, <1>4, <2>2, <3>1, <3>3
      <3> QED
        BY <3>2, <3>3
    <2> QED
      BY <1>2, <2>1, <2>2
  <1>7. ASSUME NEW d \in Chats, NEW i \in 1..latestSeq'[d]
        PROVE  \E m \in messages' : m.chat = d /\ m.seq = i
    <2>1. CASE d = c /\ i = s
      BY <1>2, <2>1
    <2>2. CASE ~(d = c /\ i = s)
      <3>1. i \in 1..latestSeq[d]
        BY SMT, <1>1, <1>3, <1>5, <2>2
      <3>2. PICK m \in messages : m.chat = d /\ m.seq = i
        BY SMT, <3>1 DEF Inv3
      <3> QED
        BY <1>2, <3>2
    <2> QED
      BY <2>1, <2>2
  <1>8. ASSUME NEW m \in messages', NEW r \in messages', m.chat = r.chat, m.seq = r.seq
        PROVE  m = r
    <2>1. ASSUME NEW n \in messages, n.chat = c, n.seq = s PROVE FALSE
      <3>1. n.seq <= latestSeq[c]
        BY <2>1 DEF Inv3
      <3> QED
        BY SMT, <1>1, <1>5, <2>1, <3>1
    <2>2. CASE m \in messages /\ r \in messages
      BY <1>8, <2>2 DEF Inv3
    <2>3. CASE m = NewRow(w) /\ r = NewRow(w)
      BY <2>3
    <2>4. CASE m = NewRow(w) /\ r \in messages
      BY <1>2, <1>8, <2>1, <2>4
    <2>5. CASE m \in messages /\ r = NewRow(w)
      BY <1>2, <1>8, <2>1, <2>5
    <2> QED
      BY <1>2, <2>2, <2>3, <2>4, <2>5
  <1>9. ASSUME NEW v \in Workers, Pending(tx'[v])
        PROVE  tx'[v].seq = latestSeq'[tx'[v].cmd.chat] + 1
    <2>1. v # w
      BY <1>1, <1>9 DEF Pending
    <2>2. tx'[v] = tx[v] /\ Pending(tx[v])
      BY <1>1, <1>9, <2>1 DEF Others
    <2>3. lock[tx[v].cmd.chat] = v /\ tx[v].cmd.chat \in Chats
      BY <2>2, ChatOf DEF Inv2, Pending, Holds
    <2>4. tx[v].cmd.chat # c
      BY <1>1, <2>1, <2>3
    <2> QED
      BY SMT, <1>3, <2>2, <2>3, <2>4 DEF Inv3
  <1> QED
    BY <1>6, <1>7, <1>8, <1>9 DEF Inv3, Pending

\* The commit of a duplicate changes no row.
LEMMA DuplicateCommit ==
    ASSUME Inv1, NEW w \in Workers, Commit(w) \/ CommitUnknown(w), tx[w].duplicate
    PROVE  messages' = messages /\ latestSeq' = latestSeq
  BY SMTT(30), CommitFacts DEF Committed, Inv1, TypeOK

\* A request is pending after a Lock exactly when it took a new number.
LEMMA LockPending ==
    ASSUME Inv1, NEW w \in Workers, Lock(w), Pending(tx'[w])
    PROVE  LockNew(w)
  BY LockFacts DEF LockDuplicate, LockConflict, Pending

\* Sequence numbers are preserved: one step per action.
LEMMA Inv3Next == Inv1 /\ Inv2 /\ Inv3 /\ [Next]_vars => Inv3'
  <1> SUFFICES ASSUME Inv1, Inv2, Inv3, [Next]_vars PROVE Inv3'
    OBVIOUS
  <1>0. CASE UNCHANGED vars
    BY ZenonT(30), <1>0 DEF vars, Inv3, Pending
  <1>1. ASSUME NEW w \in Workers, NEW cmd \in Commands, Begin(w, cmd) PROVE Inv3'
    <2>1. Others(w) /\ ~Pending(tx'[w])
      BY <1>1, BeginFacts DEF Pending
    <2> QED
      BY <1>1, <2>1, Inv3Quiet DEF Begin
  <1>2. ASSUME NEW w \in Workers, Lock(w) PROVE Inv3'
    <2>1. Others(w) /\ tx'[w].cmd = tx[w].cmd
      BY <1>2, LockFacts
    <2>2. Pending(tx'[w]) => tx'[w].seq = latestSeq[tx'[w].cmd.chat] + 1
      BY <1>2, <2>1, LockPending DEF LockNew
    <2> QED
      BY <1>2, <2>1, <2>2, Inv3Quiet DEF Lock
  <1>3. ASSUME NEW w \in Workers, Insert(w) PROVE Inv3'
    <2>1. Others(w) /\ tx'[w].cmd = tx[w].cmd /\ tx'[w].seq = tx[w].seq /\ Pending(tx[w])
      BY <1>3, InsertFacts DEF Pending
    <2> QED
      BY SMT, <1>3, <2>1, Inv3Quiet DEF Insert, Inv3
  <1>4. ASSUME NEW w \in Workers, Commit(w) \/ CommitUnknown(w) PROVE Inv3'
    <2>1. CASE tx[w].duplicate
      <3>1. Others(w) /\ ~Pending(tx'[w])
        BY <1>4, CommitFacts DEF Pending
      <3> QED
        BY <1>4, <2>1, <3>1, DuplicateCommit, Inv3Quiet
    <2> QED
      BY <1>4, <2>1, Inv3Commit
  <1>5. ASSUME NEW w \in Workers, Abort(w) PROVE Inv3'
    <2>1. Others(w) /\ ~Pending(tx'[w])
      BY <1>5, AbortFacts DEF Pending
    <2> QED
      BY <1>5, <2>1, Inv3Quiet DEF Abort
  <1>6. ASSUME NEW w \in Workers, Crash(w) \/ Reply(w) PROVE Inv3'
    <2>1. tx' = [tx EXCEPT ![w] = IdleTx] /\ UNCHANGED <<messages, latestSeq>>
      BY <1>6 DEF Crash, Reply
    <2>2. Others(w) /\ ~Pending(tx'[w])
      BY <2>1, IdleFacts DEF Pending
    <2> QED
      BY <2>1, <2>2, Inv3Quiet
  <1>7. ASSUME NEW g \in Groups, NEW u \in Users, Join(g, u) PROVE Inv3'
    BY <1>7 DEF Join, Inv3, Pending
  <1> QED
    BY <1>0, <1>1, <1>2, <1>3, <1>4, <1>5, <1>6, <1>7 DEF Next

-----------------------------------------------------------------------------
(* The theorem about sequence numbers. *)

\* The first three layers together are an inductive invariant of the store.
LEMMA NumbersHold == Spec => [](Inv1 /\ Inv2 /\ Inv3)
  <1>1. Init => Inv1 /\ Inv2 /\ Inv3
    BY Inv1Init, Inv2Init, Inv3Init
  <1>2. Inv1 /\ Inv2 /\ Inv3 /\ [Next]_vars => (Inv1 /\ Inv2 /\ Inv3)'
    BY Inv1Next, Inv2Next, Inv3Next
  <1> QED
    BY <1>1, <1>2, PTL DEF Spec

\* The sequence numbers of every conversation are 1..latestSeq, one row each.
THEOREM DenseSequence == Spec => []SeqDense
  <1>1. Inv1 /\ Inv2 /\ Inv3 => SeqDense
    <2> SUFFICES ASSUME Inv1, Inv3, NEW c \in Chats
                 PROVE  /\ {m.seq : m \in {r \in messages : r.chat = c}} = 1..latestSeq[c]
                        /\ \A m, r \in messages :
                              m.chat = c /\ r.chat = c /\ m.seq = r.seq => m = r
      BY DEF SeqDense
    <2>1. ASSUME NEW m \in messages, m.chat = c PROVE m.seq \in 1..latestSeq[c]
      <3>1. m.seq \in 1..MaxSeq /\ latestSeq[c] \in 0..MaxSeq /\ m.seq <= latestSeq[c]
        BY <2>1 DEF Inv1, TypeOK, Row, Inv3
      <3> QED
        BY SMT, <3>1, MessageBounds
    <2>2. \A i \in 1..latestSeq[c] : \E m \in messages : m.chat = c /\ m.seq = i
      BY DEF Inv3
    <2>3. \A m, r \in messages : m.chat = c /\ r.chat = c /\ m.seq = r.seq => m = r
      BY DEF Inv3
    <2> QED
      BY SMT, <2>1, <2>2, <2>3
  <1> QED
    BY <1>1, NumbersHold, PTL

-----------------------------------------------------------------------------
(* Fourth layer: client message ids. *)

\* The request has inserted its row and not committed it.
Inserted(t) == t.pc = "committing" /\ ~t.duplicate

\* An id is stored once, and the uncommitted rows have ids of their own.
Inv4 ==
    /\ StoredOnce
    /\ \A w \in Workers : Inserted(tx[w]) => \A m \in messages : ~SameKey(m, tx[w].cmd)
    /\ \A w, v \in Workers :
          Inserted(tx[w]) /\ Inserted(tx[v]) /\ SameKey(tx[w].cmd, tx[v].cmd) => w = v

\* No id is stored initially.
LEMMA Inv4Init == Init => Inv4
  BY SMT DEF Init, Inv4, StoredOnce, Inserted, IdleTx

\* A step that stores nothing and after which no new row is uncommitted.
LEMMA Inv4Quiet ==
    ASSUME Inv4, NEW w \in Workers, Others(w), messages' = messages, ~Inserted(tx'[w])
    PROVE  Inv4'
  <1>1. \A v \in Workers : Inserted(tx'[v]) => tx'[v] = tx[v]
    BY DEF Others
  <1>2. StoredOnce'
    BY DEF Inv4, StoredOnce
  <1>3. ASSUME NEW v \in Workers, Inserted(tx'[v]), NEW m \in messages'
        PROVE  ~SameKey(m, tx'[v].cmd)
    BY <1>1, <1>3 DEF Inv4
  <1>4. ASSUME NEW v \in Workers, NEW x \in Workers, Inserted(tx'[v]), Inserted(tx'[x]),
               SameKey(tx'[v].cmd, tx'[x].cmd)
        PROVE  v = x
    BY <1>1, <1>4 DEF Inv4
  <1> QED
    BY <1>2, <1>3, <1>4 DEF Inv4, Inserted, SameKey

\* The unique key lets an insert through only when its id is free.
LEMMA Inv4Insert ==
    ASSUME Inv1, Inv4, NEW w \in Workers, Insert(w)
    PROVE  Inv4'
  <1>1. Others(w) /\ tx'[w].cmd = tx[w].cmd /\ messages' = messages
    BY InsertFacts DEF Insert
  <1>2. CASE ~Inserted(tx'[w])
    BY <1>1, <1>2, Inv4Quiet
  <1>3. CASE Inserted(tx'[w])
    <2>1. /\ \A m \in messages : ~SameKey(m, tx[w].cmd)
          /\ \A v \in Workers \ {w} : Inserted(tx[v]) => ~SameKey(tx[v].cmd, tx[w].cmd)
      BY <1>3, InsertFacts DEF Inserted
    <2>2. StoredOnce'
      BY <1>1 DEF Inv4, StoredOnce
    <2>3. ASSUME NEW v \in Workers, Inserted(tx'[v]), NEW m \in messages'
          PROVE  ~SameKey(m, tx'[v].cmd)
      BY <1>1, <2>1, <2>3 DEF Inv4, Others
    <2>4. ASSUME NEW v \in Workers, NEW x \in Workers, Inserted(tx'[v]), Inserted(tx'[x]),
                 SameKey(tx'[v].cmd, tx'[x].cmd)
          PROVE  v = x
      <3>1. CASE v # w /\ x # w
        BY <1>1, <2>4, <3>1 DEF Inv4, Others
      <3>2. CASE v = w /\ x # w
        BY <1>1, <2>1, <2>4, <3>2 DEF Others, SameKey
      <3>3. CASE v # w /\ x = w
        BY <1>1, <2>1, <2>4, <3>3 DEF Others, SameKey
      <3> QED
        BY <3>1, <3>2, <3>3
    <2> QED
      BY <2>2, <2>3, <2>4 DEF Inv4, Inserted, SameKey
  <1> QED
    BY <1>2, <1>3

\* A row becomes visible whose id nobody else has.
LEMMA Inv4Commit ==
    ASSUME Inv1, Inv4, NEW w \in Workers, Commit(w) \/ CommitUnknown(w), ~tx[w].duplicate
    PROVE  Inv4'
  <1>1. /\ Others(w) /\ messages' = messages \cup {NewRow(w)} /\ ~Inserted(tx'[w])
        /\ Inserted(tx[w])
    BY CommitFacts DEF Committed, Inserted
  <1>2. \A k : SameKey(k, NewRow(w)) <=> SameKey(k, tx[w].cmd)
    BY DEF SameKey, NewRow
  <1>3. \A m \in messages : ~SameKey(m, tx[w].cmd)
    BY <1>1 DEF Inv4
  <1>4. \A v \in Workers : Inserted(tx'[v]) => tx'[v] = tx[v] /\ v # w
    BY <1>1 DEF Others
  <1>5. StoredOnce'
    BY SMT, <1>1, <1>2, <1>3 DEF Inv4, StoredOnce, SameKey
  <1>6. ASSUME NEW v \in Workers, Inserted(tx'[v]), NEW m \in messages'
        PROVE  ~SameKey(m, tx'[v].cmd)
    <2>1. tx'[v] = tx[v] /\ v # w /\ Inserted(tx[v])
      BY <1>4, <1>6
    <2>2. CASE m \in messages
      BY <2>1, <2>2 DEF Inv4
    <2>3. CASE m = NewRow(w)
      BY <1>1, <1>2, <2>1, <2>3 DEF Inv4, SameKey
    <2> QED
      BY <1>1, <2>2, <2>3
  <1>7. ASSUME NEW v \in Workers, NEW x \in Workers, Inserted(tx'[v]), Inserted(tx'[x]),
               SameKey(tx'[v].cmd, tx'[x].cmd)
        PROVE  v = x
    BY <1>4, <1>7 DEF Inv4
  <1> QED
    BY <1>5, <1>6, <1>7 DEF Inv4, Inserted, SameKey

\* Ids are preserved: one step per action.
LEMMA Inv4Next == Inv1 /\ Inv4 /\ [Next]_vars => Inv4'
  <1> SUFFICES ASSUME Inv1, Inv4, [Next]_vars PROVE Inv4'
    OBVIOUS
  <1>0. CASE UNCHANGED vars
    BY <1>0 DEF vars, Inv4, StoredOnce, Inserted, SameKey
  <1>1. ASSUME NEW w \in Workers, NEW cmd \in Commands, Begin(w, cmd) PROVE Inv4'
    <2>1. Others(w) /\ ~Inserted(tx'[w]) /\ messages' = messages
      BY <1>1, BeginFacts DEF Inserted, Begin
    <2> QED
      BY <2>1, Inv4Quiet
  <1>2. ASSUME NEW w \in Workers, Lock(w) PROVE Inv4'
    <2>1. ~Inserted(tx'[w])
      BY <1>2, LockFacts DEF LockNew, LockDuplicate, LockConflict, Inserted
    <2>2. Others(w) /\ messages' = messages
      BY <1>2, LockFacts DEF Lock
    <2> QED
      BY <2>1, <2>2, Inv4Quiet
  <1>3. ASSUME NEW w \in Workers, Insert(w) PROVE Inv4'
    BY <1>3, Inv4Insert
  <1>4. ASSUME NEW w \in Workers, Commit(w) \/ CommitUnknown(w) PROVE Inv4'
    <2>1. CASE tx[w].duplicate
      <3>1. Others(w) /\ ~Inserted(tx'[w])
        BY <1>4, CommitFacts DEF Inserted
      <3> QED
        BY <1>4, <2>1, <3>1, DuplicateCommit, Inv4Quiet
    <2> QED
      BY <1>4, <2>1, Inv4Commit
  <1>5. ASSUME NEW w \in Workers, Abort(w) PROVE Inv4'
    <2>1. Others(w) /\ ~Inserted(tx'[w]) /\ messages' = messages
      BY <1>5, AbortFacts DEF Inserted, Abort
    <2> QED
      BY <2>1, Inv4Quiet
  <1>6. ASSUME NEW w \in Workers, Crash(w) \/ Reply(w) PROVE Inv4'
    <2>1. tx' = [tx EXCEPT ![w] = IdleTx] /\ messages' = messages
      BY <1>6 DEF Crash, Reply
    <2>2. Others(w) /\ ~Inserted(tx'[w])
      BY <2>1, IdleFacts DEF Inserted
    <2> QED
      BY <2>1, <2>2, Inv4Quiet
  <1>7. ASSUME NEW g \in Groups, NEW u \in Users, Join(g, u) PROVE Inv4'
    BY <1>7 DEF Join, Inv4, StoredOnce, Inserted, SameKey
  <1> QED
    BY <1>0, <1>1, <1>2, <1>3, <1>4, <1>5, <1>6, <1>7 DEF Next

-----------------------------------------------------------------------------
(* Fifth layer: replies. *)

\* The row is the one this request reports.
Reports(t, m) == /\ SameKey(m, t.cmd) /\ m.chat = t.cmd.chat
                 /\ m.content = t.cmd.content /\ m.seq = t.seq

\* What the request says, or is about to say, is in the table.
Truthful(t, rows) ==
    /\ (t.pc = "reply" /\ t.error = "Success") \/ (t.pc = "committing" /\ t.duplicate)
       => \E m \in rows : Reports(t, m)
    /\ t.pc = "reply" /\ t.error = "IdempotencyConflict"
       => \E m \in rows : SameKey(m, t.cmd) /\ (m.chat # t.cmd.chat \/ m.content # t.cmd.content)

Inv5 == \A w \in Workers : Truthful(tx[w], messages)

\* Nothing is reported initially.
LEMMA Inv5Init == Init => Inv5
  BY SMT DEF Init, Inv5, Truthful, IdleTx

\* Rows stay, so only the moving worker's report has to be looked at.
LEMMA Inv5Step ==
    ASSUME Inv5, NEW w \in Workers, Others(w), messages \subseteq messages',
           Truthful(tx'[w], messages')
    PROVE  Inv5'
  <1>1. ASSUME NEW v \in Workers PROVE Truthful(tx'[v], messages')
    <2>1. CASE v = w
      BY <2>1
    <2>2. CASE v # w
      <3>1. tx'[v] = tx[v] /\ Truthful(tx[v], messages)
        BY <2>2 DEF Others, Inv5
      <3> QED
        BY <3>1 DEF Truthful
    <2> QED
      BY <2>1, <2>2
  <1> QED
    BY <1>1 DEF Inv5, Truthful, Reports, SameKey

\* Reports are preserved: one step per action.
LEMMA Inv5Next == Inv1 /\ Inv2 /\ Inv5 /\ [Next]_vars => Inv5'
  <1> SUFFICES ASSUME Inv1, Inv2, Inv5, [Next]_vars PROVE Inv5'
    OBVIOUS
  <1>0. CASE UNCHANGED vars
    BY <1>0 DEF vars, Inv5, Truthful, Reports, SameKey
  <1>1. ASSUME NEW w \in Workers, NEW cmd \in Commands, Begin(w, cmd) PROVE Inv5'
    <2>1. Others(w) /\ messages' = messages
      BY <1>1, BeginFacts DEF Begin
    <2>2. Truthful(tx'[w], messages')
      BY <1>1, BeginFacts DEF Truthful
    <2> QED
      BY <2>1, <2>2, Inv5Step
  <1>2. ASSUME NEW w \in Workers, Lock(w) PROVE Inv5'
    <2>1. Others(w) /\ messages' = messages /\ tx'[w].cmd = tx[w].cmd
      BY <1>2, LockFacts DEF Lock
    <2>2. tx[w].snap \subseteq messages
      BY DEF Inv2
    <2>3. CASE LockNew(w)
      BY <2>1, <2>3, Inv5Step DEF LockNew, Truthful
    <2>4. CASE LockDuplicate(w)
      <3>1. PICK m \in tx[w].snap : /\ SameKey(m, tx[w].cmd) /\ SameCommand(m, tx[w].cmd)
                                    /\ tx'[w].seq = m.seq
        BY <2>4 DEF LockDuplicate
      <3>2. m \in messages' /\ Reports(tx'[w], m)
        BY <2>1, <2>2, <3>1 DEF Reports, SameCommand
      <3>3. Truthful(tx'[w], messages')
        BY <2>4, <3>2 DEF LockDuplicate, Truthful
      <3> QED
        BY <2>1, <3>3, Inv5Step
    <2>5. CASE LockConflict(w)
      <3>1. PICK m \in tx[w].snap : SameKey(m, tx[w].cmd) /\ ~SameCommand(m, tx[w].cmd)
        BY <2>5 DEF LockConflict
      <3>2. Truthful(tx'[w], messages')
        BY <2>1, <2>2, <2>5, <3>1 DEF LockConflict, Truthful, SameCommand
      <3> QED
        BY <2>1, <3>2, Inv5Step
    <2> QED
      BY <1>2, <2>3, <2>4, <2>5, LockFacts
  <1>3. ASSUME NEW w \in Workers, Insert(w) PROVE Inv5'
    <2>1. Others(w) /\ messages' = messages
      BY <1>3, InsertFacts DEF Insert
    <2>2. ~tx'[w].duplicate
      BY <1>3, InsertFacts DEF Inv1, TxOK
    <2>3. Truthful(tx'[w], messages')
      BY <1>3, <2>2, InsertFacts DEF Truthful
    <2> QED
      BY <2>1, <2>3, Inv5Step
  <1>4. ASSUME NEW w \in Workers, Commit(w) \/ CommitUnknown(w) PROVE Inv5'
    <2>1. /\ tx[w].pc = "committing" /\ Others(w) /\ messages \subseteq messages'
          /\ tx'[w].cmd = tx[w].cmd /\ tx'[w].seq = tx[w].seq
      BY <1>4, CommitFacts
    <2>2. \E m \in messages' : Reports(tx'[w], m)
      <3>1. CASE tx[w].duplicate
        <4>1. PICK m \in messages : Reports(tx[w], m)
          BY <2>1, <3>1 DEF Inv5, Truthful
        <4> QED
          BY <2>1, <4>1 DEF Reports
      <3>2. CASE ~tx[w].duplicate
        <4>1. NewRow(w) \in messages'
          BY <1>4, <3>2, CommitFacts DEF Committed
        <4> QED
          BY <2>1, <4>1 DEF NewRow, Reports, SameKey
      <3> QED
        BY <3>1, <3>2
    <2>3. Truthful(tx'[w], messages')
      BY <1>4, <2>2, CommitFacts DEF Truthful
    <2> QED
      BY <2>1, <2>3, Inv5Step
  <1>5. ASSUME NEW w \in Workers, Abort(w) PROVE Inv5'
    <2>1. Others(w) /\ Truthful(tx'[w], messages') /\ messages' = messages
      BY <1>5, AbortFacts DEF Truthful, Abort
    <2> QED
      BY <2>1, Inv5Step
  <1>6. ASSUME NEW w \in Workers, Crash(w) \/ Reply(w) PROVE Inv5'
    <2>1. tx' = [tx EXCEPT ![w] = IdleTx] /\ messages' = messages
      BY <1>6 DEF Crash, Reply
    <2>2. Others(w) /\ Truthful(tx'[w], messages')
      BY <2>1, IdleFacts DEF Truthful
    <2> QED
      BY <2>1, <2>2, Inv5Step
  <1>7. ASSUME NEW g \in Groups, NEW u \in Users, Join(g, u) PROVE Inv5'
    BY <1>7 DEF Join, Inv5, Truthful, Reports, SameKey
  <1> QED
    BY <1>0, <1>1, <1>2, <1>3, <1>4, <1>5, <1>6, <1>7 DEF Next

-----------------------------------------------------------------------------
(* Sixth layer: pushes. *)

\* The request is over and its push is still to come.
Deliverable(t) == t.pc = "reply" /\ t.error = "Success" /\ ~t.duplicate

\* A message to come was never pushed, and each accepted message has at most one
\* request that will push it.
Inv6 ==
    /\ PushedOnce
    /\ \A c \in Chats : \A s \in 1..MaxSeq : s > latestSeq[c] => pushes[c][s] = 0
    /\ \A w \in Workers : Deliverable(tx[w]) =>
          /\ tx[w].seq \in 1..latestSeq[tx[w].cmd.chat]
          /\ pushes[tx[w].cmd.chat][tx[w].seq] = 0
    /\ \A w, v \in Workers :
          /\ Deliverable(tx[w]) /\ Deliverable(tx[v])
          /\ tx[w].cmd.chat = tx[v].cmd.chat /\ tx[w].seq = tx[v].seq
          => w = v

\* Nothing is pushed initially.
LEMMA Inv6Init == Init => Inv6
  <1> SUFFICES ASSUME Init PROVE Inv6
    OBVIOUS
  <1>1. \A w \in Workers : ~Deliverable(tx[w])
    BY DEF Init, IdleTx, Deliverable
  <1>2. \A c \in Chats : \A s \in 1..MaxSeq : pushes[c][s] = 0
    BY DEF Init
  <1> QED
    BY SMT, <1>1, <1>2 DEF Inv6, PushedOnce

\* A step that pushes nothing and after which the mover has nothing to push.
LEMMA Inv6Quiet ==
    ASSUME Inv6, NEW w \in Workers, Others(w), UNCHANGED <<latestSeq, pushes>>,
           ~Deliverable(tx'[w])
    PROVE  Inv6'
  <1>1. \A v \in Workers : Deliverable(tx'[v]) => tx'[v] = tx[v]
    BY DEF Others
  <1>2. PushedOnce'
    BY DEF Inv6, PushedOnce
  <1>3. \A c \in Chats : \A s \in 1..MaxSeq : s > latestSeq'[c] => pushes'[c][s] = 0
    BY DEF Inv6
  <1>4. ASSUME NEW v \in Workers, Deliverable(tx'[v])
        PROVE  /\ tx'[v].seq \in 1..latestSeq'[tx'[v].cmd.chat]
               /\ pushes'[tx'[v].cmd.chat][tx'[v].seq] = 0
    BY <1>1, <1>4 DEF Inv6
  <1>5. ASSUME NEW v \in Workers, NEW x \in Workers, Deliverable(tx'[v]), Deliverable(tx'[x]),
               tx'[v].cmd.chat = tx'[x].cmd.chat, tx'[v].seq = tx'[x].seq
        PROVE  v = x
    BY <1>1, <1>5 DEF Inv6
  <1> QED
    BY <1>2, <1>3, <1>4, <1>5 DEF Inv6, Deliverable

\* The row that a commit adds is new, so nobody else delivers it.
LEMMA Inv6Commit ==
    ASSUME Inv1, Inv3, Inv6, NEW w \in Workers, Commit(w) \/ CommitUnknown(w), ~tx[w].duplicate
    PROVE  Inv6'
  <1> DEFINE c == tx[w].cmd.chat
             s == tx[w].seq
  <1>1. /\ c \in Chats /\ latestSeq[c] \in 0..MaxSeq /\ s = latestSeq[c] + 1 /\ s \in 1..MaxSeq
        /\ Others(w) /\ Committed(w) /\ pushes' = pushes
        /\ tx'[w].cmd.chat = c /\ tx'[w].seq = s
    BY CommitFacts DEF Inv1, Inv3, TypeOK, TxOK, Pending
  <1>2. latestSeq'[c] = s /\ \A d \in Chats : d # c => latestSeq'[d] = latestSeq[d]
    BY <1>1 DEF Committed, Inv1, TypeOK
  <1>3. \A d \in Chats : latestSeq[d] \in Nat
    BY SMT, MessageBounds DEF Inv1, TypeOK
  <1>4. \A v \in Workers : Deliverable(tx[v]) => tx[v].cmd.chat \in Chats
    BY ChatOf DEF Deliverable
  <1> HIDE DEF c, s
  <1>5. \A d \in Chats : latestSeq[d] <= latestSeq'[d] /\ latestSeq'[d] \in Nat
    BY SMT, <1>1, <1>2, <1>3
  <1>6. PushedOnce'
    BY <1>1 DEF Inv6, PushedOnce
  <1>7. ASSUME NEW d \in Chats, NEW i \in 1..MaxSeq, i > latestSeq'[d] PROVE pushes'[d][i] = 0
    <2>1. i > latestSeq[d]
      BY SMT, <1>3, <1>5, <1>7
    <2> QED
      BY <1>1, <2>1 DEF Inv6
  <1>8. ASSUME NEW v \in Workers, v # w, Deliverable(tx'[v])
        PROVE  /\ tx'[v] = tx[v] /\ Deliverable(tx[v]) /\ tx[v].cmd.chat \in Chats
               /\ tx[v].seq \in 1..latestSeq[tx[v].cmd.chat]
               /\ pushes[tx[v].cmd.chat][tx[v].seq] = 0
    BY <1>1, <1>4, <1>8 DEF Others, Inv6
  <1>9. ASSUME NEW v \in Workers, Deliverable(tx'[v])
        PROVE  /\ tx'[v].seq \in 1..latestSeq'[tx'[v].cmd.chat]
               /\ pushes'[tx'[v].cmd.chat][tx'[v].seq] = 0
    <2>1. CASE v = w
      <3>1. s > latestSeq[c] /\ s \in 1..latestSeq'[c]
        BY SMT, <1>1, <1>2
      <3>2. pushes[c][s] = 0
        BY <1>1, <3>1 DEF Inv6
      <3> QED
        BY <1>1, <2>1, <3>1, <3>2
    <2>2. CASE v # w
      <3>1. /\ tx'[v] = tx[v] /\ tx[v].cmd.chat \in Chats
            /\ tx[v].seq \in 1..latestSeq[tx[v].cmd.chat]
            /\ pushes[tx[v].cmd.chat][tx[v].seq] = 0
        BY <1>8, <1>9, <2>2
      <3>2. tx[v].seq \in 1..latestSeq'[tx[v].cmd.chat]
        BY SMT, <1>3, <1>5, <3>1
      <3> QED
        BY <1>1, <3>1, <3>2
    <2> QED
      BY <2>1, <2>2
  <1>10. ASSUME NEW v \in Workers, NEW x \in Workers, Deliverable(tx'[v]), Deliverable(tx'[x]),
               tx'[v].cmd.chat = tx'[x].cmd.chat, tx'[v].seq = tx'[x].seq
        PROVE  v = x
    <2>1. ASSUME NEW y \in Workers, y # w, Deliverable(tx'[y]),
                 tx'[y].cmd.chat = c, tx'[y].seq = s
          PROVE  FALSE
      <3>1. s \in 1..latestSeq[c]
        BY <1>8, <2>1
      <3> QED
        BY SMT, <1>1, <3>1
    <2>2. CASE v # w /\ x # w
      BY <1>8, <1>10, <2>2 DEF Inv6
    <2>3. CASE v = w /\ x # w
      BY <1>1, <1>10, <2>1, <2>3
    <2>4. CASE v # w /\ x = w
      BY <1>1, <1>10, <2>1, <2>4
    <2> QED
      BY <2>2, <2>3, <2>4
  <1> QED
    BY <1>6, <1>7, <1>9, <1>10 DEF Inv6, Deliverable

\* The push of a request that delivers is the first of its message.
LEMMA Inv6Reply ==
    ASSUME Inv1, Inv6, NEW w \in Workers, Reply(w), ShouldDeliver(w)
    PROVE  Inv6'
  <1> DEFINE c == tx[w].cmd.chat
             s == tx[w].seq
             row == [pushes[c] EXCEPT ![s] = @ + 1]
  <1>1. Deliverable(tx[w]) /\ c \in Chats /\ latestSeq' = latestSeq
    BY ChatOf DEF Reply, ShouldDeliver, Deliverable
  <1>2. s \in 1..latestSeq[c] /\ pushes[c][s] = 0 /\ s \in 1..MaxSeq
    <2>1. s \in 1..latestSeq[c] /\ pushes[c][s] = 0 /\ latestSeq[c] \in 0..MaxSeq
      BY <1>1 DEF Inv6, Inv1, TypeOK
    <2> QED
      BY SMT, <2>1, MessageBounds
  <1>3. Others(w) /\ ~Deliverable(tx'[w])
    BY IdleFacts DEF Reply, Deliverable
  <1>4. pushes[c] \in [1..MaxSeq -> Nat] /\ pushes' = [pushes EXCEPT ![c] = row]
    BY <1>1 DEF Reply, Inv1, TypeOK
  <1> HIDE DEF c, s
  <1>5. row[s] = 1 /\ \A i \in 1..MaxSeq : i # s => row[i] = pushes[c][i]
    <2>1. row[s] = pushes[c][s] + 1 /\ \A i \in 1..MaxSeq : i # s => row[i] = pushes[c][i]
      BY <1>2, <1>4
    <2> HIDE DEF row
    <2> QED
      BY SMT, <1>2, <2>1
  <1> HIDE DEF row
  <1>6. pushes'[c] = row /\ \A d \in Chats : d # c => pushes'[d] = pushes[d]
    BY <1>1, <1>4 DEF Inv1, TypeOK
  <1>7. ASSUME NEW d \in Chats, NEW i \in 1..MaxSeq, ~(d = c /\ i = s)
        PROVE  pushes'[d][i] = pushes[d][i]
    BY <1>5, <1>6, <1>7
  <1>8. pushes'[c][s] = 1
    BY <1>5, <1>6
  <1>9. ASSUME NEW d \in Chats, NEW i \in 1..MaxSeq
        PROVE  pushes'[d][i] <= 1 /\ (i > latestSeq'[d] => pushes'[d][i] = 0)
    <2>1. CASE d = c /\ i = s
      <3>1. latestSeq[c] \in 0..MaxSeq
        BY <1>1 DEF Inv1, TypeOK
      <3> QED
        BY SMT, <1>1, <1>2, <1>8, <2>1, <3>1
    <2>2. CASE ~(d = c /\ i = s)
      BY SMT, <1>1, <1>7, <2>2 DEF Inv6, PushedOnce
    <2> QED
      BY <2>1, <2>2
  <1>10. ASSUME NEW v \in Workers, Deliverable(tx'[v])
         PROVE  /\ tx'[v] = tx[v] /\ Deliverable(tx[v]) /\ v # w /\ tx[v].cmd.chat \in Chats
                /\ tx[v].seq \in 1..latestSeq[tx[v].cmd.chat] /\ tx[v].seq \in 1..MaxSeq
                /\ pushes[tx[v].cmd.chat][tx[v].seq] = 0
    <2>1. v # w /\ tx'[v] = tx[v] /\ Deliverable(tx[v])
      BY <1>3, <1>10 DEF Others
    <2>2. tx[v].cmd.chat \in Chats /\ latestSeq[tx[v].cmd.chat] \in 0..MaxSeq
      BY <2>1, ChatOf DEF Deliverable, Inv1, TypeOK
    <2>3. tx[v].seq \in 1..latestSeq[tx[v].cmd.chat] /\ pushes[tx[v].cmd.chat][tx[v].seq] = 0
      BY <2>1 DEF Inv6
    <2> QED
      BY SMT, <2>1, <2>2, <2>3, MessageBounds
  <1>11. ASSUME NEW v \in Workers, Deliverable(tx'[v])
         PROVE  /\ tx'[v].seq \in 1..latestSeq'[tx'[v].cmd.chat]
                /\ pushes'[tx'[v].cmd.chat][tx'[v].seq] = 0
    <2>1. ~(tx[v].cmd.chat = c /\ tx[v].seq = s)
      BY <1>1, <1>10, <1>11 DEF Inv6, c, s
    <2> QED
      BY SMT, <1>1, <1>7, <1>10, <1>11, <2>1
  <1>12. ASSUME NEW v \in Workers, NEW x \in Workers, Deliverable(tx'[v]), Deliverable(tx'[x]),
                tx'[v].cmd.chat = tx'[x].cmd.chat, tx'[v].seq = tx'[x].seq
         PROVE  v = x
    BY <1>10, <1>12 DEF Inv6
  <1> QED
    BY <1>9, <1>11, <1>12 DEF Inv6, PushedOnce, Deliverable

\* Pushes are preserved: one step per action.
LEMMA Inv6Next == Inv1 /\ Inv3 /\ Inv6 /\ [Next]_vars => Inv6'
  <1> SUFFICES ASSUME Inv1, Inv3, Inv6, [Next]_vars PROVE Inv6'
    OBVIOUS
  <1>0. CASE UNCHANGED vars
    BY <1>0 DEF vars, Inv6, PushedOnce, Deliverable
  <1>1. ASSUME NEW w \in Workers, NEW cmd \in Commands, Begin(w, cmd) PROVE Inv6'
    <2>1. Others(w) /\ ~Deliverable(tx'[w]) /\ UNCHANGED <<latestSeq, pushes>>
      BY <1>1, BeginFacts DEF Deliverable, Begin
    <2> QED
      BY <2>1, Inv6Quiet
  <1>2. ASSUME NEW w \in Workers, Lock(w) PROVE Inv6'
    <2>1. ~Deliverable(tx'[w])
      BY <1>2, LockFacts DEF LockNew, LockDuplicate, LockConflict, Deliverable
    <2>2. Others(w) /\ UNCHANGED <<latestSeq, pushes>>
      BY <1>2, LockFacts DEF Lock
    <2> QED
      BY <2>1, <2>2, Inv6Quiet
  <1>3. ASSUME NEW w \in Workers, Insert(w) PROVE Inv6'
    <2>1. Others(w) /\ ~Deliverable(tx'[w]) /\ UNCHANGED <<latestSeq, pushes>>
      BY <1>3, InsertFacts DEF Deliverable, Insert
    <2> QED
      BY <2>1, Inv6Quiet
  <1>4. ASSUME NEW w \in Workers, Commit(w) \/ CommitUnknown(w) PROVE Inv6'
    <2>1. CASE tx[w].duplicate
      <3>1. Others(w) /\ ~Deliverable(tx'[w]) /\ pushes' = pushes
        BY <1>4, <2>1, CommitFacts DEF Deliverable
      <3> QED
        BY <1>4, <2>1, <3>1, DuplicateCommit, Inv6Quiet
    <2> QED
      BY <1>4, <2>1, Inv6Commit
  <1>5. ASSUME NEW w \in Workers, Abort(w) PROVE Inv6'
    <2>1. Others(w) /\ ~Deliverable(tx'[w]) /\ UNCHANGED <<latestSeq, pushes>>
      BY <1>5, AbortFacts DEF Deliverable, Abort
    <2> QED
      BY <2>1, Inv6Quiet
  <1>6. ASSUME NEW w \in Workers, Crash(w) \/ (Reply(w) /\ ~ShouldDeliver(w)) PROVE Inv6'
    <2>1. tx' = [tx EXCEPT ![w] = IdleTx] /\ UNCHANGED <<latestSeq, pushes>>
      BY <1>6 DEF Crash, Reply
    <2>2. Others(w) /\ ~Deliverable(tx'[w])
      BY <2>1, IdleFacts DEF Deliverable
    <2> QED
      BY <2>1, <2>2, Inv6Quiet
  <1>7. ASSUME NEW w \in Workers, Reply(w) PROVE Inv6'
    BY <1>6, <1>7, Inv6Reply
  <1>8. ASSUME NEW g \in Groups, NEW u \in Users, Join(g, u) PROVE Inv6'
    BY <1>8 DEF Join, Inv6, PushedOnce, Deliverable
  <1> QED
    BY <1>0, <1>1, <1>2, <1>3, <1>4, <1>5, <1>6, <1>7, <1>8 DEF Next

-----------------------------------------------------------------------------
(* Seventh layer: members. *)

\* Nobody joined later than the next message, and recipients have joined.
Inv7 ==
    /\ \A c \in Chats : \A u \in Users : joinedSeq[c][u] <= latestSeq[c] + 1
    /\ \A w \in Workers : Deliverable(tx[w]) =>
          \A u \in Recipients(w) : joinedSeq[tx[w].cmd.chat][u] \in 1..tx[w].seq

\* Nobody has joined initially.
LEMMA Inv7Init == Init => Inv7
  <1> SUFFICES ASSUME Init PROVE Inv7
    OBVIOUS
  <1>1. \A w \in Workers : ~Deliverable(tx[w])
    BY DEF Init, IdleTx, Deliverable
  <1>2. \A c \in Chats : latestSeq[c] = 0 /\ \A u \in Users : joinedSeq[c][u] = 0
    BY DEF Init
  <1> QED
    BY SMT, <1>1, <1>2 DEF Inv7

\* A step that enrols nobody and after which the mover has nothing to push.
LEMMA Inv7Quiet ==
    ASSUME Inv7, NEW w \in Workers, Others(w), UNCHANGED <<latestSeq, joinedSeq>>,
           ~Deliverable(tx'[w])
    PROVE  Inv7'
  <1>1. \A c \in Chats : \A u \in Users : joinedSeq'[c][u] <= latestSeq'[c] + 1
    BY DEF Inv7
  <1>2. ASSUME NEW v \in Workers, Deliverable(tx'[v]), NEW u \in tx'[v].seen \ {tx'[v].cmd.sender}
        PROVE  joinedSeq'[tx'[v].cmd.chat][u] \in 1..tx'[v].seq
    <2>1. tx'[v] = tx[v] /\ Deliverable(tx[v])
      BY <1>2 DEF Others
    <2> QED
      BY <1>2, <2>1 DEF Inv7, Recipients
  <1> QED
    BY <1>1, <1>2 DEF Inv7, Recipients, Deliverable

\* COMMIT writes the member rows of all recipients, none later than the message.
LEMMA Inv7Commit ==
    ASSUME Inv1, Inv2, Inv3, Inv7, NEW w \in Workers, Commit(w) \/ CommitUnknown(w)
    PROVE  Inv7'
  <1> DEFINE c == tx[w].cmd.chat
             s == tx[w].seq
  <1>1. /\ c \in Chats /\ Others(w) /\ Committed(w)
        /\ tx'[w].cmd = tx[w].cmd /\ tx'[w].seq = s /\ tx'[w].seen = tx[w].seen
        /\ tx'[w].duplicate = tx[w].duplicate /\ tx[w].seen \subseteq tx[w].enrol
        /\ tx[w] \in Tx
    BY CommitFacts DEF Inv1, Inv2, TypeOK, Holds
  <1>2. ~tx[w].duplicate => s = latestSeq[c] + 1
    BY CommitFacts DEF Inv3, Pending
  <1>3. latestSeq'[c] = IF tx[w].duplicate THEN latestSeq[c] ELSE s
    BY <1>1 DEF Committed, Inv1, TypeOK
  <1>4. \A d \in Chats : d # c => latestSeq'[d] = latestSeq[d] /\ joinedSeq'[d] = joinedSeq[d]
    BY <1>1 DEF Committed, Inv1, TypeOK
  <1>5. joinedSeq'[c] = Enrolled(w)
    BY <1>1 DEF Committed, Inv1, TypeOK
  <1>6. \A d \in Chats : latestSeq[d] \in Nat /\ \A u \in Users : joinedSeq[d][u] \in Nat
    BY SMT, MessageBounds DEF Inv1, TypeOK
  <1>7. ASSUME NEW u \in Users
        PROVE  /\ joinedSeq'[c][u] \in {1, latestSeq[c] + 1, joinedSeq[c][u]}
               /\ u \in tx[w].enrol => joinedSeq'[c][u] # 0
               /\ joinedSeq[c][u] # 0 => joinedSeq'[c][u] = joinedSeq[c][u]
    <2>1. Enrolled(w)[u] = IF u \in tx[w].enrol /\ joinedSeq[c][u] = 0
                           THEN IF c \in Direct THEN 1 ELSE latestSeq[c] + 1
                           ELSE joinedSeq[c][u]
      BY DEF Enrolled
    <2> HIDE DEF c
    <2>2. latestSeq[c] + 1 # 0
      BY SMT, <1>1, <1>6
    <2>3. joinedSeq'[c][u] = Enrolled(w)[u]
      BY <1>5
    <2>4. CASE u \in tx[w].enrol /\ joinedSeq[c][u] = 0
      <3>1. joinedSeq'[c][u] \in {1, latestSeq[c] + 1}
        BY <2>1, <2>3, <2>4
      <3> QED
        BY SMT, <2>2, <2>4, <3>1
    <2>5. CASE ~(u \in tx[w].enrol /\ joinedSeq[c][u] = 0)
      <3>1. joinedSeq'[c][u] = joinedSeq[c][u]
        BY <2>1, <2>3, <2>5
      <3> QED
        BY <2>5, <3>1
    <2> QED
      BY <2>4, <2>5
  <1> HIDE DEF c, s
  <1>8. ASSUME NEW u \in Users PROVE joinedSeq'[c][u] <= latestSeq[c] + 1
    <2>1. latestSeq[c] \in Nat /\ joinedSeq[c][u] <= latestSeq[c] + 1
      BY <1>1, <1>6 DEF Inv7
    <2> QED
      BY SMT, <1>7, <2>1
  <1>9. ASSUME NEW d \in Chats, NEW u \in Users PROVE joinedSeq'[d][u] <= latestSeq'[d] + 1
    <2>1. CASE d # c
      BY <1>4, <2>1 DEF Inv7
    <2>2. CASE d = c
      <3>1. joinedSeq'[c][u] \in Nat /\ latestSeq[c] \in Nat
        BY SMT, <1>1, <1>6, <1>7
      <3>2. CASE tx[w].duplicate
        BY <1>3, <1>8, <2>2, <3>2
      <3>3. CASE ~tx[w].duplicate
        BY SMT, <1>2, <1>3, <1>8, <2>2, <3>1, <3>3
      <3> QED
        BY <3>2, <3>3
    <2> QED
      BY <2>1, <2>2
  <1>10. ASSUME NEW v \in Workers, Deliverable(tx'[v]), NEW u \in tx'[v].seen \ {tx'[v].cmd.sender}
         PROVE  joinedSeq'[tx'[v].cmd.chat][u] \in 1..tx'[v].seq
    <2>1. CASE v = w
      <3>1. ~tx[w].duplicate /\ u \in Users /\ u \in tx[w].enrol
        BY <1>1, <1>10, <2>1 DEF Deliverable, Tx
      <3>2. joinedSeq'[c][u] \in Nat /\ joinedSeq'[c][u] # 0 /\ joinedSeq'[c][u] <= s
        BY SMT, <1>1, <1>2, <1>6, <1>7, <1>8, <3>1
      <3>3. s \in Nat /\ tx'[w].cmd.chat = c
        BY SMT, <1>1, <1>2, <1>6, <3>1 DEF c
      <3> QED
        BY SMT, <1>1, <2>1, <3>2, <3>3
    <2>2. CASE v # w
      <3>1. tx'[v] = tx[v] /\ Deliverable(tx[v]) /\ tx[v].cmd.chat \in Chats /\ u \in Users
        BY <1>1, <1>10, <2>2, ChatOf DEF Others, Deliverable, Inv1, TypeOK, Tx
      <3>2. joinedSeq[tx[v].cmd.chat][u] \in 1..tx[v].seq
        BY <1>10, <3>1 DEF Inv7, Recipients
      <3>3. joinedSeq'[tx[v].cmd.chat][u] = joinedSeq[tx[v].cmd.chat][u]
        BY SMT, <1>4, <1>7, <3>1, <3>2
      <3> QED
        BY <3>1, <3>2, <3>3
    <2> QED
      BY <2>1, <2>2
  <1> QED
    BY <1>9, <1>10 DEF Inv7, Recipients, Deliverable

\* Members are preserved: one step per action.
LEMMA Inv7Next == Inv1 /\ Inv2 /\ Inv3 /\ Inv7 /\ [Next]_vars => Inv7'
  <1> SUFFICES ASSUME Inv1, Inv2, Inv3, Inv7, [Next]_vars PROVE Inv7'
    OBVIOUS
  <1>0. CASE UNCHANGED vars
    BY <1>0 DEF vars, Inv7, Deliverable, Recipients
  <1>1. ASSUME NEW w \in Workers, NEW cmd \in Commands, Begin(w, cmd) PROVE Inv7'
    <2>1. Others(w) /\ ~Deliverable(tx'[w]) /\ UNCHANGED <<latestSeq, joinedSeq>>
      BY <1>1, BeginFacts DEF Deliverable, Begin
    <2> QED
      BY <2>1, Inv7Quiet
  <1>2. ASSUME NEW w \in Workers, Lock(w) PROVE Inv7'
    <2>1. ~Deliverable(tx'[w])
      BY <1>2, LockFacts DEF LockNew, LockDuplicate, LockConflict, Deliverable
    <2>2. Others(w) /\ UNCHANGED <<latestSeq, joinedSeq>>
      BY <1>2, LockFacts DEF Lock
    <2> QED
      BY <2>1, <2>2, Inv7Quiet
  <1>3. ASSUME NEW w \in Workers, Insert(w) PROVE Inv7'
    <2>1. Others(w) /\ ~Deliverable(tx'[w]) /\ UNCHANGED <<latestSeq, joinedSeq>>
      BY <1>3, InsertFacts DEF Deliverable, Insert
    <2> QED
      BY <2>1, Inv7Quiet
  <1>4. ASSUME NEW w \in Workers, Commit(w) \/ CommitUnknown(w) PROVE Inv7'
    BY <1>4, Inv7Commit
  <1>5. ASSUME NEW w \in Workers, Abort(w) PROVE Inv7'
    <2>1. Others(w) /\ ~Deliverable(tx'[w]) /\ UNCHANGED <<latestSeq, joinedSeq>>
      BY <1>5, AbortFacts DEF Deliverable, Abort
    <2> QED
      BY <2>1, Inv7Quiet
  <1>6. ASSUME NEW w \in Workers, Crash(w) \/ Reply(w) PROVE Inv7'
    <2>1. tx' = [tx EXCEPT ![w] = IdleTx] /\ UNCHANGED <<latestSeq, joinedSeq>>
      BY <1>6 DEF Crash, Reply
    <2>2. Others(w) /\ ~Deliverable(tx'[w])
      BY ZenonT(40), <2>1, IdleFacts DEF Deliverable
    <2> QED
      BY <2>1, <2>2, Inv7Quiet
  <1>7. ASSUME NEW g \in Groups, NEW u \in Users, Join(g, u) PROVE Inv7'
    BY <1>7 DEF Join, Inv7, Recipients, Deliverable
  <1> QED
    BY <1>0, <1>1, <1>2, <1>3, <1>4, <1>5, <1>6, <1>7 DEF Next

-----------------------------------------------------------------------------
(* The theorems. *)

IInv == Inv1 /\ Inv2 /\ Inv3 /\ Inv4 /\ Inv5 /\ Inv6 /\ Inv7

\* The layers together are an inductive invariant of the store.
LEMMA InvariantHolds == Spec => []IInv
  <1>1. Init => IInv
    BY Inv1Init, Inv2Init, Inv3Init, Inv4Init, Inv5Init, Inv6Init, Inv7Init DEF IInv
  <1>2. IInv /\ [Next]_vars => IInv'
    BY Inv1Next, Inv2Next, Inv3Next, Inv4Next, Inv5Next, Inv6Next, Inv7Next DEF IInv
  <1> QED
    BY <1>1, <1>2, PTL DEF Spec

\* A client message id is stored once, however often the command is sent.
THEOREM IdStoredOnce == Spec => []StoredOnce
  <1>1. IInv => StoredOnce
    BY DEF IInv, Inv4
  <1> QED
    BY <1>1, InvariantHolds, PTL

\* What a reply says of the table is true when the reply is sent.
THEOREM RepliesAreTruthful == Spec => []ReplyTruthful
  <1>1. IInv => ReplyTruthful
    BY DEF IInv, Inv5, Truthful, Reports, ReplyTruthful
  <1> QED
    BY <1>1, InvariantHolds, PTL

\* No message is pushed by two requests.
THEOREM MessagePushedOnce == Spec => []PushedOnce
  <1>1. IInv => PushedOnce
    BY DEF IInv, Inv6
  <1> QED
    BY <1>1, InvariantHolds, PTL

\* Every recipient of a push is a member from that message or an earlier one on.
THEOREM RecipientsCanSync == Spec => []PushedCanSync
  <1>1. IInv => PushedCanSync
    BY DEF IInv, Inv7, PushedCanSync, Deliverable, ShouldDeliver
  <1> QED
    BY <1>1, InvariantHolds, PTL

-----------------------------------------------------------------------------
(* Eighth layer: who a message may enrol. *)

\* The users the committed member tables can show for a conversation.
MayShow(c, ms) == Founders[c] \subseteq ms /\ (c \in Direct => ms = Founders[c])

InTransaction(t) == t.pc \in {"begun", "inserting", "committing"}

\* A direct conversation keeps its two friends, a group only grows; what a
\* transaction enrols was such a table; its sender was a member when it began.
Inv8 ==
    /\ \A c \in Chats : MayShow(c, members[c])
    /\ \A w \in Workers : Holds(tx[w]) => MayShow(tx[w].cmd.chat, tx[w].enrol)
    /\ \A w \in Workers : InTransaction(tx[w]) => tx[w].cmd.sender \in tx[w].seen

\* The tables start with the founders.
LEMMA Inv8Init == Init => Inv8
  BY SMT DEF Init, Inv8, MayShow, IdleTx, Holds, InTransaction

\* A step of one worker that leaves the member tables alone.
LEMMA Inv8Step ==
    ASSUME Inv8, NEW w \in Workers, Others(w), members' = members,
           Holds(tx'[w]) => MayShow(tx'[w].cmd.chat, tx'[w].enrol),
           InTransaction(tx'[w]) => tx'[w].cmd.sender \in tx'[w].seen
    PROVE  Inv8'
  <1>1. \A c \in Chats : MayShow(c, members'[c])
    BY DEF Inv8
  <1>2. ASSUME NEW v \in Workers
        PROVE  /\ Holds(tx'[v]) => MayShow(tx'[v].cmd.chat, tx'[v].enrol)
               /\ InTransaction(tx'[v]) => tx'[v].cmd.sender \in tx'[v].seen
    <2>1. CASE v = w
      BY <2>1
    <2>2. CASE v # w
      <3>1. tx'[v] = tx[v]
        BY <2>2 DEF Others
      <3> QED
        BY <3>1 DEF Inv8
    <2> QED
      BY <2>1, <2>2
  <1> QED
    BY <1>1, <1>2 DEF Inv8, Holds, InTransaction, MayShow

\* Only a member gets as far as a transaction.
LEMMA BeginMember ==
    ASSUME Inv1, NEW w \in Workers, NEW cmd \in Commands, Begin(w, cmd), InTransaction(tx'[w])
    PROVE  cmd.sender \in members[cmd.chat]
  <1>1. tx'[w].pc = IF cmd.sender \in members[cmd.chat] THEN "begun" ELSE "reply"
    BY DEF Begin, Inv1, TypeOK
  <1> QED
    BY <1>1 DEF InTransaction

\* The insert leaves what the transaction enrols.
LEMMA InsertKeeps ==
    ASSUME Inv1, NEW w \in Workers, Insert(w), Holds(tx'[w])
    PROVE  tx'[w].enrol = tx[w].enrol
  <1>1. tx[w] \in Tx
    BY DEF Inv1, TypeOK
  <1>2. CASE tx' = Ended(w, "MysqlFailed")
    <2>1. tx[w].pc = "inserting"
      BY DEF Insert
    <2>2. tx'[w].pc = "reply"
      BY <1>2, <2>1, EndedFacts DEF Error
    <2> QED
      BY <2>2 DEF Holds
  <1>3. CASE tx' = [tx EXCEPT ![w] = [@ EXCEPT !.pc = "committing"]]
    <2>1. tx'[w] = [tx[w] EXCEPT !.pc = "committing"]
      BY <1>3 DEF Inv1, TypeOK
    <2> QED
      BY <1>1, <2>1 DEF Tx
  <1> QED
    BY <1>2, <1>3 DEF Insert

\* Who may be enrolled is preserved: one step per action.
LEMMA Inv8Next == Inv1 /\ Inv8 /\ [Next]_vars => Inv8'
  <1> SUFFICES ASSUME Inv1, Inv8, [Next]_vars PROVE Inv8'
    OBVIOUS
  <1>0. CASE UNCHANGED vars
    BY <1>0 DEF vars, Inv8, Holds, InTransaction, MayShow
  <1>1. ASSUME NEW w \in Workers, NEW cmd \in Commands, Begin(w, cmd) PROVE Inv8'
    <2>1. /\ Others(w) /\ ~Holds(tx'[w])
          /\ tx'[w].cmd = cmd /\ tx'[w].seen = members[cmd.chat]
      BY <1>1, BeginFacts DEF Holds
    <2>2. members' = members
      BY <1>1 DEF Begin
    <2>3. InTransaction(tx'[w]) => tx'[w].cmd.sender \in tx'[w].seen
      BY <1>1, <2>1, BeginMember
    <2> QED
      BY <2>1, <2>2, <2>3, Inv8Step
  <1>2. ASSUME NEW w \in Workers, Lock(w) PROVE Inv8'
    <2>1. /\ Others(w) /\ tx'[w].cmd = tx[w].cmd /\ tx'[w].seen = tx[w].seen
          /\ InTransaction(tx[w]) /\ tx[w].cmd.chat \in Chats
      BY <1>2, LockFacts, ChatOf DEF InTransaction
    <2>2. members' = members
      BY <1>2 DEF Lock
    <2>3. Holds(tx'[w]) => tx'[w].enrol = members[tx[w].cmd.chat]
      BY <1>2, LockFacts DEF LockNew, LockDuplicate, LockConflict, Holds
    <2> QED
      BY <2>1, <2>2, <2>3, Inv8Step DEF Inv8
  <1>3. ASSUME NEW w \in Workers, Insert(w) PROVE Inv8'
    <2>1. /\ Others(w) /\ tx'[w].cmd = tx[w].cmd /\ tx'[w].seen = tx[w].seen
          /\ InTransaction(tx[w]) /\ Holds(tx[w])
      BY <1>3, InsertFacts DEF InTransaction, Holds
    <2>2. members' = members
      BY <1>3 DEF Insert
    <2>3. Holds(tx'[w]) => tx'[w].enrol = tx[w].enrol
      BY <1>3, InsertKeeps
    <2> QED
      BY <2>1, <2>2, <2>3, Inv8Step DEF Inv8
  <1>4. ASSUME NEW w \in Workers, Commit(w) \/ CommitUnknown(w) PROVE Inv8'
    <2>1. Others(w) /\ tx'[w].pc = "reply" /\ members' = members
      BY <1>4, CommitFacts
    <2> QED
      BY <2>1, Inv8Step DEF Holds, InTransaction
  <1>5. ASSUME NEW w \in Workers, Abort(w) PROVE Inv8'
    <2>1. Others(w) /\ tx'[w].pc = "reply" /\ members' = members
      BY <1>5, AbortFacts DEF Abort
    <2> QED
      BY <2>1, Inv8Step DEF Holds, InTransaction
  <1>6. ASSUME NEW w \in Workers, Crash(w) \/ Reply(w) PROVE Inv8'
    <2>1. tx' = [tx EXCEPT ![w] = IdleTx] /\ members' = members
      BY <1>6 DEF Crash, Reply
    <2>2. Others(w) /\ tx'[w].pc = "idle"
      BY <2>1, IdleFacts
    <2> QED
      BY <2>1, <2>2, Inv8Step DEF Holds, InTransaction
  <1>7. ASSUME NEW g \in Groups, NEW u \in Users, Join(g, u) PROVE Inv8'
    <2>1. tx' = tx /\ members' = [members EXCEPT ![g] = @ \cup {u}] /\ g \in Chats
      BY <1>7 DEF Join, Chats
    <2>2. ASSUME NEW c \in Chats PROVE MayShow(c, members'[c])
      <3>1. CASE c = g
        <4>1. c \notin Direct /\ members'[c] = members[c] \cup {u}
          BY <2>1, <3>1, DirectAssumption DEF Inv1, TypeOK
        <4> QED
          BY <4>1 DEF Inv8, MayShow
      <3>2. CASE c # g
        BY <2>1, <3>2 DEF Inv8, Inv1, TypeOK
      <3> QED
        BY <3>1, <3>2
    <2> QED
      BY <2>1, <2>2 DEF Inv8, Holds, InTransaction, MayShow
  <1> QED
    BY <1>0, <1>1, <1>2, <1>3, <1>4, <1>5, <1>6, <1>7 DEF Next

-----------------------------------------------------------------------------
(* Tables as logs. *)

LogEntry == [sender : Users, cid : ClientIds, content : Contents]

EntryOf(m) == [sender |-> m.sender, cid |-> m.cid, content |-> m.content]

\* The log of each conversation that a table of rows holds; LogOf is the one of
\* the committed tables.
LogWith(rows, seqs) ==
    [c \in Chats |-> [i \in 1..seqs[c] |->
        EntryOf(CHOOSE r \in rows : r.chat = c /\ r.seq = i)]]

\* Rows and numbers correspond one to one (Inv3).
Dense(rows, seqs) ==
    /\ rows \subseteq Row /\ seqs \in [Chats -> Nat]
    /\ \A m \in rows : m.seq <= seqs[m.chat]
    /\ \A c \in Chats : \A i \in 1..seqs[c] : \E m \in rows : m.chat = c /\ m.seq = i
    /\ \A m, r \in rows : m.chat = r.chat /\ m.seq = r.seq => m = r

\* The refinement mapping reads the committed tables.
LEMMA LogOfTables == LogOf = LogWith(messages, latestSeq) /\ LogOf' = LogWith(messages', latestSeq')
  BY DEF LogOf, LogWith, EntryOf

\* The committed tables are dense before and after a step.
LEMMA TablesDense ==
    /\ Inv1 /\ Inv3 => Dense(messages, latestSeq)
    /\ (Inv1 /\ Inv3)' => Dense(messages', latestSeq')
  <1>1. \A s : s \in [Chats -> 0..MaxSeq] => s \in [Chats -> Nat]
    BY SMT, MessageBounds
  <1>2. ASSUME Inv1, Inv3 PROVE Dense(messages, latestSeq)
    BY <1>1, <1>2 DEF Inv1, TypeOK, Inv3, Dense
  <1>3. ASSUME Inv1', Inv3' PROVE Dense(messages', latestSeq')
    BY <1>1, <1>3 DEF Inv1, TypeOK, Inv3, Dense
  <1> QED
    BY <1>2, <1>3

\* Functions that agree are equal.
LEMMA SameFunction ==
    ASSUME NEW D, NEW S, NEW f \in [D -> S], NEW g \in [D -> S], \A x \in D : f[x] = g[x]
    PROVE  f = g
  BY SMT

\* The logs are a function of the conversations, each one a function of its numbers.
LEMMA LogShape ==
    ASSUME NEW rows, NEW seqs
    PROVE  /\ LogWith(rows, seqs) = [c \in Chats |-> LogWith(rows, seqs)[c]]
           /\ \A c \in Chats :
                 /\ DOMAIN LogWith(rows, seqs)[c] = 1..seqs[c]
                 /\ LogWith(rows, seqs)[c] = [i \in 1..seqs[c] |-> LogWith(rows, seqs)[c][i]]
  <1> DEFINE e(c, i) == EntryOf(CHOOSE r \in rows : r.chat = c /\ r.seq = i)
             l == LogWith(rows, seqs)
  <1>1. l = [c \in Chats |-> [i \in 1..seqs[c] |-> e(c, i)]]
    BY DEF LogWith
  <1> HIDE DEF e, l
  <1>2. \A c \in Chats : l[c] = [i \in 1..seqs[c] |-> e(c, i)]
    BY <1>1
  <1>3. l = [c \in Chats |-> l[c]]
    BY <1>1, <1>2
  <1>4. ASSUME NEW c \in Chats
        PROVE  DOMAIN l[c] = 1..seqs[c] /\ l[c] = [i \in 1..seqs[c] |-> l[c][i]]
    <2>1. l[c] = [i \in 1..seqs[c] |-> e(c, i)]
      BY <1>2
    <2>2. \A i \in 1..seqs[c] : l[c][i] = e(c, i)
      BY <2>1
    <2>3. DOMAIN l[c] = 1..seqs[c]
      BY <2>1
    <2>4. [i \in 1..seqs[c] |-> e(c, i)] = [i \in 1..seqs[c] |-> l[c][i]]
      BY <2>2
    <2> QED
      BY <2>1, <2>3, <2>4
  <1> QED
    BY <1>3, <1>4 DEF l

\* A row is the entry at its number.
LEMMA EntryAt ==
    ASSUME NEW rows, NEW seqs, Dense(rows, seqs), NEW m \in rows
    PROVE  /\ m.chat \in Chats /\ m.seq \in 1..seqs[m.chat]
           /\ LogWith(rows, seqs)[m.chat][m.seq] = EntryOf(m)
  <1>1. m \in Row /\ m.chat \in Chats /\ m.seq \in 1..MaxSeq
    BY DEF Dense, Row
  <1>2. m.seq \in 1..seqs[m.chat]
    BY SMT, <1>1, MessageBounds DEF Dense
  <1>3. (CHOOSE r \in rows : r.chat = m.chat /\ r.seq = m.seq) = m
    BY DEF Dense
  <1>4. LogWith(rows, seqs)[m.chat] =
          [i \in 1..seqs[m.chat] |-> EntryOf(CHOOSE r \in rows : r.chat = m.chat /\ r.seq = i)]
    BY <1>1 DEF LogWith
  <1>5. LogWith(rows, seqs)[m.chat][m.seq] =
          EntryOf(CHOOSE r \in rows : r.chat = m.chat /\ r.seq = m.seq)
    BY <1>2, <1>4
  <1> QED
    BY <1>1, <1>2, <1>3, <1>5

\* Every entry is some row's.
LEMMA RowAt ==
    ASSUME NEW rows, NEW seqs, Dense(rows, seqs), NEW c \in Chats, NEW i \in 1..seqs[c]
    PROVE  \E m \in rows : /\ m.chat = c /\ m.seq = i
                           /\ LogWith(rows, seqs)[c][i] = EntryOf(m)
  <1>1. PICK m \in rows : m.chat = c /\ m.seq = i
    BY DEF Dense
  <1>2. LogWith(rows, seqs)[c][i] = EntryOf(m)
    BY <1>1, EntryAt
  <1> QED
    BY <1>1, <1>2

\* A log is a sequence as long as its number says.
LEMMA LogIsSequence ==
    ASSUME NEW rows, NEW seqs, Dense(rows, seqs), NEW c \in Chats
    PROVE  /\ LogWith(rows, seqs)[c] \in [1..seqs[c] -> LogEntry]
           /\ LogWith(rows, seqs)[c] \in Seq(LogEntry)
           /\ Len(LogWith(rows, seqs)[c]) = seqs[c]
  <1> DEFINE l == LogWith(rows, seqs)[c]
  <1>1. ASSUME NEW i \in 1..seqs[c] PROVE \E m \in rows : l[i] = EntryOf(m)
    BY SMT, RowAt
  <1>2. DOMAIN l = 1..seqs[c] /\ l = [i \in 1..seqs[c] |-> l[i]]
    BY ZenonT(30), LogShape
  <1>3. \A m \in rows : EntryOf(m) \in LogEntry
    BY DEF Dense, Row, EntryOf, LogEntry
  <1>4. \A i \in 1..seqs[c] : l[i] \in LogEntry
    BY <1>1, <1>3
  <1> HIDE DEF l
  <1>5. l \in [1..seqs[c] -> LogEntry]
    BY <1>2, <1>4
  <1>6. seqs[c] \in Nat
    BY DEF Dense
  <1>7. l \in Seq(LogEntry) /\ Len(l) = seqs[c]
    BY SMT, <1>5, <1>6
  <1> QED
    BY <1>5, <1>7 DEF l

\* A function that goes one entry further is that sequence with the entry appended.
LEMMA OneMore ==
    ASSUME NEW S, NEW n \in Nat, NEW f \in [1..n -> S], NEW g \in [1..n + 1 -> S],
           \A i \in 1..n : g[i] = f[i]
    PROVE  g = Append(f, g[n + 1])
  <1> DEFINE h == Append(f, g[n + 1])
  <1>1. f \in Seq(S) /\ Len(f) = n /\ n + 1 \in 1..n + 1
    BY SMT
  <1>2. g[n + 1] \in S
    BY <1>1
  <1>3. h \in Seq(S) /\ Len(h) = n + 1 /\ h[n + 1] = g[n + 1] /\ \A i \in 1..n : h[i] = f[i]
    BY SMT, <1>1, <1>2
  <1> HIDE DEF h
  <1>4. h \in [1..n + 1 -> S]
    BY SMT, <1>3
  <1>5. \A i \in 1..n + 1 : i \in 1..n \/ i = n + 1
    BY SMT
  <1>6. \A i \in 1..n + 1 : g[i] = h[i]
    BY <1>3, <1>5
  <1> QED
    BY SMT, <1>4, <1>6 DEF h

\* The tables with one more row, which has the next number of its conversation.
Adds(row, rows, seqs, rows2, seqs2) ==
    /\ row \in Row /\ row.seq = seqs[row.chat] + 1
    /\ rows2 = rows \cup {row} /\ seqs2 = [seqs EXCEPT ![row.chat] = row.seq]

\* The logs with the row's entry at the end of its conversation's.
Appends(row, old, new) == new = [old EXCEPT ![row.chat] = Append(@, EntryOf(row))]

\* Such a row is appended to the log of its conversation.
LEMMA RowAppends ==
    ASSUME NEW rows, NEW seqs, NEW rows2, NEW seqs2, NEW row,
           Dense(rows, seqs), Dense(rows2, seqs2), Adds(row, rows, seqs, rows2, seqs2)
    PROVE  Appends(row, LogWith(rows, seqs), LogWith(rows2, seqs2))
  <1> DEFINE old == LogWith(rows, seqs)
             new == LogWith(rows2, seqs2)
             d == row.chat
             n == seqs[row.chat]
  <1>1. /\ d \in Chats /\ n \in Nat /\ seqs2[d] = n + 1
        /\ \A c \in Chats : c # d => seqs2[c] = seqs[c]
    BY SMT DEF Dense, Row, Adds
  <1>2. row \in rows2 /\ \A m \in rows : m \in rows2
    BY DEF Adds
  <1>3. Dense(rows, seqs) /\ Dense(rows2, seqs2) /\ row.seq = n + 1
    BY DEF Adds
  <1>4. old = [c \in Chats |-> old[c]] /\ new = [c \in Chats |-> new[c]]
    BY LogShape
  <1>5. \A c \in Chats : /\ old[c] \in [1..seqs[c] -> LogEntry]
                         /\ new[c] \in [1..seqs2[c] -> LogEntry]
    BY <1>3, LogIsSequence
  <1>6. ASSUME NEW c \in Chats, NEW i \in 1..seqs[c] PROVE new[c][i] = old[c][i]
    <2>1. PICK m \in rows : m.chat = c /\ m.seq = i /\ old[c][i] = EntryOf(m)
      BY SMT, <1>3, RowAt
    <2>2. new[m.chat][m.seq] = EntryOf(m)
      BY <1>2, <1>3, EntryAt
    <2> QED
      BY <2>1, <2>2
  <1>7. new[d][n + 1] = EntryOf(row)
    <2>1. new[row.chat][row.seq] = EntryOf(row)
      BY <1>2, <1>3, EntryAt
    <2> QED
      BY <1>3, <2>1
  <1> HIDE DEF old, new, d, n
  <1>8. new[d] = Append(old[d], EntryOf(row))
    <2>1. old[d] \in [1..n -> LogEntry] /\ new[d] \in [1..n + 1 -> LogEntry]
      BY <1>1, <1>5 DEF n, d
    <2>2. \A i \in 1..n : new[d][i] = old[d][i]
      BY <1>1, <1>6 DEF n, d
    <2>3. new[d] = Append(old[d], new[d][n + 1])
      BY SMT, <1>1, <2>1, <2>2, OneMore
    <2> QED
      BY <1>7, <2>3
  <1>9. ASSUME NEW c \in Chats, c # d PROVE new[c] = old[c]
    <2> DEFINE D == 1..seqs[c]
    <2>1. new[c] \in [D -> LogEntry] /\ old[c] \in [D -> LogEntry]
      BY <1>1, <1>5, <1>9
    <2>2. \A i \in D : new[c][i] = old[c][i]
      BY <1>6
    <2> HIDE DEF D
    <2> QED
      BY SMT, <2>1, <2>2, SameFunction
  <1>10. new = [old EXCEPT ![d] = Append(old[d], EntryOf(row))]
    BY <1>4, <1>8, <1>9
  <1> QED
    BY <1>10 DEF new, old, d, Appends

-----------------------------------------------------------------------------
(* Steps. *)

\* The log of a conversation is as long as latestSeq says, and its entries are rows.
LEMMA CommittedLog ==
    ASSUME Inv1, Inv3, NEW c \in Chats
    PROVE  /\ LogOf[c] \in Seq(LogEntry) /\ Len(LogOf[c]) = latestSeq[c]
           /\ latestSeq[c] \in Nat
           /\ \A i \in 1..latestSeq[c] : \E m \in messages : LogOf[c][i] = EntryOf(m)
           /\ \A m \in messages : m.chat = c => m.seq \in 1..latestSeq[c]
  <1> DEFINE l == LogWith(messages, latestSeq)
  <1>1. Dense(messages, latestSeq)
    BY TablesDense
  <1>2. LogOf = l
    BY LogOfTables
  <1>3. /\ l[c] \in Seq(LogEntry) /\ Len(l[c]) = latestSeq[c]
    BY <1>1, LogIsSequence
  <1>4. \A i \in 1..latestSeq[c] : \E m \in messages : l[c][i] = EntryOf(m)
    BY SMT, <1>1, RowAt
  <1>5. \A m \in messages : m.chat = c => m.seq \in 1..latestSeq[c]
    BY <1>1, EntryAt
  <1>6. latestSeq[c] \in Nat
    BY <1>1 DEF Dense
  <1> HIDE DEF l
  <1> QED
    BY <1>2, <1>3, <1>4, <1>5, <1>6

\* The log of a committing request's conversation, and whom the request enrols.
LEMMA CommitEnrols ==
    ASSUME IInv, Inv8, NEW w \in Workers, Commit(w) \/ CommitUnknown(w)
    PROVE  /\ tx[w].cmd.chat \in Chats /\ tx[w].enrol \in SUBSET Users
           /\ MayShow(tx[w].cmd.chat, tx[w].enrol) /\ tx[w].cmd.sender \in tx[w].enrol
           /\ Len(LogOf[tx[w].cmd.chat]) = latestSeq[tx[w].cmd.chat]
           /\ joinedSeq' = [joinedSeq EXCEPT ![tx[w].cmd.chat] =
                              Log!Enrolled(tx[w].cmd.chat, tx[w].enrol)]
  <1>1. /\ tx[w].pc = "committing" /\ tx[w].cmd.chat \in Chats /\ Committed(w)
        /\ tx[w] \in Tx
    BY CommitFacts DEF IInv, Inv1, TypeOK
  <1>2. Holds(tx[w]) /\ InTransaction(tx[w])
    BY <1>1 DEF Holds, InTransaction
  <1>3. tx[w].enrol \in SUBSET Users
    BY <1>1 DEF Tx
  <1>4. MayShow(tx[w].cmd.chat, tx[w].enrol) /\ tx[w].cmd.sender \in tx[w].enrol
    BY <1>2 DEF Inv8, IInv, Inv2
  <1>5. Len(LogOf[tx[w].cmd.chat]) = latestSeq[tx[w].cmd.chat]
    BY <1>1, CommittedLog DEF IInv
  <1>6. Enrolled(w) = Log!Enrolled(tx[w].cmd.chat, tx[w].enrol)
    BY <1>5 DEF Enrolled, Log!Enrolled
  <1>7. joinedSeq' = [joinedSeq EXCEPT ![tx[w].cmd.chat] = Enrolled(w)]
    BY <1>1 DEF Committed
  <1> QED
    BY <1>1, <1>3, <1>4, <1>5, <1>6, <1>7

\* A new row is appended to its log under an id that no log has.
LEMMA NewRowAccepted ==
    ASSUME IInv, IInv', Inv8, NEW w \in Workers, Commit(w) \/ CommitUnknown(w), ~tx[w].duplicate
    PROVE  /\ EntryOf(NewRow(w)) \in Log!Entry
           /\ Log!Accept(tx[w].cmd.chat, EntryOf(NewRow(w)), tx[w].enrol)
  <1> DEFINE c == tx[w].cmd.chat
             row == NewRow(w)
  <1>1. /\ tx[w].pc = "committing" /\ c \in Chats /\ Committed(w)
        /\ tx[w].cmd \in Command /\ tx[w].seq \in 1..MaxSeq
    BY CommitFacts DEF IInv, Inv1, TxOK
  <1>2. /\ row \in Row /\ row.chat = c /\ row.seq = tx[w].seq
        /\ row.sender = tx[w].cmd.sender /\ row.cid = tx[w].cmd.cid
    <2>1. row \in Row
      BY <1>1 DEF NewRow, Row, Command
    <2>2. row.chat = c /\ row.seq = tx[w].seq
      BY DEF NewRow
    <2>3. row.sender = tx[w].cmd.sender /\ row.cid = tx[w].cmd.cid
      BY DEF NewRow
    <2> QED
      BY <2>1, <2>2, <2>3
  <1>3. row.seq = latestSeq[row.chat] + 1
    <2>1. Pending(tx[w])
      BY <1>1 DEF Pending
    <2>2. tx[w].seq = latestSeq[tx[w].cmd.chat] + 1
      BY <2>1 DEF IInv, Inv3
    <2> QED
      BY <1>2, <2>2
  <1>4. messages' = messages \cup {row} /\ latestSeq' = [latestSeq EXCEPT ![row.chat] = row.seq]
    BY <1>1, <1>2 DEF Committed
  <1>5. Dense(messages, latestSeq) /\ Dense(messages', latestSeq')
    BY TablesDense DEF IInv
  <1>6. LogOf' = [LogOf EXCEPT ![row.chat] = Append(@, EntryOf(row))]
    <2> HIDE DEF row, c
    <2>1. Adds(row, messages, latestSeq, messages', latestSeq')
      BY <1>2, <1>3, <1>4 DEF Adds
    <2>2. Appends(row, LogWith(messages, latestSeq), LogWith(messages', latestSeq'))
      BY <1>5, <2>1, RowAppends
    <2> QED
      BY <2>2, LogOfTables DEF Appends
  <1>7. EntryOf(row) \in LogEntry /\ EntryOf(row).sender = tx[w].cmd.sender
        /\ EntryOf(row).cid = tx[w].cmd.cid
    BY <1>2 DEF Row, EntryOf, LogEntry
  <1>8. \A m \in messages : ~SameKey(m, tx[w].cmd)
    BY <1>1 DEF IInv, Inv4, Inserted
  <1>9. ~Log!Used(EntryOf(row))
    <2> SUFFICES ASSUME NEW d \in Chats, NEW i \in 1..Len(LogOf[d]),
                        LogOf[d][i].sender = EntryOf(row).sender,
                        LogOf[d][i].cid = EntryOf(row).cid
                 PROVE  FALSE
      BY DEF Log!Used, Log!Chats, Chats
    <2>1. /\ Len(LogOf[d]) = latestSeq[d]
          /\ \A j \in 1..latestSeq[d] : \E m \in messages : LogOf[d][j] = EntryOf(m)
      BY CommittedLog DEF IInv
    <2>2. i \in 1..latestSeq[d]
      BY <2>1
    <2>3. PICK m \in messages : LogOf[d][i] = EntryOf(m)
      BY <2>1, <2>2
    <2>4. m.sender = tx[w].cmd.sender /\ m.cid = tx[w].cmd.cid
      BY SMT, <1>7, <2>3 DEF EntryOf
    <2> QED
      BY <1>8, <2>4 DEF SameKey
  <1>10. /\ tx[w].cmd.sender \in tx[w].enrol
         /\ joinedSeq' = [joinedSeq EXCEPT ![c] = Log!Enrolled(c, tx[w].enrol)]
    BY CommitEnrols
  <1> HIDE DEF row, c
  <1>11. Log!Accept(c, EntryOf(row), tx[w].enrol)
    BY <1>2, <1>6, <1>7, <1>9, <1>10 DEF Log!Accept
  <1>12. EntryOf(row) \in Log!Entry
    BY <1>7 DEF LogEntry, Log!Entry
  <1> QED
    BY <1>11, <1>12 DEF row, c

\* A duplicate adds member rows to a conversation that has messages.
LEMMA DuplicateEnrols ==
    ASSUME IInv, Inv8, NEW w \in Workers, Commit(w) \/ CommitUnknown(w), tx[w].duplicate
    PROVE  Log!Enrol(tx[w].cmd.chat, tx[w].enrol)
  <1> DEFINE c == tx[w].cmd.chat
  <1>1. tx[w].pc = "committing"
    BY CommitFacts DEF IInv
  <1>2. PICK m \in messages : m.chat = c
    BY <1>1 DEF IInv, Inv5, Truthful, Reports
  <1>3. c \in Chats /\ latestSeq[c] \in Nat /\ m.seq \in 1..latestSeq[c]
    BY <1>2, CommitEnrols, CommittedLog DEF IInv
  <1>4. /\ c \in Chats /\ Len(LogOf[c]) = latestSeq[c]
        /\ joinedSeq' = [joinedSeq EXCEPT ![c] = Log!Enrolled(c, tx[w].enrol)]
    BY CommitEnrols
  <1>5. LogOf[c] # <<>>
    BY SMT, <1>3, <1>4
  <1>6. LogOf' = LogOf
    BY DuplicateCommit, LogOfTables DEF IInv
  <1> QED
    BY <1>4, <1>5, <1>6 DEF Log!Enrol

\* Every other step leaves the tables the log is read from.
LEMMA OtherStepsStutter ==
    ASSUME [Next]_vars, ~\E w \in Workers : Commit(w) \/ CommitUnknown(w)
    PROVE  UNCHANGED Log!logVars
  <1>1. UNCHANGED <<messages, latestSeq, joinedSeq>>
    <2>0. CASE UNCHANGED vars
      BY <2>0 DEF vars
    <2>1. CASE \E w \in Workers, cmd \in Commands : Begin(w, cmd)
      BY <2>1 DEF Begin
    <2>2. CASE \E w \in Workers : Lock(w)
      BY <2>2 DEF Lock
    <2>3. CASE \E w \in Workers : Insert(w)
      BY <2>3 DEF Insert
    <2>4. CASE \E w \in Workers : Abort(w) \/ Crash(w) \/ Reply(w)
      BY <2>4 DEF Abort, Crash, Reply
    <2>5. CASE \E g \in Groups, u \in Users : Join(g, u)
      BY <2>5 DEF Join
    <2> QED
      BY <2>0, <2>1, <2>2, <2>3, <2>4, <2>5 DEF Next
  <1>2. LogOf' = LogOf
    BY <1>1, LogOfTables
  <1> QED
    BY <1>1, <1>2 DEF Log!logVars

\* Initially every log is empty.
LEMMA LogStartsEmpty == Init => Log!LogInit
  <1> SUFFICES ASSUME Init PROVE Log!LogInit
    OBVIOUS
  <1>1. Inv1 /\ Inv3
    BY Inv1Init, Inv3Init
  <1>2. ASSUME NEW c \in Chats PROVE LogOf[c] = <<>>
    <2>1. latestSeq[c] = 0
      BY DEF Init
    <2>2. LogOf[c] \in Seq(LogEntry) /\ Len(LogOf[c]) = latestSeq[c]
      BY <1>1, CommittedLog
    <2> QED
      BY SMT, <2>1, <2>2
  <1>3. LogOf = [c \in Chats |-> LogOf[c]]
    BY DEF LogOf
  <1>4. LogOf = [c \in Chats |-> <<>>]
    BY <1>2, <1>3
  <1>5. joinedSeq = [c \in Chats |-> [u \in Users |-> 0]]
    BY DEF Init
  <1> QED
    BY <1>4, <1>5 DEF Log!LogInit, Log!Chats, Chats

\* Every step of the store is a step of the log, or leaves it as it is.
LEMMA StepsAreLogSteps ==
    IInv /\ IInv' /\ Inv8 /\ [Next]_vars => [Log!LogNext]_(Log!logVars)
  <1> SUFFICES ASSUME IInv, IInv', Inv8, [Next]_vars PROVE [Log!LogNext]_(Log!logVars)
    OBVIOUS
  <1>1. ASSUME NEW w \in Workers, Commit(w) \/ CommitUnknown(w) PROVE Log!LogNext
    <2>1. /\ tx[w].cmd.chat \in Log!Chats /\ tx[w].enrol \in SUBSET Users
          /\ Log!MayEnrol(tx[w].cmd.chat, tx[w].enrol)
      BY <1>1, CommitEnrols DEF MayShow, Log!MayEnrol, Log!Chats, Chats
    <2>2. \/ \E e \in Log!Entry : Log!Accept(tx[w].cmd.chat, e, tx[w].enrol)
          \/ Log!Enrol(tx[w].cmd.chat, tx[w].enrol)
      BY <1>1, NewRowAccepted, DuplicateEnrols
    <2> QED
      BY <2>1, <2>2 DEF Log!LogNext
  <1> QED
    BY <1>1, OtherStepsStutter

-----------------------------------------------------------------------------
(* The theorem. *)

\* The transactions of acceptDirectText and acceptGroupText, however they
\* interleave, fail and repeat, change the committed tables only as the
\* append-only logs of MessageLog may change.
THEOREM StoreImplementsLog == Spec => ImplementsLog
  <1>1. Init => Inv8 /\ Log!LogInit
    BY Inv8Init, LogStartsEmpty
  <1>2. IInv /\ Inv8 /\ [Next]_vars => Inv8'
    BY Inv8Next DEF IInv
  <1>3. IInv /\ IInv' /\ Inv8 /\ [Next]_vars => [Log!LogNext]_(Log!logVars)
    BY StepsAreLogSteps
  <1> QED
    BY <1>1, <1>2, <1>3, InvariantHolds, PTL DEF Spec, ImplementsLog, Log!LogSpec
=============================================================================
