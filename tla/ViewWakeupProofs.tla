-------------------------- MODULE ViewWakeupProofs --------------------------
(***************************************************************************)
(* Proofs about a member's view of a conversation, for every set of        *)
(* users, conversations and page sizes, and about the waits and            *)
(* notifications of the connection pools and of the File node's workers,   *)
(* for every number of callers, connections, uploads and workers.          *)
(***************************************************************************)
EXTENDS ConversationView, ConnectionPool, FileWorkers, FiniteSetTheorems, TLAPS

\* Zenon is the default prover; a leaf with arithmetic or sequences cites SMT.
USE Zenon

-----------------------------------------------------------------------------
(* Conversations: the receipts *)

Seqs == 1..MaxLog
Cursors == [Chats -> [Users -> Nat]]

LogTypes ==
    /\ log \in [Chats -> Seq(Entry)] /\ joined \in Cursors
    /\ \A c \in Chats : Len(log[c]) <= MaxLog

ReceiptTypes ==
    /\ deliveredSeq \in Cursors /\ readSeq \in Cursors
    /\ status \in [Chats -> [Seqs -> {WAIT, DELIVERED, READ}]]
    /\ readTime \in [Chats -> [Seqs -> Times \cup {NoTime}]]

ReceiptInv == LogTypes /\ ReceiptTypes /\ ReceiptsOrdered

\* Nothing is delivered or read initially.
LEMMA ReceiptInit == Init => ReceiptInv
  <1> SUFFICES ASSUME Init PROVE ReceiptInv
    OBVIOUS
  <1>1. /\ log \in [Chats -> Seq(Entry)] /\ joined \in Cursors
        /\ \A c \in Chats : log[c] = <<>> /\ Len(log[c]) = 0
    BY SMT DEF Init, LogInit, Cursors
  <1>2. LogTypes
    BY SMT, <1>1, ViewAssumption DEF LogTypes
  <1>3. ReceiptTypes
    BY DEF Init, ReceiptTypes, Cursors, Seqs
  <1>4. ReceiptsOrdered
    BY SMT, <1>1 DEF Init, ReceiptsOrdered, WAIT, READ
  <1> QED
    BY <1>2, <1>3, <1>4 DEF ReceiptInv

\* The log grows at its end, and a member row stays as it is.
LEMMA LogGrows ==
    ASSUME LogTypes, GrowLog
    PROVE  /\ LogTypes'
           /\ \A c \in Chats : Len(log[c]) \in Nat /\ Len(log'[c]) \in Nat /\ Len(log[c]) <= Len(log'[c])
           /\ \A c \in Chats, u \in Users : joined[c][u] # 0 => joined'[c][u] = joined[c][u]
           /\ UNCHANGED <<deliveredSeq, readSeq, status, readTime, pull>>
  <1>1. PICK c \in Chats, ms \in SUBSET Users :
            (\E e \in Entry : Accept(c, e, ms)) \/ Enrol(c, ms)
    BY DEF GrowLog, LogNext
  <1>2. /\ \A d \in Chats : Len(log'[d]) <= MaxLog
        /\ UNCHANGED <<deliveredSeq, readSeq, status, readTime, pull>>
    BY DEF GrowLog, viewVars
  <1>3. \A d \in Chats : log[d] \in Seq(Entry) /\ Len(log[d]) \in Nat
    BY SMT DEF LogTypes
  <1>4. /\ log' \in [Chats -> Seq(Entry)]
        /\ \A d \in Chats : Len(log'[d]) \in Nat /\ Len(log[d]) <= Len(log'[d])
    <2>1. CASE log' = log
      BY SMT, <1>3, <2>1 DEF LogTypes
    <2>2. ASSUME NEW e \in Entry, log' = [log EXCEPT ![c] = Append(@, e)]
          PROVE  /\ log' \in [Chats -> Seq(Entry)]
                 /\ \A d \in Chats : Len(log'[d]) \in Nat /\ Len(log[d]) <= Len(log'[d])
      <3>1. Append(log[c], e) \in Seq(Entry) /\ Len(Append(log[c], e)) = Len(log[c]) + 1
        BY SMT, <1>3
      <3> QED
        BY SMT, <1>3, <2>2, <3>1 DEF LogTypes
    <2> QED
      BY <1>1, <2>1, <2>2 DEF Accept, Enrol
  <1>5. joined' = [joined EXCEPT ![c] = Enrolled(c, ms)]
    BY <1>1 DEF Accept, Enrol
  <1>6. /\ Enrolled(c, ms) \in [Users -> Nat]
        /\ \A u \in Users : joined[c][u] # 0 => Enrolled(c, ms)[u] = joined[c][u]
    BY SMT, <1>3 DEF Enrolled, LogTypes, Cursors
  <1>7. /\ joined' \in Cursors
        /\ \A d \in Chats, u \in Users : joined[d][u] # 0 => joined'[d][u] = joined[d][u]
    BY <1>5, <1>6 DEF LogTypes, Cursors
  <1> QED
    BY <1>2, <1>3, <1>4, <1>7 DEF LogTypes

\* The kinds of receipts with the times they bring.
Receipt(kind, t) == (kind = DELIVERED /\ t = NoTime) \/ (kind = READ /\ t \in Times)

\* What a receipt does to a message.
LEMMA Marked ==
    ASSUME ReceiptInv, NEW c \in Chats, NEW s \in Seqs, NEW kind, NEW t, Receipt(kind, t), Mark(c, s, kind, t)
    PROVE  /\ status' \in [Chats -> [Seqs -> {WAIT, DELIVERED, READ}]]
           /\ readTime' \in [Chats -> [Seqs -> Times \cup {NoTime}]]
           /\ \A d \in Chats, i \in Seqs : /\ status'[d][i] = READ <=> readTime'[d][i] # NoTime
                                           /\ status'[d][i] >= status[d][i]
                                           /\ readTime[d][i] # NoTime => readTime'[d][i] = readTime[d][i]
  <1> DEFINE st == Status(c, s, kind)
             rt == ReadTime(c, s, kind, t)
  <1>0. /\ status \in [Chats -> [Seqs -> {WAIT, DELIVERED, READ}]]
        /\ readTime \in [Chats -> [Seqs -> Times \cup {NoTime}]]
        /\ \A d \in Chats, i \in Seqs : status[d][i] = READ <=> readTime[d][i] # NoTime
    BY DEF ReceiptInv, ReceiptTypes, ReceiptsOrdered, Seqs
  <1>1. status[c][s] \in {WAIT, DELIVERED, READ} /\ readTime[c][s] \in Times \cup {NoTime}
    BY <1>0
  <1>2. /\ st \in {WAIT, DELIVERED, READ} /\ st >= status[c][s]
        /\ st = READ <=> status[c][s] = READ \/ kind = READ
    BY SMT, <1>1 DEF Status, Greatest, Receipt, WAIT, DELIVERED, READ
  <1>3. /\ rt \in Times \cup {NoTime}
        /\ readTime[c][s] # NoTime => rt = readTime[c][s]
        /\ rt # NoTime <=> readTime[c][s] # NoTime \/ kind = READ
    <2>1. status[c][s] = READ <=> readTime[c][s] # NoTime
      BY <1>0
    <2>2. DELIVERED # READ /\ ~ (READ < READ) /\ NoTime \notin Times
      BY SMT, ViewAssumption DEF DELIVERED, READ
    <2> QED
      BY <1>1, <2>1, <2>2 DEF ReadTime, Receipt
  <1>4. /\ status' = [status EXCEPT ![c][s] = st]
        /\ readTime' = [readTime EXCEPT ![c][s] = rt]
    BY DEF Mark
  <1>5. st = READ <=> rt # NoTime
    BY <1>0, <1>2, <1>3
  <1> HIDE DEF st, rt
  <1>6. /\ status' \in [Chats -> [Seqs -> {WAIT, DELIVERED, READ}]]
        /\ status'[c][s] = st
        /\ \A d \in Chats, i \in Seqs : <<d, i>> # <<c, s>> => status'[d][i] = status[d][i]
    BY <1>0, <1>2, <1>4
  <1>7. /\ readTime' \in [Chats -> [Seqs -> Times \cup {NoTime}]]
        /\ readTime'[c][s] = rt
        /\ \A d \in Chats, i \in Seqs : <<d, i>> # <<c, s>> => readTime'[d][i] = readTime[d][i]
    BY <1>0, <1>3, <1>4
  <1>8. \A d \in Chats, i \in Seqs : status[d][i] >= status[d][i]
    BY SMT, <1>0 DEF WAIT, DELIVERED, READ
  <1> QED
    BY SMT, <1>0, <1>2, <1>3, <1>5, <1>6, <1>7, <1>8

\* What a receipt does to the cursors.
LEMMA CursorsAdvance ==
    ASSUME ReceiptInv, NEW u \in Users, NEW c \in Chats, NEW s \in 1..Len(log[c]), NEW kind,
           AdvanceCursors(u, c, s, kind)
    PROVE  /\ deliveredSeq' \in Cursors /\ readSeq' \in Cursors
           /\ \A d \in Chats, v \in Users : /\ readSeq'[d][v] <= deliveredSeq'[d][v]
                                            /\ deliveredSeq'[d][v] <= Len(log[d])
                                            /\ deliveredSeq'[d][v] >= deliveredSeq[d][v]
                                            /\ readSeq'[d][v] >= readSeq[d][v]
  <1>0. /\ deliveredSeq \in [Chats -> [Users -> Nat]] /\ readSeq \in [Chats -> [Users -> Nat]]
        /\ \A d \in Chats : Len(log[d]) \in Nat
        /\ \A d \in Chats, v \in Users : readSeq[d][v] <= deliveredSeq[d][v] /\ deliveredSeq[d][v] <= Len(log[d])
    BY SMT DEF ReceiptInv, ReceiptTypes, ReceiptsOrdered, Cursors, LogTypes
  <1>1. s \in Nat /\ s <= Len(log[c])
    BY SMT, <1>0
  <1> DEFINE dl == Greatest(deliveredSeq[c][u], s)
             rd == IF kind = READ THEN Greatest(readSeq[c][u], s) ELSE readSeq[c][u]
  <1>2. /\ dl \in Nat /\ rd \in Nat /\ rd <= dl /\ dl <= Len(log[c])
        /\ dl >= deliveredSeq[c][u] /\ rd >= readSeq[c][u]
    BY SMT, <1>0, <1>1 DEF Greatest
  <1>3. /\ deliveredSeq' = [deliveredSeq EXCEPT ![c][u] = dl] /\ readSeq' = [readSeq EXCEPT ![c][u] = rd]
    BY DEF AdvanceCursors
  <1> HIDE DEF dl, rd
  <1>4. /\ deliveredSeq' \in Cursors /\ deliveredSeq'[c][u] = dl
        /\ \A d \in Chats, v \in Users : <<d, v>> # <<c, u>> => deliveredSeq'[d][v] = deliveredSeq[d][v]
    BY <1>0, <1>2, <1>3 DEF Cursors
  <1>5. /\ readSeq' \in Cursors /\ readSeq'[c][u] = rd
        /\ \A d \in Chats, v \in Users : <<d, v>> # <<c, u>> => readSeq'[d][v] = readSeq[d][v]
    BY <1>0, <1>2, <1>3 DEF Cursors
  <1>6. \A d \in Chats, v \in Users : deliveredSeq[d][v] >= deliveredSeq[d][v] /\ readSeq[d][v] >= readSeq[d][v]
    BY SMT, <1>0
  <1> QED
    BY ZenonT(30), <1>0, <1>2, <1>4, <1>5, <1>6

\* The receipts of a step never go back.
Forward ==
    /\ \A c \in Chats, u \in Users :
           deliveredSeq'[c][u] >= deliveredSeq[c][u] /\ readSeq'[c][u] >= readSeq[c][u]
    /\ \A c \in Chats : \A s \in 1..MaxLog :
           /\ status'[c][s] >= status[c][s]
           /\ readTime[c][s] # NoTime => readTime'[c][s] = readTime[c][s]

\* A step that writes no receipt.
LEMMA ReceiptsStand ==
    ASSUME ReceiptInv, UNCHANGED viewVars
    PROVE  /\ ReceiptTypes' /\ Forward
           /\ \A c \in Chats, u \in Users : readSeq'[c][u] <= deliveredSeq'[c][u]
           /\ \A c \in Chats : \A s \in 1..MaxLog : status'[c][s] = READ <=> readTime'[c][s] # NoTime
  <1>1. UNCHANGED <<deliveredSeq, readSeq, status, readTime>>
    BY DEF viewVars
  <1>2. ReceiptTypes /\ ReceiptsOrdered
    BY DEF ReceiptInv
  <1>3. \A c \in Chats, u \in Users : deliveredSeq[c][u] >= deliveredSeq[c][u] /\ readSeq[c][u] >= readSeq[c][u]
    BY SMT, <1>2 DEF ReceiptTypes, Cursors
  <1>4. \A c \in Chats, s \in Seqs : status[c][s] >= status[c][s]
    BY SMT, <1>2 DEF ReceiptTypes, WAIT, DELIVERED, READ
  <1>5. ReceiptTypes'
    BY <1>1, <1>2 DEF ReceiptTypes
  <1> QED
    BY <1>1, <1>2, <1>3, <1>4, <1>5 DEF Forward, ReceiptsOrdered, Seqs

\* A step that leaves the receipts alone while the log stands or grows.
LEMMA ReceiptsStay ==
    ASSUME ReceiptInv, UNCHANGED viewVars, LogTypes',
           \A c \in Chats : Len(log[c]) <= Len(log'[c])
    PROVE  ReceiptInv' /\ Forward
  <1>1. /\ \A c \in Chats : Len(log[c]) \in Nat /\ Len(log'[c]) \in Nat
        /\ \A c \in Chats, u \in Users : deliveredSeq[c][u] \in Nat /\ deliveredSeq[c][u] <= Len(log[c])
    BY SMT DEF ReceiptInv, ReceiptTypes, Cursors, LogTypes, ReceiptsOrdered
  <1>2. \A c \in Chats, u \in Users : deliveredSeq'[c][u] <= Len(log'[c])
    <2>1. deliveredSeq' = deliveredSeq
      BY DEF viewVars
    <2> QED
      BY SMT, <1>1, <2>1
  <1> QED
    BY <1>2, ReceiptsStand DEF ReceiptInv, ReceiptsOrdered

\* Every step keeps the receipts in order and takes none of them back.
LEMMA ReceiptStep == ReceiptInv /\ [Next]_vars => ReceiptInv' /\ (Forward \/ UNCHANGED vars)
  <1> SUFFICES ASSUME ReceiptInv, [Next]_vars PROVE ReceiptInv' /\ (Forward \/ UNCHANGED vars)
    OBVIOUS
  <1>0. /\ LogTypes /\ \A c \in Chats : Len(log[c]) \in Nat
        /\ \A c \in Chats : Len(log[c]) <= Len(log[c]) /\ Len(log[c]) <= MaxLog
    BY SMT DEF ReceiptInv, LogTypes
  <1>1. CASE GrowLog
    <2>1. UNCHANGED viewVars
      BY <1>1 DEF GrowLog
    <2> QED
      BY <1>0, <1>1, <2>1, LogGrows, ReceiptsStay
  <1>2. ASSUME UNCHANGED <<log, joined, viewVars>> PROVE ReceiptInv' /\ Forward
    <2>1. LogTypes'
      BY <1>0, <1>2 DEF LogTypes
    <2> QED
      BY <1>0, <1>2, <2>1, ReceiptsStay
  <1>3. CASE Synchronise
    <2>1. UNCHANGED <<log, joined, viewVars>>
      BY <1>3 DEF Synchronise, PullStart, PullNext, PullPage, Membership
    <2> QED
      BY <1>2, <2>1
  <1>4. CASE Acknowledge
    <2>0. PICK u \in Users, c \in Chats :
              \E s \in 1..Len(log[c]), r \in {<<DELIVERED, NoTime>>} \cup {<<READ, t>> : t \in Times} :
                  AckConversation(u, c, s, r[1], r[2]) \/ AckLegacy(u, c, s, r[1], r[2])
      BY <1>4 DEF Acknowledge
    <2>1. PICK s \in 1..Len(log[c]), r \in {<<DELIVERED, NoTime>>} \cup {<<READ, t>> : t \in Times} :
              AckConversation(u, c, s, r[1], r[2]) \/ AckLegacy(u, c, s, r[1], r[2])
      BY <2>0
    <2> DEFINE kind == r[1]
               t == r[2]
    <2>2. Receipt(kind, t)
      BY SMT DEF Receipt
    <2> HIDE DEF kind, t
    <2>3. AckConversation(u, c, s, kind, t) \/ AckLegacy(u, c, s, kind, t)
      BY <2>1 DEF kind, t
    <2>4. UNCHANGED <<log, joined>>
      BY <2>3 DEF AckConversation, AckLegacy
    <2>5. s \in Seqs
      BY SMT, <1>0, ViewAssumption DEF Seqs
    <2>6. \/ UNCHANGED <<deliveredSeq, readSeq>>
          \/ AdvanceCursors(u, c, s, kind)
      BY <2>3 DEF AckConversation, AckLegacy
    <2>7. \/ UNCHANGED <<status, readTime>>
          \/ Mark(c, s, kind, t)
      BY <2>3 DEF AckConversation, AckLegacy
    <2>8. /\ deliveredSeq' \in Cursors /\ readSeq' \in Cursors
          /\ \A d \in Chats, v \in Users : /\ readSeq'[d][v] <= deliveredSeq'[d][v]
                                           /\ deliveredSeq'[d][v] <= Len(log[d])
                                           /\ deliveredSeq'[d][v] >= deliveredSeq[d][v]
                                           /\ readSeq'[d][v] >= readSeq[d][v]
      <3>1. CASE UNCHANGED <<deliveredSeq, readSeq>>
        <4>1. deliveredSeq \in Cursors /\ readSeq \in Cursors
          BY DEF ReceiptInv, ReceiptTypes
        <4>2. \A d \in Chats, v \in Users : deliveredSeq[d][v] \in Nat /\ readSeq[d][v] \in Nat
          BY <4>1 DEF Cursors
        <4> QED
          BY SMT, <3>1, <4>1, <4>2 DEF ReceiptInv, ReceiptsOrdered
      <3> QED
        BY <2>6, <3>1, CursorsAdvance
    <2>9. /\ status' \in [Chats -> [Seqs -> {WAIT, DELIVERED, READ}]]
          /\ readTime' \in [Chats -> [Seqs -> Times \cup {NoTime}]]
          /\ \A d \in Chats, i \in Seqs : /\ status'[d][i] = READ <=> readTime'[d][i] # NoTime
                                          /\ status'[d][i] >= status[d][i]
                                          /\ readTime[d][i] # NoTime => readTime'[d][i] = readTime[d][i]
      <3>1. CASE UNCHANGED <<status, readTime>>
        <4>1. /\ status \in [Chats -> [Seqs -> {WAIT, DELIVERED, READ}]]
              /\ readTime \in [Chats -> [Seqs -> Times \cup {NoTime}]]
          BY DEF ReceiptInv, ReceiptTypes
        <4>2. \A d \in Chats, i \in Seqs : status[d][i] >= status[d][i]
          BY SMT, <4>1 DEF WAIT, DELIVERED, READ
        <4> QED
          BY <3>1, <4>1, <4>2 DEF ReceiptInv, ReceiptsOrdered, Seqs
      <3> QED
        BY <2>2, <2>5, <2>7, <3>1, Marked
    <2>10. LogTypes' /\ ReceiptTypes'
      BY <1>0, <2>4, <2>8, <2>9 DEF LogTypes, ReceiptTypes
    <2>11. ReceiptsOrdered'
      BY <2>4, <2>8, <2>9 DEF ReceiptsOrdered, Seqs
    <2>12. Forward
      BY <2>8, <2>9 DEF Forward, Seqs
    <2> QED
      BY <2>10, <2>11, <2>12 DEF ReceiptInv
  <1>5. CASE UNCHANGED vars
    BY <1>2, <1>5 DEF vars
  <1> QED
    BY <1>1, <1>3, <1>4, <1>5, LogGrows, ReceiptsStay DEF Next

\* For every set of users and conversations and every length of the log: nothing is read
\* that was not delivered, nothing delivered that was not sent, and a message has a read
\* time exactly when its status is READ, for every mix of the two protocols' receipts.
THEOREM ReceiptsInOrder == Spec => []ReceiptsOrdered
  <1>1. ReceiptInv => ReceiptsOrdered
    BY DEF ReceiptInv
  <1>2. ReceiptInv /\ [Next]_vars => ReceiptInv'
    BY ReceiptStep
  <1> QED
    BY <1>1, <1>2, ReceiptInit, PTL DEF Spec

\* Receipts that arrive late, twice or out of order take nothing back: no cursor and no
\* status goes down, and the first read time stays.
THEOREM ReceiptsForward == Spec => ReceiptsMonotone
  <1>1. ReceiptInv /\ [Next]_vars => ReceiptInv'
    BY ReceiptStep
  <1>2. ReceiptInv /\ [Next]_vars => [Forward]_vars
    BY ReceiptStep
  <1> QED
    BY <1>1, <1>2, ReceiptInit, PTL DEF Spec, ReceiptsMonotone, Forward

-----------------------------------------------------------------------------
(* Conversations: the walk through the pages *)

Walk == [pc : {"idle", "paging", "ready", "done"}, chat : Chats \cup {CHOOSE c \in Chats : TRUE},
         after : Nat, count : Nat, latest : Nat, from : Nat, got : SUBSET Int]

\* The last message before the walk m, in the member rows jn of its user u.
Base(jn, m, u) == Greatest(m.from, jn[m.chat][u] - 1)

\* What the user u of the walk m holds.
WalkInv(lg, jn, m, u) ==
    /\ m.pc = "idle" => m.got = {}
    /\ m.pc # "idle" => m.chat \in Chats /\ jn[m.chat][u] # 0
    /\ m.pc \in {"paging", "ready"} =>
           /\ m.after >= Base(jn, m, u) /\ m.got = (Base(jn, m, u) + 1)..m.after
           /\ m.after > Base(jn, m, u) => m.after <= m.latest
           /\ m.latest <= Len(lg[m.chat]) /\ m.count > 0
    /\ m.pc = "done" => m.got = (Base(jn, m, u) + 1)..m.latest

PagesInv ==
    /\ LogTypes
    /\ pull \in [Readers -> Walk]
    /\ \A u \in Readers : WalkInv(log, joined, pull[u], u)

\* No walk has begun initially.
LEMMA PagesInit == Init => PagesInv
  <1> SUFFICES ASSUME Init PROVE PagesInv
    OBVIOUS
  <1>1. LogTypes
    BY ReceiptInit DEF ReceiptInv
  <1> DEFINE m == [pc |-> "idle", chat |-> CHOOSE c \in Chats : TRUE, after |-> 0,
                   count |-> 0, latest |-> 0, from |-> 0, got |-> {}]
  <1>2. m \in Walk /\ m.pc = "idle" /\ m.got = {}
    BY DEF Walk
  <1>3. pull = [u \in Readers |-> m]
    BY DEF Init
  <1> HIDE DEF m
  <1> QED
    BY <1>1, <1>2, <1>3 DEF PagesInv, WalkInv

\* The set the second SELECT finds is an interval, and LIMIT cuts off its end.
LEMMA RowsBelow ==
    ASSUME NEW a \in Nat, NEW b \in Int
    PROVE  Cardinality((a + 1)..b) = IF b > a THEN b - a ELSE 0
  <1>1. Cardinality((a + 1)..b) = IF a + 1 > b THEN 0 ELSE b - (a + 1) + 1
    BY SMT, FS_Interval
  <1> QED
    BY SMT, <1>1

\* The page, hasMore and nextSeq of the second SELECT as bounds of an interval.
LEMMA PageRows ==
    ASSUME NEW u, pull[u].after \in Nat, pull[u].latest \in Nat, pull[u].count \in Nat,
           Len(log[pull[u].chat]) \in Nat, pull[u].latest <= Len(log[pull[u].chat]), pull[u].count > 0
    PROVE  LET a == pull[u].after
               l == pull[u].latest
               top == IF l <= a + pull[u].count THEN l ELSE a + pull[u].count
           IN  /\ Page(u) = (a + 1)..top
               /\ HasMore(u) <=> l > a + pull[u].count
               /\ NextSeq(u) = IF l > a THEN top ELSE a
  <1> DEFINE a == pull[u].after
             l == pull[u].latest
             n == pull[u].count
             top == IF l <= a + n THEN l ELSE a + n
  <1>1. Rows(u) = (a + 1)..l
    BY SMT DEF Rows
  <1>2. HasMore(u) <=> l > a + n
    BY SMT, <1>1, RowsBelow DEF HasMore
  <1>3. ASSUME NEW s \in (a + 1)..l
        PROVE  Cardinality({r \in Rows(u) : r < s}) < n <=> s <= a + n
    <2>1. {r \in Rows(u) : r < s} = (a + 1)..(s - 1)
      BY SMT, <1>1, <1>3
    <2>2. s - 1 \in Int /\ s \in Int /\ a \in Nat /\ n \in Nat /\ s >= a + 1
      BY SMT, <1>3
    <2>3. Cardinality((a + 1)..(s - 1)) = IF s - 1 > a THEN s - 1 - a ELSE 0
      BY <2>2, RowsBelow
    <2>4. Cardinality({r \in Rows(u) : r < s}) = IF s - 1 > a THEN s - 1 - a ELSE 0
      BY <2>1, <2>3
    <2> HIDE DEF a, n
    <2> QED
      BY SMT, <2>2, <2>4
  <1>4. Page(u) = {s \in (a + 1)..l : s <= a + n}
    BY <1>1, <1>3 DEF Page
  <1>5. Page(u) = (a + 1)..top
    BY SMT, <1>4
  <1>6. NextSeq(u) = IF l > a THEN top ELSE a
    <2>1. CASE l > a
      <3>1. top \in (a + 1)..top /\ \A y \in (a + 1)..top : top >= y
        BY SMT, <2>1
      <3>2. \A x \in (a + 1)..top : (\A y \in (a + 1)..top : x >= y) => x = top
        BY SMT, <2>1
      <3> HIDE DEF top
      <3>3. Max((a + 1)..top) = top
        BY <3>1, <3>2 DEF Max
      <3> QED
        BY <1>5, <2>1, <3>1, <3>3 DEF NextSeq
    <2>2. CASE ~ (l > a)
      <3>1. Page(u) = {}
        BY SMT, <1>5, <2>2
      <3> QED
        BY <2>2, <3>1 DEF NextSeq
    <2> QED
      BY <2>1, <2>2
  <1> QED
    BY <1>2, <1>5, <1>6

\* One member's walk goes on to the record n.
LEMMA WalkGoesOn ==
    ASSUME PagesInv, UNCHANGED <<log, joined>>, NEW u \in Readers, NEW n \in Walk,
           pull' = [pull EXCEPT ![u] = n], WalkInv(log, joined, n, u)
    PROVE  PagesInv'
  <1>1. pull' \in [Readers -> Walk] /\ \A v \in Readers : pull'[v] = IF v = u THEN n ELSE pull[v]
    BY DEF PagesInv
  <1>2. \A v \in Readers : WalkInv(log, joined, pull'[v], v)
    BY <1>1 DEF PagesInv
  <1>3. LogTypes'
    BY DEF PagesInv, LogTypes
  <1> QED
    BY <1>1, <1>2, <1>3 DEF PagesInv

\* A seq that is past both of two bounds is past the second.
LEMMA GreatestStays ==
    ASSUME NEW a \in Int, NEW f \in Int, NEW j \in Int, a >= Greatest(f, j)
    PROVE  Greatest(a, j) = a
  BY SMT DEF Greatest

\* A page size is positive.
LEMMA CountBounded ==
    ASSUME NEW n \in PullCounts PROVE BoundedCount(n) \in Nat /\ BoundedCount(n) > 0
  <1>1. n \in Int /\ DefaultCount \in Nat /\ DefaultCount > 0 /\ MaxCount \in Nat /\ MaxCount > 0
    BY SMT, ViewAssumption
  <1> QED
    BY SMT, <1>1 DEF BoundedCount

\* The first SELECT, from a walk that has everything up to after.
LEMMA MembershipStep ==
    ASSUME PagesInv, NEW u \in Readers, NEW c \in Chats, NEW after \in Nat, NEW k \in PullCounts,
           Membership(u, c, after, k),
           \/ pull[u].pc = "idle"
           \/ pull[u].pc = "ready" /\ c = pull[u].chat /\ after = pull[u].after
    PROVE  PagesInv'
  <1> DEFINE m == pull[u]
             n == [m EXCEPT !.pc = "paging", !.chat = c, !.count = BoundedCount(k),
                            !.latest = Len(log[c]), !.after = Greatest(after, joined[c][u] - 1),
                            !.from = IF m.pc = "idle" THEN after ELSE m.from]
  <1>1. /\ m \in Walk /\ u \in Users /\ Len(log[c]) \in Nat /\ joined[c][u] \in Nat /\ joined[c][u] # 0
        /\ WalkInv(log, joined, m, u)
    BY SMT, ViewAssumption DEF PagesInv, LogTypes, Cursors, Membership
  <1>2. UNCHANGED <<log, joined>> /\ pull' = [pull EXCEPT ![u] = n]
    <2>1. UNCHANGED <<log, joined>>
      BY DEF Membership
    <2>2. pull' = [pull EXCEPT ![u] = n]
      BY DEF Membership
    <2> QED
      BY <2>1, <2>2
  <1>3. BoundedCount(k) \in Nat /\ BoundedCount(k) > 0
    BY CountBounded
  <1>4. Greatest(after, joined[c][u] - 1) \in Nat
    BY SMT, <1>1 DEF Greatest
  <1>5. m.after \in Nat /\ m.from \in Nat /\ m.latest \in Nat
    BY <1>1 DEF Walk
  <1>6. (IF m.pc = "idle" THEN after ELSE m.from) \in Nat
    BY <1>5
  <1>7. n \in Walk
    BY <1>1, <1>3, <1>4, <1>6 DEF Walk
  <1>8. /\ n.pc = "paging" /\ n.chat = c /\ n.count = BoundedCount(k) /\ n.latest = Len(log[c])
        /\ n.after = Greatest(after, joined[c][u] - 1)
        /\ n.from = (IF m.pc = "idle" THEN after ELSE m.from) /\ n.got = m.got
    BY <1>1 DEF Walk
  <1> HIDE DEF n
  <1>9. WalkInv(log, joined, n, u)
    <2>1. CASE m.pc = "idle"
      <3>1. Base(joined, n, u) = n.after /\ n.got = {} /\ n.after \in Nat
        BY <1>1, <1>4, <1>8, <2>1 DEF WalkInv, Base
      <3>2. n.got = (Base(joined, n, u) + 1)..n.after
        BY SMT, <3>1
      <3>3. /\ n.pc = "paging" /\ n.chat \in Chats /\ joined[n.chat][u] # 0
            /\ n.after >= Base(joined, n, u) /\ ~(n.after > Base(joined, n, u))
            /\ n.latest <= Len(log[n.chat]) /\ n.count > 0
        BY SMT, <1>1, <1>3, <1>8, <3>1
      <3> QED
        BY SMT, <3>2, <3>3 DEF WalkInv
    <2>2. CASE m.pc = "ready" /\ c = m.chat /\ after = m.after
      <3>1. Base(joined, n, u) = Base(joined, m, u)
        BY <1>8, <2>2 DEF Base
      <3>2. /\ m.after >= Base(joined, m, u) /\ m.got = (Base(joined, m, u) + 1)..m.after
            /\ m.after > Base(joined, m, u) => m.after <= m.latest
            /\ m.latest <= Len(log[c])
        BY <1>1, <2>2 DEF WalkInv
      <3>3. n.after = m.after
        <4>1. n.after = Greatest(m.after, joined[c][u] - 1)
          BY <1>8, <2>2
        <4>2. m.after >= Greatest(m.from, joined[c][u] - 1)
          BY <2>2, <3>2 DEF Base
        <4>3. joined[c][u] - 1 \in Int /\ m.after \in Int /\ m.from \in Int
          BY SMT, <1>1, <1>5
        <4> QED
          BY <4>1, <4>2, <4>3, GreatestStays
      <3>4. m.after > Base(joined, m, u) => m.after <= Len(log[c])
        <4>1. m.after \in Nat /\ m.latest \in Nat /\ Len(log[c]) \in Nat
          BY <1>1, <1>5
        <4> QED
          BY SMT, <3>2, <4>1
      <3>5. n.pc = "paging" /\ n.chat \in Chats /\ joined[n.chat][u] # 0 /\ n.count > 0
        BY <1>1, <1>3, <1>8
      <3>6. n.after >= Base(joined, n, u) /\ n.got = (Base(joined, n, u) + 1)..n.after
        BY <1>8, <3>1, <3>2, <3>3
      <3>7. n.after > Base(joined, n, u) => n.after <= n.latest
        BY <1>8, <3>1, <3>3, <3>4
      <3>8. n.latest <= Len(log[n.chat])
        BY SMT, <1>1, <1>8
      <3> QED
        BY <3>5, <3>6, <3>7, <3>8 DEF WalkInv
    <2> QED
      BY <2>1, <2>2
  <1> QED
    BY <1>2, <1>7, <1>9, WalkGoesOn

\* A page goes on where what is held ends.
LEMMA PageJoins ==
    ASSUME NEW b \in Nat, NEW a \in Nat, NEW l \in Nat, NEW n \in Nat, a >= b, n > 0, l > a,
           NEW top \in Nat, top = IF l <= a + n THEN l ELSE a + n
    PROVE  /\ ((b + 1)..a) \cup ((a + 1)..top) = (b + 1)..top
           /\ top > a /\ top <= l /\ top > b /\ top >= b
  BY SMT

\* A page that adds nothing ends where the log did.
LEMMA NothingLeft ==
    ASSUME NEW b \in Nat, NEW a \in Nat, NEW l \in Nat, a >= b, ~ (l > a), a > b => a <= l
    PROVE  (b + 1)..a = (b + 1)..l
  BY SMT

\* The page.
LEMMA PullPageStep ==
    ASSUME PagesInv, NEW u \in Readers, PullPage(u)
    PROVE  PagesInv'
  <1> DEFINE m == pull[u]
             pc == IF HasMore(u) THEN "ready" ELSE "done"
             n == [m EXCEPT !.pc = pc, !.after = NextSeq(u), !.got = m.got \cup Page(u)]
             base == Base(joined, m, u)
             top == IF m.latest <= m.after + m.count THEN m.latest ELSE m.after + m.count
  <1>1. /\ m \in Walk /\ u \in Users /\ m.pc = "paging" /\ WalkInv(log, joined, m, u) /\ m.chat \in Chats
        /\ joined[m.chat][u] # 0
    BY ViewAssumption DEF PagesInv, PullPage, WalkInv
  <1>2. UNCHANGED <<log, joined>> /\ pull' = [pull EXCEPT ![u] = n]
    BY DEF PullPage
  <1>3. /\ m.after \in Nat /\ m.from \in Nat /\ m.latest \in Nat /\ m.count \in Nat /\ m.got \subseteq Int
        /\ Len(log[m.chat]) \in Nat /\ joined[m.chat][u] \in Nat
    BY SMT, <1>1 DEF Walk, PagesInv, LogTypes, Cursors
  <1>4. /\ m.after >= base /\ m.got = (base + 1)..m.after
        /\ m.after > base => m.after <= m.latest
        /\ m.latest <= Len(log[m.chat]) /\ m.count > 0 /\ base \in Nat
    <2>1. /\ m.after >= base /\ m.got = (base + 1)..m.after
          /\ m.after > base => m.after <= m.latest
          /\ m.latest <= Len(log[m.chat]) /\ m.count > 0
      BY <1>1 DEF WalkInv
    <2>2. base \in Nat
      BY SMT, <1>1, <1>3 DEF Base, Greatest
    <2> QED
      BY <2>1, <2>2
  <1>5. /\ Page(u) = (m.after + 1)..top
        /\ HasMore(u) <=> m.latest > m.after + m.count
        /\ NextSeq(u) = IF m.latest > m.after THEN top ELSE m.after
    BY <1>3, <1>4, PageRows
  <1>6. top \in Nat /\ NextSeq(u) \in Nat /\ Page(u) \subseteq Int
    BY SMT, <1>3, <1>5
  <1>7. n \in Walk
    BY <1>1, <1>6 DEF Walk
  <1>8. /\ n.pc = pc /\ n.after = NextSeq(u) /\ n.got = m.got \cup Page(u) /\ n.chat = m.chat
        /\ n.count = m.count /\ n.latest = m.latest /\ n.from = m.from
    BY <1>1 DEF Walk
  <1>9. /\ Base(joined, n, u) = base
        /\ top = IF m.latest <= m.after + m.count THEN m.latest ELSE m.after + m.count
        /\ pc = IF HasMore(u) THEN "ready" ELSE "done"
    BY <1>8 DEF Base
  <1> HIDE DEF m, pc, n, base, top
  <1>10. CASE m.latest > m.after
    <2>0. /\ ((base + 1)..m.after) \cup ((m.after + 1)..top) = (base + 1)..top
          /\ top > m.after /\ top <= m.latest /\ top > base /\ top >= base
      <3>1. /\ base \in Nat /\ m.after \in Nat /\ m.latest \in Nat /\ m.count \in Nat /\ top \in Nat
            /\ m.after >= base /\ m.count > 0 /\ m.latest > m.after
            /\ top = IF m.latest <= m.after + m.count THEN m.latest ELSE m.after + m.count
        BY <1>3, <1>4, <1>6, <1>9, <1>10
      <3> QED
        BY SMT, <3>1, PageJoins
    <2>1. n.got = (base + 1)..top /\ n.after = top /\ top > m.after /\ top <= m.latest
      BY <1>4, <1>5, <1>8, <1>10, <2>0
    <2>2. HasMore(u) \/ top = m.latest
      BY SMT, <1>3, <1>5, <1>9
    <2>3. top > base /\ top >= base
      BY <2>0
    <2>4. WalkInv(log, joined, n, u)
      BY <1>1, <1>4, <1>8, <1>9, <2>1, <2>2, <2>3 DEF WalkInv
    <2> QED
      BY <1>2, <1>7, <2>4, WalkGoesOn
  <1>11. CASE ~ (m.latest > m.after)
    <2>1. Page(u) = {} /\ ~ HasMore(u)
      BY SMT, <1>3, <1>4, <1>5, <1>9, <1>11
    <2>2. m.got = (base + 1)..m.latest
      BY <1>3, <1>4, <1>11, NothingLeft
    <2>3. n.pc = "done" /\ n.got = m.got
      BY <1>8, <1>9, <2>1
    <2>4. WalkInv(log, joined, n, u)
      BY <1>1, <1>8, <1>9, <2>2, <2>3 DEF WalkInv
    <2> QED
      BY <1>2, <1>7, <2>4, WalkGoesOn
  <1> QED
    BY <1>10, <1>11

\* Every step keeps what the walks hold an interval that ends at after.
LEMMA PagesStep == PagesInv /\ [Next]_vars => PagesInv'
  <1> SUFFICES ASSUME PagesInv, [Next]_vars PROVE PagesInv'
    OBVIOUS
  <1>1. CASE GrowLog
    <2>1. /\ LogTypes'
          /\ \A c \in Chats : Len(log[c]) \in Nat /\ Len(log'[c]) \in Nat /\ Len(log[c]) <= Len(log'[c])
          /\ \A c \in Chats, u \in Users : joined[c][u] # 0 => joined'[c][u] = joined[c][u]
          /\ pull' = pull
      BY <1>1, LogGrows DEF PagesInv
    <2>2. ASSUME NEW u \in Readers PROVE WalkInv(log', joined', pull[u], u)
      <3>1. /\ WalkInv(log, joined, pull[u], u) /\ u \in Users /\ pull[u].latest \in Nat
        BY ViewAssumption DEF PagesInv, Walk
      <3>2. pull[u].pc # "idle" => /\ pull[u].chat \in Chats
                                   /\ joined'[pull[u].chat][u] = joined[pull[u].chat][u]
                                   /\ Base(joined', pull[u], u) = Base(joined, pull[u], u)
        BY <2>1, <3>1 DEF WalkInv, Base
      <3>3. pull[u].chat \in Chats /\ pull[u].latest <= Len(log[pull[u].chat])
                => pull[u].latest <= Len(log'[pull[u].chat])
        BY SMT, <2>1, <3>1
      <3> QED
        BY <3>1, <3>2, <3>3 DEF WalkInv
    <2> QED
      BY <2>1, <2>2 DEF PagesInv
  <1>2. CASE Acknowledge
    <2>1. UNCHANGED <<log, joined, pull>>
      BY SMT, <1>2 DEF Acknowledge, AckConversation, AckLegacy
    <2> QED
      BY <2>1 DEF PagesInv, LogTypes
  <1>3. CASE Synchronise
    <2>1. ASSUME NEW u \in Readers, NEW c \in Chats, NEW after \in 0..MaxLog, NEW k \in PullCounts,
                 PullStart(u, c, after, k)
          PROVE  PagesInv'
      <3>1. after \in Nat
        BY SMT, ViewAssumption
      <3> QED
        BY <2>1, <3>1, MembershipStep DEF PullStart
    <2>2. ASSUME NEW u \in Readers, NEW k \in PullCounts, PullNext(u, k) PROVE PagesInv'
      <3>1. pull[u].pc = "ready" /\ Membership(u, pull[u].chat, pull[u].after, k)
        BY <2>2 DEF PullNext
      <3>2. pull[u].chat \in Chats /\ pull[u].after \in Nat
        BY <3>1 DEF PagesInv, WalkInv, Walk
      <3> QED
        BY <3>1, <3>2, MembershipStep
    <2> QED
      BY <1>3, <2>1, <2>2, PullPageStep DEF Synchronise
  <1>4. CASE UNCHANGED vars
    BY <1>4 DEF vars, PagesInv, LogTypes
  <1> QED
    BY <1>1, <1>2, <1>3, <1>4 DEF Next

\* For every page size and every growth of the log between two pages: a member who pulls
\* until hasMore is false holds all of the conversation after the seq they began with,
\* up to the latestSeq of the last page, and nothing from before they joined.
THEOREM WalksComplete == Spec => []WalkComplete
  <1>1. PagesInv => WalkComplete
    BY DEF PagesInv, WalkInv, Base, WalkComplete
  <1> QED
    BY <1>1, PagesInit, PagesStep, PTL DEF Spec

-----------------------------------------------------------------------------
(* ConnectionPool *)

ConnectionTypes ==
    /\ family \in {"redis", "mysql", "rpc"}
    /\ idle \in Nat
    /\ mutex \in Callers \cup {NoOne, Keeper, Closer}
    /\ caller \in [Callers -> {"out", "testing", "sleeping", "asleep", "late"}]
    /\ held \in [Callers -> Nat]
    /\ keeper \in {"none", "sleeping", "due", "checking", "ended"}
    /\ toCheck \in Nat
    /\ closer \in {"idle", "closing", "closed", "joining", "gone"}

\* Who holds the mutex between two steps: a caller about to sleep, the check,
\* or the destructor.  The check never has more connections before it than
\* there are idle ones, since nobody else takes any meanwhile.
MutexHeld ==
    /\ \A c \in Callers : caller[c] = "sleeping" => mutex = c
    /\ keeper = "checking" => mutex = Keeper /\ toCheck <= idle
    /\ closer = "joining" => mutex = Closer

\* Only Close sets the stop flag.
StopFlagSet == stopEnable \in BOOLEAN /\ (closer # "idle" => stopEnable = TRUE)

\* A caller about to sleep has seen an empty queue, and nothing was returned
\* since.
EmptyQueueSeen == \A c \in Callers : caller[c] = "sleeping" => idle = 0

ConnectionInv ==
    /\ ConnectionTypes /\ MutexHeld /\ StopFlagSet /\ EmptyQueueSeen
    /\ NobodySleepsOnConnection

\* The pool starts open, with nobody waiting.
LEMMA ConnectionInvInit == ConnectionsInit => ConnectionInv
  <1> SUFFICES ASSUME ConnectionsInit PROVE ConnectionInv
    OBVIOUS
  <1>1. ConnectionTypes
    <2>1. idle \in Nat /\ toCheck \in Nat
      BY SMT, ConnectionPoolBounds DEF ConnectionsInit
    <2>2. /\ caller \in [Callers -> {"out", "testing", "sleeping", "asleep", "late"}]
          /\ held \in [Callers -> Nat]
      BY DEF ConnectionsInit
    <2>3. /\ keeper \in {"none", "sleeping", "due", "checking", "ended"}
          /\ family \in {"redis", "mysql", "rpc"}
          /\ mutex \in Callers \cup {NoOne, Keeper, Closer}
          /\ closer \in {"idle", "closing", "closed", "joining", "gone"}
      BY DEF ConnectionsInit
    <2> QED
      BY <2>1, <2>2, <2>3 DEF ConnectionTypes
  <1>2. \A c \in Callers : caller[c] = "out"
    BY DEF ConnectionsInit
  <1>3. keeper # "checking" /\ closer = "idle"
    BY DEF ConnectionsInit
  <1>4. stopEnable \in BOOLEAN
    BY DEF ConnectionsInit
  <1> QED
    BY <1>1, <1>2, <1>3, <1>4
    DEF ConnectionInv, MutexHeld, StopFlagSet, EmptyQueueSeen, NobodySleepsOnConnection

CallerStates == [Callers -> {"out", "testing", "sleeping", "asleep", "late"}]

AwakeIn(f) == {c \in Callers : f[c] \in {"testing", "late"}}

\* The callers awake are finitely many.
LEMMA AwakeFinite ==
    ASSUME NEW f
    PROVE  IsFiniteSet(AwakeIn(f)) /\ Cardinality(AwakeIn(f)) \in Nat
  <1>1. AwakeIn(f) \in SUBSET Callers
    BY DEF AwakeIn
  <1>2. IsFiniteSet(AwakeIn(f))
    BY <1>1, ConnectionPoolBounds, FS_Subset
  <1> QED
    BY <1>2, FS_CardinalityType

\* A caller that stops looking for a connection.
LEMMA CallerLeavesQueue ==
    ASSUME NEW f \in CallerStates, NEW c \in Callers, f[c] \in {"testing", "late"},
           NEW v, v \notin {"testing", "late"}
    PROVE  Cardinality(AwakeIn([f EXCEPT ![c] = v])) = Cardinality(AwakeIn(f)) - 1
  <1> DEFINE g == [f EXCEPT ![c] = v]
  <1>1. g[c] = v /\ \A d \in Callers \ {c} : g[d] = f[d]
    BY DEF CallerStates
  <1>2. AwakeIn(g) = AwakeIn(f) \ {c} /\ c \in AwakeIn(f)
    BY <1>1 DEF AwakeIn
  <1> QED
    BY <1>2, AwakeFinite, FS_RemoveElement

\* A caller that begins, or is woken, to look for one.
LEMMA CallerJoinsQueue ==
    ASSUME NEW f \in CallerStates, NEW c \in Callers, f[c] \notin {"testing", "late"},
           NEW v \in {"testing", "late"}
    PROVE  Cardinality(AwakeIn([f EXCEPT ![c] = v])) = Cardinality(AwakeIn(f)) + 1
  <1> DEFINE g == [f EXCEPT ![c] = v]
  <1>1. g[c] = v /\ \A d \in Callers \ {c} : g[d] = f[d]
    BY DEF CallerStates
  <1>2. AwakeIn(g) = AwakeIn(f) \cup {c} /\ c \notin AwakeIn(f)
    BY <1>1 DEF AwakeIn
  <1> QED
    BY <1>2, AwakeFinite, FS_AddElement

\* Every step keeps the types.
LEMMA ConnectionTypesStep == ConnectionInv /\ [ConnectionsNext]_connectionVars => ConnectionTypes'
  <1> SUFFICES ASSUME ConnectionInv, [ConnectionsNext]_connectionVars PROVE ConnectionTypes'
    OBVIOUS
  <1> USE DEF ConnectionInv, ConnectionTypes
  <1>1. ASSUME NEW c \in Callers, GetConnection(c) PROVE ConnectionTypes'
    BY <1>1 DEF GetConnection
  <1>2. ASSUME NEW c \in Callers, TestConnections(c) PROVE ConnectionTypes'
    BY SMT, <1>2 DEF TestConnections, Obtain
  <1>3. ASSUME NEW c \in Callers, FallAsleep(c) PROVE ConnectionTypes'
    BY <1>3 DEF FallAsleep
  <1>4. ASSUME NEW c \in Callers, DeadlinePasses(c) PROVE ConnectionTypes'
    BY <1>4 DEF DeadlinePasses
  <1>5. ASSUME NEW c \in Callers, LastTest(c) PROVE ConnectionTypes'
    BY SMT, <1>5 DEF LastTest, Obtain
  <1>6. ASSUME NEW c \in Callers, ReturnConnection(c) PROVE ConnectionTypes'
    BY SMT, <1>6 DEF ReturnConnection, WakeOne
  <1>7. CASE MinuteOver
    BY <1>7 DEF MinuteOver
  <1>8. CASE KeepConnections
    BY <1>8 DEF KeepConnections
  <1>9. CASE CheckEnds
    BY <1>9 DEF CheckEnds
  <1>10. ASSUME NEW lost \in BOOLEAN, CheckConnection(lost) PROVE ConnectionTypes'
    BY SMT, <1>10 DEF CheckConnection, MutexHeld
  <1>11. CASE ClosePool
    BY <1>11 DEF ClosePool
  <1>12. CASE CloseNotifies
    BY <1>12 DEF CloseNotifies, WakeAll
  <1>13. CASE Destroy
    BY <1>13 DEF Destroy
  <1>14. CASE Destroyed
    BY <1>14 DEF Destroyed
  <1>15. CASE UNCHANGED connectionVars
    BY <1>15 DEF connectionVars
  <1> QED
    BY <1>1, <1>2, <1>3, <1>4, <1>5, <1>6, <1>7, <1>8, <1>9, <1>10, <1>11, <1>12, <1>13, <1>14,
       <1>15 DEF ConnectionsNext

\* Nobody is mistaken for another holder of the mutex.
LEMMA Holders ==
    /\ NoOne \notin Callers /\ Keeper \notin Callers /\ Closer \notin Callers
    /\ NoOne # Keeper /\ NoOne # Closer /\ Keeper # Closer
  BY CallersAssumption DEF NoOne, Keeper, Closer

\* Every step keeps the mutex with its holder, and the queue empty beside a
\* caller about to sleep.
LEMMA MutexStep ==
    ConnectionInv /\ [ConnectionsNext]_connectionVars => MutexHeld' /\ EmptyQueueSeen'
  <1> SUFFICES ASSUME ConnectionInv, [ConnectionsNext]_connectionVars
               PROVE  MutexHeld' /\ EmptyQueueSeen'
    OBVIOUS
  <1> USE Holders DEF ConnectionInv, ConnectionTypes, MutexHeld, EmptyQueueSeen
  <1>i. idle \in Nat /\ toCheck \in Nat
    OBVIOUS
  <1>1. ASSUME NEW c \in Callers, GetConnection(c) PROVE MutexHeld' /\ EmptyQueueSeen'
    BY <1>1 DEF GetConnection
  <1>2. ASSUME NEW c \in Callers, TestConnections(c) PROVE MutexHeld' /\ EmptyQueueSeen'
    <2>1. closer # "joining" /\ keeper # "checking" /\ \A d \in Callers : caller[d] # "sleeping"
      BY <1>2 DEF TestConnections
    <2>2. UNCHANGED <<keeper, closer>>
      BY <1>2 DEF TestConnections
    <2>3. CASE Obtain(c)
      BY <2>1, <2>2, <2>3 DEF Obtain
    <2>4. CASE idle = 0 /\ caller' = [caller EXCEPT ![c] = "sleeping"] /\ mutex' = c /\ idle' = idle
      BY <2>1, <2>2, <2>4
    <2>5. Obtain(c) \/ (idle = 0 /\ caller' = [caller EXCEPT ![c] = "sleeping"] /\ mutex' = c /\ idle' = idle)
      <3>1. CASE stopEnable \/ idle > 0
        BY <1>2, <3>1 DEF TestConnections
      <3>2. CASE ~ (stopEnable \/ idle > 0)
        <4>1. caller' = [caller EXCEPT ![c] = "sleeping"] /\ mutex' = c /\ idle' = idle
          BY <1>2, <3>2 DEF TestConnections
        <4>2. idle = 0
          BY SMT, <1>i, <3>2
        <4> QED
          BY <4>1, <4>2
      <3> QED
        BY <3>1, <3>2
    <2> QED
      BY <2>3, <2>4, <2>5
  <1>3. ASSUME NEW c \in Callers, FallAsleep(c) PROVE MutexHeld' /\ EmptyQueueSeen'
    BY <1>3 DEF FallAsleep
  <1>4. ASSUME NEW c \in Callers, DeadlinePasses(c) PROVE MutexHeld' /\ EmptyQueueSeen'
    BY <1>4 DEF DeadlinePasses
  <1>5. ASSUME NEW c \in Callers, LastTest(c) PROVE MutexHeld' /\ EmptyQueueSeen'
    BY <1>5 DEF LastTest, Obtain
  <1>6. ASSUME NEW c \in Callers, ReturnConnection(c) PROVE MutexHeld' /\ EmptyQueueSeen'
    <2>1. \A d \in Callers : caller[d] # "sleeping"
      BY <1>6 DEF ReturnConnection
    <2>2. \A d \in Callers : caller'[d] # "sleeping"
      BY <1>6, <2>1 DEF ReturnConnection, WakeOne
    <2> QED
      BY <1>6, <2>2 DEF ReturnConnection
  <1>7. CASE MinuteOver
    BY <1>7 DEF MinuteOver
  <1>8. CASE KeepConnections
    <2>1. closer # "joining" /\ \A d \in Callers : caller[d] # "sleeping"
      BY <1>8 DEF KeepConnections
    <2>2. \A d \in Callers : caller'[d] # "sleeping"
      BY <1>8, <2>1 DEF KeepConnections
    <2>3. toCheck' <= idle'
      BY SMT, <1>8, <1>i DEF KeepConnections
    <2>4. mutex' = Keeper /\ closer' # "joining"
      BY <1>8, <2>1 DEF KeepConnections
    <2> QED
      BY <2>2, <2>3, <2>4
  <1>9. CASE CheckEnds
    BY <1>9 DEF CheckEnds
  <1>10. ASSUME NEW lost \in BOOLEAN, CheckConnection(lost) PROVE MutexHeld' /\ EmptyQueueSeen'
    <2>1. mutex = Keeper /\ \A d \in Callers : caller[d] # "sleeping"
      BY <1>10 DEF CheckConnection
    <2>2. UNCHANGED <<mutex, caller, closer>>
      BY <1>10 DEF CheckConnection
    <2>3. toCheck' <= idle'
      <3>1. toCheck <= idle
        BY <1>10 DEF CheckConnection
      <3>2. /\ idle' = IF lost THEN idle - 1 ELSE idle
            /\ toCheck' = 0 \/ toCheck' = toCheck - 1
        BY <1>10 DEF CheckConnection
      <3>3. toCheck > 0
        BY <1>10 DEF CheckConnection
      <3> QED
        BY SMT, <1>i, <3>1, <3>2, <3>3
    <2> QED
      BY <2>1, <2>2, <2>3
  <1>11. CASE ClosePool
    BY <1>11 DEF ClosePool
  <1>12. CASE CloseNotifies
    <2>1. \A d \in Callers : caller'[d] = "sleeping" => caller[d] = "sleeping"
      BY <1>12 DEF CloseNotifies, WakeAll
    <2> QED
      BY <1>12, <2>1 DEF CloseNotifies
  <1>13. CASE Destroy
    <2>1. \A d \in Callers : caller'[d] # "sleeping"
      BY <1>13 DEF Destroy
    <2>2. mutex' = Closer /\ keeper' # "checking"
      BY <1>13 DEF Destroy
    <2> QED
      BY <2>1, <2>2
  <1>14. CASE Destroyed
    BY <1>14 DEF Destroyed
  <1>15. CASE UNCHANGED connectionVars
    <2>1. \A d \in Callers : caller'[d] = caller[d]
      BY <1>15 DEF connectionVars
    <2>2. UNCHANGED <<mutex, keeper, closer, toCheck, idle>>
      BY <1>15 DEF connectionVars
    <2> QED
      BY <2>1, <2>2
  <1> QED
    BY <1>1, <1>2, <1>3, <1>4, <1>5, <1>6, <1>7, <1>8, <1>9, <1>10, <1>11, <1>12, <1>13, <1>14,
       <1>15 DEF ConnectionsNext

\* The flag is never taken back.
LEMMA StopFlagStep == ConnectionInv /\ [ConnectionsNext]_connectionVars => StopFlagSet'
  BY
  DEF ConnectionInv, StopFlagSet, ConnectionsNext, connectionVars, GetConnection, TestConnections,
      FallAsleep, DeadlinePasses, LastTest, ReturnConnection, MinuteOver, KeepConnections, CheckEnds,
      CheckConnection, ClosePool, CloseNotifies, Destroy, Destroyed

\* While the pool is open, a step keeps as many callers on their way to the
\* queue as there are idle connections: it takes away one of each, or the
\* connection that comes back wakes a sleeper.
LEMMA NobodySleepsStep ==
    ConnectionInv /\ [ConnectionsNext]_connectionVars => NobodySleepsOnConnection'
  <1> SUFFICES ASSUME ConnectionInv, [ConnectionsNext]_connectionVars,
                      ~ stopEnable', NEW a \in Callers, caller'[a] = "asleep"
               PROVE  Cardinality(AwakeIn(caller')) >= idle'
    BY DEF NobodySleepsOnConnection, Awake, AwakeIn
  <1> DEFINE n == Cardinality(AwakeIn(caller))
  <1>a. /\ caller \in CallerStates /\ idle \in Nat /\ n \in Nat
        /\ Cardinality(AwakeIn(caller')) \in Nat
    BY AwakeFinite DEF ConnectionInv, ConnectionTypes, CallerStates
  <1>b. ~ stopEnable /\ (\E c \in Callers : caller[c] = "asleep") => n >= idle
    BY DEF ConnectionInv, NobodySleepsOnConnection, Awake, AwakeIn
  <1>1. ASSUME NEW c \in Callers, GetConnection(c) PROVE Cardinality(AwakeIn(caller')) >= idle'
    <2>1. Cardinality(AwakeIn(caller')) = n + 1
      BY <1>1, <1>a, CallerJoinsQueue DEF GetConnection
    <2> QED
      BY SMT, <1>1, <1>a, <1>b, <2>1 DEF GetConnection, CallerStates
  <1>2. ASSUME NEW c \in Callers, caller[c] \in {"testing", "late"}, Obtain(c), stopEnable' = stopEnable
        PROVE Cardinality(AwakeIn(caller')) >= idle'
    <2>1. Cardinality(AwakeIn(caller')) = n - 1
      BY <1>2, <1>a, CallerLeavesQueue DEF Obtain
    <2>2. caller[a] = "asleep"
      BY <1>2, <1>a DEF Obtain, CallerStates
    <2> QED
      BY SMT, <1>2, <1>a, <1>b, <2>1, <2>2 DEF Obtain
  <1>3. ASSUME NEW c \in Callers, TestConnections(c), ~ Obtain(c)
        PROVE Cardinality(AwakeIn(caller')) >= idle'
    BY SMT, <1>3, <1>a DEF TestConnections, ConnectionInv, ConnectionTypes
  <1>4. ASSUME NEW c \in Callers, FallAsleep(c) PROVE Cardinality(AwakeIn(caller')) >= idle'
    BY SMT, <1>4, <1>a DEF FallAsleep, ConnectionInv, EmptyQueueSeen
  <1>5. ASSUME NEW c \in Callers, DeadlinePasses(c) PROVE Cardinality(AwakeIn(caller')) >= idle'
    <2>1. Cardinality(AwakeIn(caller')) = n + 1
      BY <1>5, <1>a, CallerJoinsQueue DEF DeadlinePasses
    <2> QED
      BY SMT, <1>5, <1>a, <1>b, <2>1 DEF DeadlinePasses
  <1>6. ASSUME NEW c \in Callers, ReturnConnection(c) PROVE Cardinality(AwakeIn(caller')) >= idle'
    <2>1. idle' = idle + 1 /\ caller' \in WakeOne /\ stopEnable' = stopEnable
      BY <1>6 DEF ReturnConnection
    <2>2. PICK d \in Callers : caller[d] = "asleep" /\ caller' = [caller EXCEPT ![d] = "testing"]
      BY <2>1, <1>a DEF WakeOne
    <2>3. Cardinality(AwakeIn(caller')) = n + 1
      BY <2>2, <1>a, CallerJoinsQueue
    <2> QED
      BY SMT, <1>a, <1>b, <2>1, <2>2, <2>3
  <1>7. ASSUME NEW lost \in BOOLEAN, CheckConnection(lost) PROVE Cardinality(AwakeIn(caller')) >= idle'
    BY SMT, <1>7, <1>a, <1>b DEF CheckConnection
  <1>8. ASSUME UNCHANGED <<caller, idle, stopEnable>> PROVE Cardinality(AwakeIn(caller')) >= idle'
    BY <1>8, <1>a, <1>b
  <1>9. ClosePool \/ CloseNotifies \/ Destroy \/ Destroyed => stopEnable'
    <2>1. CloseNotifies \/ Destroy \/ Destroyed => closer # "idle" /\ stopEnable' = stopEnable
      BY DEF CloseNotifies, Destroy, Destroyed
    <2>2. ClosePool => stopEnable' = TRUE
      BY DEF ClosePool
    <2> QED
      BY <2>1, <2>2 DEF ConnectionInv, StopFlagSet
  <1>10. MinuteOver \/ KeepConnections \/ CheckEnds \/ UNCHANGED connectionVars
             => UNCHANGED <<caller, idle, stopEnable>>
    BY DEF MinuteOver, KeepConnections, CheckEnds, connectionVars
  <1>11. ASSUME NEW c \in Callers, TestConnections(c) \/ LastTest(c)
         PROVE  caller[c] \in {"testing", "late"} /\ stopEnable' = stopEnable
    BY <1>11 DEF TestConnections, LastTest
  <1>12. \A c \in Callers : LastTest(c) => Obtain(c)
    BY DEF LastTest
  <1> QED
    BY <1>1, <1>2, <1>3, <1>4, <1>5, <1>6, <1>7, <1>8, <1>9, <1>10, <1>11, <1>12 DEF ConnectionsNext

\* RedisPool, MysqlPool and RpcPool lose no notification, for every number of
\* callers and connections: while the pool is open and somebody sleeps in
\* GetConnectionUntil, at least as many callers are on their way to the queue
\* as there are idle connections in it.
THEOREM ConnectionsReachCallers == ConnectionsSpec => []NobodySleepsOnConnection
  <1>1. ConnectionInv /\ [ConnectionsNext]_connectionVars => ConnectionInv'
    BY ConnectionTypesStep, MutexStep, StopFlagStep, NobodySleepsStep DEF ConnectionInv
  <1>2. ConnectionInv => NobodySleepsOnConnection
    BY DEF ConnectionInv
  <1> QED
    BY <1>1, <1>2, ConnectionInvInit, PTL DEF ConnectionsSpec

-----------------------------------------------------------------------------
(* FileWorkers *)

FileTypes ==
    /\ routeCount \in Nat
    /\ upload \in [Uploads -> {"idle", "push", "notify", "count", "store", "test", "wrap", "ok"}]
    /\ lane \in [Uploads -> Lanes]
    /\ counted \in [Uploads -> Nat]
    /\ tasks \in [Lanes -> Seq(Uploads)]
    /\ fileWorker \in [Lanes -> {"loop", "testing", "sleeping", "asleep", "ended"}]
    /\ fileStop \in [Lanes -> BOOLEAN]
    /\ teardown \in [at : Lanes, pc : {"serving", "flag", "wake", "join", "stopped"}]
    /\ processed \in [Uploads -> {0, 1}]

\* Chunk u is at place i of the queue q of its worker.
Lies(q, u, w, i) == w \in Lanes /\ i \in 1 .. Len(q[w]) /\ q[w][i] = u

Queued(q, u) == \E w \in Lanes, i \in Nat : Lies(q, u, w, i)

\* No chunk lies in two places.
OnePlace(q) ==
    \A u \in Uploads, w, v \in Lanes, i, j \in Nat :
        Lies(q, u, w, i) /\ Lies(q, u, v, j) => w = v /\ i = j

\* A chunk is queued exactly from PushTask to the task's run, which comes once.
PlaceKnown ==
    /\ OnePlace(tasks)
    /\ \A u \in Uploads : /\ upload[u] \in {"idle", "push"} => processed[u] = 0
                          /\ Queued(tasks, u) <=> /\ upload[u] \notin {"idle", "push"}
                                                  /\ processed[u] = 0

\* A worker about to sleep has an empty queue; a worker that sleeps beside a
\* chunk is about to be told.
WorkerTold ==
    /\ \A w \in Lanes : fileWorker[w] = "sleeping" => tasks[w] = <<>>
    /\ \A w \in Lanes : tasks[w] # <<>> /\ fileWorker[w] = "asleep" =>
           \E u \in Uploads : upload[u] = "notify" /\ lane[u] = w

FileInv == FileTypes /\ PlaceKnown /\ WorkerTold

\* The queues of the workers.
Queues == [Lanes -> Seq(Uploads)]

\* Where chunks lie after PushTask.
LEMMA PushedPlaces ==
    ASSUME NEW q \in Queues, NEW w \in Lanes, NEW u \in Uploads
    PROVE  \A x \in Uploads, v \in Lanes, i \in Nat :
               Lies([q EXCEPT ![w] = Append(@, u)], x, v, i)
                   <=> Lies(q, x, v, i) \/ (x = u /\ v = w /\ i = Len(q[w]) + 1)
  <1> DEFINE p == [q EXCEPT ![w] = Append(@, u)]
  <1>1. q[w] \in Seq(Uploads) /\ p[w] = Append(q[w], u) /\ \A v \in Lanes \ {w} : p[v] = q[v]
    BY DEF Queues
  <1>2. /\ Len(q[w]) \in Nat /\ Len(p[w]) = Len(q[w]) + 1
        /\ p[w][Len(q[w]) + 1] = u
        /\ \A i \in 1 .. Len(q[w]) : p[w][i] = q[w][i]
    BY SMT, <1>1
  <1> HIDE DEF p
  <1>3. \A x \in Uploads, i \in Nat :
            Lies(p, x, w, i) <=> Lies(q, x, w, i) \/ (x = u /\ i = Len(q[w]) + 1)
    BY SMT, <1>2 DEF Lies
  <1>4. \A x \in Uploads, v \in Lanes \ {w}, i \in Nat : Lies(p, x, v, i) <=> Lies(q, x, v, i)
    BY <1>1 DEF Lies
  <1> QED
    BY <1>3, <1>4 DEF p

\* Where they lie after the front task has run.
LEMMA PoppedPlaces ==
    ASSUME NEW q \in Queues, NEW w \in Lanes, q[w] # <<>>
    PROVE  \A x \in Uploads, v \in Lanes, i \in Nat :
               Lies([q EXCEPT ![w] = Tail(@)], x, v, i)
                   <=> IF v = w THEN i # 0 /\ Lies(q, x, v, i + 1) ELSE Lies(q, x, v, i)
  <1> DEFINE p == [q EXCEPT ![w] = Tail(@)]
  <1>1. q[w] \in Seq(Uploads) /\ p[w] = Tail(q[w]) /\ \A v \in Lanes \ {w} : p[v] = q[v]
    BY DEF Queues
  <1> HIDE DEF p
  <1>2. ASSUME NEW t \in Seq(Uploads), t # <<>>
        PROVE  /\ Len(t) \in Nat /\ Len(t) > 0 /\ Len(Tail(t)) = Len(t) - 1
               /\ \A i \in 1 .. Len(t) - 1 : Tail(t)[i] = t[i + 1]
    BY SMT, <1>2
  <1>3. /\ Len(q[w]) \in Nat /\ Len(q[w]) > 0 /\ Len(p[w]) = Len(q[w]) - 1
        /\ \A i \in 1 .. Len(p[w]) : p[w][i] = q[w][i + 1]
    BY SMT, <1>1, <1>2
  <1>4. ASSUME NEW x \in Uploads, NEW v \in Lanes, NEW i \in Nat
        PROVE  Lies(p, x, v, i) <=> IF v = w THEN i # 0 /\ Lies(q, x, v, i + 1) ELSE Lies(q, x, v, i)
    <2>1. CASE v = w
      BY SMT, <1>3, <2>1 DEF Lies
    <2>2. CASE v # w
      BY <1>1, <2>2 DEF Lies
    <2> QED
      BY <2>1, <2>2
  <1> QED
    BY <1>4 DEF p

\* A chunk that is nowhere is put in one place.
LEMMA Pushed ==
    ASSUME NEW q \in Queues, NEW w \in Lanes, NEW u \in Uploads, OnePlace(q), ~ Queued(q, u)
    PROVE  /\ OnePlace([q EXCEPT ![w] = Append(@, u)])
           /\ \A x \in Uploads : Queued([q EXCEPT ![w] = Append(@, u)], x) <=> Queued(q, x) \/ x = u
  <1> DEFINE p == [q EXCEPT ![w] = Append(@, u)]
  <1>1. \A x \in Uploads, v \in Lanes, i \in Nat :
            Lies(p, x, v, i) <=> Lies(q, x, v, i) \/ (x = u /\ v = w /\ i = Len(q[w]) + 1)
    BY PushedPlaces
  <1>2. Len(q[w]) + 1 \in Nat
    BY SMT DEF Queues
  <1> DEFINE n == Len(q[w]) + 1
  <1> HIDE DEF p, n
  <1>3. /\ n \in Nat
        /\ \A x \in Uploads, v \in Lanes, i \in Nat :
               Lies(p, x, v, i) <=> Lies(q, x, v, i) \/ (x = u /\ v = w /\ i = n)
    BY <1>1, <1>2 DEF n
  <1>4. OnePlace(p)
    BY SMT, <1>3 DEF OnePlace, Queued
  <1>5. \A x \in Uploads : Queued(p, x) <=> Queued(q, x) \/ x = u
    BY <1>3 DEF Queued
  <1> QED
    BY <1>4, <1>5 DEF p

\* The chunk whose task has run is nowhere any more.
LEMMA Popped ==
    ASSUME NEW q \in Queues, NEW w \in Lanes, q[w] # <<>>, OnePlace(q)
    PROVE  /\ OnePlace([q EXCEPT ![w] = Tail(@)])
           /\ Head(q[w]) \in Uploads /\ Queued(q, Head(q[w]))
           /\ \A x \in Uploads : Queued([q EXCEPT ![w] = Tail(@)], x)
                                     <=> Queued(q, x) /\ x # Head(q[w])
  <1> DEFINE p == [q EXCEPT ![w] = Tail(@)]
             u == Head(q[w])
  <1>1. \A x \in Uploads, v \in Lanes, i \in Nat :
            Lies(p, x, v, i) <=> IF v = w THEN i # 0 /\ Lies(q, x, v, i + 1) ELSE Lies(q, x, v, i)
    BY PoppedPlaces
  <1>2. u \in Uploads /\ Lies(q, u, w, 1)
    BY SMT DEF Queues, Lies
  <1>3. \A x \in Uploads, i \in Nat : Lies(q, x, w, i) => i # 0 /\ (i = 1 => x = u)
    BY SMT DEF Queues, Lies
  <1> HIDE DEF p, u
  <1>4. OnePlace(p)
    <2> SUFFICES ASSUME NEW x \in Uploads, NEW v1 \in Lanes, NEW v2 \in Lanes,
                        NEW i \in Nat, NEW j \in Nat, Lies(p, x, v1, i), Lies(p, x, v2, j)
                 PROVE  v1 = v2 /\ i = j
      BY DEF OnePlace
    <2>1. /\ Lies(q, x, v1, IF v1 = w THEN i + 1 ELSE i)
          /\ Lies(q, x, v2, IF v2 = w THEN j + 1 ELSE j)
      BY <1>1
    <2>2. v1 = v2 /\ (IF v1 = w THEN i + 1 ELSE i) = (IF v2 = w THEN j + 1 ELSE j)
      <3>1. (IF v1 = w THEN i + 1 ELSE i) \in Nat /\ (IF v2 = w THEN j + 1 ELSE j) \in Nat
        BY SMT
      <3> QED
        BY <2>1, <3>1 DEF OnePlace
    <2> QED
      BY SMT, <2>2
  <1>5. ASSUME NEW x \in Uploads PROVE Queued(p, x) <=> Queued(q, x) /\ x # u
    <2>1. ASSUME Queued(p, x) PROVE Queued(q, x) /\ x # u
      <3>1. PICK v \in Lanes, i \in Nat : Lies(p, x, v, i)
        BY <2>1 DEF Queued
      <3>2. Lies(q, x, v, IF v = w THEN i + 1 ELSE i) /\ (v = w => i # 0)
        BY <1>1, <3>1
      <3>3. Queued(q, x)
        <4>1. (IF v = w THEN i + 1 ELSE i) \in Nat
          BY SMT
        <4> QED
          BY <3>2, <4>1 DEF Queued
      <3>4. ASSUME x = u PROVE FALSE
        <4>1. v = w /\ (IF v = w THEN i + 1 ELSE i) = 1
          <5>1. (IF v = w THEN i + 1 ELSE i) \in Nat /\ 1 \in Nat
            BY SMT
          <5> QED
            BY <1>2, <3>2, <3>4, <5>1 DEF OnePlace
        <4> QED
          BY SMT, <4>1, <3>2
      <3> QED
        BY <3>3, <3>4
    <2>2. ASSUME Queued(q, x), x # u PROVE Queued(p, x)
      <3>1. PICK v \in Lanes, i \in Nat : Lies(q, x, v, i)
        BY <2>2 DEF Queued
      <3>2. CASE v # w
        BY <1>1, <3>1, <3>2 DEF Queued
      <3>3. CASE v = w
        <4>1. i # 0 /\ i # 1
          BY <1>3, <2>2, <3>1, <3>3
        <4>2. i - 1 \in Nat /\ i - 1 # 0 /\ (i - 1) + 1 = i
          BY SMT, <4>1
        <4>3. Lies(p, x, w, i - 1)
          BY <1>1, <3>1, <3>3, <4>2
        <4> QED
          BY <4>2, <4>3 DEF Queued
      <3> QED
        BY <3>2, <3>3
    <2> QED
      BY <2>1, <2>2
  <1>6. Queued(q, u)
    BY <1>2 DEF Queued
  <1> QED
    BY <1>2, <1>4, <1>5, <1>6 DEF p, u

\* The workers start awake, with empty queues.
LEMMA FileInvInit == FilesInit => FileInv
  <1> SUFFICES ASSUME FilesInit PROVE FileInv
    OBVIOUS
  <1>1. 0 \in Lanes
    BY SMT, FileBounds DEF Lanes
  <1>2. FileTypes
    BY SMT, <1>1 DEF FilesInit, FileTypes
  <1>3. \A u \in Uploads, w \in Lanes, i \in Nat : ~ Lies(tasks, u, w, i)
    BY SMT DEF FilesInit, Lies
  <1>4. PlaceKnown
    BY <1>3 DEF PlaceKnown, OnePlace, Queued, FilesInit
  <1>5. WorkerTold
    BY ZenonT(30) DEF WorkerTold, FilesInit
  <1> QED
    BY <1>2, <1>4, <1>5 DEF FileInv

\* Every step keeps the types.
LEMMA FileTypesStep == FileInv /\ [FilesNext]_fileVars => FileTypes'
  <1> SUFFICES ASSUME FileInv, [FilesNext]_fileVars PROVE FileTypes'
    OBVIOUS
  <1> USE DEF FileInv, FileTypes, Proceed, WorkerGoes, Notified
  <1>0. 0 \in Lanes
    BY SMT, FileBounds DEF Lanes
  <1>1. ASSUME NEW u \in Uploads, Route(u) PROVE FileTypes'
    <2>1. upload' \in [Uploads -> {"idle", "push", "notify", "count", "store", "test", "wrap", "ok"}]
      <3>1. upload' = [upload EXCEPT ![u] = "push"] \/ upload' = upload
        BY <1>1 DEF Route
      <3> QED
        BY <3>1
    <2>2. lane' \in [Uploads -> Lanes]
      BY <1>1 DEF Route
    <2> QED
      BY <1>1, <2>1, <2>2 DEF Route
  <1>2. ASSUME NEW u \in Uploads, PushTask(u) PROVE FileTypes'
    BY SMT, <1>2 DEF PushTask
  <1>3. ASSUME NEW u \in Uploads, NotifyWorker(u) PROVE FileTypes'
    BY <1>0, <1>3 DEF NotifyWorker
  <1>4. ASSUME NEW u \in Uploads, LoadCount(u) PROVE FileTypes'
    BY SMT, <1>4 DEF LoadCount
  <1>5. ASSUME NEW u \in Uploads, StoreCount(u) PROVE FileTypes'
    BY <1>5 DEF StoreCount
  <1>6. ASSUME NEW u \in Uploads, TestCount(u) PROVE FileTypes'
    BY <1>6 DEF TestCount
  <1>7. ASSUME NEW u \in Uploads, WrapCount(u) PROVE FileTypes'
    BY <1>7 DEF WrapCount
  <1>8. ASSUME NEW w \in Lanes, Loop(w) PROVE FileTypes'
    BY <1>8 DEF Loop
  <1>9. ASSUME NEW w \in Lanes, WaitOrProcess(w) PROVE FileTypes'
    <2>1. CASE UNCHANGED <<tasks, processed>>
      BY <1>9, <2>1 DEF WaitOrProcess
    <2>2. CASE /\ tasks[w] # <<>> /\ tasks' = [tasks EXCEPT ![w] = Tail(@)]
               /\ processed' = [processed EXCEPT ![Head(tasks[w])] = @ + 1]
      <3>1. tasks \in Queues /\ OnePlace(tasks)
        BY DEF Queues, PlaceKnown
      <3>2. Head(tasks[w]) \in Uploads /\ processed[Head(tasks[w])] = 0
        BY <2>2, <3>1, Popped DEF PlaceKnown
      <3>3. tasks' \in [Lanes -> Seq(Uploads)] /\ processed' \in [Uploads -> {0, 1}]
        BY SMT, <2>2, <3>2
      <3> QED
        BY ZenonT(30), <1>9, <3>3 DEF WaitOrProcess
    <2> QED
      BY <1>9, <2>1, <2>2 DEF WaitOrProcess
  <1>10. ASSUME NEW w \in Lanes, GoesToSleep(w) PROVE FileTypes'
    BY <1>10 DEF GoesToSleep
  <1>11. CASE Shutdown
    BY <1>0, <1>11 DEF Shutdown
  <1>12. CASE SetStop
    BY <1>12 DEF SetStop
  <1>13. CASE WakeForStop
    BY <1>13 DEF WakeForStop
  <1>14. CASE JoinWorker
    BY <1>14 DEF JoinWorker
  <1>15. CASE UNCHANGED fileVars
    BY <1>15 DEF fileVars
  <1> QED
    BY ZenonT(30), <1>1, <1>2, <1>3, <1>4, <1>5, <1>6, <1>7, <1>8, <1>9, <1>10, <1>11, <1>12, <1>13, <1>14,
       <1>15 DEF FilesNext

\* The call has handed its chunk to a worker.
Handed(u) == upload[u] \notin {"idle", "push"}

\* A step that moves no chunk.
LEMMA PlaceKept ==
    ASSUME PlaceKnown, UNCHANGED <<tasks, processed>>, \A u \in Uploads : Handed(u)' = Handed(u)
    PROVE  PlaceKnown'
  BY DEF PlaceKnown, Handed

\* Every step keeps chunks where they are known to be.
LEMMA PlaceStep == FileInv /\ [FilesNext]_fileVars => PlaceKnown'
  <1> SUFFICES ASSUME FileInv, [FilesNext]_fileVars PROVE PlaceKnown'
    OBVIOUS
  <1> USE DEF FileInv
  <1>1. ASSUME NEW u \in Uploads,
               Route(u) \/ NotifyWorker(u) \/ LoadCount(u) \/ StoreCount(u) \/ TestCount(u) \/ WrapCount(u)
        PROVE  PlaceKnown'
    <2>1. UNCHANGED <<tasks, processed>>
      BY <1>1 DEF Route, NotifyWorker, LoadCount, StoreCount, TestCount, WrapCount
    <2>2. \A v \in Uploads : Handed(v)' = Handed(v)
      BY SMT, <1>1
      DEF Route, NotifyWorker, LoadCount, StoreCount, TestCount, WrapCount, Handed, FileTypes, Proceed
    <2> QED
      BY <2>1, <2>2, PlaceKept
  <1>2. ASSUME NEW u \in Uploads, PushTask(u) PROVE PlaceKnown'
    <2>1. tasks \in Queues /\ lane[u] \in Lanes /\ OnePlace(tasks)
      BY DEF FileTypes, Queues, PlaceKnown
    <2>2. upload[u] = "push" /\ ~ Queued(tasks, u) /\ processed[u] = 0
      BY <1>2 DEF PushTask, PlaceKnown
    <2>3. /\ tasks' = [tasks EXCEPT ![lane[u]] = Append(@, u)] /\ processed' = processed
          /\ upload'[u] = "notify" /\ \A x \in Uploads \ {u} : upload'[x] = upload[x]
      BY <1>2 DEF PushTask, Proceed, FileTypes
    <2>4. OnePlace(tasks') /\ \A x \in Uploads : Queued(tasks', x) <=> Queued(tasks, x) \/ x = u
      BY <2>1, <2>2, <2>3, Pushed
    <2> QED
      BY <2>2, <2>3, <2>4 DEF PlaceKnown
  <1>3. ASSUME NEW w \in Lanes, WaitOrProcess(w) PROVE PlaceKnown'
    <2>0. upload' = upload
      BY <1>3 DEF WaitOrProcess
    <2>1. CASE UNCHANGED <<tasks, processed>>
      BY <2>0, <2>1, PlaceKept DEF Handed
    <2>2. CASE /\ tasks[w] # <<>> /\ tasks' = [tasks EXCEPT ![w] = Tail(@)]
               /\ processed' = [processed EXCEPT ![Head(tasks[w])] = @ + 1]
      <3> DEFINE u == Head(tasks[w])
      <3>1. tasks \in Queues /\ OnePlace(tasks)
        BY DEF FileTypes, Queues, PlaceKnown
      <3>2. /\ u \in Uploads /\ Queued(tasks, u) /\ OnePlace(tasks')
            /\ \A x \in Uploads : Queued(tasks', x) <=> Queued(tasks, x) /\ x # u
        BY <2>2, <3>1, Popped
      <3> HIDE DEF u
      <3>3. processed[u] = 0 /\ upload[u] \notin {"idle", "push"}
        BY <3>2 DEF PlaceKnown
      <3>4. processed'[u] = 1 /\ \A x \in Uploads \ {u} : processed'[x] = processed[x]
        BY SMT, <2>2, <3>2, <3>3 DEF FileTypes, u
      <3> QED
        BY SMT, <2>0, <3>2, <3>3, <3>4 DEF PlaceKnown
    <2> QED
      BY <1>3, <2>1, <2>2 DEF WaitOrProcess
  <1>4. ASSUME NEW w \in Lanes, Loop(w) \/ GoesToSleep(w) PROVE PlaceKnown'
    BY <1>4, PlaceKept DEF Loop, GoesToSleep, Handed
  <1>5. CASE Shutdown \/ SetStop \/ WakeForStop \/ JoinWorker
    BY <1>5, PlaceKept DEF Shutdown, SetStop, WakeForStop, JoinWorker, Handed
  <1>6. CASE UNCHANGED fileVars
    BY <1>6, PlaceKept DEF fileVars, Handed
  <1> QED
    BY <1>1, <1>2, <1>3, <1>4, <1>5, <1>6 DEF FilesNext

\* A step of call u that wakes the worker it was about to tell, or goes on to
\* tell the worker it has given a chunk to.
LEMMA StillTold ==
    ASSUME WorkerTold, NEW u \in Uploads,
           \A x \in Uploads \ {u} : upload'[x] = upload[x] /\ lane'[x] = lane[x],
           \A w \in Lanes : fileWorker'[w] = "sleeping" => tasks'[w] = <<>>,
           \A w \in Lanes : tasks'[w] # <<>> /\ fileWorker'[w] = "asleep" =>
               \/ upload'[u] = "notify" /\ lane'[u] = w
               \/ /\ tasks[w] # <<>> /\ fileWorker[w] = "asleep"
                  /\ ~ (upload[u] = "notify" /\ lane[u] = w)
    PROVE  WorkerTold'
  <1>1. ASSUME NEW w \in Lanes, tasks'[w] # <<>>, fileWorker'[w] = "asleep"
        PROVE  \E x \in Uploads : upload'[x] = "notify" /\ lane'[x] = w
    <2>1. CASE tasks[w] # <<>> /\ fileWorker[w] = "asleep" /\ ~ (upload[u] = "notify" /\ lane[u] = w)
      <3>1. PICK x \in Uploads : upload[x] = "notify" /\ lane[x] = w
        BY <2>1 DEF WorkerTold
      <3> QED
        BY <2>1, <3>1
    <2> QED
      BY <1>1, <2>1
  <1> QED
    BY <1>1 DEF WorkerTold

\* Every step keeps a worker beside a chunk awake or about to be told.
LEMMA WorkerToldStep == FileInv /\ [FilesNext]_fileVars => WorkerTold'
  <1> SUFFICES ASSUME FileInv, [FilesNext]_fileVars PROVE WorkerTold'
    OBVIOUS
  <1>0. WorkerTold /\ \A w \in Lanes : fileWorker[w] = "sleeping" => tasks[w] = <<>>
    BY DEF FileInv, WorkerTold
  <1>1. ASSUME NEW u \in Uploads,
               Route(u) \/ LoadCount(u) \/ StoreCount(u) \/ TestCount(u) \/ WrapCount(u)
        PROVE  WorkerTold'
    <2>1. /\ upload[u] # "notify" /\ UNCHANGED <<tasks, fileWorker>>
          /\ \A x \in Uploads \ {u} : upload'[x] = upload[x] /\ lane'[x] = lane[x]
      BY <1>1 DEF Route, LoadCount, StoreCount, TestCount, WrapCount, Proceed, FileInv, FileTypes
    <2> QED
      BY <1>0, <2>1, StillTold
  <1>2. ASSUME NEW u \in Uploads, PushTask(u) PROVE WorkerTold'
    <2>1. /\ lane[u] \in Lanes /\ fileWorker[lane[u]] # "sleeping" /\ UNCHANGED <<fileWorker, lane>>
          /\ upload'[u] = "notify" /\ \A x \in Uploads \ {u} : upload'[x] = upload[x]
          /\ upload[u] # "notify"
          /\ \A w \in Lanes \ {lane[u]} : tasks'[w] = tasks[w]
      BY <1>2 DEF PushTask, Proceed, Locked, FileInv, FileTypes
    <2> QED
      BY <1>0, <2>1, StillTold
  <1>3. ASSUME NEW u \in Uploads, NotifyWorker(u) PROVE WorkerTold'
    <2>1. /\ lane[u] \in Lanes /\ upload[u] = "notify"
          /\ fileWorker'[lane[u]] # "asleep" /\ UNCHANGED tasks
          /\ fileWorker'[lane[u]] = "sleeping" => fileWorker[lane[u]] = "sleeping"
          /\ \A w \in Lanes \ {lane[u]} : fileWorker'[w] = fileWorker[w]
          /\ \A x \in Uploads \ {u} : upload'[x] = upload[x] /\ lane'[x] = lane[x]
      BY <1>3 DEF NotifyWorker, Proceed, Notified, FileInv, FileTypes
    <2> QED
      BY SMT, <1>0, <2>1, StillTold
  <1> USE DEF FileInv, FileTypes, WorkerTold
  <1>5. ASSUME NEW w \in Lanes, Loop(w) PROVE WorkerTold'
    BY SMT, <1>5 DEF Loop, WorkerGoes
  <1>6. ASSUME NEW w \in Lanes, WaitOrProcess(w) PROVE WorkerTold'
    <2>1. /\ UNCHANGED <<upload, lane>> /\ fileWorker'[w] # "asleep"
          /\ \A v \in Lanes \ {w} : fileWorker'[v] = fileWorker[v] /\ tasks'[v] = tasks[v]
      BY SMT, <1>6 DEF WaitOrProcess, WorkerGoes
    <2>2. fileWorker'[w] = "sleeping" => tasks'[w] = <<>>
      BY SMT, <1>6 DEF WaitOrProcess, WorkerGoes
    <2>3. \A v \in Lanes : fileWorker'[v] = "sleeping" => tasks'[v] = <<>>
      BY <2>1, <2>2
    <2>4. ASSUME NEW v \in Lanes, tasks'[v] # <<>>, fileWorker'[v] = "asleep"
          PROVE  tasks[v] # <<>> /\ fileWorker[v] = "asleep"
      BY <2>1, <2>4
    <2> QED
      BY <2>1, <2>3, <2>4, ZenonT(30)
  <1>7. ASSUME NEW w \in Lanes, GoesToSleep(w) PROVE WorkerTold'
    BY SMT, <1>7 DEF GoesToSleep, WorkerGoes
  <1>8. CASE WakeForStop
    <2>1. /\ UNCHANGED <<tasks, upload, lane>>
          /\ \A w \in Lanes : fileWorker'[w] = fileWorker[w] \/ fileWorker'[w] = "testing"
      BY SMT, <1>8 DEF WakeForStop, Notified
    <2> QED
      BY ZenonT(30), <2>1
  <1>9. CASE Shutdown \/ SetStop \/ JoinWorker
    BY SMT, <1>9 DEF Shutdown, SetStop, JoinWorker
  <1>10. CASE UNCHANGED fileVars
    BY <1>10 DEF fileVars
  <1> QED
    BY <1>1, <1>2, <1>3, <1>5, <1>6, <1>7, <1>8, <1>9, <1>10 DEF FilesNext

\* A queue without repetitions is no longer than there are chunks.
LEMMA QueueBound ==
    ASSUME NEW q \in Queues, NEW w \in Lanes, OnePlace(q)
    PROVE  Len(q[w]) <= Cardinality(Uploads)
  <1> DEFINE n == Len(q[w])
  <1>1. q[w] \in [1 .. n -> Uploads] /\ n \in Nat
    BY SMT DEF Queues
  <1>2. Cardinality(Uploads) \in Nat /\ IsFiniteSet(Uploads)
    BY FileBounds, FS_CardinalityType
  <1>3. IsFiniteSet(1 .. n) /\ Cardinality(1 .. n) = n
    <2>1. /\ IsFiniteSet(1 .. n)
          /\ Cardinality(1 .. n) = IF 1 > n THEN 0 ELSE n - 1 + 1
      <3>1. 1 \in Int /\ n \in Int
        BY SMT, <1>1
      <3> HIDE DEF n
      <3> QED
        BY <3>1, FS_Interval
    <2> QED
      BY SMT, <1>1, <2>1
  <1>4. ASSUME NEW i \in 1 .. n, NEW j \in 1 .. n, q[w][i] = q[w][j] PROVE i = j
    <2>1. q[w][i] \in Uploads /\ i \in Nat /\ j \in Nat
      BY SMT, <1>1
    <2>2. Lies(q, q[w][i], w, i) /\ Lies(q, q[w][i], w, j)
      BY <1>4 DEF Lies
    <2> QED
      BY <2>1, <2>2 DEF OnePlace
  <1>5. ~ (Cardinality(Uploads) < n)
    <2>1. ASSUME Cardinality(Uploads) < n PROVE \E i, j \in 1 .. n : i # j /\ q[w][i] = q[w][j]
      BY SMT, <1>1, <1>2, <1>3, <2>1, FS_PigeonHole
    <2> QED
      BY <1>4, <2>1
  <1> QED
    BY SMT, <1>1, <1>2, <1>5

\* The invariant implies the property.
LEMMA FileInvKeepsChunks == FileInv => ChunksKept
  <1> SUFFICES ASSUME FileInv PROVE ChunksKept
    OBVIOUS
  <1>0. tasks \in Queues /\ OnePlace(tasks)
    BY DEF FileInv, FileTypes, Queues, PlaceKnown
  <1>1. ASSUME NEW u \in Uploads, upload[u] \notin {"idle", "push"}
        PROVE  processed[u] + Cardinality({p \in Lanes \X (1..Cardinality(Uploads)) :
                                  p[2] <= Len(tasks[p[1]]) /\ tasks[p[1]][p[2]] = u}) = 1
    <2> DEFINE P == {p \in Lanes \X (1..Cardinality(Uploads)) :
                         p[2] <= Len(tasks[p[1]]) /\ tasks[p[1]][p[2]] = u}
    <2>1. \A w \in Lanes, i \in Nat :
              Lies(tasks, u, w, i) <=> i \in 1 .. Cardinality(Uploads) /\ i <= Len(tasks[w]) /\ tasks[w][i] = u
      <3> TAKE w \in Lanes, i \in Nat
      <3>1. Len(tasks[w]) <= Cardinality(Uploads) /\ Len(tasks[w]) \in Nat
        BY SMT, <1>0, QueueBound DEF Queues
      <3>2. Cardinality(Uploads) \in Nat
        BY FileBounds, FS_CardinalityType
      <3> QED
        BY SMT, <3>1, <3>2 DEF Lies
    <2>2. \A w \in Lanes, i \in Nat : Lies(tasks, u, w, i) <=> <<w, i>> \in P
      BY <2>1
    <2>3. \A p \in P : p = <<p[1], p[2]>> /\ p[1] \in Lanes /\ p[2] \in Nat
      BY SMT
    <2> HIDE DEF P
    <2>4. CASE processed[u] = 0
      <3>1. PICK w \in Lanes, i \in Nat : Lies(tasks, u, w, i)
        BY <1>1, <2>4 DEF FileInv, PlaceKnown, Queued
      <3>2. \A p \in P : p = <<w, i>>
        <4> TAKE p \in P
        <4>1. Lies(tasks, u, p[1], p[2]) /\ p[1] \in Lanes /\ p[2] \in Nat
          BY <2>2, <2>3
        <4>2. p[1] = w /\ p[2] = i
          BY SMT, <1>0, <3>1, <4>1 DEF OnePlace
        <4> QED
          BY <2>3, <4>2
      <3>3. P = {<<w, i>>}
        BY <2>2, <3>1, <3>2
      <3>4. Cardinality(P) = 1
        BY <3>3, FS_Singleton
      <3> QED
        BY SMT, <2>4, <3>4 DEF P
    <2>5. CASE processed[u] = 1
      <3>1. ~ Queued(tasks, u)
        BY SMT, <2>5 DEF FileInv, PlaceKnown
      <3>2. P = {}
        <4> SUFFICES ASSUME NEW p \in P PROVE FALSE
          OBVIOUS
        <4>1. Lies(tasks, u, p[1], p[2]) /\ p[1] \in Lanes /\ p[2] \in Nat
          BY <2>2, <2>3
        <4> QED
          BY <3>1, <4>1 DEF Queued
      <3>3. Cardinality(P) = 0
        BY <3>2, FS_EmptySet
      <3> QED
        BY SMT, <2>5, <3>3 DEF P
    <2> QED
      BY <2>4, <2>5 DEF FileInv, FileTypes
  <1>2. ASSUME NEW w \in Lanes, tasks[w] # <<>>, fileWorker[w] \in {"sleeping", "asleep"}
        PROVE  \E u \in Uploads : upload[u] = "notify" /\ lane[u] = w
    BY <1>2 DEF FileInv, WorkerTold
  <1> QED
    BY <1>1, <1>2 DEF ChunksKept

\* The File node keeps every chunk, for every number of Upload calls and
\* workers, though the calls race for routeCount without a lock: a chunk that
\* FileServiceImpl::PushTask took is in one queue or was run once, and a worker
\* sleeps beside one only while a call is about to wake it.
THEOREM ChunksReachDisk == FilesSpec => []ChunksKept
  <1>1. FileInv /\ [FilesNext]_fileVars => FileInv'
    BY FileTypesStep, PlaceStep, WorkerToldStep DEF FileInv
  <1> QED
    BY <1>1, FileInvInit, FileInvKeepsChunks, PTL DEF FilesSpec
=============================================================================
