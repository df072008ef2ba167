-------------------------- MODULE TransportProofs ---------------------------
(***************************************************************************)
(* Proofs about GatewayWrites, for every set of deliveries and sending     *)
(* threads and every limit of the queue, and about ThreadPool, for every   *)
(* number of tasks, workers and stoppers and every queue size.             *)
(***************************************************************************)
EXTENDS GatewayWrites, ThreadPool, FiniteSetTheorems, TLAPS

\* Zenon is the default prover; a leaf with arithmetic or sequences cites SMT.
USE Zenon

-----------------------------------------------------------------------------
(* GatewayWrites, first layer: types, repetitions and refusals *)

StrandTask == [do : {"push"}, f : Frame] \cup [do : {"register", "expire"}, f : Seqs]
              \cup [do : {"close"}]

SenderState == [pc : {"idle", "over", "post"}, f : Frame] \cup [pc : {"register"}, f : Seqs]

WriteTypes ==
  /\ closed \in BOOLEAN
  /\ refused \in BOOLEAN
  /\ queuedWrites \in Int
  /\ writeQueue \in Seq(Frame)
  /\ strand \in Seq(StrandTask)
  /\ sender \in [Senders -> SenderState]
  /\ sendings \in [Seqs -> 0 .. MaxSendings]
  /\ armed \subseteq Seqs
  /\ credit \in [Seqs -> Int]

\* An entry of reliableWrites is entitled to what it has not sent yet.
CreditInv ==
  \A s \in Seqs : credit[s] >= 0 /\ (sendings[s] > 0 => credit[s] = MaxSendings - sendings[s])

\* A task that closes the session waits on the strand.
ClosePosted == \E i \in 1 .. Len(strand) : strand[i].do = "close"

RefusedInv == refused => closed \/ ClosePosted

WriteInv == WriteTypes /\ CreditInv /\ RefusedInv

\* What is posted joins the end of the strand.
LEMMA PostTask ==
    ASSUME WriteTypes, NEW t \in StrandTask, strand' = Append(strand, t)
    PROVE  /\ strand' \in Seq(StrandTask)
           /\ ClosePosted => ClosePosted'
           /\ t.do = "close" => ClosePosted'
  <1>1. /\ strand' \in Seq(StrandTask)
        /\ Len(strand') = Len(strand) + 1
        /\ Len(strand) \in Nat
        /\ \A i \in 1 .. Len(strand) : strand'[i] = strand[i] /\ i \in 1 .. Len(strand')
        /\ strand'[Len(strand) + 1] = t
        /\ Len(strand) + 1 \in 1 .. Len(strand')
    BY SMT DEF WriteTypes
  <1> QED
    BY <1>1 DEF ClosePosted

\* The task that runs leaves the strand; the others stay.
LEMMA TakeTask ==
    ASSUME WriteTypes, strand # <<>>, strand' = Tail(strand)
    PROVE  /\ Head(strand) \in StrandTask
           /\ strand' \in Seq(StrandTask)
           /\ Head(strand).do # "close" => (ClosePosted => ClosePosted')
  <1>1. /\ Head(strand) \in StrandTask
        /\ Head(strand) = strand[1]
        /\ strand' \in Seq(StrandTask)
        /\ Len(strand') = Len(strand) - 1
        /\ Len(strand) \in Nat
        /\ \A i \in 1 .. Len(strand') : strand'[i] = strand[i + 1]
    BY SMT DEF WriteTypes
  <1>2. ASSUME Head(strand).do # "close", NEW i \in 1 .. Len(strand), strand[i].do = "close"
        PROVE  ClosePosted'
    <2>1. i # 1
      BY <1>1, <1>2
    <2>2. i - 1 \in 1 .. Len(strand') /\ (i - 1) + 1 = i
      BY SMT, <1>1, <2>1
    <2>3. strand'[i - 1] = strand[i]
      BY <1>1, <2>2
    <2> QED
      BY <1>2, <2>2, <2>3 DEF ClosePosted
  <1> QED
    BY <1>1, <1>2 DEF ClosePosted

\* Both: the running task posts another one.
LEMMA TakeAndPost ==
    ASSUME WriteTypes, strand # <<>>, NEW t \in StrandTask, strand' = Append(Tail(strand), t)
    PROVE  /\ strand' \in Seq(StrandTask)
           /\ Head(strand).do # "close" => (ClosePosted => ClosePosted')
           /\ t.do = "close" => ClosePosted'
  <1>1. /\ Head(strand) = strand[1]
        /\ strand' \in Seq(StrandTask)
        /\ Len(strand') = Len(strand)
        /\ Len(strand) \in Nat \ {0}
        /\ \A i \in 1 .. Len(strand) : i # 1 => strand'[i - 1] = strand[i] /\ i - 1 \in 1 .. Len(strand')
        /\ strand'[Len(strand)] = t
    BY SMT DEF WriteTypes
  <1>2. t.do = "close" => ClosePosted'
    <2>1. Len(strand) \in 1 .. Len(strand')
      BY SMT, <1>1
    <2> QED
      BY <1>1, <2>1 DEF ClosePosted
  <1>3. ASSUME Head(strand).do # "close", NEW i \in 1 .. Len(strand), strand[i].do = "close"
        PROVE  ClosePosted'
    <2>1. i # 1
      BY <1>1, <1>3
    <2>2. strand'[i - 1] = strand[i] /\ i - 1 \in 1 .. Len(strand')
      BY <1>1, <2>1
    <2> QED
      BY <1>3, <2>2 DEF ClosePosted
  <1> QED
    BY <1>1, <1>2, <1>3 DEF ClosePosted

\* The session starts without frames, entries or refusals.
LEMMA WritesInitOK == WritesInit => WriteInv
  <1> SUFFICES ASSUME WritesInit PROVE WriteInv
    OBVIOUS
  <1> USE DEF WritesInit
  <1>1. closed \in BOOLEAN /\ refused \in BOOLEAN
    OBVIOUS
  <1>2. queuedWrites \in Int /\ sendings \in [Seqs -> 0 .. MaxSendings] /\ credit \in [Seqs -> Int]
    BY SMT DEF MaxSendings
  <1>3. writeQueue \in Seq(Frame) /\ strand \in Seq(StrandTask) /\ armed \subseteq Seqs
    <2>1. writeQueue = <<>> /\ strand = <<>> /\ armed = {}
      OBVIOUS
    <2> QED
      BY SMT, <2>1
  <1>4. sender \in [Senders -> SenderState]
    BY DEF SenderState, Frame
  <1>5. WriteTypes
    BY <1>1, <1>2, <1>3, <1>4 DEF WriteTypes
  <1>6. CreditInv
    BY SMT DEF CreditInv
  <1>7. RefusedInv
    BY DEF RefusedInv
  <1> QED
    BY <1>5, <1>6, <1>7 DEF WriteInv

\* The steps of a sending thread touch neither entries nor credits.
LEMMA SenderStepOK ==
    ASSUME WriteInv, NEW p \in Senders,
           (\E f \in Frame : Reserve(p, f)) \/ Refuse(p) \/ Post(p) \/ PostRegistration(p)
    PROVE  WriteInv'
  <1>1. UNCHANGED <<closed, writeQueue, sendings, armed, credit>>
    BY DEF Reserve, Refuse, Post, PostRegistration
  <1>2. CreditInv'
    BY <1>1 DEF WriteInv, CreditInv
  <1>3. sender[p] \in SenderState /\ queuedWrites \in Int
    BY DEF WriteInv, WriteTypes
  <1>4. CASE \E f \in Frame : Reserve(p, f)
    <2>1. PICK f \in Frame : Reserve(p, f)
      BY <1>4
    <2>2. UNCHANGED <<strand, refused>> /\ queuedWrites' \in Int
      BY SMT, <1>3, <2>1 DEF Reserve
    <2>3. sender' \in [Senders -> SenderState]
      BY <2>1 DEF WriteInv, WriteTypes, Reserve, SenderState
    <2>4. WriteTypes' /\ RefusedInv'
      BY <1>1, <2>2, <2>3 DEF WriteInv, WriteTypes, RefusedInv, ClosePosted
    <2> QED
      BY <1>2, <2>4 DEF WriteInv
  <1>5. CASE Refuse(p)
    <2>1. [do |-> "close"] \in StrandTask /\ [do |-> "close"].do = "close"
      BY DEF StrandTask
    <2>2. strand' = Append(strand, [do |-> "close"])
      BY <1>5 DEF Refuse
    <2>3. strand' \in Seq(StrandTask) /\ ClosePosted'
      BY <2>1, <2>2, PostTask DEF WriteInv
    <2>4. queuedWrites' \in Int /\ sender' \in [Senders -> SenderState]
      <3>1. queuedWrites' \in Int
        BY SMT, <1>3, <1>5 DEF Refuse
      <3>2. [sender[p] EXCEPT !.pc = "idle"] \in SenderState
        BY <1>3, <1>5 DEF Refuse, SenderState
      <3>3. sender' = [sender EXCEPT ![p] = [sender[p] EXCEPT !.pc = "idle"]]
        BY <1>5 DEF Refuse
      <3> QED
        BY <3>1, <3>2, <3>3 DEF WriteInv, WriteTypes
    <2>5. refused' \in BOOLEAN
      BY <1>5 DEF Refuse
    <2>6. WriteTypes' /\ RefusedInv'
      BY <1>1, <2>3, <2>4, <2>5 DEF WriteInv, WriteTypes, RefusedInv
    <2> QED
      BY <1>2, <2>6 DEF WriteInv
  <1>6. CASE Post(p)
    <2>1. sender[p].f \in Frame /\ (sender[p].f # Raw => sender[p].f \in Seqs)
      BY <1>3 DEF SenderState, Frame
    <2>2. [do |-> "push", f |-> sender[p].f] \in StrandTask
      BY <2>1 DEF StrandTask
    <2>3. strand' = Append(strand, [do |-> "push", f |-> sender[p].f])
      BY <1>6 DEF Post
    <2>4. strand' \in Seq(StrandTask) /\ (ClosePosted => ClosePosted')
      BY <2>2, <2>3, PostTask DEF WriteInv
    <2>5. sender' \in [Senders -> SenderState]
      BY <1>3, <1>6, <2>1 DEF WriteInv, WriteTypes, Post, SenderState
    <2>6. UNCHANGED <<queuedWrites, refused>>
      BY <1>6 DEF Post
    <2>7. WriteTypes' /\ RefusedInv'
      BY <1>1, <2>4, <2>5, <2>6 DEF WriteInv, WriteTypes, RefusedInv
    <2> QED
      BY <1>2, <2>7 DEF WriteInv
  <1>7. CASE PostRegistration(p)
    <2>1. sender[p].f \in Seqs
      BY <1>3, <1>7 DEF SenderState, PostRegistration
    <2>2. [do |-> "register", f |-> sender[p].f] \in StrandTask
      BY <2>1 DEF StrandTask
    <2>3. strand' = Append(strand, [do |-> "register", f |-> sender[p].f])
      BY <1>7 DEF PostRegistration
    <2>4. strand' \in Seq(StrandTask) /\ (ClosePosted => ClosePosted')
      BY <2>2, <2>3, PostTask DEF WriteInv
    <2>5. sender' \in [Senders -> SenderState]
      BY <1>3, <1>7, <2>1 DEF WriteInv, WriteTypes, PostRegistration, SenderState, Frame
    <2>6. UNCHANGED <<queuedWrites, refused>>
      BY <1>7 DEF PostRegistration
    <2>7. WriteTypes' /\ RefusedInv'
      BY <1>1, <2>4, <2>5, <2>6 DEF WriteInv, WriteTypes, RefusedInv
    <2> QED
      BY <1>2, <2>7 DEF WriteInv
  <1> QED
    BY <1>4, <1>5, <1>6, <1>7

\* Closing drops every entry and keeps the credits.
LEMMA CloseOK ==
    ASSUME WriteInv, CloseInContext, UNCHANGED credit
    PROVE  /\ closed' \in BOOLEAN /\ closed'
           /\ sendings' \in [Seqs -> 0 .. MaxSendings]
           /\ armed' \subseteq Seqs
           /\ CreditInv'
  <1>1. closed' = TRUE
    BY DEF CloseInContext
  <1>2. CASE closed
    <2>1. UNCHANGED <<sendings, armed>>
      BY <1>2 DEF CloseInContext
    <2> QED
      BY <1>1, <2>1 DEF WriteInv, WriteTypes, CreditInv
  <1>3. CASE ~ closed
    <2>1. sendings' = [s \in Seqs |-> 0] /\ armed' = {}
      BY <1>3 DEF CloseInContext
    <2>2. sendings' \in [Seqs -> 0 .. MaxSendings] /\ armed' \subseteq Seqs
      BY SMT, <2>1 DEF MaxSendings
    <2>3. CreditInv'
      BY SMT, <2>1 DEF WriteInv, CreditInv
    <2> QED
      BY <1>1, <2>2, <2>3
  <1> QED
    BY <1>2, <1>3

\* The tasks of the strand.
LEMMA PushOK == WriteInv /\ RunPush => WriteInv'
  <1> SUFFICES ASSUME WriteInv, RunPush PROVE WriteInv'
    OBVIOUS
  <1>1. /\ strand # <<>> /\ Head(strand).do = "push" /\ strand' = Tail(strand)
        /\ UNCHANGED <<closed, sender, sendings, armed, credit, refused>>
    BY DEF RunPush, Runs
  <1>2. /\ Head(strand) \in StrandTask
        /\ strand' \in Seq(StrandTask)
        /\ ClosePosted => ClosePosted'
    BY <1>1, TakeTask DEF WriteInv
  <1>3. Head(strand).f \in Frame
    BY <1>1, <1>2 DEF StrandTask
  <1>4. queuedWrites' \in Int /\ writeQueue' \in Seq(Frame)
    <2>1. queuedWrites \in Int /\ writeQueue \in Seq(Frame)
      BY DEF WriteInv, WriteTypes
    <2>2. \/ queuedWrites' = queuedWrites - 1 /\ writeQueue' = writeQueue
          \/ queuedWrites' = queuedWrites /\ writeQueue' = Append(writeQueue, Head(strand).f)
      BY DEF RunPush
    <2> QED
      BY SMT, <1>3, <2>1, <2>2
  <1> QED
    BY <1>1, <1>2, <1>4 DEF WriteInv, WriteTypes, CreditInv, RefusedInv

\* A registration is entitled to two repetitions.
LEMMA RegisterOK == WriteInv /\ RunRegister => WriteInv'
  <1> SUFFICES ASSUME WriteInv, RunRegister PROVE WriteInv'
    OBVIOUS
  <1> DEFINE s == Head(strand).f
  <1>1. /\ strand # <<>> /\ Head(strand).do = "register" /\ strand' = Tail(strand)
        /\ sendings' = [sendings EXCEPT ![s] = 1]
        /\ credit' = [credit EXCEPT ![s] = MaxSendings - 1]
        /\ armed' = IF closed THEN armed \ {s} ELSE armed \cup {s}
        /\ UNCHANGED <<closed, queuedWrites, writeQueue, sender, refused>>
    BY DEF RunRegister, Runs
  <1>2. /\ Head(strand) \in StrandTask
        /\ strand' \in Seq(StrandTask)
        /\ ClosePosted => ClosePosted'
    BY <1>1, TakeTask DEF WriteInv
  <1>3. s \in Seqs
    BY <1>1, <1>2 DEF StrandTask
  <1> HIDE DEF s
  <1>4. /\ sendings' \in [Seqs -> 0 .. MaxSendings]
        /\ credit' \in [Seqs -> Int]
        /\ armed' \subseteq Seqs
    BY SMT, <1>1, <1>3 DEF WriteInv, WriteTypes, MaxSendings
  <1>5. CreditInv'
    BY SMT, <1>1, <1>3 DEF WriteInv, WriteTypes, CreditInv, MaxSendings
  <1> QED
    BY <1>1, <1>2, <1>4, <1>5 DEF WriteInv, WriteTypes, RefusedInv

\* A close that was posted is carried out.
LEMMA RunCloseOK == WriteInv /\ RunClose => WriteInv'
  <1> SUFFICES ASSUME WriteInv, RunClose PROVE WriteInv'
    OBVIOUS
  <1>1. /\ strand # <<>> /\ strand' = Tail(strand) /\ CloseInContext
        /\ UNCHANGED <<queuedWrites, writeQueue, sender, credit, refused>>
    BY DEF RunClose, Runs
  <1>2. strand' \in Seq(StrandTask)
    BY <1>1, TakeTask DEF WriteInv
  <1>3. /\ closed' \in BOOLEAN /\ closed'
        /\ sendings' \in [Seqs -> 0 .. MaxSendings]
        /\ armed' \subseteq Seqs
        /\ CreditInv'
    BY <1>1, CloseOK
  <1> QED
    BY <1>1, <1>2, <1>3 DEF WriteInv, WriteTypes, RefusedInv

\* The handler of a timer: it gives up, closes, or sends one of the
\* repetitions its entry is entitled to.
LEMMA ExpireOK == WriteInv /\ RunExpire => WriteInv'
  <1> SUFFICES ASSUME WriteInv, RunExpire PROVE WriteInv'
    OBVIOUS
  <1> DEFINE s == Head(strand).f
  <1>1. /\ strand # <<>> /\ Head(strand).do = "expire" /\ sendings[s] > 0
        /\ UNCHANGED <<closed, writeQueue, sender>>
    BY DEF RunExpire, Runs
  <1>2. Head(strand) \in StrandTask
    BY SMT, <1>1 DEF WriteInv, WriteTypes
  <1>3. s \in Seqs
    BY <1>1, <1>2 DEF StrandTask
  <1>4. CASE sendings[s] >= MaxSendings \/ closed
    <2>1. /\ strand' = Tail(strand) /\ sendings' = [sendings EXCEPT ![s] = 0]
          /\ UNCHANGED <<queuedWrites, armed, credit, refused>>
      BY <1>4 DEF RunExpire
    <2>2. strand' \in Seq(StrandTask) /\ (ClosePosted => ClosePosted')
      BY <1>1, <2>1, TakeTask DEF WriteInv
    <2> HIDE DEF s
    <2>3. sendings' \in [Seqs -> 0 .. MaxSendings] /\ CreditInv'
      BY SMT, <1>3, <2>1 DEF WriteInv, WriteTypes, CreditInv, MaxSendings
    <2> QED
      BY <1>1, <2>1, <2>2, <2>3 DEF WriteInv, WriteTypes, RefusedInv
  <1>5. CASE ~ (sendings[s] >= MaxSendings \/ closed) /\ queuedWrites + 1 > MaxQueued
    <2>1. /\ strand' = Append(Tail(strand), [do |-> "close"])
          /\ sendings' = [sendings EXCEPT ![s] = 0] /\ refused' = TRUE
          /\ UNCHANGED <<queuedWrites, armed, credit>>
      BY <1>5 DEF RunExpire
    <2>2. [do |-> "close"] \in StrandTask /\ [do |-> "close"].do = "close"
      BY DEF StrandTask
    <2>3. strand' \in Seq(StrandTask) /\ ClosePosted'
      BY <1>1, <2>1, <2>2, TakeAndPost DEF WriteInv
    <2> HIDE DEF s
    <2>4. sendings' \in [Seqs -> 0 .. MaxSendings] /\ CreditInv'
      BY SMT, <1>3, <2>1 DEF WriteInv, WriteTypes, CreditInv, MaxSendings
    <2>5. refused' \in BOOLEAN
      BY <2>1
    <2> QED
      BY <1>1, <2>1, <2>3, <2>4, <2>5 DEF WriteInv, WriteTypes, RefusedInv
  <1>6. CASE ~ (sendings[s] >= MaxSendings \/ closed) /\ ~ (queuedWrites + 1 > MaxQueued)
    <2>1. /\ strand' = Append(Tail(strand), [do |-> "push", f |-> s])
          /\ sendings' = [sendings EXCEPT ![s] = @ + 1] /\ armed' = armed \cup {s}
          /\ queuedWrites' = queuedWrites + 1 /\ credit' = [credit EXCEPT ![s] = @ - 1]
          /\ UNCHANGED refused
      BY <1>6 DEF RunExpire
    <2>2. [do |-> "push", f |-> s] \in StrandTask
      BY <1>3 DEF StrandTask, Frame
    <2>3. strand' \in Seq(StrandTask) /\ (ClosePosted => ClosePosted')
      BY <1>1, <2>1, <2>2, TakeAndPost DEF WriteInv
    <2> HIDE DEF s
    <2>4. /\ sendings[s] \in 1 .. MaxSendings - 1 /\ credit[s] \in Int
          /\ credit[s] = MaxSendings - sendings[s]
      BY SMT, <1>1, <1>3, <1>6 DEF WriteInv, WriteTypes, CreditInv, MaxSendings
    <2>5. /\ sendings' \in [Seqs -> 0 .. MaxSendings]
          /\ credit' \in [Seqs -> Int]
          /\ queuedWrites' \in Int
          /\ armed' \subseteq Seqs
      BY SMT, <1>3, <2>1, <2>4 DEF WriteInv, WriteTypes, MaxSendings
    <2>6. CreditInv'
      BY SMT, <1>3, <2>1, <2>4 DEF WriteInv, WriteTypes, CreditInv, MaxSendings
    <2> QED
      BY <1>1, <2>1, <2>3, <2>5, <2>6 DEF WriteInv, WriteTypes, RefusedInv
  <1> QED
    BY <1>4, <1>5, <1>6

\* A handler that finds no entry, an expiring timer and an ACK.
LEMMA TimerStepOK ==
    ASSUME WriteInv,
           RunExpireStale \/ \E s \in Seqs : TimerExpires(s) \/ AcknowledgeTransport(s)
    PROVE  WriteInv'
  <1>1. UNCHANGED <<closed, queuedWrites, writeQueue, sender, refused>>
    BY DEF RunExpireStale, TimerExpires, AcknowledgeTransport
  <1>2. CASE RunExpireStale
    <2>1. /\ strand # <<>> /\ Head(strand).do = "expire" /\ strand' = Tail(strand)
          /\ UNCHANGED <<sendings, armed, credit>>
      BY <1>2 DEF RunExpireStale, Runs
    <2>2. strand' \in Seq(StrandTask) /\ (ClosePosted => ClosePosted')
      BY <2>1, TakeTask DEF WriteInv
    <2> QED
      BY <1>1, <2>1, <2>2 DEF WriteInv, WriteTypes, CreditInv, RefusedInv
  <1>3. ASSUME NEW s \in Seqs, TimerExpires(s) PROVE WriteInv'
    <2>1. /\ armed' = armed \ {s} /\ strand' = Append(strand, [do |-> "expire", f |-> s])
          /\ UNCHANGED <<sendings, credit>>
      BY <1>3 DEF TimerExpires
    <2>2. [do |-> "expire", f |-> s] \in StrandTask
      BY DEF StrandTask
    <2>3. strand' \in Seq(StrandTask) /\ (ClosePosted => ClosePosted')
      BY <2>1, <2>2, PostTask DEF WriteInv
    <2> QED
      BY <1>1, <2>1, <2>3 DEF WriteInv, WriteTypes, CreditInv, RefusedInv
  <1>4. ASSUME NEW s \in Seqs, AcknowledgeTransport(s) PROVE WriteInv'
    <2>1. /\ sendings' = [sendings EXCEPT ![s] = 0] /\ armed' = armed \ {s}
          /\ credit' = [credit EXCEPT ![s] = 0] /\ UNCHANGED strand
      BY <1>4 DEF AcknowledgeTransport
    <2>2. /\ sendings' \in [Seqs -> 0 .. MaxSendings]
          /\ credit' \in [Seqs -> Int]
          /\ armed' \subseteq Seqs
      BY SMT, <2>1 DEF WriteInv, WriteTypes, MaxSendings
    <2>3. CreditInv'
      BY SMT, <2>1 DEF WriteInv, WriteTypes, CreditInv, MaxSendings
    <2> QED
      BY <1>1, <2>1, <2>2, <2>3 DEF WriteInv, WriteTypes, RefusedInv, ClosePosted
  <1> QED
    BY <1>2, <1>3, <1>4

\* The answer to QUIT is queued or refused like any frame.
LEMMA QuitOK == WriteInv /\ QuitRequested => WriteInv'
  <1> SUFFICES ASSUME WriteInv, QuitRequested PROVE WriteInv'
    OBVIOUS
  <1>1. UNCHANGED <<closed, writeQueue, sender, sendings, armed, credit>>
    BY DEF QuitRequested
  <1>2. CASE queuedWrites + 1 > MaxQueued
    <2>1. strand' = Append(strand, [do |-> "close"]) /\ refused' = TRUE /\ UNCHANGED queuedWrites
      BY <1>2 DEF QuitRequested
    <2>2. [do |-> "close"] \in StrandTask /\ [do |-> "close"].do = "close"
      BY DEF StrandTask
    <2>3. strand' \in Seq(StrandTask) /\ ClosePosted'
      BY <2>1, <2>2, PostTask DEF WriteInv
    <2>4. refused' \in BOOLEAN
      BY <2>1
    <2> QED
      BY <1>1, <2>1, <2>3, <2>4 DEF WriteInv, WriteTypes, CreditInv, RefusedInv
  <1>3. CASE ~ (queuedWrites + 1 > MaxQueued)
    <2>1. /\ strand' = Append(strand, [do |-> "push", f |-> Raw])
          /\ queuedWrites' = queuedWrites + 1 /\ UNCHANGED refused
      BY <1>3 DEF QuitRequested
    <2>2. [do |-> "push", f |-> Raw] \in StrandTask
      BY DEF StrandTask, Frame
    <2>3. strand' \in Seq(StrandTask) /\ (ClosePosted => ClosePosted')
      BY <2>1, <2>2, PostTask DEF WriteInv
    <2>4. queuedWrites' \in Int
      BY SMT, <2>1 DEF WriteInv, WriteTypes
    <2> QED
      BY <1>1, <2>1, <2>3, <2>4 DEF WriteInv, WriteTypes, CreditInv, RefusedInv
  <1> QED
    BY <1>2, <1>3

\* The end of a write and of the reading side.
LEMMA SocketOK ==
    ASSUME WriteInv, ReadFails \/ \E ok \in BOOLEAN : WriteDone(ok),
           writeActive => writeQueue # <<>>
    PROVE  WriteInv'
  <1>1. UNCHANGED <<strand, sender, credit, refused>>
    BY DEF ReadFails, WriteDone
  <1>2. queuedWrites' \in Int /\ writeQueue' \in Seq(Frame)
    <2>1. queuedWrites \in Int /\ writeQueue \in Seq(Frame)
      BY DEF WriteInv, WriteTypes
    <2>2. \/ queuedWrites' = queuedWrites /\ writeQueue' = writeQueue
          \/ queuedWrites' = queuedWrites - 1 /\ writeQueue' = Tail(writeQueue) /\ writeQueue # <<>>
      BY DEF ReadFails, WriteDone
    <2> QED
      BY SMT, <2>1, <2>2
  <1>3. CASE CloseInContext
    <2>1. /\ closed' \in BOOLEAN /\ closed'
          /\ sendings' \in [Seqs -> 0 .. MaxSendings]
          /\ armed' \subseteq Seqs
          /\ CreditInv'
      BY <1>1, <1>3, CloseOK
    <2> QED
      BY <1>1, <1>2, <2>1 DEF WriteInv, WriteTypes, RefusedInv
  <1>4. CASE ~ CloseInContext
    <2>1. UNCHANGED <<closed, sendings, armed>>
      BY <1>4 DEF ReadFails, WriteDone
    <2> QED
      BY <1>1, <1>2, <2>1 DEF WriteInv, WriteTypes, CreditInv, RefusedInv, ClosePosted
  <1> QED
    BY <1>3, <1>4

-----------------------------------------------------------------------------

\* WriteLoop runs only over a queue with frames.
WritingInv == writeActive \in BOOLEAN /\ (writeActive => writeQueue # <<>>)

\* A started write has a frame to write.
LEMMA WritingOK == WriteTypes /\ WritingInv /\ [WritesNext]_writeVars => WritingInv'
  <1> SUFFICES ASSUME WriteTypes, WritingInv, [WritesNext]_writeVars PROVE WritingInv'
    OBVIOUS
  <1>1. CASE UNCHANGED <<writeQueue, writeActive>>
    BY <1>1 DEF WritingInv
  <1>2. CASE RunPush
    <2>1. CASE closed
      BY <2>1, <1>1, <1>2 DEF RunPush
    <2>2. CASE ~ closed
      <3>1. writeQueue' = Append(writeQueue, Head(strand).f) /\ writeActive' = TRUE
        BY <1>2, <2>2 DEF RunPush
      <3>2. writeQueue' # <<>>
        BY SMT, <3>1 DEF WriteTypes
      <3> QED
        BY <3>1, <3>2 DEF WritingInv
    <2> QED
      BY <2>1, <2>2
  <1>3. ASSUME NEW ok \in BOOLEAN, WriteDone(ok) PROVE WritingInv'
    BY <1>3 DEF WriteDone, WritingInv
  <1>4. CASE UNCHANGED writeVars
    BY <1>1, <1>4 DEF writeVars
  <1> QED
    BY <1>1, <1>2, <1>3, <1>4
       DEF WritesNext, Strand, Reserve, Refuse, Post, PostRegistration, RunRegister, RunClose,
           RunExpire, RunExpireStale, TimerExpires, AcknowledgeTransport, QuitRequested, ReadFails

\* The first layer holds in every reachable state.
THEOREM WritesTyped == WritesSpec => [](WriteInv /\ WritingInv)
  <1>1. WritesInit => WriteInv /\ WritingInv
    BY WritesInitOK DEF WritesInit, WritingInv
  <1>2. WriteInv /\ WritingInv /\ [WritesNext]_writeVars => WriteInv' /\ WritingInv'
    <2> SUFFICES ASSUME WriteInv, WritingInv, [WritesNext]_writeVars PROVE WriteInv'
      BY WritingOK DEF WriteInv
    <2>1. CASE UNCHANGED writeVars
      BY <2>1 DEF writeVars, WriteInv, WriteTypes, CreditInv, RefusedInv, ClosePosted
    <2>2. CASE Strand
      BY <2>2, PushOK, RegisterOK, RunCloseOK, ExpireOK, TimerStepOK DEF Strand
    <2>3. CASE ReadFails \/ \E ok \in BOOLEAN : WriteDone(ok)
      BY <2>3, SocketOK DEF WritingInv
    <2>4. CASE \E s \in Seqs : TimerExpires(s) \/ AcknowledgeTransport(s)
      BY <2>4, TimerStepOK
    <2>5. ASSUME NEW p \in Senders,
                 (\E f \in Frame : Reserve(p, f)) \/ Refuse(p) \/ Post(p) \/ PostRegistration(p)
          PROVE  WriteInv'
      BY <2>5, SenderStepOK
    <2> QED
      BY <2>1, <2>2, <2>3, <2>4, <2>5, QuitOK DEF WritesNext
  <1> QED
    BY <1>1, <1>2, PTL DEF WritesSpec

\* A delivery goes out three times at most, and not once more after the ACK
\* that found its entry, for any number of deliveries and sending threads.
THEOREM RepetitionsBounded == WritesSpec => []RepetitionsEarned
  <1>1. WriteInv => RepetitionsEarned
    BY DEF WriteInv, CreditInv, RepetitionsEarned
  <1> QED
    BY <1>1, WritesTyped, PTL

-----------------------------------------------------------------------------
(* GatewayWrites, second layer: the counter of queued frames is exact *)

Places(do, tasks) == {i \in 1 .. Len(tasks) : tasks[i].do = do}

\* A sequence has finitely many places.
LEMMA PlacesFinite ==
    ASSUME NEW T, NEW q \in Seq(T), NEW do
    PROVE  IsFiniteSet(Places(do, q)) /\ Cardinality(Places(do, q)) \in Nat
  <1>1. IsFiniteSet(1 .. Len(q))
    BY SMT, FS_Interval
  <1>2. Places(do, q) \in SUBSET (1 .. Len(q))
    BY DEF Places
  <1>3. IsFiniteSet(Places(do, q))
    BY <1>1, <1>2, FS_Subset
  <1> QED
    BY <1>3, FS_CardinalityType

\* A posted task adds one to its kind.
LEMMA CountAppend ==
    ASSUME NEW T, NEW q \in Seq(T), NEW t \in T, NEW do
    PROVE  Count(do, Append(q, t)) = IF t.do = do THEN Count(do, q) + 1 ELSE Count(do, q)
  <1> DEFINE n == Len(q) + 1
  <1>1. /\ Len(Append(q, t)) = n /\ Append(q, t)[n] = t
        /\ \A i \in 1 .. Len(q) : Append(q, t)[i] = q[i]
        /\ Len(q) \in Nat /\ 1 .. n = (1 .. Len(q)) \cup {n} /\ n \notin 1 .. Len(q)
    BY SMT
  <1>2. /\ n \notin Places(do, q)
        /\ Places(do, Append(q, t)) = IF t.do = do THEN Places(do, q) \cup {n} ELSE Places(do, q)
    BY <1>1 DEF Places
  <1>3. IsFiniteSet(Places(do, q))
    BY PlacesFinite
  <1>4. Cardinality(Places(do, q) \cup {n}) = Cardinality(Places(do, q)) + 1
    BY <1>2, <1>3, FS_AddElement
  <1> QED
    BY <1>2, <1>4 DEF Count, Places

\* A task that runs takes one from its kind.
LEMMA CountTail ==
    ASSUME NEW T, NEW q \in Seq(T), q # <<>>, NEW do
    PROVE  Count(do, Tail(q)) = IF Head(q).do = do THEN Count(do, q) - 1 ELSE Count(do, q)
  <1> DEFINE A == Places(do, Tail(q))
             B == Places(do, q) \ {1}
             shift == [i \in A |-> i + 1]
  <1>1. /\ Len(q) \in Nat \ {0} /\ Len(Tail(q)) = Len(q) - 1 /\ Head(q) = q[1]
        /\ \A i \in 1 .. Len(Tail(q)) : Tail(q)[i] = q[i + 1]
        /\ Tail(q) \in Seq(T)
    BY SMT
  <1>2. shift \in Bijection(A, B)
    <2>1. shift \in [A -> B]
      BY SMT, <1>1 DEF Places
    <2>2. \A i, j \in A : shift[i] = shift[j] => i = j
      BY SMT DEF Places
    <2>3. \A j \in B : \E i \in A : shift[i] = j
      <3> SUFFICES ASSUME NEW j \in B PROVE \E i \in A : shift[i] = j
        OBVIOUS
      <3>1. j - 1 \in 1 .. Len(Tail(q)) /\ (j - 1) + 1 = j /\ q[j].do = do
        BY SMT, <1>1 DEF Places
      <3>2. j - 1 \in A
        BY <1>1, <3>1 DEF Places
      <3> QED
        BY <3>1, <3>2
    <2> QED
      BY <2>1, <2>2, <2>3 DEF Bijection, Injection, Surjection, IsInjective
  <1>3. IsFiniteSet(A) /\ IsFiniteSet(Places(do, q)) /\ Cardinality(Places(do, q)) \in Nat
    BY <1>1, PlacesFinite
  <1>4. Cardinality(B) = Cardinality(A)
    BY <1>2, <1>3, FS_Bijection DEF ExistsBijection
  <1>5. Cardinality(B) = IF 1 \in Places(do, q) THEN Cardinality(Places(do, q)) - 1
                                                ELSE Cardinality(Places(do, q))
    BY <1>3, FS_RemoveElement
  <1>6. 1 \in Places(do, q) <=> Head(q).do = do
    BY SMT, <1>1 DEF Places
  <1> QED
    BY <1>4, <1>5, <1>6 DEF Count, Places

\* A queue with a task of a kind counts it.
LEMMA CountPositive ==
    ASSUME NEW T, NEW q \in Seq(T), NEW do, NEW i \in 1 .. Len(q), q[i].do = do
    PROVE  Count(do, q) > 0
  <1>1. IsFiniteSet(Places(do, q)) /\ Cardinality(Places(do, q)) \in Nat /\ i \in Places(do, q)
    BY PlacesFinite DEF Places
  <1>2. Cardinality(Places(do, q)) # 0
    BY <1>1, FS_EmptySet
  <1> QED
    BY SMT, <1>1, <1>2 DEF Count, Places

\* A client that reads too slowly is disconnected, whoever met the full
\* queue, for any number of sending threads.
THEOREM SlowClientsClose == WritesSpec => []SlowClientCloses
  <1>1. WriteInv => SlowClientCloses
    BY CountPositive DEF WriteInv, WriteTypes, RefusedInv, ClosePosted, SlowClientCloses
  <1> QED
    BY <1>1, WritesTyped, PTL

-----------------------------------------------------------------------------
(* Counting frames *)

\* Senders between their fetch_add and the end of their call, and those among
\* them whose frame was let in.
Counted == {p \in Senders : sender[p].pc \in {"over", "post"}}

Posting == {p \in Senders : sender[p].pc = "post"}

\* The counter is exact, and the frames let in stay within the limit: the
\* counter alone may pass it, by the senders about to be refused.
Balanced(q, l, u, c, p) == q = l + u + c /\ l + u + p <= MaxQueued

CountInv == Balanced(queuedWrites, Len(writeQueue), Count("push", strand),
                     Cardinality(Counted), Cardinality(Posting))

\* What the steps do to the numbers: a frame is written; dropped on the strand;
\* queued; posted; refused; reserved or posted below the limit; reserved above it.
LEMMA BalanceMoves ==
    ASSUME NEW q \in Int, NEW l \in Nat, NEW u \in Nat, NEW c \in Nat, NEW p \in Nat, p <= c,
           Balanced(q, l, u, c, p)
    PROVE  /\ Balanced(q - 1, l - 1, u, c, p)
           /\ Balanced(q - 1, l, u - 1, c, p)
           /\ Balanced(q, l + 1, u - 1, c, p)
           /\ Balanced(q, l, u + 1, c - 1, p - 1)
           /\ Balanced(q - 1, l, u, c - 1, p)
           /\ ~ (q + 1 > MaxQueued) => /\ Balanced(q + 1, l, u, c + 1, p + 1)
                                       /\ Balanced(q + 1, l, u + 1, c, p)
           /\ Balanced(q + 1, l, u, c + 1, p)
  BY SMT, WriteBounds DEF Balanced

\* The sets of senders are finite.
LEMMA SendersFinite ==
    /\ IsFiniteSet(Counted) /\ IsFiniteSet(Posting)
    /\ Cardinality(Counted) \in Nat /\ Cardinality(Posting) \in Nat
    /\ Cardinality(Posting) <= Cardinality(Counted)
  <1>1. IsFiniteSet(Senders)
    BY WriteBounds
  <1>2. Counted \in SUBSET Senders /\ Posting \in SUBSET Counted
    BY DEF Counted, Posting
  <1>3. IsFiniteSet(Counted)
    BY <1>1, <1>2, FS_Subset
  <1>4. IsFiniteSet(Posting) /\ Cardinality(Posting) <= Cardinality(Counted)
    BY <1>2, <1>3, FS_Subset
  <1> QED
    BY <1>3, <1>4, FS_CardinalityType

\* What the step of one sender does to the two sets.
LEMMA SenderMoves ==
    ASSUME WriteTypes, NEW p \in Senders, NEW r,
           sender' = [sender EXCEPT ![p] = r]
    PROVE  /\ Counted' = IF r.pc \in {"over", "post"} THEN Counted \cup {p} ELSE Counted \ {p}
           /\ Posting' = IF r.pc = "post" THEN Posting \cup {p} ELSE Posting \ {p}
  <1>1. sender'[p] = r /\ \A x \in Senders \ {p} : sender'[x] = sender[x]
    BY DEF WriteTypes
  <1> QED
    BY <1>1 DEF Counted, Posting

\* The quantities of the invariant are numbers.
LEMMA CountsTyped ==
    ASSUME WriteTypes
    PROVE  /\ Len(writeQueue) \in Nat /\ Count("push", strand) \in Nat /\ queuedWrites \in Int
           /\ Cardinality(Counted) \in Nat /\ Cardinality(Posting) \in Nat
           /\ Cardinality(Posting) <= Cardinality(Counted)
  <1>1. Cardinality(Places("push", strand)) \in Nat
    BY PlacesFinite DEF WriteTypes
  <1>2. Count("push", strand) \in Nat
    BY <1>1 DEF Count, Places
  <1>3. Len(writeQueue) \in Nat /\ queuedWrites \in Int
    BY SMT DEF WriteTypes
  <1> QED
    BY <1>2, <1>3, SendersFinite

\* The same of a state.
LEMMA StateMoves ==
    ASSUME WriteTypes, CountInv
    PROVE  LET l == Len(writeQueue)
               u == Count("push", strand)
               c == Cardinality(Counted)
               p == Cardinality(Posting)
               q == queuedWrites
           IN  /\ Balanced(q - 1, l - 1, u, c, p)
               /\ Balanced(q - 1, l, u - 1, c, p)
               /\ Balanced(q, l + 1, u - 1, c, p)
               /\ Balanced(q, l, u + 1, c - 1, p - 1)
               /\ Balanced(q - 1, l, u, c - 1, p)
               /\ ~ (q + 1 > MaxQueued) => /\ Balanced(q + 1, l, u, c + 1, p + 1)
                                           /\ Balanced(q + 1, l, u + 1, c, p)
               /\ Balanced(q + 1, l, u, c + 1, p)
  <1>1. /\ Len(writeQueue) \in Nat /\ Count("push", strand) \in Nat /\ queuedWrites \in Int
        /\ Cardinality(Counted) \in Nat /\ Cardinality(Posting) \in Nat
        /\ Cardinality(Posting) <= Cardinality(Counted)
    BY CountsTyped
  <1>2. Balanced(queuedWrites, Len(writeQueue), Count("push", strand),
                 Cardinality(Counted), Cardinality(Posting))
    BY DEF CountInv
  <1> QED
    BY <1>1, <1>2, BalanceMoves

\* A sender reserves: the counter goes up, and the frame is let in below the limit.
LEMMA ReserveCounts ==
    ASSUME WriteTypes, CountInv, NEW p \in Senders, NEW f \in Frame, Reserve(p, f)
    PROVE  CountInv'
  <1> DEFINE r == [pc |-> IF queuedWrites + 1 > MaxQueued THEN "over" ELSE "post", f |-> f]
  <1>1. /\ sender' = [sender EXCEPT ![p] = r] /\ queuedWrites' = queuedWrites + 1
        /\ UNCHANGED <<writeQueue, strand>>
    BY DEF Reserve
  <1>2. p \notin Counted /\ p \notin Posting
    BY DEF Reserve, Counted, Posting
  <1>3. /\ r.pc \in {"over", "post"}
        /\ r.pc = "post" <=> ~ (queuedWrites + 1 > MaxQueued)
    OBVIOUS
  <1> HIDE DEF r
  <1>4. /\ Counted' = Counted \cup {p}
        /\ Posting' = IF r.pc = "post" THEN Posting \cup {p} ELSE Posting \ {p}
    BY <1>1, <1>3, SenderMoves
  <1>5. Cardinality(Counted') = Cardinality(Counted) + 1
    BY <1>2, <1>4, SendersFinite, FS_AddElement
  <1>6. Cardinality(Posting') = IF r.pc = "post" THEN Cardinality(Posting) + 1 ELSE Cardinality(Posting)
    BY <1>2, <1>4, SendersFinite, FS_AddElement, FS_RemoveElement
  <1>7. /\ queuedWrites' = queuedWrites + 1 /\ Len(writeQueue') = Len(writeQueue)
        /\ Count("push", strand') = Count("push", strand)
    BY <1>1
  <1>8. CASE r.pc = "post"
    BY <1>3, <1>5, <1>6, <1>7, <1>8, StateMoves DEF CountInv
  <1>9. CASE r.pc # "post"
    BY <1>5, <1>6, <1>7, <1>9, StateMoves DEF CountInv
  <1> QED
    BY <1>8, <1>9

\* A refused sender takes its count back.
LEMMA RefuseCounts ==
    ASSUME WriteTypes, CountInv, NEW p \in Senders, Refuse(p)
    PROVE  CountInv'
  <1> DEFINE r == [sender[p] EXCEPT !.pc = "idle"]
  <1>1. /\ sender' = [sender EXCEPT ![p] = r] /\ queuedWrites' = queuedWrites - 1
        /\ strand' = Append(strand, [do |-> "close"]) /\ UNCHANGED writeQueue
    BY DEF Refuse
  <1>2. p \in Counted /\ p \notin Posting
    BY DEF Refuse, Counted, Posting
  <1>3. r.pc = "idle"
    BY DEF WriteTypes, SenderState
  <1> HIDE DEF r
  <1>4. Counted' = Counted \ {p} /\ Posting' = Posting
    <2>1. Counted' = Counted \ {p} /\ Posting' = Posting \ {p}
      BY <1>1, <1>3, SenderMoves
    <2> QED
      BY <1>2, <2>1
  <1>5. Cardinality(Counted') = Cardinality(Counted) - 1
    BY <1>2, <1>4, SendersFinite, FS_RemoveElement
  <1>6. Count("push", strand') = Count("push", strand)
    <2>1. [do |-> "close"] \in StrandTask /\ [do |-> "close"].do # "push"
      BY DEF StrandTask
    <2> QED
      BY <1>1, <2>1, CountAppend DEF WriteTypes
  <1>7. /\ queuedWrites' = queuedWrites - 1 /\ Len(writeQueue') = Len(writeQueue)
        /\ Cardinality(Posting') = Cardinality(Posting)
    BY <1>1, <1>4
  <1> QED
    BY <1>5, <1>6, <1>7, StateMoves DEF CountInv

\* A frame let in goes on the strand, counted still.
LEMMA PostCounts ==
    ASSUME WriteTypes, CountInv, NEW p \in Senders, Post(p)
    PROVE  CountInv'
  <1> DEFINE r == [sender[p] EXCEPT !.pc = IF sender[p].f = Raw THEN "idle" ELSE "register"]
             t == [do |-> "push", f |-> sender[p].f]
  <1>1. /\ sender' = [sender EXCEPT ![p] = r] /\ strand' = Append(strand, t)
        /\ UNCHANGED <<queuedWrites, writeQueue>>
    BY DEF Post
  <1>2. p \in Counted /\ p \in Posting
    BY DEF Post, Counted, Posting
  <1>3. r.pc \notin {"over", "post"}
    BY DEF WriteTypes, SenderState
  <1>4. t \in StrandTask /\ t.do = "push"
    BY DEF WriteTypes, SenderState, StrandTask, Frame
  <1> HIDE DEF r, t
  <1>5. Counted' = Counted \ {p} /\ Posting' = Posting \ {p}
    BY <1>1, <1>3, SenderMoves
  <1>6. /\ Cardinality(Counted') = Cardinality(Counted) - 1
        /\ Cardinality(Posting') = Cardinality(Posting) - 1
    BY <1>2, <1>5, SendersFinite, FS_RemoveElement
  <1>7. Count("push", strand') = Count("push", strand) + 1
    BY SMT, <1>1, <1>4, CountAppend DEF WriteTypes
  <1>8. queuedWrites' = queuedWrites /\ Len(writeQueue') = Len(writeQueue)
    BY <1>1
  <1> QED
    BY <1>6, <1>7, <1>8, StateMoves DEF CountInv

\* A registration is no frame.
LEMMA RegistrationCounts ==
    ASSUME WriteTypes, CountInv, NEW p \in Senders, PostRegistration(p)
    PROVE  CountInv'
  <1> DEFINE r == [sender[p] EXCEPT !.pc = "idle"]
             t == [do |-> "register", f |-> sender[p].f]
  <1>1. /\ sender' = [sender EXCEPT ![p] = r] /\ strand' = Append(strand, t)
        /\ UNCHANGED <<queuedWrites, writeQueue>>
    BY DEF PostRegistration
  <1>2. p \notin Counted /\ p \notin Posting
    BY DEF PostRegistration, Counted, Posting
  <1>3. r.pc = "idle"
    BY DEF WriteTypes, SenderState
  <1>4. t \in StrandTask /\ t.do # "push"
    BY DEF WriteTypes, PostRegistration, SenderState, StrandTask
  <1> HIDE DEF r, t
  <1>5. Counted' = Counted /\ Posting' = Posting
    <2>1. Counted' = Counted \ {p} /\ Posting' = Posting \ {p}
      BY <1>1, <1>3, SenderMoves
    <2> QED
      BY <1>2, <2>1
  <1>6. Count("push", strand') = Count("push", strand)
    BY <1>1, <1>4, CountAppend DEF WriteTypes
  <1> QED
    BY <1>1, <1>5, <1>6 DEF CountInv

\* A step of the other actors leaves the senders where they are.
LEMMA SendersStay == UNCHANGED sender => Counted' = Counted /\ Posting' = Posting
  BY DEF Counted, Posting

\* A frame moves from the strand to the queue, or is dropped and no longer counted.
LEMMA PushCounts == WriteTypes /\ CountInv /\ RunPush => CountInv'
  <1> SUFFICES ASSUME WriteTypes, CountInv, RunPush PROVE CountInv'
    OBVIOUS
  <1>1. /\ strand # <<>> /\ Head(strand).do = "push" /\ strand' = Tail(strand) /\ UNCHANGED sender
    BY DEF RunPush, Runs
  <1>2. Count("push", strand') = Count("push", strand) - 1
    BY <1>1, CountTail DEF WriteTypes
  <1>3. \/ queuedWrites' = queuedWrites - 1 /\ Len(writeQueue') = Len(writeQueue)
        \/ queuedWrites' = queuedWrites /\ Len(writeQueue') = Len(writeQueue) + 1
    <2>1. CASE closed
      BY <2>1 DEF RunPush
    <2>2. CASE ~ closed
      <3>1. writeQueue' = Append(writeQueue, Head(strand).f) /\ queuedWrites' = queuedWrites
        BY <2>2 DEF RunPush
      <3> QED
        BY SMT, <3>1 DEF WriteTypes
    <2> QED
      BY <2>1, <2>2
  <1>4. Cardinality(Counted') = Cardinality(Counted) /\ Cardinality(Posting') = Cardinality(Posting)
    BY <1>1, SendersStay
  <1>5. CASE queuedWrites' = queuedWrites - 1 /\ Len(writeQueue') = Len(writeQueue)
    BY <1>2, <1>4, <1>5, StateMoves DEF CountInv
  <1>6. CASE queuedWrites' = queuedWrites /\ Len(writeQueue') = Len(writeQueue) + 1
    BY <1>2, <1>4, <1>6, StateMoves DEF CountInv
  <1> QED
    BY <1>3, <1>5, <1>6

\* The other tasks of the strand.
LEMMA TaskCounts ==
    ASSUME WriteTypes, CountInv, RunRegister \/ RunClose \/ RunExpireStale
    PROVE  CountInv'
  <1>1. /\ strand # <<>> /\ Head(strand).do # "push" /\ strand' = Tail(strand)
        /\ UNCHANGED <<queuedWrites, writeQueue, sender>>
    BY DEF RunRegister, RunClose, RunExpireStale, Runs
  <1>2. Count("push", strand') = Count("push", strand)
    BY <1>1, CountTail DEF WriteTypes
  <1> QED
    BY <1>1, <1>2, SendersStay DEF CountInv

\* A repetition is counted like any frame.
LEMMA ExpireCounts == WriteTypes /\ CountInv /\ RunExpire => CountInv'
  <1> SUFFICES ASSUME WriteTypes, CountInv, RunExpire PROVE CountInv'
    OBVIOUS
  <1> DEFINE s == Head(strand).f
  <1>1. /\ strand # <<>> /\ Head(strand).do = "expire"
        /\ UNCHANGED <<writeQueue, sender>>
    BY DEF RunExpire, Runs
  <1>2. s \in Seqs /\ Tail(strand) \in Seq(StrandTask)
    BY SMT, <1>1 DEF WriteTypes, StrandTask
  <1>3. Count("push", Tail(strand)) = Count("push", strand)
    BY <1>1, CountTail DEF WriteTypes
  <1>4. CASE strand' = Tail(strand) /\ UNCHANGED queuedWrites
    BY <1>1, <1>3, <1>4, SendersStay DEF CountInv
  <1>5. CASE strand' = Append(Tail(strand), [do |-> "close"]) /\ UNCHANGED queuedWrites
    <2>1. [do |-> "close"] \in StrandTask /\ [do |-> "close"].do # "push"
      BY DEF StrandTask
    <2>2. Count("push", strand') = Count("push", strand)
      BY <1>2, <1>3, <1>5, <2>1, CountAppend
    <2> QED
      BY <1>1, <1>5, <2>2, SendersStay DEF CountInv
  <1>6. CASE /\ strand' = Append(Tail(strand), [do |-> "push", f |-> s])
             /\ queuedWrites' = queuedWrites + 1 /\ ~ (queuedWrites + 1 > MaxQueued)
    <2>1. [do |-> "push", f |-> s] \in StrandTask /\ [do |-> "push", f |-> s].do = "push"
      BY <1>2 DEF StrandTask, Frame
    <2> HIDE DEF s
    <2>2. Count("push", strand') = Count("push", Tail(strand)) + 1
      BY ZenonT(30), <1>2, <1>6, <2>1, CountAppend
    <2>3. /\ Cardinality(Counted') = Cardinality(Counted) /\ Cardinality(Posting') = Cardinality(Posting)
          /\ Len(writeQueue') = Len(writeQueue)
          /\ Count("push", strand') = Count("push", strand) + 1
          /\ queuedWrites' = queuedWrites + 1 /\ ~ (queuedWrites + 1 > MaxQueued)
      BY <1>1, <1>3, <1>6, <2>2, SendersStay
    <2> QED
      BY <2>3, StateMoves DEF CountInv
  <1> QED
    BY <1>4, <1>5, <1>6 DEF RunExpire

\* So is the answer to QUIT.
LEMMA QuitCounts == WriteTypes /\ CountInv /\ QuitRequested => CountInv'
  <1> SUFFICES ASSUME WriteTypes, CountInv, QuitRequested PROVE CountInv'
    OBVIOUS
  <1>1. UNCHANGED <<writeQueue, sender>>
    BY DEF QuitRequested
  <1>2. CASE queuedWrites + 1 > MaxQueued
    <2>1. strand' = Append(strand, [do |-> "close"]) /\ UNCHANGED queuedWrites
      BY <1>2 DEF QuitRequested
    <2>2. [do |-> "close"] \in StrandTask /\ [do |-> "close"].do # "push"
      BY DEF StrandTask
    <2>3. Count("push", strand') = Count("push", strand)
      BY <2>1, <2>2, CountAppend DEF WriteTypes
    <2> QED
      BY <1>1, <2>1, <2>3, SendersStay DEF CountInv
  <1>3. CASE ~ (queuedWrites + 1 > MaxQueued)
    <2>1. /\ strand' = Append(strand, [do |-> "push", f |-> Raw])
          /\ queuedWrites' = queuedWrites + 1
      BY <1>3 DEF QuitRequested
    <2>2. [do |-> "push", f |-> Raw] \in StrandTask /\ [do |-> "push", f |-> Raw].do = "push"
      BY DEF StrandTask, Frame
    <2>3. Count("push", strand') = Count("push", strand) + 1
      BY SMT, <2>1, <2>2, CountAppend DEF WriteTypes
    <2>4. /\ Cardinality(Counted') = Cardinality(Counted) /\ Cardinality(Posting') = Cardinality(Posting)
          /\ Len(writeQueue') = Len(writeQueue)
      BY <1>1, SendersStay
    <2>5. queuedWrites' = queuedWrites + 1
      BY <2>1
    <2> QED
      BY <1>3, <2>3, <2>4, <2>5, StateMoves DEF CountInv
  <1> QED
    BY <1>2, <1>3

\* An expiring timer posts no frame.
LEMMA TimerCounts ==
    ASSUME WriteTypes, CountInv, NEW s \in Seqs, TimerExpires(s)
    PROVE  CountInv'
  <1>1. /\ strand' = Append(strand, [do |-> "expire", f |-> s])
        /\ UNCHANGED <<queuedWrites, writeQueue, sender>>
    BY DEF TimerExpires
  <1>2. [do |-> "expire", f |-> s] \in StrandTask /\ [do |-> "expire", f |-> s].do # "push"
    BY DEF StrandTask
  <1>3. Count("push", strand') = Count("push", strand)
    BY <1>1, <1>2, CountAppend DEF WriteTypes
  <1> QED
    BY <1>1, <1>3, SendersStay DEF CountInv

\* A written frame leaves the queue and the count.
LEMMA WriteDoneCounts ==
    ASSUME WriteTypes, WritingInv, CountInv, NEW ok \in BOOLEAN, WriteDone(ok)
    PROVE  CountInv'
  <1>1. /\ writeQueue' = Tail(writeQueue) /\ queuedWrites' = queuedWrites - 1
        /\ writeQueue # <<>> /\ UNCHANGED <<strand, sender>>
    BY DEF WriteDone, WritingInv
  <1>2. Len(writeQueue') = Len(writeQueue) - 1
    BY SMT, <1>1 DEF WriteTypes
  <1>3. /\ Cardinality(Counted') = Cardinality(Counted) /\ Cardinality(Posting') = Cardinality(Posting)
        /\ queuedWrites' = queuedWrites - 1 /\ Count("push", strand') = Count("push", strand)
    BY <1>1, SendersStay
  <1> QED
    BY <1>2, <1>3, StateMoves DEF CountInv

\* Every frame is counted from its fetch_add until it is written or dropped,
\* and the session never holds more than its limit, for any number of senders.
THEOREM QueueStaysBounded == WritesSpec => []QueueBounded
  <1>1. WritesInit => CountInv
    <2> SUFFICES ASSUME WritesInit PROVE CountInv
      OBVIOUS
    <2>1. queuedWrites = 0 /\ Len(writeQueue) = 0 /\ Len(strand) = 0 /\ Counted = {} /\ Posting = {}
      BY DEF WritesInit, Counted, Posting
    <2>2. Places("push", strand) = {}
      BY SMT, <2>1 DEF Places
    <2> QED
      BY SMT, <2>1, <2>2, FS_EmptySet, WriteBounds DEF CountInv, Balanced, Count, Places
  <1>2. WriteInv /\ WritingInv /\ CountInv /\ [WritesNext]_writeVars => CountInv'
    <2> SUFFICES ASSUME WriteTypes, WritingInv, CountInv, [WritesNext]_writeVars PROVE CountInv'
      BY DEF WriteInv
    <2>1. CASE UNCHANGED <<queuedWrites, writeQueue, strand, sender>>
      BY <2>1, SendersStay DEF CountInv
    <2>2. CASE UNCHANGED writeVars
      BY <2>1, <2>2 DEF writeVars
    <2>3. CASE Strand
      BY <2>3, PushCounts, TaskCounts, ExpireCounts DEF Strand
    <2>4. CASE ReadFails
      BY <2>1, <2>4 DEF ReadFails
    <2>5. ASSUME NEW s \in Seqs, AcknowledgeTransport(s) PROVE CountInv'
      BY <2>1, <2>5 DEF AcknowledgeTransport
    <2>6. ASSUME NEW s \in Seqs, TimerExpires(s) PROVE CountInv'
      BY <2>6, TimerCounts
    <2>7. ASSUME NEW ok \in BOOLEAN, WriteDone(ok) PROVE CountInv'
      BY <2>7, WriteDoneCounts
    <2>8. ASSUME NEW p \in Senders,
                 (\E f \in Frame : Reserve(p, f)) \/ Refuse(p) \/ Post(p) \/ PostRegistration(p)
          PROVE  CountInv'
      BY <2>8, ReserveCounts, RefuseCounts, PostCounts, RegistrationCounts
    <2> QED
      BY <2>2, <2>3, <2>4, <2>5, <2>6, <2>7, <2>8, QuitCounts DEF WritesNext
  <1>3. WriteInv /\ CountInv => QueueBounded
    <2> SUFFICES ASSUME WriteTypes, CountInv PROVE QueueBounded
      BY DEF WriteInv
    <2>1. Cardinality(Counted) = Cardinality({p \in Senders : sender[p].pc \in {"over", "post"}})
      BY DEF Counted
    <2> QED
      BY SMT, <2>1, CountsTyped, SendersFinite, WriteBounds DEF CountInv, Balanced, QueueBounded
  <1> QED
    BY <1>1, <1>2, <1>3, WritesTyped, PTL DEF WritesSpec

-----------------------------------------------------------------------------
(* ThreadPool: a task is in one place *)

PoolTypes ==
    /\ taskQueue \in Seq(Tasks)
    /\ stopping \in BOOLEAN
    /\ poster \in [Tasks -> PosterStates]
    /\ worker \in [Workers -> WorkerStates]
    /\ stopper \in [Stoppers -> StopperStates]
    /\ ran \in [Tasks -> Nat]

\* PostUntil has queued the task.
Accepted(t) == poster[t] \in {"notify", "accepted"}

\* A task is in one place: once in the queue or at one worker, not called yet,
\* or nowhere, called once if it was accepted.
OnePlace ==
    /\ \A i, j \in 1 .. Len(taskQueue) : taskQueue[i] = taskQueue[j] => i = j
    /\ \A v, w \in Workers : worker[v] \in Tasks /\ worker[v] = worker[w] => v = w
    /\ \A i \in 1 .. Len(taskQueue) : \A w \in Workers : worker[w] # taskQueue[i]

\* A task that waits or runs was accepted and has not been called.
HeldIsDue ==
    /\ \A i \in 1 .. Len(taskQueue) :
           Accepted(taskQueue[i]) /\ ran[taskQueue[i]] = 0
    /\ \A w \in Workers :
           worker[w] \in Tasks => Accepted(worker[w]) /\ ran[worker[w]] = 0

\* A task that was accepted waits, runs or was called once; one that was not
\* accepted was not called.
DueIsHeld ==
    \A t \in Tasks :
        /\ ran[t] \in {0, 1}
        /\ ran[t] = 1 => Accepted(t)
        /\ Accepted(t) /\ ran[t] = 0 =>
               \/ \E i \in 1 .. Len(taskQueue) : taskQueue[i] = t
               \/ \E w \in Workers : worker[w] = t

\* A worker leaves only a stopped pool with an empty queue, and Stop returns
\* after the last of them.
LeftIsDrained ==
    /\ \A w \in Workers : worker[w] = "exited" => stopping /\ taskQueue = <<>>
    /\ \A s \in Stoppers : stopper[s] = "joined" => \A w \in Workers : worker[w] = "exited"

PoolInv == PoolTypes /\ OnePlace /\ HeldIsDue /\ DueIsHeld /\ LeftIsDrained

-----------------------------------------------------------------------------

\* What a notification of one thread may do to it, and to nobody else.
LEMMA NotifyOneOutcome ==
    ASSUME NEW X, NEW S, NEW f \in [X -> S], NEW from, NEW to \in S,
           NEW g \in NotifyOne(f, from, to, X)
    PROVE  /\ g \in [X -> S]
           /\ \A x \in X : g[x] = f[x] \/ (f[x] = from /\ g[x] = to)
  BY DEF NotifyOne

\* The constructor establishes the invariant.
LEMMA PoolInitOK == PoolInit => PoolInv
  <1> SUFFICES ASSUME PoolInit PROVE PoolInv
    OBVIOUS
  <1>1. PoolTypes
    <2>1. /\ taskQueue \in Seq(Tasks)
          /\ stopping \in BOOLEAN
          /\ ran \in [Tasks -> Nat]
      <3>1. taskQueue \in Seq(Tasks)
        BY SMT DEF PoolInit
      <3>2. stopping \in BOOLEAN
        BY DEF PoolInit
      <3>3. ran \in [Tasks -> Nat]
        BY DEF PoolInit
      <3> QED
        BY <3>1, <3>2, <3>3
    <2>2. poster \in [Tasks -> PosterStates] /\ stopper \in [Stoppers -> StopperStates]
      BY DEF PoolInit, PosterStates, StopperStates
    <2>3. worker \in [Workers -> WorkerStates]
      BY DEF PoolInit, WorkerStates
    <2> QED
      BY <2>1, <2>2, <2>3 DEF PoolTypes
  <1>2. \A w \in Workers : worker[w] \notin Tasks /\ worker[w] # "exited"
    BY PoolBounds DEF PoolInit
  <1>3. Len(taskQueue) = 0
    BY DEF PoolInit
  <1> QED
    BY SMT, <1>1, <1>2, <1>3 DEF PoolInit, PoolInv, OnePlace, HeldIsDue, DueIsHeld,
                            LeftIsDrained, Accepted

\* A step that moves no task: it wakes workers, moves callers that are not
\* let in, sets the stop flag, or returns from Stop after the last worker left.
MovesNoTask ==
    /\ PoolTypes'
    /\ UNCHANGED <<taskQueue, ran>>
    /\ stopping => stopping'
    /\ \A t \in Tasks : Accepted(t)' <=> Accepted(t)
    /\ \A w \in Workers : \/ worker'[w] = worker[w]
                          \/ /\ worker[w] \in {"popping", "blocked"}
                             /\ worker'[w] \in {"popping", "blocked"}
    /\ \A s \in Stoppers : stopper'[s] = "joined" =>
           stopper[s] = "joined" \/ \A w \in Workers : worker[w] = "exited"

\* Such a step keeps the invariant.
LEMMA TasksStay == PoolInv /\ MovesNoTask => PoolInv'
  <1> SUFFICES ASSUME PoolInv, MovesNoTask PROVE PoolInv'
    OBVIOUS
  <1> USE DEF MovesNoTask
  <1>1. \A w \in Workers : worker'[w] \in Tasks \/ worker[w] \in Tasks
                            => worker'[w] = worker[w]
    BY PoolBounds
  <1>2. \A w \in Workers : worker'[w] = "exited" <=> worker[w] = "exited"
    OBVIOUS
  <1>3. \A i \in 1 .. Len(taskQueue) : taskQueue[i] \in Tasks
    BY SMT DEF PoolInv, PoolTypes
  <1>4. OnePlace'
    BY SMT, <1>1, <1>3 DEF PoolInv, OnePlace
  <1>5. HeldIsDue'
    <2>1. \A i \in 1 .. Len(taskQueue) : Accepted(taskQueue[i])' /\ ran[taskQueue[i]] = 0
      BY <1>3 DEF PoolInv, HeldIsDue, Accepted
    <2>2. \A w \in Workers : worker'[w] \in Tasks =>
              (poster'[worker'[w]] \in {"notify", "accepted"}) /\ ran[worker'[w]] = 0
      BY SMT, <1>1 DEF PoolInv, HeldIsDue, Accepted
    <2> QED
      BY <2>1, <2>2 DEF HeldIsDue, Accepted
  <1>6. DueIsHeld'
    BY SMT, <1>1 DEF PoolInv, DueIsHeld
  <1>7. LeftIsDrained'
    BY <1>2 DEF PoolInv, LeftIsDrained
  <1> QED
    BY <1>4, <1>5, <1>6, <1>7 DEF PoolInv

\* A caller that is not let in changes its own state only.
LEMMA CallerMoves ==
    ASSUME PoolInv, NEW t \in Tasks, ~ Accepted(t),
           NEW v \in PosterStates \ {"notify", "accepted"},
           poster' = [poster EXCEPT ![t] = v],
           UNCHANGED <<taskQueue, stopping, worker, stopper, ran>>
    PROVE  PoolInv'
  <1>1. PoolTypes'
    BY DEF PoolInv, PoolTypes
  <1>2. \A u \in Tasks : Accepted(u)' <=> Accepted(u)
    BY DEF PoolInv, PoolTypes, Accepted
  <1>3. MovesNoTask
    BY <1>1, <1>2 DEF MovesNoTask
  <1> QED
    BY <1>3, TasksStay

\* A task that is let in goes to the end of the queue of a running pool.
LEMMA AdmitOK ==
    ASSUME PoolInv, NEW t \in Tasks, ~ Accepted(t), Admit(t),
           UNCHANGED <<stopping, worker, stopper, ran>>
    PROVE  PoolInv'
  <1>1. CASE stopping
    BY <1>1, CallerMoves DEF Admit, PosterStates
  <1>2. CASE ~ stopping
    <2>0. /\ poster' = [poster EXCEPT ![t] = "notify"]
          /\ taskQueue' = Append(taskQueue, t)
      BY <1>2 DEF Admit
    <2>1. PoolTypes'
      BY SMT, <2>0 DEF PoolInv, PoolTypes, PosterStates
    <2>2. /\ Len(taskQueue') = Len(taskQueue) + 1
          /\ Len(taskQueue) \in Nat
          /\ \A i \in 1 .. Len(taskQueue) : taskQueue'[i] = taskQueue[i] /\ taskQueue[i] \in Tasks
          /\ taskQueue'[Len(taskQueue) + 1] = t
      BY SMT, <2>0 DEF PoolInv, PoolTypes
    <2>3. \A i \in 1 .. Len(taskQueue') : i \in 1 .. Len(taskQueue) \/ i = Len(taskQueue) + 1
      BY SMT, <2>2
    <2>4. /\ \A u \in Tasks : Accepted(u)' <=> Accepted(u) \/ u = t
          /\ Accepted(t)'
      BY <2>0 DEF PoolInv, PoolTypes, Accepted
    <2>5. \A i \in 1 .. Len(taskQueue) : taskQueue[i] # t
      BY DEF PoolInv, HeldIsDue
    <2>6. \A w \in Workers : worker[w] # t
      BY DEF PoolInv, HeldIsDue
    <2>7. ran[t] = 0
      BY DEF PoolInv, DueIsHeld
    <2>8. OnePlace'
      <3>1. ASSUME NEW i \in 1 .. Len(taskQueue'), NEW j \in 1 .. Len(taskQueue'),
                   taskQueue'[i] = taskQueue'[j]
            PROVE  i = j
        BY <2>2, <2>3, <2>5, <3>1 DEF PoolInv, OnePlace
      <3>2. \A i \in 1 .. Len(taskQueue') : \A w \in Workers : worker[w] # taskQueue'[i]
        BY <2>2, <2>3, <2>6 DEF PoolInv, OnePlace
      <3> QED
        BY <3>1, <3>2 DEF PoolInv, OnePlace
    <2>9. HeldIsDue'
      <3>1. ASSUME NEW i \in 1 .. Len(taskQueue')
            PROVE  Accepted(taskQueue[i])' /\ ran[taskQueue'[i]] = 0
        <4>1. CASE i \in 1 .. Len(taskQueue)
          <5>1. Accepted(taskQueue[i]) /\ ran[taskQueue[i]] = 0
            BY <4>1 DEF PoolInv, HeldIsDue
          <5> QED
            BY <4>1, <5>1, <2>2, <2>0 DEF Accepted, PoolInv, PoolTypes
        <4>2. CASE i = Len(taskQueue) + 1
          BY <4>2, <2>2, <2>4, <2>7 DEF Accepted
        <4> QED
          BY <4>1, <4>2, <2>3
      <3>2. \A w \in Workers : worker[w] \in Tasks => Accepted(worker[w])' /\ ran[worker[w]] = 0
        BY <2>0 DEF PoolInv, PoolTypes, HeldIsDue, Accepted
      <3> QED
        BY <3>1, <3>2 DEF HeldIsDue, Accepted
    <2>10. DueIsHeld'
      <3> SUFFICES ASSUME NEW u \in Tasks
                   PROVE  /\ ran[u] \in {0, 1}
                          /\ ran[u] = 1 => Accepted(u)'
                          /\ Accepted(u)' /\ ran[u] = 0 =>
                               \/ \E i \in 1 .. Len(taskQueue') : taskQueue'[i] = u
                               \/ \E w \in Workers : worker[w] = u
        BY DEF DueIsHeld, Accepted
      <3>1. CASE u = t
        <4>1. Len(taskQueue) + 1 \in 1 .. Len(taskQueue')
          BY SMT, <2>2
        <4> QED
          BY SMT, <3>1, <4>1, <2>2, <2>7
      <3>2. CASE u # t
        <4>1. 1 .. Len(taskQueue) \subseteq 1 .. Len(taskQueue')
          BY SMT, <2>2
        <4> QED
          BY SMT, <3>2, <4>1, <2>2, <2>4 DEF PoolInv, DueIsHeld
      <3> QED
        BY <3>1, <3>2
    <2>11. LeftIsDrained'
      BY <1>2 DEF PoolInv, LeftIsDrained
    <2> QED
      BY <2>1, <2>8, <2>9, <2>10, <2>11 DEF PoolInv
  <1> QED
    BY <1>1, <1>2

\* A call of PostUntil, from the entry or from its wait, keeps the invariant.
LEMMA CallOK ==
    ASSUME PoolInv, NEW t \in Tasks, PostUntil(t) \/ Resume(t) \/ AcquireTimeout(t)
    PROVE  PoolInv'
  <1>1. ~ Accepted(t)
    BY DEF PostUntil, Resume, AcquireTimeout, Accepted
  <1>2. UNCHANGED <<stopping, worker, stopper, ran>>
    BY DEF PostUntil, Resume, AcquireTimeout
  <1>3. CASE Admit(t)
    BY <1>1, <1>2, <1>3, AdmitOK
  <1>4. CASE ~ Admit(t)
    <2>1. UNCHANGED taskQueue
      BY <1>4 DEF PostUntil, Resume, AcquireTimeout
    <2>2. PICK v \in {"waiting", "timedOut"} : poster' = [poster EXCEPT ![t] = v]
      BY <1>4 DEF PostUntil, Resume, AcquireTimeout
    <2>3. v \in PosterStates \ {"notify", "accepted"}
      BY DEF PosterStates
    <2> QED
      BY <1>1, <1>2, <2>1, <2>2, <2>3, CallerMoves
  <1> QED
    BY <1>3, <1>4

\* The notification after an accepted call wakes at most one worker.
LEMMA NotifyOK ==
    ASSUME PoolInv, NEW t \in Tasks, Notify(t)
    PROVE  PoolInv'
  <1>1. /\ worker' \in [Workers -> WorkerStates]
        /\ \A w \in Workers : \/ worker'[w] = worker[w]
                              \/ worker[w] = "blocked" /\ worker'[w] = "popping"
    <2>1. worker \in [Workers -> WorkerStates] /\ "popping" \in WorkerStates
      BY DEF PoolInv, PoolTypes, WorkerStates
    <2>2. worker' \in NotifyOne(worker, "blocked", "popping", Workers)
      BY DEF Notify
    <2> QED
      BY <2>1, <2>2, NotifyOneOutcome
  <1>2. poster' \in [Tasks -> PosterStates] /\ \A u \in Tasks : Accepted(u)' <=> Accepted(u)
    BY DEF PoolInv, PoolTypes, Notify, Accepted, PosterStates
  <1>3. UNCHANGED <<taskQueue, stopping, stopper, ran>>
    BY DEF Notify
  <1>4. PoolTypes'
    BY <1>1, <1>2, <1>3 DEF PoolInv, PoolTypes
  <1>5. MovesNoTask
    BY <1>1, <1>2, <1>3, <1>4 DEF MovesNoTask
  <1> QED
    BY <1>5, TasksStay

\* The steps of Stop move no task, and it returns after the last worker.
LEMMA StopOK ==
    ASSUME PoolInv, NEW s \in Stoppers,
           Stop(s) \/ StopWakesWorkers(s) \/ StopWakesPosters(s) \/ StopJoins(s)
    PROVE  PoolInv'
  <1> USE DEF PoolInv, PoolTypes
  <1>1. CASE Stop(s)
    <2>1. PoolTypes'
      BY <1>1 DEF Stop, StopperStates
    <2>2. \A t \in Tasks : Accepted(t)' <=> Accepted(t)
      BY <1>1 DEF Stop, Accepted
    <2>3. \A x \in Stoppers : stopper'[x] = "joined" => stopper[x] = "joined"
      BY <1>1 DEF Stop
    <2>4. UNCHANGED <<taskQueue, ran, worker>> /\ stopping'
      BY <1>1 DEF Stop
    <2>9. MovesNoTask
      BY <2>1, <2>2, <2>3, <2>4 DEF MovesNoTask
    <2> QED
      BY <2>9, TasksStay
  <1>2. CASE StopWakesWorkers(s)
    <2>1. /\ worker' \in [Workers -> WorkerStates]
          /\ \A w \in Workers : \/ worker'[w] = worker[w]
                                \/ worker[w] = "blocked" /\ worker'[w] = "popping"
      BY <1>2 DEF StopWakesWorkers, NotifyAll, WorkerStates
    <2>2. \A t \in Tasks : Accepted(t)' <=> Accepted(t)
      BY <1>2 DEF StopWakesWorkers, Accepted
    <2>3. /\ stopper' \in [Stoppers -> StopperStates]
          /\ \A x \in Stoppers : stopper'[x] = "joined" => stopper[x] = "joined"
      BY <1>2 DEF StopWakesWorkers, StopperStates
    <2>4. UNCHANGED <<taskQueue, stopping, poster, ran>>
      BY <1>2 DEF StopWakesWorkers
    <2>9. MovesNoTask
      BY <2>1, <2>2, <2>3, <2>4 DEF MovesNoTask
    <2> QED
      BY <2>9, TasksStay
  <1>3. CASE StopWakesPosters(s)
    <2>1. poster' \in [Tasks -> PosterStates] /\ \A t \in Tasks : Accepted(t)' <=> Accepted(t)
      BY <1>3 DEF StopWakesPosters, NotifyAll, PosterStates, Accepted
    <2>2. /\ stopper' \in [Stoppers -> StopperStates]
          /\ \A x \in Stoppers : stopper'[x] = "joined" => stopper[x] = "joined"
      BY <1>3 DEF StopWakesPosters, StopperStates
    <2>3. UNCHANGED <<taskQueue, stopping, worker, ran>>
      BY <1>3 DEF StopWakesPosters
    <2>9. MovesNoTask
      BY <2>1, <2>2, <2>3 DEF MovesNoTask
    <2> QED
      BY <2>9, TasksStay
  <1>4. CASE StopJoins(s)
    <2>1. stopper' \in [Stoppers -> StopperStates] /\ \A w \in Workers : worker[w] = "exited"
      BY <1>4 DEF StopJoins, StopperStates
    <2>2. UNCHANGED <<taskQueue, stopping, poster, worker, ran>>
      BY <1>4 DEF StopJoins
    <2>3. \A t \in Tasks : Accepted(t)' <=> Accepted(t)
      BY <2>2 DEF Accepted
    <2>9. MovesNoTask
      BY <2>1, <2>2, <2>3 DEF MovesNoTask
    <2> QED
      BY <2>9, TasksStay
  <1> QED
    BY <1>1, <1>2, <1>3, <1>4

\* A worker that finds no task sleeps or, with the stop flag set, leaves.
LEMMA PopNothingOK ==
    ASSUME PoolInv, NEW w \in Workers, PopTask(w), taskQueue = <<>>
    PROVE  PoolInv'
  <1>1. /\ worker' = [worker EXCEPT ![w] = IF stopping THEN "exited" ELSE "blocked"]
        /\ worker[w] = "popping"
        /\ UNCHANGED <<taskQueue, stopping, poster, stopper, ran>>
    BY DEF PopTask
  <1>2. PoolTypes'
    BY <1>1 DEF PoolInv, PoolTypes, WorkerStates
  <1>3. /\ Len(taskQueue) = 0
        /\ \A v \in Workers : worker'[v] \in Tasks \/ worker[v] \in Tasks
                              => worker'[v] = worker[v]
    BY <1>1, PoolBounds DEF PoolInv, PoolTypes
  <1>4. OnePlace'
    BY SMT, <1>1, <1>3 DEF PoolInv, OnePlace
  <1>5. HeldIsDue'
    BY <1>1, <1>3 DEF PoolInv, HeldIsDue, Accepted
  <1>6. DueIsHeld'
    BY SMT, <1>1, <1>3 DEF PoolInv, DueIsHeld, Accepted
  <1>7. LeftIsDrained'
    BY <1>1 DEF PoolInv, PoolTypes, LeftIsDrained
  <1> QED
    BY <1>2, <1>4, <1>5, <1>6, <1>7 DEF PoolInv

\* A worker that finds a task moves it from the queue to itself.
LEMMA PopHeadOK ==
    ASSUME PoolInv, NEW w \in Workers, PopTask(w), taskQueue # <<>>
    PROVE  PoolInv'
  <1>1. /\ worker' = [worker EXCEPT ![w] = Head(taskQueue)]
        /\ worker[w] = "popping"
        /\ taskQueue' = Tail(taskQueue)
        /\ poster' \in NotifyOne(poster, "waiting", "woken", Tasks)
        /\ UNCHANGED <<stopping, stopper, ran>>
    BY DEF PopTask
  <1>2. /\ Len(taskQueue) \in Nat \ {0}
        /\ Head(taskQueue) = taskQueue[1]
        /\ taskQueue[1] \in Tasks
        /\ taskQueue' \in Seq(Tasks)
        /\ Len(taskQueue') = Len(taskQueue) - 1
        /\ \A i \in 1 .. Len(taskQueue') :
               /\ taskQueue'[i] = taskQueue[i + 1]
               /\ i + 1 \in 1 .. Len(taskQueue)
        /\ \A i \in 1 .. Len(taskQueue) : taskQueue[i] \in Tasks
    BY SMT, <1>1 DEF PoolInv, PoolTypes
  <1>3. /\ poster' \in [Tasks -> PosterStates]
        /\ \A t \in Tasks : Accepted(t)' <=> Accepted(t)
    <2>1. poster \in [Tasks -> PosterStates] /\ "woken" \in PosterStates
      BY DEF PoolInv, PoolTypes, PosterStates
    <2>2. /\ poster' \in [Tasks -> PosterStates]
          /\ \A t \in Tasks : \/ poster'[t] = poster[t]
                              \/ poster[t] = "waiting" /\ poster'[t] = "woken"
      BY ZenonT(30), <1>1, <2>1, NotifyOneOutcome
    <2> QED
      BY <2>2 DEF Accepted
  <1>4. /\ worker' \in [Workers -> WorkerStates]
        /\ worker'[w] = taskQueue[1]
        /\ \A v \in Workers \ {w} : worker'[v] = worker[v]
    BY <1>1, <1>2 DEF PoolInv, PoolTypes, WorkerStates
  <1>5. PoolTypes'
    BY <1>1, <1>2, <1>3, <1>4 DEF PoolInv, PoolTypes
  <1>6. /\ 1 \in 1 .. Len(taskQueue)
        /\ worker[w] \notin Tasks
        /\ \A i \in 1 .. Len(taskQueue') : taskQueue'[i] # taskQueue[1]
        /\ \A v \in Workers : worker[v] # taskQueue[1]
    BY SMT, <1>1, <1>2, PoolBounds DEF PoolInv, OnePlace
  <1>7. OnePlace'
    <2>1. \A i, j \in 1 .. Len(taskQueue') : taskQueue'[i] = taskQueue'[j] => i = j
      BY SMT, <1>2 DEF PoolInv, OnePlace
    <2>2. \A u, v \in Workers : worker'[u] \in Tasks /\ worker'[u] = worker'[v] => u = v
      BY SMT, <1>4, <1>6 DEF PoolInv, OnePlace
    <2>3. \A i \in 1 .. Len(taskQueue') : \A v \in Workers : worker'[v] # taskQueue'[i]
      BY SMT, <1>2, <1>4, <1>6 DEF PoolInv, OnePlace
    <2> QED
      BY <2>1, <2>2, <2>3 DEF OnePlace
  <1>8. HeldIsDue'
    <2>1. \A t \in Tasks : Accepted(t) => poster'[t] \in {"notify", "accepted"}
      BY <1>3 DEF Accepted
    <2>2. \A i \in 1 .. Len(taskQueue') :
              /\ poster'[taskQueue'[i]] \in {"notify", "accepted"}
              /\ ran[taskQueue'[i]] = 0
      BY SMT, <1>2, <2>1 DEF PoolInv, HeldIsDue
    <2>3. \A v \in Workers : worker'[v] \in Tasks =>
              /\ poster'[worker'[v]] \in {"notify", "accepted"}
              /\ ran[worker'[v]] = 0
      BY SMT, <1>2, <1>4, <1>6, <2>1 DEF PoolInv, HeldIsDue
    <2> QED
      BY <1>1, <2>2, <2>3 DEF HeldIsDue, Accepted
  <1>9. DueIsHeld'
    <2>1. ASSUME NEW t \in Tasks, Accepted(t), ran[t] = 0
          PROVE  \/ \E i \in 1 .. Len(taskQueue') : taskQueue'[i] = t
                 \/ \E v \in Workers : worker'[v] = t
      <3>1. CASE \E v \in Workers : worker[v] = t
        BY <3>1, <1>4, <1>6
      <3>2. CASE \E i \in 1 .. Len(taskQueue) : taskQueue[i] = t
        <4>1. PICK i \in 1 .. Len(taskQueue) : taskQueue[i] = t
          BY <3>2
        <4>2. CASE i = 1
          BY <4>1, <4>2, <1>4
        <4>3. CASE i # 1
          <5>1. i - 1 \in 1 .. Len(taskQueue') /\ (i - 1) + 1 = i
            BY SMT, <4>3, <1>2
          <5> QED
            BY <4>1, <5>1, <1>2
        <4> QED
          BY <4>2, <4>3
      <3> QED
        BY <2>1, <3>1, <3>2 DEF PoolInv, DueIsHeld
    <2> QED
      BY <1>1, <1>3, <2>1 DEF PoolInv, DueIsHeld
  <1>10. LeftIsDrained'
    <2>1. \A v \in Workers : worker[v] # "exited"
      BY DEF PoolInv, LeftIsDrained
    <2>2. \A v \in Workers : worker'[v] # "exited"
      BY <2>1, <1>2, <1>4, PoolBounds
    <2>3. \A s \in Stoppers : stopper'[s] # "joined"
      BY <1>1, <2>1 DEF PoolInv, LeftIsDrained
    <2> QED
      BY <2>2, <2>3 DEF LeftIsDrained
  <1> QED
    BY <1>5, <1>7, <1>8, <1>9, <1>10 DEF PoolInv

\* A worker calls the task it holds.
LEMMA RunOK ==
    ASSUME PoolInv, NEW w \in Workers, RunTask(w)
    PROVE  PoolInv'
  <1>1. /\ worker[w] \in Tasks
        /\ ran' = [ran EXCEPT ![worker[w]] = @ + 1]
        /\ worker' = [worker EXCEPT ![w] = "popping"]
        /\ UNCHANGED <<taskQueue, stopping, poster, stopper>>
    BY DEF RunTask
  <1>2. Accepted(worker[w]) /\ ran[worker[w]] = 0
    BY <1>1 DEF PoolInv, HeldIsDue
  <1>3. PoolTypes'
    BY SMT, <1>1 DEF PoolInv, PoolTypes, WorkerStates
  <1>4. /\ worker'[w] \notin Tasks
        /\ worker'[w] = "popping"
        /\ \A v \in Workers \ {w} : worker'[v] = worker[v]
        /\ ran'[worker[w]] = 1
        /\ \A t \in Tasks \ {worker[w]} : ran'[t] = ran[t]
        /\ \A i \in 1 .. Len(taskQueue) : taskQueue[i] \in Tasks
    <2>0. /\ ran \in [Tasks -> Nat] /\ taskQueue \in Seq(Tasks)
          /\ worker \in [Workers -> WorkerStates]
      BY DEF PoolInv, PoolTypes
    <2>1. worker'[w] = "popping" /\ \A v \in Workers \ {w} : worker'[v] = worker[v]
      BY <1>1, <2>0
    <2>2. "popping" \notin Tasks
      BY PoolBounds
    <2>3. ran'[worker[w]] = 1 /\ \A t \in Tasks \ {worker[w]} : ran'[t] = ran[t]
      BY SMT, <1>1, <1>2, <2>0
    <2>4. \A i \in 1 .. Len(taskQueue) : taskQueue[i] \in Tasks
      BY SMT, <2>0
    <2> QED
      BY <2>1, <2>2, <2>3, <2>4
  <1>5. OnePlace'
    BY SMT, <1>1, <1>4 DEF PoolInv, OnePlace
  <1>6. HeldIsDue'
    <2>1. \A i \in 1 .. Len(taskQueue) : Accepted(taskQueue[i]) /\ ran'[taskQueue[i]] = 0
      BY SMT, <1>4 DEF PoolInv, OnePlace, HeldIsDue
    <2>2. \A v \in Workers : worker'[v] \in Tasks => Accepted(worker'[v]) /\ ran'[worker'[v]] = 0
      BY SMT, <1>1, <1>4 DEF PoolInv, OnePlace, HeldIsDue
    <2> QED
      BY <1>1, <2>1, <2>2 DEF HeldIsDue, Accepted
  <1>7. DueIsHeld'
    <2>1. \A t \in Tasks : Accepted(t)' <=> Accepted(t)
      BY <1>1 DEF Accepted
    <2> SUFFICES ASSUME NEW t \in Tasks
                 PROVE  /\ ran'[t] \in {0, 1}
                        /\ ran'[t] = 1 => Accepted(t)
                        /\ Accepted(t) /\ ran'[t] = 0 =>
                             \/ \E i \in 1 .. Len(taskQueue) : taskQueue[i] = t
                             \/ \E v \in Workers : worker'[v] = t
      BY <1>1, <2>1 DEF DueIsHeld
    <2>2. CASE t = worker[w]
      BY SMT, <2>2, <1>2, <1>4
    <2>3. CASE t # worker[w]
      BY SMT, <2>3, <1>4 DEF PoolInv, DueIsHeld
    <2> QED
      BY <2>2, <2>3
  <1>8. LeftIsDrained'
    <2>1. worker[w] # "exited"
      BY <1>1, PoolBounds
    <2> QED
      BY <1>1, <1>4, <2>1 DEF PoolInv, LeftIsDrained
  <1> QED
    BY <1>3, <1>5, <1>6, <1>7, <1>8 DEF PoolInv

-----------------------------------------------------------------------------

\* The pool keeps its tasks: every reachable state satisfies the invariant.
THEOREM TasksKept == PoolSpec => []PoolInv
  <1>1. PoolInv /\ [PoolNext]_poolVars => PoolInv'
    <2> SUFFICES ASSUME PoolInv, [PoolNext]_poolVars PROVE PoolInv'
      OBVIOUS
    <2>1. CASE UNCHANGED poolVars
      BY SMT, <2>1 DEF poolVars, PoolInv, PoolTypes, OnePlace, HeldIsDue, DueIsHeld,
                  LeftIsDrained, Accepted
    <2>2. CASE PoolNext
      <3>1. ASSUME NEW t \in Tasks, PostUntil(t) \/ Resume(t) \/ AcquireTimeout(t)
            PROVE  PoolInv'
        BY <3>1, CallOK
      <3>2. ASSUME NEW t \in Tasks, Notify(t) PROVE PoolInv'
        BY <3>2, NotifyOK
      <3>3. ASSUME NEW w \in Workers, PopTask(w) PROVE PoolInv'
        BY <3>3, PopNothingOK, PopHeadOK
      <3>4. ASSUME NEW w \in Workers, RunTask(w) PROVE PoolInv'
        BY <3>4, RunOK
      <3>5. ASSUME NEW s \in Stoppers,
                   Stop(s) \/ StopWakesWorkers(s) \/ StopWakesPosters(s) \/ StopJoins(s)
            PROVE  PoolInv'
        BY <3>5, StopOK
      <3> QED
        BY <2>2, <3>1, <3>2, <3>3, <3>4, <3>5 DEF PoolNext
    <2> QED
      BY <2>1, <2>2
  <1> QED
    BY PoolInitOK, <1>1, PTL DEF PoolSpec

\* Every accepted task is called exactly once before Stop returns, and no
\* other task is called, however many callers, workers and stoppers there are.
THEOREM StopDrains == PoolSpec => []DrainedAtStop
  <1>1. PoolInv => DrainedAtStop
    <2> SUFFICES ASSUME PoolInv, NEW s \in Stoppers, stopper[s] = "joined"
                 PROVE  /\ taskQueue = <<>>
                        /\ \A t \in Tasks :
                              ran[t] = IF poster[t] \in {"notify", "accepted"} THEN 1 ELSE 0
      BY DEF DrainedAtStop
    <2>1. \A w \in Workers : worker[w] = "exited"
      BY DEF PoolInv, LeftIsDrained
    <2>2. taskQueue = <<>> /\ Len(taskQueue) = 0
      BY SMT, <2>1, PoolBounds DEF PoolInv, LeftIsDrained
    <2>3. \A w \in Workers : worker[w] \notin Tasks
      BY <2>1, PoolBounds
    <2> QED
      BY SMT, <2>2, <2>3 DEF PoolInv, DueIsHeld, Accepted
  <1> QED
    BY <1>1, TasksKept, PTL

-----------------------------------------------------------------------------
(* ThreadPool: no notification is missed *)

Waiting == {t \in Tasks : poster[t] = "waiting"}

Woken == {t \in Tasks : poster[t] = "woken"}

\* A task that no worker that is awake will meet is about to be announced.
Heard ==
    (/\ taskQueue # <<>>
     /\ \E w \in Workers : worker[w] = "blocked"
     /\ \A w \in Workers : worker[w] \in {"blocked", "exited"})
        => \/ \E t \in Tasks : poster[t] = "notify"
           \/ \E s \in Stoppers : stopper[s] = "wakeWorkers"

StopPending == \E s \in Stoppers : stopper[s] \in {"wakeWorkers", "wakePosters"}

\* Callers sleep before a stopped pool only until Stop wakes them, and before
\* a running one only while the room left is spoken for by callers woken.
RoomHeard ==
    Waiting # {} => IF stopping THEN StopPending
                    ELSE MaxQueueSize <= Len(taskQueue) + Cardinality(Woken)

WakeInv == Heard /\ RoomHeard /\ Len(taskQueue) <= MaxQueueSize

-----------------------------------------------------------------------------

\* The callers woken are finitely many.
LEMMA WokenFinite == IsFiniteSet(Woken) /\ Cardinality(Woken) \in Nat
  <1>1. Woken \in SUBSET Tasks
    BY DEF Woken
  <1>2. IsFiniteSet(Woken)
    BY <1>1, PoolBounds, FS_Subset
  <1> QED
    BY <1>2, FS_CardinalityType

\* A caller that goes on may use up one wake-up, its own.
LEMMA CallerLeaves ==
    ASSUME PoolTypes, NEW t \in Tasks, NEW v, v # "woken", poster' = [poster EXCEPT ![t] = v]
    PROVE  /\ Cardinality(Woken') \in Nat
           /\ Cardinality(Woken) <= Cardinality(Woken') + 1
           /\ v # "waiting" => Waiting' \subseteq Waiting
  <1>1. poster'[t] = v /\ \A u \in Tasks \ {t} : poster'[u] = poster[u]
    BY DEF PoolTypes
  <1>2. Woken' = Woken \ {t}
    BY <1>1 DEF Woken
  <1>3. /\ IsFiniteSet(Woken \ {t})
        /\ Cardinality(Woken \ {t}) = IF t \in Woken THEN Cardinality(Woken) - 1 ELSE Cardinality(Woken)
    BY WokenFinite, FS_RemoveElement
  <1>4. Cardinality(Woken \ {t}) \in Nat
    BY <1>3, FS_CardinalityType
  <1>5. Cardinality(Woken) <= Cardinality(Woken \ {t}) + 1
    BY SMT, <1>3, <1>4, WokenFinite
  <1>6. v # "waiting" => Waiting' \subseteq Waiting
    BY <1>1 DEF Waiting
  <1> QED
    BY <1>2, <1>4, <1>5, <1>6

\* A call of PostUntil that queues its task announces it; one that waits
\* finds the queue full.
LEMMA CallHeard ==
    ASSUME PoolTypes, WakeInv, NEW t \in Tasks, PostUntil(t) \/ Resume(t) \/ AcquireTimeout(t)
    PROVE  WakeInv'
  <1>1. /\ UNCHANGED <<stopping, worker, stopper>>
        /\ poster[t] \in {"idle", "waiting", "woken"}
    BY DEF PostUntil, Resume, AcquireTimeout
  <1>2. Len(taskQueue) \in Nat /\ MaxQueueSize \in Nat
    BY SMT, PoolBounds DEF PoolTypes
  <1>3. CASE stopping
    <2>1. poster' = [poster EXCEPT ![t] = "stopped"] /\ UNCHANGED taskQueue
      BY <1>3 DEF PostUntil, Resume, AcquireTimeout, Admit
    <2>2. Waiting' \subseteq Waiting
      <3>1. "stopped" # "woken" /\ "stopped" # "waiting"
        OBVIOUS
      <3> QED
        BY <2>1, <3>1, CallerLeaves
    <2>3. RoomHeard'
      BY <1>1, <1>3, <2>2 DEF WakeInv, RoomHeard, StopPending
    <2>4. Heard'
      BY <1>1, <2>1 DEF PoolTypes, WakeInv, Heard
    <2> QED
      BY <2>1, <2>3, <2>4 DEF WakeInv
  <1>4. CASE ~ stopping /\ Len(taskQueue) < MaxQueueSize
    <2>1. poster' = [poster EXCEPT ![t] = "notify"] /\ taskQueue' = Append(taskQueue, t)
      BY <1>4 DEF PostUntil, Resume, AcquireTimeout, Admit
    <2>2. Len(taskQueue') = Len(taskQueue) + 1
      BY SMT, <2>1 DEF PoolTypes
    <2>3. /\ Cardinality(Woken') \in Nat
          /\ Cardinality(Woken) <= Cardinality(Woken') + 1
          /\ Waiting' \subseteq Waiting
      <3>1. "notify" # "woken" /\ "notify" # "waiting"
        OBVIOUS
      <3> QED
        BY <2>1, <3>1, CallerLeaves
    <2>4. RoomHeard'
      <3> SUFFICES ASSUME Waiting' # {}
                   PROVE  MaxQueueSize <= Len(taskQueue') + Cardinality(Woken')
        BY <1>1, <1>4 DEF RoomHeard
      <3>1. MaxQueueSize <= Len(taskQueue) + Cardinality(Woken)
        BY <1>4, <2>3 DEF WakeInv, RoomHeard
      <3> QED
        BY SMT, <1>2, <2>2, <2>3, <3>1, WokenFinite
    <2>5. Heard'
      BY <2>1 DEF PoolTypes, Heard
    <2>6. Len(taskQueue') <= MaxQueueSize
      BY SMT, <1>2, <1>4, <2>2
    <2> QED
      BY <2>4, <2>5, <2>6 DEF WakeInv
  <1>5. CASE ~ stopping /\ ~ (Len(taskQueue) < MaxQueueSize)
    <2>1. /\ UNCHANGED taskQueue
          /\ \E v \in {"waiting", "timedOut"} : poster' = [poster EXCEPT ![t] = v]
      BY <1>5 DEF PostUntil, Resume, AcquireTimeout
    <2>2. Cardinality(Woken') \in Nat
      BY <2>1, CallerLeaves
    <2>3. MaxQueueSize <= Len(taskQueue') + Cardinality(Woken')
      BY SMT, <1>2, <1>5, <2>1, <2>2
    <2>4. RoomHeard'
      BY <1>1, <1>5, <2>3 DEF RoomHeard
    <2>5. Heard'
      BY <1>1, <2>1 DEF PoolTypes, WakeInv, Heard
    <2> QED
      BY <2>1, <2>4, <2>5 DEF WakeInv
  <1> QED
    BY <1>3, <1>4, <1>5

\* The notification reaches a worker that sleeps, if there is one.
LEMMA NotifyHeard ==
    ASSUME PoolTypes, WakeInv, NEW t \in Tasks, Notify(t)
    PROVE  WakeInv'
  <1>1. /\ poster' = [poster EXCEPT ![t] = "accepted"] /\ poster[t] = "notify"
        /\ worker' \in NotifyOne(worker, "blocked", "popping", Workers)
        /\ UNCHANGED <<taskQueue, stopping, stopper>>
    BY DEF Notify
  <1>2. Waiting' = Waiting /\ Woken' = Woken
    BY <1>1 DEF PoolTypes, Waiting, Woken
  <1>3. RoomHeard' /\ Len(taskQueue') <= MaxQueueSize
    BY <1>1, <1>2 DEF WakeInv, RoomHeard, StopPending
  <1>4. Heard'
    <2>1. CASE \E w \in Workers : worker[w] = "blocked"
      <3>1. \E w \in Workers : worker'[w] = "popping"
        BY <1>1, <2>1 DEF PoolTypes, NotifyOne
      <3> QED
        BY <3>1 DEF Heard
    <2>2. CASE \A w \in Workers : worker[w] # "blocked"
      <3>1. worker' = worker
        BY <1>1, <2>2 DEF NotifyOne
      <3> QED
        BY <2>2, <3>1 DEF Heard
    <2> QED
      BY <2>1, <2>2
  <1> QED
    BY <1>3, <1>4 DEF WakeInv

\* A worker that takes a task leaves its room to a caller that sleeps.
LEMMA PopHeard ==
    ASSUME PoolTypes, WakeInv, NEW w \in Workers, PopTask(w)
    PROVE  WakeInv'
  <1>1. UNCHANGED <<stopping, stopper>> /\ worker[w] = "popping"
    BY DEF PopTask
  <1>2. CASE taskQueue = <<>>
    <2>1. UNCHANGED <<taskQueue, poster>>
      BY <1>2 DEF PopTask
    <2>2. Waiting' = Waiting /\ Woken' = Woken
      BY <2>1 DEF Waiting, Woken
    <2>3. RoomHeard' /\ Len(taskQueue') <= MaxQueueSize
      BY <1>1, <2>1, <2>2 DEF WakeInv, RoomHeard, StopPending
    <2>4. Heard'
      BY <1>2, <2>1 DEF Heard
    <2> QED
      BY <2>3, <2>4 DEF WakeInv
  <1>3. CASE taskQueue # <<>>
    <2>1. /\ worker' = [worker EXCEPT ![w] = Head(taskQueue)]
          /\ taskQueue' = Tail(taskQueue)
          /\ poster' \in NotifyOne(poster, "waiting", "woken", Tasks)
      BY <1>3 DEF PopTask
    <2>2. /\ Len(taskQueue) \in Nat \ {0} /\ Len(taskQueue') = Len(taskQueue) - 1
          /\ Head(taskQueue) \in Tasks
      BY SMT, <1>3, <2>1 DEF PoolTypes
    <2>3. Heard'
      <3>1. worker'[w] = Head(taskQueue)
        BY <2>1 DEF PoolTypes
      <3>2. worker'[w] \notin {"blocked", "exited"}
        BY <2>2, <3>1, PoolBounds
      <3> QED
        BY <3>2 DEF Heard
    <2>4. RoomHeard'
      <3>1. CASE Waiting = {}
        <4>1. poster' = poster
          BY <2>1, <3>1 DEF NotifyOne, Waiting
        <4> QED
          BY <3>1, <4>1 DEF RoomHeard, Waiting
      <3>2. CASE Waiting # {}
        <4>1. PICK x \in Waiting : poster' = [poster EXCEPT ![x] = "woken"]
          BY <2>1, <3>2 DEF NotifyOne, Waiting
        <4>2. Woken' = Woken \cup {x} /\ x \notin Woken
          BY <4>1 DEF PoolTypes, Waiting, Woken
        <4>3. Cardinality(Woken') = Cardinality(Woken) + 1
          BY <4>2, WokenFinite, FS_AddElement
        <4>4. CASE stopping
          BY <1>1, <3>2, <4>4 DEF WakeInv, RoomHeard, StopPending
        <4>5. CASE ~ stopping
          <5>1. MaxQueueSize <= Len(taskQueue) + Cardinality(Woken)
            BY <3>2, <4>5 DEF WakeInv, RoomHeard
          <5>2. MaxQueueSize <= Len(taskQueue') + Cardinality(Woken')
            BY SMT, <2>2, <4>3, <5>1, WokenFinite, PoolBounds
          <5> QED
            BY <1>1, <4>5, <5>2 DEF RoomHeard
        <4> QED
          BY <4>4, <4>5
      <3> QED
        BY <3>1, <3>2
    <2>5. Len(taskQueue') <= MaxQueueSize
      BY SMT, <2>2, PoolBounds DEF WakeInv
    <2> QED
      BY <2>3, <2>4, <2>5 DEF WakeInv
  <1> QED
    BY <1>2, <1>3

\* A worker that has run a task looks for the next one.
LEMMA RunHeard ==
    ASSUME PoolTypes, WakeInv, NEW w \in Workers, RunTask(w)
    PROVE  WakeInv'
  <1>1. /\ worker' = [worker EXCEPT ![w] = "popping"]
        /\ UNCHANGED <<taskQueue, stopping, poster, stopper>>
    BY DEF RunTask
  <1>2. worker'[w] = "popping"
    BY <1>1 DEF PoolTypes
  <1>3. Heard'
    BY <1>2 DEF Heard
  <1>4. Waiting' = Waiting /\ Woken' = Woken
    BY <1>1 DEF Waiting, Woken
  <1> QED
    BY <1>1, <1>3, <1>4 DEF WakeInv, RoomHeard, StopPending

\* Stop wakes the workers, then the callers.
LEMMA StopHeard ==
    ASSUME PoolTypes, WakeInv, NEW s \in Stoppers,
           Stop(s) \/ StopWakesWorkers(s) \/ StopWakesPosters(s) \/ StopJoins(s)
    PROVE  WakeInv'
  <1>0. UNCHANGED taskQueue
    BY DEF Stop, StopWakesWorkers, StopWakesPosters, StopJoins
  <1>1. CASE Stop(s)
    <2>1. /\ stopper[s] = "idle" /\ stopping' = TRUE /\ UNCHANGED <<poster, worker>>
          /\ stopper' = [stopper EXCEPT ![s] = IF stopping THEN "returned" ELSE "wakeWorkers"]
      BY <1>1 DEF Stop
    <2>2. Waiting' = Waiting
      BY <2>1 DEF Waiting
    <2>3. /\ \A x \in Stoppers : stopper[x] # "idle" => stopper'[x] = stopper[x]
          /\ ~ stopping => stopper'[s] = "wakeWorkers"
      BY <2>1 DEF PoolTypes
    <2>4. RoomHeard'
      BY <2>1, <2>2, <2>3 DEF WakeInv, RoomHeard, StopPending
    <2>5. Heard'
      BY <1>0, <2>1, <2>3 DEF WakeInv, Heard
    <2> QED
      BY <1>0, <2>4, <2>5 DEF WakeInv
  <1>2. CASE StopWakesWorkers(s)
    <2>1. /\ stopper' = [stopper EXCEPT ![s] = "wakePosters"] /\ UNCHANGED <<stopping, poster>>
          /\ worker' = NotifyAll(worker, "blocked", "popping", Workers)
      BY <1>2 DEF StopWakesWorkers
    <2>2. \A w \in Workers : worker'[w] # "blocked"
      BY <2>1 DEF NotifyAll
    <2>3. Waiting' = Waiting /\ Woken' = Woken
      BY <2>1 DEF Waiting, Woken
    <2>4. stopper'[s] = "wakePosters"
      BY <2>1 DEF PoolTypes
    <2>5. StopPending'
      BY <2>4 DEF StopPending
    <2>6. RoomHeard'
      BY <1>0, <2>1, <2>3, <2>5 DEF WakeInv, RoomHeard
    <2>7. Heard'
      BY <2>2 DEF Heard
    <2> QED
      BY <1>0, <2>6, <2>7 DEF WakeInv
  <1>3. CASE StopWakesPosters(s)
    <2>1. /\ stopper[s] = "wakePosters" /\ stopper' = [stopper EXCEPT ![s] = "join"]
          /\ poster' = NotifyAll(poster, "waiting", "woken", Tasks) /\ UNCHANGED worker
      BY <1>3 DEF StopWakesPosters
    <2>2. Waiting' = {} /\ \A t \in Tasks : poster[t] = "notify" => poster'[t] = "notify"
      BY <2>1 DEF NotifyAll, Waiting
    <2>3. \A x \in Stoppers : stopper[x] = "wakeWorkers" => stopper'[x] = "wakeWorkers"
      BY <2>1 DEF PoolTypes
    <2>4. Heard'
      BY <1>0, <2>1, <2>2, <2>3 DEF WakeInv, Heard
    <2> QED
      BY <1>0, <2>2, <2>4 DEF WakeInv, RoomHeard
  <1>4. CASE StopJoins(s)
    <2>1. /\ stopper[s] = "join" /\ stopper' = [stopper EXCEPT ![s] = "joined"]
          /\ UNCHANGED <<stopping, poster, worker>>
      BY <1>4 DEF StopJoins
    <2>2. Waiting' = Waiting /\ Woken' = Woken
      BY <2>1 DEF Waiting, Woken
    <2>3. \A x \in Stoppers : stopper[x] # "join" => stopper'[x] = stopper[x]
      BY <2>1 DEF PoolTypes
    <2>4. StopPending => StopPending'
      BY <2>3 DEF StopPending
    <2>5. RoomHeard'
      BY <1>0, <2>1, <2>2, <2>4 DEF WakeInv, RoomHeard
    <2>6. Heard'
      BY <1>0, <2>1, <2>3 DEF WakeInv, Heard
    <2> QED
      BY <1>0, <2>5, <2>6 DEF WakeInv
  <1> QED
    BY <1>1, <1>2, <1>3, <1>4

\* No notification is missed, however many callers, workers and stoppers
\* there are: a queued task, and the room of a task taken, is announced to a
\* thread that sleeps for it.
THEOREM WakeupsReachSleepers == PoolSpec => []NobodySleepsOnWork
  <1>1. PoolInit => WakeInv
    <2> SUFFICES ASSUME PoolInit PROVE WakeInv
      OBVIOUS
    <2>1. taskQueue = <<>> /\ Len(taskQueue) = 0 /\ Waiting = {}
      BY DEF PoolInit, Waiting
    <2> QED
      BY SMT, <2>1, PoolBounds DEF WakeInv, Heard, RoomHeard
  <1>2. PoolInv /\ WakeInv /\ [PoolNext]_poolVars => WakeInv'
    <2> SUFFICES ASSUME PoolTypes, WakeInv, [PoolNext]_poolVars PROVE WakeInv'
      BY DEF PoolInv
    <2>1. CASE UNCHANGED poolVars
      <3>1. Waiting' = Waiting /\ Woken' = Woken
        BY <2>1 DEF poolVars, Waiting, Woken
      <3> QED
        BY <2>1, <3>1 DEF poolVars, WakeInv, Heard, RoomHeard, StopPending
    <2>2. CASE PoolNext
      <3>1. ASSUME NEW t \in Tasks, PostUntil(t) \/ Resume(t) \/ AcquireTimeout(t)
            PROVE  WakeInv'
        BY <3>1, CallHeard
      <3>2. ASSUME NEW t \in Tasks, Notify(t) PROVE WakeInv'
        BY <3>2, NotifyHeard
      <3>3. ASSUME NEW w \in Workers, PopTask(w) PROVE WakeInv'
        BY <3>3, PopHeard
      <3>4. ASSUME NEW w \in Workers, RunTask(w) PROVE WakeInv'
        BY <3>4, RunHeard
      <3>5. ASSUME NEW s \in Stoppers,
                   Stop(s) \/ StopWakesWorkers(s) \/ StopWakesPosters(s) \/ StopJoins(s)
            PROVE  WakeInv'
        BY <3>5, StopHeard
      <3> QED
        BY <2>2, <3>1, <3>2, <3>3, <3>4, <3>5 DEF PoolNext
    <2> QED
      BY <2>1, <2>2
  <1>3. PoolInv /\ WakeInv => NobodySleepsOnWork
    <2> SUFFICES ASSUME PoolTypes, WakeInv PROVE NobodySleepsOnWork
      BY DEF PoolInv
    <2>1. ASSUME NEW t \in Tasks, poster[t] = "waiting"
          PROVE  \/ \E s \in Stoppers : stopper[s] \in {"wakeWorkers", "wakePosters"}
                 \/ MaxQueueSize - Len(taskQueue) <= Cardinality({u \in Tasks : poster[u] = "woken"})
      <3>1. Waiting # {}
        BY <2>1 DEF Waiting
      <3>2. CASE stopping
        BY <3>1, <3>2 DEF WakeInv, RoomHeard, StopPending
      <3>3. CASE ~ stopping
        <4>1. MaxQueueSize <= Len(taskQueue) + Cardinality(Woken)
          BY <3>1, <3>3 DEF WakeInv, RoomHeard
        <4>2. MaxQueueSize - Len(taskQueue) <= Cardinality(Woken)
          BY SMT, <4>1, WokenFinite, PoolBounds DEF PoolTypes
        <4> QED
          BY <4>2 DEF Woken
      <3> QED
        BY <3>2, <3>3
    <2>2. Heard
      BY DEF WakeInv
    <2> QED
      BY <2>1, <2>2 DEF Heard, NobodySleepsOnWork
  <1> QED
    BY <1>1, <1>2, <1>3, TasksKept, PTL DEF PoolSpec
=============================================================================
