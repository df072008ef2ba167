------------------------- MODULE MessageLinkProofs --------------------------
(***************************************************************************)
(* Proofs about the streams between the gateway and the message nodes,     *)
(* for every set of calls, nodes, links and faults: what becomes of a      *)
(* call of Forward, and when a command may be on a stream.                 *)
(***************************************************************************)
EXTENDS MessageLink, TLAPS

\* Zenon is the default prover; a leaf with arithmetic or sequences cites SMT.
USE Zenon

-----------------------------------------------------------------------------
(* The calls of Forward *)

Entries == {NoPending} \cup [call : Calls, node : Nodes, attempts : {0, 1}]

CallRecord == [pc : {"new", "selected", "pending", "returned", "refused"},
               node : Nodes \cup {NoOne}, slot : Slots \cup {NoOne}]

CallTypes ==
    /\ links \in [Nodes -> Slots \cup {NoOne}]
    /\ pending \in [Ids -> Entries]
    /\ call \in [Calls -> CallRecord]
    /\ answered \in [Calls -> Nat]
    /\ \A f \in Calls : call[f].pc \in {"selected", "pending"} =>
           call[f].node \in Nodes /\ call[f].slot \in Slots

\* The calls that are not in pending yet, or never will be.
Early == {f \in Calls : call[f].pc \in {"new", "selected", "refused"}}

\* Whoever is in pending is there under its own id and has no answer yet; nor
\* has a call of the set E, and nobody has two.
CallFacts(p, a, E) ==
    /\ p \in [Ids -> Entries] /\ a \in [Calls -> Nat]
    /\ \A i \in Ids : p[i] # NoPending =>
           RequestId[p[i].call] = i /\ a[p[i].call] = 0 /\ p[i].call \notin E
    /\ \A f \in E : a[f] = 0
    /\ \A f \in Calls : a[f] <= 1

CallInv == CallTypes /\ CallFacts(pending, answered, Early)

\* An entry of pending_ in use names its call, its node and its attempts.
LEMMA EntryFields ==
    \A p \in Entries : p # NoPending =>
        /\ p.call \in Calls /\ p.node \in Nodes /\ p.attempts \in {0, 1}
        /\ p \in [call : Calls, node : Nodes, attempts : {0, 1}]
  BY DEF Entries

\* No call is pending initially.
LEMMA CallInit == Init => CallInv
  <1> SUFFICES ASSUME Init PROVE CallInv
    OBVIOUS
  <1>1. \A f \in Calls : call[f] = NewCall /\ NewCall \in CallRecord /\ NewCall.pc = "new"
    BY DEF Init, NewCall, CallRecord
  <1>2. CallTypes
    BY <1>1 DEF Init, CallTypes, Entries
  <1>3. \A i \in Ids : pending[i] = NoPending
    BY DEF Init
  <1>4. \A f \in Calls : answered[f] = 0
    BY DEF Init
  <1> QED
    BY SMT, <1>2, <1>3, <1>4 DEF CallInv, CallFacts, CallTypes, Early

\* Answering the command under id i.
LEMMA AnswerKeeps ==
    ASSUME NEW E \in SUBSET Calls, CallFacts(pending, answered, E),
           NEW i \in Ids, pending[i] # NoPending, Answer(i)
    PROVE  CallFacts(pending', answered', E)
  <1> DEFINE f == pending[i].call
  <1>0. /\ pending \in [Ids -> Entries] /\ answered \in [Calls -> Nat]
        /\ \A j \in Ids : pending[j] # NoPending => pending[j].call \in Calls
    BY EntryFields DEF CallFacts
  <1>1. f \in Calls /\ RequestId[f] = i /\ answered[f] = 0 /\ f \notin E
    BY <1>0 DEF CallFacts
  <1>2. /\ pending' \in [Ids -> Entries] /\ pending'[i] = NoPending
        /\ \A j \in Ids \ {i} : pending'[j] = pending[j]
    BY <1>0 DEF Answer, Entries
  <1>3. /\ answered' \in [Calls -> Nat] /\ answered'[f] = 1
        /\ \A g \in Calls \ {f} : answered'[g] = answered[g]
    BY SMT, <1>0, <1>1 DEF Answer
  <1> HIDE DEF f
  <1>4. ASSUME NEW j \in Ids, pending'[j] # NoPending
        PROVE  /\ RequestId[pending'[j].call] = j /\ answered'[pending'[j].call] = 0
               /\ pending'[j].call \notin E
    <2>1. j # i /\ pending'[j] = pending[j] /\ pending[j] # NoPending
      BY <1>2, <1>4
    <2>2. /\ RequestId[pending[j].call] = j /\ answered[pending[j].call] = 0
          /\ pending[j].call \notin E /\ pending[j].call \in Calls
      BY <1>0, <2>1 DEF CallFacts
    <2> QED
      BY <1>1, <1>3, <2>1, <2>2
  <1>5. \A g \in E : answered'[g] = 0
    BY <1>1, <1>3 DEF CallFacts
  <1>6. \A g \in Calls : answered'[g] <= 1
    BY SMT, <1>3 DEF CallFacts
  <1> QED
    BY <1>2, <1>3, <1>4, <1>5, <1>6 DEF CallFacts

\* Fewer calls are early.
LEMMA EarlyShrinks ==
    ASSUME NEW p, NEW a, NEW E, NEW D \in SUBSET E, CallFacts(p, a, E)
    PROVE  CallFacts(p, a, D)
  BY DEF CallFacts

\* A step that changes where one call stands.
LEMMA CallAt ==
    ASSUME CallTypes, NEW f \in Calls, NEW pc, call' = [call EXCEPT ![f].pc = pc],
           pc \in {"pending", "returned", "refused"}
    PROVE  /\ call' \in [Calls -> CallRecord]
           /\ call'[f].pc = pc /\ call'[f].node = call[f].node /\ call'[f].slot = call[f].slot
           /\ \A g \in Calls \ {f} : call'[g] = call[g]
           /\ pc = "refused" => Early' = Early \cup {f}
           /\ pc \in {"pending", "returned"} => Early' = Early \ {f}
  <1>1. /\ call \in [Calls -> CallRecord] /\ call[f] \in CallRecord
    BY DEF CallTypes
  <1>2. /\ call' \in [Calls -> CallRecord]
        /\ call'[f].pc = pc /\ call'[f].node = call[f].node /\ call'[f].slot = call[f].slot
        /\ \A g \in Calls \ {f} : call'[g] = call[g]
    BY <1>1 DEF CallRecord
  <1> QED
    BY <1>2 DEF Early

\* The links of the nodes are slots, whoever starts, ends or drops them.
LEMMA LinksTyped ==
    ASSUME links \in [Nodes -> Slots \cup {NoOne}], [Next]_vars
    PROVE  links' \in [Nodes -> Slots \cup {NoOne}]
  <1>1. ASSUME NEW n \in Nodes, StartLink(n)
        PROVE  links' \in [Nodes -> Slots \cup {NoOne}]
    BY <1>1 DEF StartLink
  <1>2. ASSUME NEW n \in Nodes, Reconnect(n) \/ StartMissing(n)
        PROVE  links' \in [Nodes -> Slots \cup {NoOne}]
    BY <1>1, <1>2 DEF Reconnect, StartMissing
  <1>3. ASSUME NEW n \in Nodes, NEW s \in Slots, OnLinkDone(n, s)
        PROVE  links' \in [Nodes -> Slots \cup {NoOne}]
    BY <1>3 DEF OnLinkDone
  <1>4. ASSUME NEW want \in SUBSET Nodes, ApplyTopology(want)
        PROVE  links' \in [Nodes -> Slots \cup {NoOne}]
    BY <1>4 DEF ApplyTopology
  <1>5. CASE UNCHANGED links
    BY <1>5
  <1>6. CASE GatewaySteps
    BY ZenonT(30), <1>6, <1>2, <1>3, <1>5
       DEF GatewaySteps, ForwardPending, ForwardEnqueue, ExpirePending, IdleStop, RetrySend,
           ArmReconnect, RetryTake, ReadRegisterResult, ReadDrainNotice, ReadCommandResult,
           gatewayVars
  <1>7. CASE NodeSteps
    BY SMT, <1>7, <1>5 DEF NodeSteps, NodeCheck, Register, NodeRegistered, ReactorDone, HandleCommand,
                      Execute, gatewayVars
  <1>8. CASE StopLinks \/ StopPending \/ \E f \in Calls : ForwardSelect(f)
    BY <1>8, <1>5 DEF StopLinks, StopPending, ForwardSelect
  <1>9. CASE \E n \in Nodes : DrainAll(n) \/ NodeExit(n) \/ \E s \in Slots : OnDone(n, s)
    BY <1>9, <1>5 DEF DrainAll, NodeExit, OnDone, gatewayVars
  <1>10. CASE UNCHANGED vars
    BY <1>10, <1>5 DEF vars, gatewayVars
  <1> QED
    BY <1>4, <1>6, <1>7, <1>8, <1>9, <1>10 DEF Next

\* What Next changes of the calls: the step of an action that changes pending, call or
\* answered, or a step that leaves the three alone.
LEMMA CallSteps ==
    ASSUME [Next]_vars
    PROVE  \/ \E f \in Calls : ForwardSelect(f) \/ ForwardPending(f) \/ ForwardEnqueue(f)
           \/ \E i \in Ids : ExpirePending(i)
           \/ \E n \in Nodes : \/ RetrySend(n)
                               \/ \E i \in Ids : RetryTake(n, i)
                               \/ \E s \in Slots : ReadCommandResult(n, s)
           \/ StopPending
           \/ UNCHANGED <<pending, call, answered>>
  <1>1. CASE GatewaySteps
    BY SMT, <1>1 DEF GatewaySteps, IdleStop, ArmReconnect, Reconnect, StartMissing,
                ReadRegisterResult, ReadDrainNotice, OnLinkDone, gatewayVars
  <1>2. CASE NodeSteps
    BY SMT, <1>2 DEF NodeSteps, NodeCheck, Register, NodeRegistered, ReactorDone, HandleCommand,
                Execute, gatewayVars
  <1>3. CASE StopLinks
    BY <1>3 DEF StopLinks
  <1>4. CASE \E n \in Nodes : DrainAll(n) \/ NodeExit(n) \/ \E s \in Slots : OnDone(n, s)
    BY <1>4 DEF DrainAll, NodeExit, OnDone, gatewayVars
  <1>5. CASE \E want \in SUBSET Nodes : ApplyTopology(want)
    BY <1>5 DEF ApplyTopology
  <1>6. CASE UNCHANGED vars
    BY <1>6 DEF vars, gatewayVars
  <1> QED
    BY <1>1, <1>2, <1>3, <1>4, <1>5, <1>6 DEF Next

\* The inductive step for the calls.
LEMMA CallStep ==
    ASSUME CallInv, [Next]_vars
    PROVE  CallInv'
  <1> USE CallsAssumption
  <1>0. /\ CallTypes /\ CallFacts(pending, answered, Early) /\ Early \in SUBSET Calls
        /\ links' \in [Nodes -> Slots \cup {NoOne}]
    BY LinksTyped DEF CallInv, CallTypes, Early
  <1>a. ASSUME call' \in [Calls -> CallRecord],
               \A f \in Calls : call'[f].pc \in {"selected", "pending"} =>
                   call'[f].node \in Nodes /\ call'[f].slot \in Slots,
               CallFacts(pending', answered', Early')
        PROVE  CallInv'
    BY <1>0, <1>a DEF CallInv, CallTypes, CallFacts
  <1>b. ASSUME UNCHANGED call, CallFacts(pending', answered', Early)
        PROVE  CallInv'
    <2>1. Early' = Early
      BY <1>b DEF Early
    <2> QED
      BY <1>a, <1>b, <1>0, <2>1 DEF CallTypes
  <1>c. ASSUME NEW f \in Calls, NEW pc, call' = [call EXCEPT ![f].pc = pc],
               pc \in {"pending", "returned", "refused"},
               pc = "pending" => call[f].pc = "selected",
               CallFacts(pending', answered', Early')
        PROVE  CallInv'
    <2>1. /\ call' \in [Calls -> CallRecord]
          /\ call'[f].pc = pc /\ call'[f].node = call[f].node /\ call'[f].slot = call[f].slot
          /\ \A g \in Calls \ {f} : call'[g] = call[g]
      BY <1>c, <1>0, CallAt
    <2>2. ASSUME NEW g \in Calls, call'[g].pc \in {"selected", "pending"}
          PROVE  call'[g].node \in Nodes /\ call'[g].slot \in Slots
      <3>1. call[g].pc \in {"selected", "pending"} => call[g].node \in Nodes /\ call[g].slot \in Slots
        BY <1>0 DEF CallTypes
      <3> QED
        BY <3>1, <2>1, <2>2, <1>c
    <2> QED
      BY <1>a, <1>c, <2>1, <2>2
  <1>1. ASSUME NEW f \in Calls, ForwardSelect(f) PROVE CallInv'
    <2>0. UNCHANGED <<pending, answered>> /\ call[f].pc = "new" /\ f \in Early
      BY <1>1 DEF ForwardSelect, Early
    <2>1. CASE \E n \in SelectLink(NoOne) :
                 call' = [call EXCEPT ![f] = [pc |-> "selected", node |-> n, slot |-> links[n]]]
      <3>1. PICK n \in SelectLink(NoOne) :
                 call' = [call EXCEPT ![f] = [pc |-> "selected", node |-> n, slot |-> links[n]]]
        BY <2>1
      <3>2. n \in Nodes /\ links[n] \in Slots
        BY <1>0 DEF SelectLink, CallTypes
      <3>3. /\ call' \in [Calls -> CallRecord]
            /\ call'[f].pc = "selected" /\ call'[f].node = n /\ call'[f].slot = links[n]
            /\ \A g \in Calls \ {f} : call'[g] = call[g]
        BY <3>1, <3>2, <1>0 DEF CallTypes, CallRecord
      <3>4. Early' = Early
        BY <3>3, <2>0 DEF Early
      <3>5. CallFacts(pending', answered', Early')
        BY <3>4, <2>0, <1>0
      <3> QED
        BY <1>a, <3>2, <3>3, <3>5, <1>0 DEF CallTypes
    <2>2. CASE call' = [call EXCEPT ![f].pc = "refused"]
      <3>1. Early' = Early \cup {f}
        BY <2>2, <1>0, CallAt
      <3>2. Early' = Early
        BY <3>1, <2>0
      <3> QED
        BY <1>c, <2>2, <2>0, <3>2, <1>0
    <2> QED
      BY <1>1, <2>1, <2>2 DEF ForwardSelect
  <1>2. ASSUME NEW f \in Calls, ForwardPending(f) PROVE CallInv'
    <2> DEFINE i == RequestId[f]
    <2>0. UNCHANGED answered /\ call[f].pc = "selected" /\ f \in Early /\ i \in Ids
      BY <1>2 DEF ForwardPending, Early
    <2>1. CASE pending[i] # NoPending
      <3>1. call' = [call EXCEPT ![f].pc = "refused"] /\ UNCHANGED pending
        BY <2>1, <1>2 DEF ForwardPending
      <3>2. Early' = Early \cup {f}
        BY <3>1, <1>0, CallAt
      <3>3. Early' = Early
        BY <3>2, <2>0
      <3> QED
        BY <1>c, <3>1, <2>0, <3>3, <1>0
    <2>2. CASE pending[i] = NoPending
      <3> DEFINE e == [call |-> f, node |-> call[f].node, attempts |-> 0]
      <3>1. call' = [call EXCEPT ![f].pc = "pending"] /\ pending' = [pending EXCEPT ![i] = e]
        BY <2>2, <1>2 DEF ForwardPending
      <3>2. Early' = Early \ {f}
        BY <3>1, <1>0, CallAt
      <3>3. e \in Entries /\ e.call = f
        BY <2>0, <1>0 DEF CallTypes, Entries
      <3> HIDE DEF e
      <3>4. /\ pending' \in [Ids -> Entries] /\ pending'[i] = e
            /\ \A j \in Ids \ {i} : pending'[j] = pending[j]
        BY <3>1, <3>3, <1>0, <2>0 DEF CallTypes
      <3>5. CallFacts(pending', answered', Early \ {f})
        <4>1. answered[f] = 0
          BY <1>0, <2>0 DEF CallFacts
        <4>2. ASSUME NEW j \in Ids, pending'[j] # NoPending
              PROVE  /\ RequestId[pending'[j].call] = j /\ answered[pending'[j].call] = 0
                     /\ pending'[j].call \notin Early \ {f}
          BY SMT, <3>3, <3>4, <4>1, <4>2, <1>0 DEF CallFacts
        <4> QED
          BY <3>4, <4>2, <2>0, <1>0 DEF CallFacts
      <3>6. CallFacts(pending', answered', Early')
        BY <3>5, <3>2
      <3> QED
        BY <1>c, <3>1, <2>0, <3>6
    <2> QED
      BY <2>1, <2>2
  <1>3. ASSUME NEW f \in Calls, ForwardEnqueue(f) PROVE CallInv'
    <2> DEFINE i == RequestId[f]
    <2>0. call' = [call EXCEPT ![f].pc = "returned"] /\ i \in Ids
      BY <1>3 DEF ForwardEnqueue
    <2>1. Early' = Early \ {f}
      BY <2>0, <1>0, CallAt
    <2>2. CallFacts(pending', answered', Early)
      <3>1. CASE UNCHANGED <<pending, answered>>
        BY <3>1, <1>0
      <3>2. CASE pending[i] # NoPending /\ Answer(i)
        BY <3>2, <2>0, <1>0, AnswerKeeps
      <3> QED
        BY <1>3, <3>1, <3>2 DEF ForwardEnqueue
    <2>3. CallFacts(pending', answered', Early \ {f})
      BY <2>2, EarlyShrinks
    <2>4. CallFacts(pending', answered', Early')
      BY <2>3, <2>1
    <2> QED
      BY <1>c, <2>0, <2>4
  <1>4. ASSUME NEW i \in Ids, ExpirePending(i) PROVE CallInv'
    <2>1. pending[i] # NoPending /\ Answer(i) /\ UNCHANGED call
      BY <1>4 DEF ExpirePending
    <2> QED
      BY <2>1, <1>b, <1>0, AnswerKeeps
  <1>5. ASSUME NEW n \in Nodes, RetrySend(n) PROVE CallInv'
    <2> DEFINE i == RequestId[retry[n].taken]
    <2>0. UNCHANGED <<call, answered>>
      BY <1>5 DEF RetrySend
    <2>1. CASE UNCHANGED pending
      BY <2>0, <2>1, <1>b, <1>0
    <2>2. CASE \E m \in Nodes : pending' = [pending EXCEPT ![i] =
                                 IF @ = NoPending THEN @ ELSE [@ EXCEPT !.node = m]]
      <3>1. PICK m \in Nodes : pending' = [pending EXCEPT ![i] =
                                 IF @ = NoPending THEN @ ELSE [@ EXCEPT !.node = m]]
        BY <2>2
      <3>2. \A j \in Ids : pending[j] # NoPending =>
                /\ [pending[j] EXCEPT !.node = m] \in [call : Calls, node : Nodes, attempts : {0, 1}]
                /\ [pending[j] EXCEPT !.node = m].call = pending[j].call
        BY SMT, <1>0, EntryFields DEF CallTypes
      <3>3. \A j \in Ids : pending'[j] = IF j # i \/ pending[j] = NoPending THEN pending[j]
                                         ELSE [pending[j] EXCEPT !.node = m]
        BY <3>1, <1>0 DEF CallTypes
      <3>4. \A j \in Ids : /\ pending'[j] \in Entries
                           /\ pending'[j] # NoPending => pending[j] # NoPending
                                                         /\ pending'[j].call = pending[j].call
        BY ZenonT(30), <3>2, <3>3, <1>0 DEF CallTypes, Entries
      <3>5. pending' \in [Ids -> Entries]
        BY <3>1, <3>4, <1>0 DEF CallTypes
      <3>6. CallFacts(pending', answered', Early)
        BY <3>4, <3>5, <2>0, <1>0 DEF CallFacts
      <3> QED
        BY <3>6, <2>0, <1>b
    <2> QED
      BY <1>5, <2>1, <2>2 DEF RetrySend, SelectLink
  <1>6. ASSUME NEW n \in Nodes, NEW i \in Ids, RetryTake(n, i) PROVE CallInv'
    <2>0. UNCHANGED <<call, answered>>
      BY <1>6 DEF RetryTake
    <2>1. CASE UNCHANGED pending
      BY <2>0, <2>1, <1>b, <1>0
    <2>2. CASE /\ pending[i] # NoPending /\ pending[i].attempts < 1
               /\ pending' = [pending EXCEPT ![i].attempts = @ + 1]
      <3>1. /\ pending[i] \in [call : Calls, node : Nodes, attempts : {0, 1}]
            /\ pending \in [Ids -> Entries]
        BY <2>2, <1>0, EntryFields DEF CallTypes
      <3>2. /\ pending'[i] \in [call : Calls, node : Nodes, attempts : {0, 1}]
            /\ pending'[i].call = pending[i].call
            /\ \A j \in Ids \ {i} : pending'[j] = pending[j]
        BY SMT, <2>2, <3>1
      <3>3. pending' \in [Ids -> Entries]
        BY <2>2, <3>1, <3>2 DEF Entries
      <3>4. CallFacts(pending', answered', Early)
        BY <3>2, <3>3, <2>0, <2>2, <1>0 DEF CallFacts
      <3> QED
        BY <3>4, <2>0, <1>b
    <2> QED
      BY <1>6, <2>1, <2>2 DEF RetryTake
  <1>7. ASSUME NEW n \in Nodes, NEW s \in Slots, ReadCommandResult(n, s) PROVE CallInv'
    <2> DEFINE i == RequestId[Head(link[n][s].down)]
    <2>0. UNCHANGED call /\ Head(link[n][s].down) \in Calls
      BY <1>7 DEF ReadCommandResult, Reads
    <2>1. i \in Ids
      BY <2>0
    <2>2. CASE UNCHANGED <<pending, answered>>
      BY <2>0, <2>2, <1>b, <1>0
    <2>3. CASE pending[i] # NoPending /\ Answer(i)
      BY <2>0, <2>1, <2>3, <1>b, <1>0, AnswerKeeps
    <2> QED
      BY <1>7, <2>2, <2>3 DEF ReadCommandResult
  <1>8. CASE StopPending
    <2>0. /\ UNCHANGED call
          /\ pending' = [i \in Ids |-> NoPending]
          /\ answered' = [f \in Calls |->
                            answered[f] + IF pending[RequestId[f]].call = f THEN 1 ELSE 0]
      BY <1>8 DEF StopPending
    <2>1. ASSUME NEW f \in Calls
          PROVE  /\ answered'[f] \in Nat /\ answered'[f] <= 1
                 /\ f \in Early => answered'[f] = 0
      <3>1. answered[f] \in Nat /\ answered[f] <= 1 /\ RequestId[f] \in Ids
            /\ (f \in Early => answered[f] = 0)
        BY <1>0 DEF CallFacts
      <3>2. pending[RequestId[f]].call = f => answered[f] = 0 /\ f \notin Early
        <4>1. pending[RequestId[f]].call = f => pending[RequestId[f]] # NoPending
          BY SMT, NoOneAssumption DEF NoPending
        <4> QED
          BY <4>1, <3>1, <1>0 DEF CallFacts
      <3>3. answered'[f] = answered[f] + IF pending[RequestId[f]].call = f THEN 1 ELSE 0
        BY <2>0
      <3> QED
        BY SMT, <3>1, <3>2, <3>3
    <2>2. CallFacts(pending', answered', Early)
      BY <2>0, <2>1, <1>0 DEF CallFacts, Entries
    <2> QED
      BY <2>0, <2>2, <1>b
  <1>9. CASE UNCHANGED <<pending, call, answered>>
    BY <1>9, <1>b, <1>0
  <1> QED
    BY CallSteps, <1>1, <1>2, <1>3, <1>4, <1>5, <1>6, <1>7, <1>8, <1>9

\* No call of Forward is answered twice, and none that was refused is answered at all,
\* however results, deadlines, retries and Stop interleave.
THEOREM CallsAnsweredOnce == Spec => []AnsweredOnce
  <1>1. CallInv => AnsweredOnce
    BY SMT DEF CallInv, CallFacts, AnsweredOnce, Early
  <1> QED
    BY CallInit, CallStep, <1>1, PTL DEF Spec

-----------------------------------------------------------------------------
(* The streams *)

Frames == Calls \cup {"accepted", "rejected", "drain"}

LinkRecord == [pc : {"free", "open", "closed"}, stopped : BOOLEAN, healthy : BOOLEAN,
               down : Seq(Frames)]

ReactorRecord == [pc : {"none", "new", "valid", "registering", "open", "refused"},
                  up : SUBSET Calls]

RetryRecord == [todo : SUBSET Ids, taken : Calls \cup {NoOne}, slot : Slots \cup {NoOne}]

\* The gateway takes the stream for registered, or is about to.
Told(l) == l.healthy = TRUE \/ \E k \in 1..Len(l.down) : l.down[k] = "accepted"

\* The node's end takes commands, or is gone.
Ready(r) == r.pc \in {"none", "open"}

\* One stream.  An object that is free for the next stream remembers nothing of the last.
StreamInv(l, r) ==
    /\ l \in LinkRecord /\ r \in ReactorRecord
    /\ l.pc = "free" => ~Told(l)
    /\ Told(l) => Ready(r)
    /\ r.up # {} => r.pc = "open"

StreamTypes ==
    /\ link \in [Nodes -> [Slots -> LinkRecord]]
    /\ reactor \in [Nodes -> [Slots -> ReactorRecord]]

StreamsInv ==
    /\ StreamTypes
    /\ \A n \in Nodes, s \in Slots : StreamInv(link[n][s], reactor[n][s])
    /\ \A f \in Calls : call[f].pc \in {"selected", "pending"} =>
           Ready(reactor[call[f].node][call[f].slot])

\* A frame arrives, a frame is read.
Pushed(l, frame) == [l EXCEPT !.down = Append(@, frame)]
Popped(l) == [l EXCEPT !.down = Tail(@)]

\* Stop leaves the state and the frames of a link.
LEMMA StoppedFields ==
    ASSUME NEW l \in LinkRecord
    PROVE  /\ Stopped(l) \in LinkRecord /\ Stopped(l).pc = l.pc /\ Stopped(l).down = l.down
           /\ Stopped(l).healthy = FALSE
  BY DEF Stopped, LinkRecord

\* A closed link has no frames on their way.
LEMMA ClosedFields ==
    ASSUME NEW l \in LinkRecord
    PROVE  /\ Closed(l) \in LinkRecord /\ Closed(l).pc = "closed" /\ Closed(l).down = <<>>
           /\ Closed(l).healthy = FALSE
  <1>1. <<>> \in Seq(Frames)
    BY SMT
  <1> QED
    BY <1>1 DEF Closed, LinkRecord

\* A free link, and one that was just opened, have no frames.
LEMMA FreeFields ==
    /\ FreeLink \in LinkRecord /\ FreeLink.down = <<>> /\ FreeLink.healthy = FALSE
    /\ LET l == [FreeLink EXCEPT !.pc = "open", !.stopped = FALSE]
       IN  l \in LinkRecord /\ l.pc = "open" /\ l.down = <<>> /\ l.healthy = FALSE
  <1>1. <<>> \in Seq(Frames)
    BY SMT
  <1> QED
    BY <1>1 DEF FreeLink, LinkRecord

\* A stream on which nothing was said is not taken for registered.
LEMMA Untold ==
    ASSUME NEW l, l.down = <<>>, l.healthy = FALSE
    PROVE  ~Told(l)
  BY SMT DEF Told

\* A stream that is told to stop.
LEMMA StopStream ==
    ASSUME NEW l, NEW r, StreamInv(l, r)
    PROVE  StreamInv(Stopped(l), r)
  <1>1. l \in LinkRecord
    BY DEF StreamInv
  <1>2. Told(Stopped(l)) => Told(l)
    BY <1>1, StoppedFields DEF Told
  <1> QED
    BY <1>1, <1>2, StoppedFields DEF StreamInv

\* A stream that closes at the gateway.
LEMMA CloseStream ==
    ASSUME NEW l, NEW r, StreamInv(l, r)
    PROVE  StreamInv(Closed(l), r)
  <1>1. l \in LinkRecord
    BY DEF StreamInv
  <1>2. ~Told(Closed(l))
    BY <1>1, ClosedFields, Untold
  <1> QED
    BY <1>1, <1>2, ClosedFields DEF StreamInv

\* A link that is freed.
LEMMA FreeStream ==
    ASSUME NEW l, NEW r, StreamInv(l, r)
    PROVE  StreamInv(FreeLink, r)
  BY FreeFields, Untold DEF StreamInv

\* A frame that the node writes.
LEMMA PushedFields ==
    ASSUME NEW l \in LinkRecord, NEW frame \in Frames
    PROVE  /\ Pushed(l, frame) \in LinkRecord /\ Pushed(l, frame).pc = l.pc
           /\ Pushed(l, frame).healthy = l.healthy
           /\ frame # "accepted" => (Told(Pushed(l, frame)) => Told(l))
  <1>0. l.down \in Seq(Frames)
    BY DEF LinkRecord
  <1>1. /\ Pushed(l, frame) \in LinkRecord /\ Pushed(l, frame).pc = l.pc
        /\ Pushed(l, frame).healthy = l.healthy
        /\ Pushed(l, frame).down = Append(l.down, frame)
    BY SMT DEF Pushed, LinkRecord
  <1>2. ASSUME frame # "accepted", NEW k \in 1..Len(Append(l.down, frame)),
               Append(l.down, frame)[k] = "accepted"
        PROVE  k \in 1..Len(l.down) /\ l.down[k] = "accepted"
    BY SMT, <1>0, <1>2
  <1> QED
    BY <1>1, <1>2 DEF Told

\* A frame that the gateway reads.
LEMMA PoppedFields ==
    ASSUME NEW l \in LinkRecord, l.down # <<>>
    PROVE  /\ Popped(l) \in LinkRecord /\ Popped(l).pc = l.pc
           /\ Popped(l).healthy = l.healthy /\ Popped(l).down = Tail(l.down)
           /\ Told(Popped(l)) => Told(l)
           /\ \A k \in 1..Len(Tail(l.down)) : Tail(l.down)[k] = "accepted" => Told(l)
  <1>0. l.down \in Seq(Frames)
    BY DEF LinkRecord
  <1>t. Tail(l.down) \in Seq(Frames)
    BY SMT, <1>0
  <1>1. /\ Popped(l) \in LinkRecord /\ Popped(l).pc = l.pc
        /\ Popped(l).healthy = l.healthy /\ Popped(l).down = Tail(l.down)
    BY <1>t DEF Popped, LinkRecord
  <1>2. ASSUME NEW k \in 1..Len(Tail(l.down)), Tail(l.down)[k] = "accepted"
        PROVE  k + 1 \in 1..Len(l.down) /\ l.down[k + 1] = "accepted"
    BY SMT, <1>0, <1>2
  <1> QED
    BY <1>1, <1>2 DEF Told

\* The node says anything but that it has registered the stream.
LEMMA PushStream ==
    ASSUME NEW l, NEW r, StreamInv(l, r), l.pc = "open",
           NEW frame \in Calls \cup {"rejected", "drain"}
    PROVE  StreamInv(Pushed(l, frame), r)
  <1>1. frame # "accepted"
    BY FramesAssumption
  <1>2. frame \in Frames
    BY DEF Frames
  <1> QED
    BY <1>1, <1>2, PushedFields DEF StreamInv

\* A stream of which the gateway reads a frame.
LEMMA PopStream ==
    ASSUME NEW l, NEW r, StreamInv(l, r), l.down # <<>>
    PROVE  StreamInv(Popped(l), r)
  BY PoppedFields DEF StreamInv

\* The RegisterResult is read: it is what l was told.
LEMMA ReadStream ==
    ASSUME NEW l, NEW r, StreamInv(l, r), l.pc = "open", l.down # <<>>
    PROVE  StreamInv([Popped(l) EXCEPT !.healthy = Head(l.down) = "accepted"], r)
  <1> DEFINE q == [Popped(l) EXCEPT !.healthy = Head(l.down) = "accepted"]
  <1>1. l \in LinkRecord /\ l.down \in Seq(Frames)
    BY DEF StreamInv, LinkRecord
  <1>2. /\ Popped(l) \in LinkRecord /\ Popped(l).pc = "open" /\ Popped(l).down = Tail(l.down)
        /\ \A k \in 1..Len(Tail(l.down)) : Tail(l.down)[k] = "accepted" => Told(l)
    BY <1>1, PoppedFields
  <1>3. /\ q \in LinkRecord /\ q.pc = "open" /\ q.down = Tail(l.down)
        /\ q.healthy = (Head(l.down) = "accepted")
    BY <1>2 DEF LinkRecord
  <1>4. Head(l.down) = "accepted" => Told(l)
    BY SMT, <1>1 DEF Told
  <1> HIDE DEF q
  <1>5. Told(q) => Told(l)
    BY <1>2, <1>3, <1>4 DEF Told
  <1>6. StreamInv(q, r)
    BY <1>3, <1>5 DEF StreamInv
  <1> QED
    BY <1>6 DEF q

\* A frame from the node: onto the open stream, or lost.
LEMMA SentAt ==
    ASSUME StreamTypes, NEW n \in Nodes, NEW s \in Slots, NEW frame
    PROVE  \/ link[n][s].pc = "open"
              /\ Sent(n, s, frame) = [link EXCEPT ![n][s] = Pushed(link[n][s], frame)]
           \/ Sent(n, s, frame) = link
  <1>1. CASE link[n][s].pc = "open"
    BY <1>1 DEF Sent, Pushed
  <1>2. CASE link[n][s].pc # "open"
    <2>1. [link[n][s] EXCEPT !.down = link[n][s].down] = link[n][s]
      BY DEF StreamTypes, LinkRecord
    <2>2. [link[n] EXCEPT ![s] = link[n][s]] = link[n]
      BY DEF StreamTypes
    <2>3. [link EXCEPT ![n] = link[n]] = link
      BY DEF StreamTypes
    <2>4. Sent(n, s, frame) = [link EXCEPT ![n] = [link[n] EXCEPT ![s] =
                                 [link[n][s] EXCEPT !.down = link[n][s].down]]]
      BY <1>2 DEF Sent
    <2> QED
      BY <2>1, <2>2, <2>3, <2>4
  <1> QED
    BY <1>1, <1>2

\* A command is written to a stream that the node reads, or whose node is gone.
LEMMA WrittenAt ==
    ASSUME StreamTypes, NEW n \in Nodes, NEW s \in Slots, NEW f
    PROVE  \/ reactor[n][s].pc # "none"
              /\ Written(n, s, f) = [reactor EXCEPT ![n][s] =
                     [reactor[n][s] EXCEPT !.up = @ \cup {f}]]
           \/ Written(n, s, f) = reactor
  <1>1. CASE reactor[n][s].pc # "none"
    BY <1>1 DEF Written
  <1>2. CASE reactor[n][s].pc = "none"
    <2>1. [reactor[n][s] EXCEPT !.up = reactor[n][s].up] = reactor[n][s]
      BY DEF StreamTypes, ReactorRecord
    <2>2. [reactor[n] EXCEPT ![s] = reactor[n][s]] = reactor[n]
      BY DEF StreamTypes
    <2>3. [reactor EXCEPT ![n] = reactor[n]] = reactor
      BY DEF StreamTypes
    <2>4. Written(n, s, f) = [reactor EXCEPT ![n] = [reactor[n] EXCEPT ![s] =
                                 [reactor[n][s] EXCEPT !.up = reactor[n][s].up]]]
      BY <1>2 DEF Written
    <2> QED
      BY <2>1, <2>2, <2>3, <2>4
  <1> QED
    BY <1>1, <1>2

\* The calls that hold a stream held it before.
Holding ==
    \A f \in Calls : call'[f].pc \in {"selected", "pending"} =>
        /\ call[f].pc \in {"selected", "pending"}
        /\ call'[f].node = call[f].node /\ call'[f].slot = call[f].slot

\* A step of any number of streams.
LEMMA StreamsMove ==
    ASSUME StreamsInv, CallTypes, Holding, StreamTypes',
           \A n \in Nodes, s \in Slots : StreamInv(link'[n][s], reactor'[n][s]),
           \A n \in Nodes, s \in Slots : Ready(reactor[n][s]) => Ready(reactor'[n][s])
    PROVE  StreamsInv'
  <1>1. ASSUME NEW f \in Calls, call'[f].pc \in {"selected", "pending"}
        PROVE  Ready(reactor'[call'[f].node][call'[f].slot])
    <2>1. /\ call[f].pc \in {"selected", "pending"}
          /\ call'[f].node = call[f].node /\ call'[f].slot = call[f].slot
          /\ call[f].node \in Nodes /\ call[f].slot \in Slots
      BY <1>1 DEF Holding, CallTypes
    <2>2. Ready(reactor[call[f].node][call[f].slot])
      BY <2>1 DEF StreamsInv
    <2> QED
      BY <2>1, <2>2
  <1> QED
    BY <1>1 DEF StreamsInv

\* One entry of a two-dimensional table changes.
LEMMA TableAt ==
    ASSUME NEW N, NEW S, NEW R, NEW g \in [N -> [S -> R]], NEW n \in N, NEW s \in S, NEW v \in R
    PROVE  LET h == [g EXCEPT ![n][s] = v]
           IN  /\ h \in [N -> [S -> R]] /\ h[n][s] = v
               /\ \A m \in N, t \in S : (m # n \/ t # s) => h[m][t] = g[m][t]
  <1> DEFINE row == [g[n] EXCEPT ![s] = v]
             h == [g EXCEPT ![n] = row]
  <1>1. row \in [S -> R] /\ row[s] = v /\ \A t \in S \ {s} : row[t] = g[n][t]
    OBVIOUS
  <1> HIDE DEF row
  <1>2. h \in [N -> [S -> R]] /\ h[n] = row /\ \A m \in N \ {n} : h[m] = g[m]
    BY <1>1
  <1>3. h = [g EXCEPT ![n][s] = v]
    BY DEF row
  <1> HIDE DEF h
  <1> QED
    BY <1>1, <1>2, <1>3

\* A step of one stream.
LEMMA StreamMoves ==
    ASSUME StreamsInv, CallTypes, Holding, NEW n \in Nodes, NEW s \in Slots, NEW l, NEW r,
           StreamInv(l, r), Ready(reactor[n][s]) => Ready(r),
           \/ link' = [link EXCEPT ![n][s] = l]
           \/ link' = link /\ l = link[n][s],
           \/ reactor' = [reactor EXCEPT ![n][s] = r]
           \/ reactor' = reactor /\ r = reactor[n][s]
    PROVE  StreamsInv'
  <1>0. StreamTypes /\ l \in LinkRecord /\ r \in ReactorRecord
    BY DEF StreamsInv, StreamInv
  <1>1. /\ link' \in [Nodes -> [Slots -> LinkRecord]] /\ link'[n][s] = l
        /\ \A m \in Nodes, t \in Slots : (m # n \/ t # s) => link'[m][t] = link[m][t]
    <2>1. CASE link' = [link EXCEPT ![n][s] = l]
      BY SMT, <2>1, <1>0, TableAt DEF StreamTypes
    <2>2. CASE link' = link /\ l = link[n][s]
      BY <2>2, <1>0 DEF StreamTypes
    <2> QED
      BY <2>1, <2>2
  <1>2. /\ reactor' \in [Nodes -> [Slots -> ReactorRecord]] /\ reactor'[n][s] = r
        /\ \A m \in Nodes, t \in Slots : (m # n \/ t # s) => reactor'[m][t] = reactor[m][t]
    <2>1. CASE reactor' = [reactor EXCEPT ![n][s] = r]
      BY SMT, <2>1, <1>0, TableAt DEF StreamTypes
    <2>2. CASE reactor' = reactor /\ r = reactor[n][s]
      BY <2>2, <1>0 DEF StreamTypes
    <2> QED
      BY <2>1, <2>2
  <1>3. \A m \in Nodes, t \in Slots : StreamInv(link'[m][t], reactor'[m][t])
    BY <1>1, <1>2 DEF StreamsInv
  <1>4. \A m \in Nodes, t \in Slots : Ready(reactor[m][t]) => Ready(reactor'[m][t])
    BY <1>2
  <1> QED
    BY <1>1, <1>2, <1>3, <1>4, StreamsMove DEF StreamTypes

-----------------------------------------------------------------------------
(* The steps of the streams *)

NodeTypes ==
    /\ registered \in [Nodes -> Slots \cup {NoOne}]
    /\ running \subseteq [call : Calls, node : Nodes, slot : Slots]
    /\ retry \in [Nodes -> RetryRecord]

\* The node's end moves on while the gateway has not been told anything.
LEMMA ReactorMoves ==
    ASSUME NEW l, NEW r, StreamInv(l, r), ~Ready(r), NEW pc \in {"valid", "registering", "refused"}
    PROVE  /\ StreamInv(l, [r EXCEPT !.pc = pc])
           /\ r.up = {}
  <1>1. /\ [r EXCEPT !.pc = pc] \in ReactorRecord /\ [r EXCEPT !.pc = pc].up = r.up
    BY DEF StreamInv, ReactorRecord
  <1>2. r.up = {} /\ ~Told(l)
    BY DEF StreamInv, Ready
  <1> QED
    BY <1>1, <1>2 DEF StreamInv

\* The node has registered the stream; its result reaches the gateway, or is lost.
LEMMA ReactorOpens ==
    ASSUME NEW l, NEW r, StreamInv(l, r), ~Ready(r)
    PROVE  LET q == [r EXCEPT !.pc = "open"]
           IN  /\ Ready(q) /\ StreamInv(l, q)
               /\ l.pc = "open" => StreamInv(Pushed(l, "accepted"), q)
  <1> DEFINE q == [r EXCEPT !.pc = "open"]
  <1>1. q \in ReactorRecord /\ q.pc = "open"
    BY DEF StreamInv, ReactorRecord
  <1>2. "accepted" \in Frames
    BY DEF Frames
  <1>3. l \in LinkRecord => Pushed(l, "accepted") \in LinkRecord /\ Pushed(l, "accepted").pc = l.pc
    BY <1>2, PushedFields
  <1> HIDE DEF q
  <1>4. Ready(q) /\ StreamInv(l, q) /\ (l.pc = "open" => StreamInv(Pushed(l, "accepted"), q))
    BY <1>1, <1>3 DEF StreamInv, Ready
  <1> QED
    BY <1>4 DEF q

\* Commands come and go on a stream the node reads.
LEMMA ReactorHolds ==
    ASSUME NEW l, NEW r, StreamInv(l, r), r.pc = "open", NEW S \in SUBSET Calls
    PROVE  LET q == [r EXCEPT !.up = S]
           IN  StreamInv(l, q) /\ Ready(q)
  <1> DEFINE q == [r EXCEPT !.up = S]
  <1>1. q \in ReactorRecord /\ q.pc = "open"
    BY DEF StreamInv, ReactorRecord
  <1> HIDE DEF q
  <1>2. StreamInv(l, q) /\ Ready(q)
    BY <1>1 DEF StreamInv, Ready
  <1> QED
    BY <1>2 DEF q

\* The node's end is gone.
LEMMA ReactorGone ==
    ASSUME NEW l, NEW r, StreamInv(l, r)
    PROVE  StreamInv(l, NoReactor) /\ Ready(NoReactor)
  BY DEF StreamInv, Ready, NoReactor, ReactorRecord

\* A command is written to a stream that is ready.
LEMMA CommandWritten ==
    ASSUME StreamsInv, CallTypes, Holding, NEW n \in Nodes, NEW s \in Slots, NEW f \in Calls,
           Ready(reactor[n][s]), UNCHANGED link, reactor' = Written(n, s, f)
    PROVE  StreamsInv'
  <1>0. StreamTypes /\ StreamInv(link[n][s], reactor[n][s])
    BY DEF StreamsInv
  <1>1. CASE /\ reactor[n][s].pc # "none"
             /\ reactor' = [reactor EXCEPT ![n][s] = [reactor[n][s] EXCEPT !.up = @ \cup {f}]]
    <2> DEFINE r == [reactor[n][s] EXCEPT !.up = reactor[n][s].up \cup {f}]
    <2>1. reactor[n][s].pc = "open" /\ reactor[n][s].up \cup {f} \in SUBSET Calls
      BY <1>0, <1>1 DEF Ready, StreamInv, ReactorRecord
    <2>2. StreamInv(link[n][s], r) /\ Ready(r)
      BY <1>0, <2>1, ReactorHolds
    <2>3. reactor' = [reactor EXCEPT ![n][s] = r]
      BY <1>1
    <2> HIDE DEF r
    <2> QED
      BY <2>2, <2>3, StreamMoves
  <1>2. CASE reactor' = reactor
    BY <1>2, <1>0, StreamMoves
  <1> QED
    BY <1>0, <1>1, <1>2, WrittenAt

\* The node says something else than that it has registered the stream.
LEMMA FrameSent ==
    ASSUME StreamsInv, CallTypes, Holding, NEW n \in Nodes, NEW s \in Slots,
           NEW frame \in Calls \cup {"rejected", "drain"},
           UNCHANGED reactor, link' = Sent(n, s, frame)
    PROVE  StreamsInv'
  <1>0. StreamTypes /\ StreamInv(link[n][s], reactor[n][s])
    BY DEF StreamsInv
  <1>1. CASE /\ link[n][s].pc = "open"
             /\ link' = [link EXCEPT ![n][s] = Pushed(link[n][s], frame)]
    <2>1. StreamInv(Pushed(link[n][s], frame), reactor[n][s])
      BY <1>0, <1>1, PushStream
    <2> QED
      BY <2>1, <1>1, StreamMoves
  <1>2. CASE link' = link
    BY <1>2, <1>0, StreamMoves
  <1> QED
    BY <1>0, <1>1, <1>2, SentAt

\* StartLink puts an unregistered stream on an object that nobody holds.
LEMMA StreamStarts ==
    ASSUME StreamsInv, CallTypes, NEW n \in Nodes, StartLink(n), UNCHANGED call
    PROVE  StreamsInv'
  <1>0. StreamTypes
    BY DEF StreamsInv
  <1> DEFINE fresh == [FreeLink EXCEPT !.pc = "open", !.stopped = FALSE]
             new == [pc |-> "new", up |-> {}]
             row(s) == [t \in Slots |-> IF t = s THEN fresh
                                        ELSE IF t = links[n] THEN Stopped(link[n][t]) ELSE link[n][t]]
  <1>1. PICK s \in Slots :
            /\ Free(n, s)
            /\ link' = [link EXCEPT ![n] = row(s)]
            /\ reactor' = [reactor EXCEPT ![n][s] = new]
    BY DEF StartLink
  <1>2. fresh \in LinkRecord /\ fresh.pc = "open" /\ fresh.down = <<>> /\ fresh.healthy = FALSE
    BY FreeFields
  <1>3. new \in ReactorRecord /\ new.pc = "new" /\ new.up = {}
    BY DEF ReactorRecord
  <1> HIDE DEF fresh, new
  <1>4. StreamInv(fresh, new)
    BY <1>2, <1>3, Untold DEF StreamInv
  <1>5. \A t \in Slots : /\ link[n][t] \in LinkRecord /\ Stopped(link[n][t]) \in LinkRecord
                         /\ StreamInv(link[n][t], reactor[n][t])
                         /\ StreamInv(Stopped(link[n][t]), reactor[n][t])
    BY <1>0, StoppedFields, StopStream DEF StreamsInv, StreamTypes
  <1>6. row(s) \in [Slots -> LinkRecord]
    BY <1>2, <1>5
  <1>7. row(s)[s] = fresh /\ \A t \in Slots \ {s} : row(s)[t] \in {link[n][t], Stopped(link[n][t])}
    OBVIOUS
  <1> HIDE DEF row
  <1>8. /\ link' \in [Nodes -> [Slots -> LinkRecord]] /\ link'[n] = row(s)
        /\ \A m \in Nodes \ {n} : link'[m] = link[m]
    BY <1>0, <1>1, <1>6 DEF StreamTypes
  <1>9. /\ reactor' \in [Nodes -> [Slots -> ReactorRecord]] /\ reactor'[n][s] = new
        /\ \A m \in Nodes, t \in Slots : (m # n \/ t # s) => reactor'[m][t] = reactor[m][t]
    BY SMT, <1>0, <1>1, <1>3, TableAt DEF StreamTypes
  <1>10. ASSUME NEW m \in Nodes, NEW t \in Slots PROVE StreamInv(link'[m][t], reactor'[m][t])
    <2>1. CASE m # n
      BY <2>1, <1>8, <1>9 DEF StreamsInv
    <2>2. CASE m = n /\ t # s
      BY <2>2, <1>5, <1>7, <1>8, <1>9
    <2>3. CASE m = n /\ t = s
      BY <2>3, <1>4, <1>7, <1>8, <1>9
    <2> QED
      BY <2>1, <2>2, <2>3
  <1>11. ASSUME NEW f \in Calls, call[f].pc \in {"selected", "pending"}
         PROVE  Ready(reactor'[call[f].node][call[f].slot])
    <2>1. /\ call[f].node \in Nodes /\ call[f].slot \in Slots
          /\ call[f].node # n \/ call[f].slot # s
      BY <1>1, <1>11 DEF CallTypes, Free
    <2> QED
      BY <2>1, <1>9, <1>11 DEF StreamsInv
  <1> QED
    BY <1>8, <1>9, <1>10, <1>11 DEF StreamsInv, StreamTypes

\* The gateway's steps touch nothing at the nodes but the commands on a stream.
LEMMA GatewayLeavesNodes ==
    ASSUME GatewaySteps
    PROVE  UNCHANGED <<registered, running, runs>>
  <1>1. ASSUME NEW f \in Calls, ForwardPending(f) \/ ForwardEnqueue(f)
        PROVE  UNCHANGED <<registered, running, runs>>
    BY <1>1 DEF ForwardPending, ForwardEnqueue, nodeVars
  <1>2. ASSUME NEW i \in Ids, ExpirePending(i)
        PROVE  UNCHANGED <<registered, running, runs>>
    BY <1>2 DEF ExpirePending, nodeVars
  <1>3. ASSUME NEW n \in Nodes,
               IdleStop(n) \/ RetrySend(n) \/ ArmReconnect(n) \/ Reconnect(n) \/ StartMissing(n)
        PROVE  UNCHANGED <<registered, running, runs>>
    BY <1>3 DEF IdleStop, RetrySend, ArmReconnect, Reconnect, StartMissing, nodeVars
  <1>4. ASSUME NEW n \in Nodes, NEW i \in Ids, RetryTake(n, i)
        PROVE  UNCHANGED <<registered, running, runs>>
    BY <1>4 DEF RetryTake, nodeVars
  <1>5. ASSUME NEW n \in Nodes, NEW s \in Slots,
               \/ ReadRegisterResult(n, s) \/ ReadDrainNotice(n, s)
               \/ ReadCommandResult(n, s) \/ OnLinkDone(n, s)
        PROVE  UNCHANGED <<registered, running, runs>>
    BY <1>5 DEF ReadRegisterResult, ReadDrainNotice, ReadCommandResult, OnLinkDone, nodeVars
  <1> QED
    BY <1>1, <1>2, <1>3, <1>4, <1>5 DEF GatewaySteps

\* The types of what the nodes and RetryPending keep.
LEMMA NodeTypesStep ==
    ASSUME CallInv, NodeTypes, [Next]_vars
    PROVE  NodeTypes'
  <1>0. /\ \A n \in Nodes : retry[n] \in RetryRecord
        /\ \A i \in Ids : pending[i] # NoPending => pending[i].call \in Calls
    BY EntryFields DEF NodeTypes, CallInv, CallTypes
  <1>1. registered' \in [Nodes -> Slots \cup {NoOne}]
    <2>1. CASE UNCHANGED registered
      BY <2>1 DEF NodeTypes
    <2>2. ASSUME NEW n \in Nodes, NEW s \in Slots, Register(n, s) \/ ReactorDone(n, s)
          PROVE  registered' \in [Nodes -> Slots \cup {NoOne}]
      BY <2>2 DEF NodeTypes, Register, ReactorDone
    <2>3. ASSUME NEW n \in Nodes, NodeExit(n)
          PROVE  registered' \in [Nodes -> Slots \cup {NoOne}]
      BY <2>3 DEF NodeTypes, NodeExit
    <2>4. CASE GatewaySteps
      BY <2>4, <2>1, GatewayLeavesNodes
    <2>5. CASE NodeSteps
      BY SMT, <2>5, <2>1, <2>2 DEF NodeSteps, NodeCheck, NodeRegistered, HandleCommand, Execute
    <2>6. CASE StopLinks \/ StopPending \/ \E f \in Calls : ForwardSelect(f)
      BY <2>6, <2>1 DEF StopLinks, StopPending, ForwardSelect, nodeVars
    <2>7. CASE \E n \in Nodes : DrainAll(n) \/ NodeExit(n) \/ \E s \in Slots : OnDone(n, s)
      BY <2>7, <2>1, <2>3 DEF DrainAll, OnDone, nodeVars
    <2>8. CASE UNCHANGED vars \/ \E want \in SUBSET Nodes : ApplyTopology(want)
      BY <2>8, <2>1 DEF vars, nodeVars, ApplyTopology
    <2> QED
      BY <2>4, <2>5, <2>6, <2>7, <2>8 DEF Next
  <1>2. running' \subseteq [call : Calls, node : Nodes, slot : Slots]
    <2>1. CASE running' \subseteq running
      BY <2>1 DEF NodeTypes
    <2>2. ASSUME NEW n \in Nodes, NEW s \in Slots, NEW f \in Calls, HandleCommand(n, s, f)
          PROVE  running' \subseteq [call : Calls, node : Nodes, slot : Slots]
      BY SMT, <2>2 DEF NodeTypes, HandleCommand
    <2>4. CASE GatewaySteps
      BY <2>4, <2>1, GatewayLeavesNodes
    <2>5. CASE NodeSteps
      BY <2>5, <2>1, <2>2 DEF NodeSteps, NodeCheck, Register, NodeRegistered, ReactorDone, Execute
    <2>6. CASE StopLinks \/ StopPending \/ \E f \in Calls : ForwardSelect(f)
      BY <2>6, <2>1 DEF StopLinks, StopPending, ForwardSelect, nodeVars
    <2>7. CASE \E n \in Nodes : DrainAll(n) \/ NodeExit(n) \/ \E s \in Slots : OnDone(n, s)
      BY <2>7, <2>1 DEF DrainAll, NodeExit, OnDone, nodeVars
    <2>8. CASE UNCHANGED vars \/ \E want \in SUBSET Nodes : ApplyTopology(want)
      BY <2>8, <2>1 DEF vars, nodeVars, ApplyTopology
    <2> QED
      BY <2>4, <2>5, <2>6, <2>7, <2>8 DEF Next
  <1>3. retry' \in [Nodes -> RetryRecord]
    <2>0. retry \in [Nodes -> RetryRecord]
      BY DEF NodeTypes
    <2>1. CASE UNCHANGED retry
      BY <2>0, <2>1
    <2>2. ASSUME NEW n \in Nodes, NEW e \in RetryRecord, retry' = [retry EXCEPT ![n] = e]
          PROVE  retry' \in [Nodes -> RetryRecord]
      BY <2>0, <2>2
    <2>3. ASSUME NEW n \in Nodes, NEW s \in Slots, OnLinkDone(n, s)
          PROVE  retry' \in [Nodes -> RetryRecord]
      <3> DEFINE e == [todo |-> {i \in Ids : pending[i].node = n}, taken |-> NoOne, slot |-> s]
      <3>1. e \in RetryRecord
        BY DEF RetryRecord
      <3>2. retry' = [retry EXCEPT ![n] = e] \/ UNCHANGED retry
        BY <2>3 DEF OnLinkDone
      <3> HIDE DEF e
      <3> QED
        BY <3>1, <3>2, <2>1, <2>2
    <2>4. ASSUME NEW n \in Nodes, ArmReconnect(n)
          PROVE  retry' \in [Nodes -> RetryRecord]
      <3>1. NoRetry \in RetryRecord
        BY DEF NoRetry, RetryRecord
      <3> QED
        BY <3>1, <2>4, <2>2 DEF ArmReconnect
    <2>5. ASSUME NEW n \in Nodes, RetrySend(n)
          PROVE  retry' \in [Nodes -> RetryRecord]
      BY <2>5, <2>0 DEF RetrySend, RetryRecord
    <2>6. ASSUME NEW n \in Nodes, NEW i \in Ids, RetryTake(n, i)
          PROVE  retry' \in [Nodes -> RetryRecord]
      <3>1. CASE retry' = [retry EXCEPT ![n].todo = @ \ {i}]
        BY <3>1, <2>0 DEF RetryRecord
      <3>2. CASE /\ pending[i] # NoPending
                 /\ retry' = [retry EXCEPT ![n].todo = @ \ {i}, ![n].taken = pending[i].call]
        BY ZenonT(30), <3>2, <1>0, <2>0 DEF RetryRecord
      <3> QED
        BY <3>1, <3>2, <2>6 DEF RetryTake
    <2>7. CASE GatewaySteps
      BY ZenonT(30), <2>7, <2>1, <2>3, <2>4, <2>5, <2>6
         DEF GatewaySteps, ForwardPending, ForwardEnqueue, ExpirePending, IdleStop,
             Reconnect, StartMissing, ReadRegisterResult, ReadDrainNotice,
             ReadCommandResult, gatewayVars
    <2>8. CASE NodeSteps
      BY SMT, <2>8, <2>1 DEF NodeSteps, NodeCheck, Register, NodeRegistered, ReactorDone, HandleCommand,
                        Execute, gatewayVars
    <2>9. CASE StopLinks \/ StopPending \/ \E f \in Calls : ForwardSelect(f)
      BY <2>9, <2>1 DEF StopLinks, StopPending, ForwardSelect
    <2>10. CASE \E n \in Nodes : DrainAll(n) \/ NodeExit(n) \/ \E s \in Slots : OnDone(n, s)
      BY <2>10, <2>1 DEF DrainAll, NodeExit, OnDone, gatewayVars
    <2>11. CASE UNCHANGED vars \/ \E want \in SUBSET Nodes : ApplyTopology(want)
      BY <2>11, <2>1 DEF vars, gatewayVars, ApplyTopology
    <2> QED
      BY <2>7, <2>8, <2>9, <2>10, <2>11 DEF Next
  <1> QED
    BY <1>1, <1>2, <1>3 DEF NodeTypes

\* The inductive step for the streams.
LEMMA StreamsStep ==
    ASSUME CallInv, NodeTypes, StreamsInv, [Next]_vars
    PROVE  StreamsInv'
  <1>0. /\ CallTypes /\ StreamTypes
        /\ \A n \in Nodes, s \in Slots : /\ StreamInv(link[n][s], reactor[n][s])
                                         /\ link[n][s] \in LinkRecord
        /\ \A n \in Nodes : links[n] \in Slots \cup {NoOne}
    BY DEF CallInv, CallTypes, StreamsInv, StreamInv
  <1>a. ASSUME UNCHANGED call PROVE Holding
    BY <1>a DEF Holding
  <1>b. ASSUME UNCHANGED <<link, reactor, call>> PROVE StreamsInv'
    BY <1>b DEF StreamsInv, StreamTypes
  <1>c. ASSUME NEW n \in Nodes, NEW s \in Slots, NEW l, UNCHANGED <<reactor, call>>,
               StreamInv(l, reactor[n][s]), link' = [link EXCEPT ![n][s] = l]
        PROVE  StreamsInv'
    BY <1>c, <1>a, <1>0, StreamMoves
  <1>d. ASSUME NEW n \in SelectLink(NoOne) \cup UNION {SelectLink(m) : m \in Nodes}
        PROVE  n \in Nodes /\ links[n] \in Slots /\ Ready(reactor[n][links[n]])
    <2>1. n \in Nodes /\ links[n] \in Slots /\ link[n][links[n]].healthy
      BY <1>d, <1>0 DEF SelectLink
    <2>2. link[n][links[n]].healthy = TRUE
      BY <2>1, <1>0 DEF LinkRecord
    <2> QED
      BY <2>1, <2>2, <1>0 DEF StreamInv, Told
  <1>e. ASSUME NEW f \in Calls, NEW pc, call' = [call EXCEPT ![f].pc = pc],
               pc \in {"pending", "returned", "refused"}, pc = "pending" => call[f].pc = "selected"
        PROVE  Holding
    <2>1. /\ call'[f].pc = pc /\ call'[f].node = call[f].node /\ call'[f].slot = call[f].slot
          /\ \A g \in Calls \ {f} : call'[g] = call[g]
      BY <1>e, <1>0, CallAt
    <2> QED
      BY <1>e, <2>1 DEF Holding
  <1>f. ASSUME UNCHANGED <<link, reactor>>, Holding PROVE StreamsInv'
    BY <1>f, <1>0, StreamsMove DEF StreamTypes
  <1>1. ASSUME NEW f \in Calls, ForwardSelect(f) PROVE StreamsInv'
    <2>0. UNCHANGED <<link, reactor>>
      BY <1>1 DEF ForwardSelect, nodeVars
    <2>1. CASE \E n \in SelectLink(NoOne) :
                 call' = [call EXCEPT ![f] = [pc |-> "selected", node |-> n, slot |-> links[n]]]
      <3>1. PICK n \in SelectLink(NoOne) :
                 call' = [call EXCEPT ![f] = [pc |-> "selected", node |-> n, slot |-> links[n]]]
        BY <2>1
      <3>2. Ready(reactor[n][links[n]])
        BY <1>d
      <3>3. /\ call'[f].node = n /\ call'[f].slot = links[n]
            /\ \A g \in Calls \ {f} : call'[g] = call[g]
        BY <3>1, <1>0 DEF CallTypes
      <3> QED
        BY <2>0, <3>2, <3>3 DEF StreamsInv, StreamTypes
    <2>2. CASE call' = [call EXCEPT ![f].pc = "refused"]
      BY <2>0, <2>2, <1>e, <1>f
    <2> QED
      BY <1>1, <2>1, <2>2 DEF ForwardSelect
  <1>2. ASSUME NEW f \in Calls, ForwardPending(f) PROVE StreamsInv'
    <2>1. UNCHANGED <<link, reactor>> /\ call[f].pc = "selected"
      BY <1>2 DEF ForwardPending, nodeVars
    <2>2. \/ call' = [call EXCEPT ![f].pc = "refused"] \/ call' = [call EXCEPT ![f].pc = "pending"]
      BY <1>2 DEF ForwardPending
    <2> QED
      BY <2>1, <2>2, <1>e, <1>f
  <1>3. ASSUME NEW f \in Calls, ForwardEnqueue(f) PROVE StreamsInv'
    <2>1. UNCHANGED link /\ call[f].pc = "pending" /\ call' = [call EXCEPT ![f].pc = "returned"]
      BY <1>3 DEF ForwardEnqueue
    <2>2. Holding
      BY <2>1, <1>e
    <2>3. /\ call[f].node \in Nodes /\ call[f].slot \in Slots
          /\ Ready(reactor[call[f].node][call[f].slot])
      BY <2>1, <1>0 DEF CallTypes, StreamsInv
    <2>4. CASE reactor' = Written(call[f].node, call[f].slot, f)
      BY <2>1, <2>2, <2>3, <2>4, <1>0, CommandWritten
    <2>5. CASE UNCHANGED reactor
      BY <2>1, <2>2, <2>5, <1>f
    <2> QED
      BY <1>3, <2>4, <2>5 DEF ForwardEnqueue
  <1>4. ASSUME NEW n \in Nodes, IdleStop(n) PROVE StreamsInv'
    <2>1. /\ links[n] \in Slots /\ UNCHANGED <<reactor, call>>
          /\ link' = [link EXCEPT ![n][links[n]] = Stopped(link[n][links[n]])]
      BY <1>4, <1>0 DEF IdleStop, nodeVars, gatewayVars
    <2>2. StreamInv(Stopped(link[n][links[n]]), reactor[n][links[n]])
      BY <2>1, <1>0, StopStream
    <2> QED
      BY <2>1, <2>2, <1>c
  <1>5. ASSUME NEW n \in Nodes, RetrySend(n) PROVE StreamsInv'
    <2> DEFINE f == retry[n].taken
    <2>1. UNCHANGED <<link, call>> /\ f # NoOne
      BY <1>5 DEF RetrySend
    <2>2. f \in Calls
      BY <2>1 DEF NodeTypes, RetryRecord
    <2>3. CASE \E m \in SelectLink(n) : reactor' = Written(m, links[m], f)
      <3>1. PICK m \in SelectLink(n) : reactor' = Written(m, links[m], f)
        BY <2>3
      <3>2. m \in Nodes /\ links[m] \in Slots /\ Ready(reactor[m][links[m]])
        BY <1>d
      <3> QED
        BY <3>1, <3>2, <2>1, <2>2, <1>a, <1>0, CommandWritten
    <2>4. CASE UNCHANGED reactor
      BY <2>1, <2>4, <1>b
    <2> QED
      BY <1>5, <2>3, <2>4 DEF RetrySend
  <1>6. ASSUME NEW n \in Nodes, Reconnect(n) \/ StartMissing(n) PROVE StreamsInv'
    <2>1. UNCHANGED call /\ (StartLink(n) \/ UNCHANGED <<link, reactor>>)
      BY <1>6 DEF Reconnect, StartMissing
    <2> QED
      BY <2>1, <1>b, <1>0, StreamStarts
  <1>7. ASSUME NEW n \in Nodes, NEW s \in Slots, ReadRegisterResult(n, s) PROVE StreamsInv'
    <2> DEFINE l == link[n][s]
               q == [Popped(l) EXCEPT !.healthy = Head(l.down) = "accepted"]
    <2>1. UNCHANGED <<reactor, call>> /\ l.pc = "open" /\ l.down # <<>>
      BY <1>7 DEF ReadRegisterResult, Reads, nodeVars, gatewayVars
    <2>2. StreamInv(q, reactor[n][s])
      BY <2>1, <1>0, ReadStream
    <2>3. /\ Consumed(n, s) = [link EXCEPT ![n][s] = Popped(l)]
          /\ link' = [Consumed(n, s) EXCEPT ![n][s].healthy = Head(l.down) = "accepted"]
      BY <1>7 DEF ReadRegisterResult, Consumed, Popped
    <2>4. link' = [link EXCEPT ![n][s] = q]
      <3> DEFINE c == [link EXCEPT ![n][s] = Popped(l)]
      <3>1. Popped(l) \in LinkRecord
        BY <2>1, <1>0, PoppedFields
      <3>2. c[n][s] = Popped(l)
        BY SMT, <3>1, <1>0, TableAt DEF StreamTypes
      <3>3. link' = [c EXCEPT ![n][s] = [c[n][s] EXCEPT !.healthy = Head(l.down) = "accepted"]]
        BY <2>3
      <3>4. link' = [c EXCEPT ![n][s] = q]
        BY <3>2, <3>3
      <3> DEFINE row == [link[n] EXCEPT ![s] = Popped(l)]
      <3>5. /\ [row EXCEPT ![s] = q] = [link[n] EXCEPT ![s] = q]
            /\ c = [link EXCEPT ![n] = row]
        BY <1>0 DEF StreamTypes
      <3> HIDE DEF q, row, c
      <3>6. c[n] = row /\ \A v : [c EXCEPT ![n] = v] = [link EXCEPT ![n] = v]
        BY <3>5, <1>0 DEF StreamTypes
      <3> QED
        BY <3>4, <3>5, <3>6
    <2> HIDE DEF q
    <2> QED
      BY <2>1, <2>2, <2>4, <1>c
  <1>8. ASSUME NEW n \in Nodes, NEW s \in Slots, ReadCommandResult(n, s) PROVE StreamsInv'
    <2>1. /\ UNCHANGED <<reactor, call>> /\ link[n][s].down # <<>>
          /\ link' = [link EXCEPT ![n][s] = Popped(link[n][s])]
      BY <1>8 DEF ReadCommandResult, Reads, Consumed, Popped, nodeVars
    <2>2. StreamInv(Popped(link[n][s]), reactor[n][s])
      BY <2>1, <1>0, PopStream
    <2> QED
      BY <2>1, <2>2, <1>c
  <1>9. ASSUME NEW n \in Nodes, NEW s \in Slots, ReadDrainNotice(n, s) PROVE StreamsInv'
    <2> DEFINE popped == [link EXCEPT ![n][s] = Popped(link[n][s])]
    <2>1. /\ UNCHANGED <<reactor, call>> /\ link[n][s].down # <<>>
          /\ Consumed(n, s) = popped
      BY <1>9 DEF ReadDrainNotice, Reads, Consumed, Popped, nodeVars, gatewayVars
    <2>2. StreamInv(Popped(link[n][s]), reactor[n][s])
      BY <2>1, <1>0, PopStream
    <2>3. CASE link' = popped
      BY <2>1, <2>2, <2>3, <1>c
    <2>4. CASE links[n] # NoOne /\ link' = [popped EXCEPT ![n][links[n]] = Stopped(@)]
      <3>1. Popped(link[n][s]) \in LinkRecord
        BY <2>2 DEF StreamInv
      <3>2. /\ popped \in [Nodes -> [Slots -> LinkRecord]] /\ popped[n][s] = Popped(link[n][s])
            /\ \A m \in Nodes, t \in Slots : (m # n \/ t # s) => popped[m][t] = link[m][t]
        BY SMT, <3>1, <1>0, TableAt DEF StreamTypes
      <3>3. \A m \in Nodes, t \in Slots : StreamInv(popped[m][t], reactor[m][t])
        BY <3>2, <2>2, <1>0
      <3>4. /\ links[n] \in Slots /\ popped[n][links[n]] \in LinkRecord
            /\ Stopped(popped[n][links[n]]) \in LinkRecord
        BY SMT, <2>4, <3>2, <1>0, StoppedFields
      <3>5. link' = [popped EXCEPT ![n][links[n]] = Stopped(popped[n][links[n]])]
        BY <2>4
      <3> HIDE DEF popped
      <3>6. /\ link' \in [Nodes -> [Slots -> LinkRecord]]
            /\ link'[n][links[n]] = Stopped(popped[n][links[n]])
            /\ \A m \in Nodes, t \in Slots : (m # n \/ t # links[n]) => link'[m][t] = popped[m][t]
        BY SMT, <3>2, <3>4, <3>5, TableAt
      <3>7. \A m \in Nodes, t \in Slots : StreamInv(link'[m][t], reactor[m][t])
        BY SMT, <3>3, <3>4, <3>6, StopStream
      <3>8. StreamTypes'
        BY <3>6, <2>1, <1>0 DEF StreamTypes
      <3> QED
        BY <3>7, <3>8, <2>1, <1>a, <1>0, StreamsMove
    <2> QED
      BY <1>9, <2>1, <2>3, <2>4 DEF ReadDrainNotice
  <1>10. ASSUME NEW n \in Nodes, NEW s \in Slots, OnLinkDone(n, s) PROVE StreamsInv'
    <2>1. UNCHANGED <<reactor, call>> /\ link' = [link EXCEPT ![n][s] = FreeLink]
      BY <1>10 DEF OnLinkDone, nodeVars
    <2>2. StreamInv(FreeLink, reactor[n][s])
      BY <1>0, FreeStream
    <2> QED
      BY <2>1, <2>2, <1>c
  <1>11. ASSUME NEW n \in Nodes, NEW s \in Slots, OnDone(n, s) PROVE StreamsInv'
    <2>1. UNCHANGED <<reactor, call>> /\ link' = [link EXCEPT ![n][s] = Closed(link[n][s])]
      BY <1>11 DEF OnDone, nodeVars, gatewayVars
    <2>2. StreamInv(Closed(link[n][s]), reactor[n][s])
      BY <1>0, CloseStream
    <2> QED
      BY <2>1, <2>2, <1>c
  <1>12. ASSUME NEW n \in Nodes, NEW s \in Slots, NodeCheck(n, s) PROVE StreamsInv'
    <2>1. UNCHANGED call /\ ~Ready(reactor[n][s])
      BY <1>12 DEF NodeCheck, gatewayVars, Ready
    <2>2. \A pc \in {"valid", "refused"} : StreamInv(link[n][s], [reactor[n][s] EXCEPT !.pc = pc])
      BY <2>1, <1>0, ReactorMoves
    <2>3. CASE reactor' = [reactor EXCEPT ![n][s].pc = "valid"] /\ UNCHANGED link
      <3> DEFINE r == [reactor[n][s] EXCEPT !.pc = "valid"]
      <3>1. StreamInv(link[n][s], r) /\ reactor' = [reactor EXCEPT ![n][s] = r]
        BY <2>2, <2>3
      <3> HIDE DEF r
      <3> QED
        BY <3>1, <2>1, <2>3, <1>a, <1>0, StreamMoves
    <2>4. CASE reactor' = [reactor EXCEPT ![n][s].pc = "refused"] /\ link' = Sent(n, s, "rejected")
      <3> DEFINE r == [reactor[n][s] EXCEPT !.pc = "refused"]
      <3>1. StreamInv(link[n][s], r) /\ reactor' = [reactor EXCEPT ![n][s] = r]
        BY <2>2, <2>4
      <3> HIDE DEF r
      <3>2. CASE link' = link
        BY <3>1, <3>2, <2>1, <1>a, <1>0, StreamMoves
      <3>3. CASE /\ link[n][s].pc = "open"
                 /\ link' = [link EXCEPT ![n][s] = Pushed(link[n][s], "rejected")]
        <4>1. StreamInv(Pushed(link[n][s], "rejected"), r)
          BY <3>1, <3>3, PushStream
        <4> QED
          BY <4>1, <3>1, <3>3, <2>1, <1>a, <1>0, StreamMoves
      <3> QED
        BY <3>2, <3>3, <2>4, <1>0, SentAt
    <2> QED
      BY <1>12, <2>3, <2>4 DEF NodeCheck
  <1>13. ASSUME NEW n \in Nodes, NEW s \in Slots, Register(n, s) PROVE StreamsInv'
    <2>1. /\ UNCHANGED <<call, link>> /\ ~Ready(reactor[n][s])
          /\ reactor' = [reactor EXCEPT ![n][s].pc = "registering"]
      BY <1>13 DEF Register, gatewayVars, Ready
    <2>2. StreamInv(link[n][s], [reactor[n][s] EXCEPT !.pc = "registering"])
      BY <2>1, <1>0, ReactorMoves
    <2> QED
      BY <2>1, <2>2, <1>a, <1>0, StreamMoves
  <1>14. ASSUME NEW n \in Nodes, NEW s \in Slots, NodeRegistered(n, s) PROVE StreamsInv'
    <2> DEFINE r == [reactor[n][s] EXCEPT !.pc = "open"]
    <2>1. /\ UNCHANGED call /\ ~Ready(reactor[n][s]) /\ link' = Sent(n, s, "accepted")
          /\ reactor' = [reactor EXCEPT ![n][s] = r]
      BY <1>14 DEF NodeRegistered, gatewayVars, Ready
    <2>2. /\ Ready(r) /\ StreamInv(link[n][s], r)
          /\ link[n][s].pc = "open" => StreamInv(Pushed(link[n][s], "accepted"), r)
      BY <2>1, <1>0, ReactorOpens
    <2> HIDE DEF r
    <2>3. CASE link' = link
      BY <2>1, <2>2, <2>3, <1>a, <1>0, StreamMoves
    <2>4. CASE /\ link[n][s].pc = "open"
               /\ link' = [link EXCEPT ![n][s] = Pushed(link[n][s], "accepted")]
      BY <2>1, <2>2, <2>4, <1>a, <1>0, StreamMoves
    <2> QED
      BY <2>1, <2>3, <2>4, <1>0, SentAt
  <1>15. ASSUME NEW n \in Nodes, NEW s \in Slots, ReactorDone(n, s) PROVE StreamsInv'
    <2>1. UNCHANGED <<call, link>> /\ reactor' = [reactor EXCEPT ![n][s] = NoReactor]
      BY <1>15 DEF ReactorDone, gatewayVars
    <2>2. StreamInv(link[n][s], NoReactor) /\ Ready(NoReactor)
      BY <1>0, ReactorGone
    <2> QED
      BY <2>1, <2>2, <1>a, <1>0, StreamMoves
  <1>16. ASSUME NEW n \in Nodes, NEW s \in Slots, NEW f \in Calls, HandleCommand(n, s, f)
         PROVE  StreamsInv'
    <2> DEFINE up == reactor[n][s].up \ {f}
               r == [reactor[n][s] EXCEPT !.up = up]
    <2>1. /\ UNCHANGED call /\ reactor[n][s].pc = "open"
          /\ reactor' = [reactor EXCEPT ![n][s] = r]
          /\ link' = link \/ link' = Sent(n, s, f)
      BY <1>16 DEF HandleCommand, gatewayVars
    <2>2. up \in SUBSET Calls
      BY <1>0 DEF StreamTypes, ReactorRecord
    <2> HIDE DEF up
    <2>3. StreamInv(link[n][s], r) /\ Ready(r)
      BY <2>1, <2>2, <1>0, ReactorHolds
    <2> HIDE DEF r
    <2>4. CASE link' = link
      BY <2>1, <2>3, <2>4, <1>a, <1>0, StreamMoves
    <2>5. CASE /\ link[n][s].pc = "open"
               /\ link' = [link EXCEPT ![n][s] = Pushed(link[n][s], f)]
      <3>1. StreamInv(Pushed(link[n][s], f), r)
        BY <2>3, <2>5, PushStream
      <3> QED
        BY <3>1, <2>1, <2>3, <2>5, <1>a, <1>0, StreamMoves
    <2> QED
      BY <2>1, <2>4, <2>5, <1>0, SentAt
  <1>17. ASSUME NEW x \in running, Execute(x) PROVE StreamsInv'
    <2>1. /\ UNCHANGED <<call, reactor>>
          /\ link' = link \/ link' = Sent(x.node, x.slot, x.call)
      BY <1>17 DEF Execute, Reply, gatewayVars
    <2>2. x.node \in Nodes /\ x.slot \in Slots /\ x.call \in Calls
      BY DEF NodeTypes
    <2>3. CASE link' = Sent(x.node, x.slot, x.call)
      BY <2>1, <2>2, <2>3, <1>a, <1>0, FrameSent
    <2> QED
      BY <2>1, <2>3, <1>b
  <1>18. ASSUME NEW n \in Nodes, DrainAll(n) PROVE StreamsInv'
    <2>1. /\ UNCHANGED <<call, reactor>>
          /\ \/ link' = link
             \/ registered[n] # NoOne /\ link' = Sent(n, registered[n], "drain")
      BY <1>18 DEF DrainAll, gatewayVars
    <2>2. CASE registered[n] # NoOne /\ link' = Sent(n, registered[n], "drain")
      <3>1. registered[n] \in Slots
        BY <2>2 DEF NodeTypes
      <3> QED
        BY <2>1, <2>2, <3>1, <1>a, <1>0, FrameSent
    <2> QED
      BY <2>1, <2>2, <1>b
  <1>19. ASSUME NEW n \in Nodes, NodeExit(n) PROVE StreamsInv'
    <2>1. /\ UNCHANGED <<call, link>>
          /\ reactor' = [reactor EXCEPT ![n] = [s \in Slots |-> NoReactor]]
      BY <1>19 DEF NodeExit, gatewayVars
    <2>2. \A m \in Nodes, t \in Slots : StreamInv(link[m][t], NoReactor) /\ Ready(NoReactor)
      BY <1>0, ReactorGone
    <2>3. \A m \in Nodes, t \in Slots : reactor'[m][t] = IF m = n THEN NoReactor ELSE reactor[m][t]
      BY <2>1, <1>0 DEF StreamTypes
    <2>4. NoReactor \in ReactorRecord
      BY DEF NoReactor, ReactorRecord
    <2>5. StreamTypes'
      BY <2>1, <2>4, <1>0 DEF StreamTypes
    <2> QED
      BY SMT, <2>1, <2>2, <2>3, <2>5, <1>a, <1>0, StreamsMove
  <1>20. ASSUME UNCHANGED <<call, reactor>>,
                \/ \E want \in SUBSET Nodes :
                     link' = [n \in Nodes |-> [s \in Slots |->
                       IF n \notin want /\ links[n] = s THEN Stopped(link[n][s]) ELSE link[n][s]]]
                \/ link' = [n \in Nodes |-> [s \in Slots |->
                       IF links[n] = s THEN Stopped(link[n][s]) ELSE link[n][s]]]
         PROVE  StreamsInv'
    <2>1. \A m \in Nodes, t \in Slots : Stopped(link[m][t]) \in LinkRecord
      BY <1>0, StoppedFields
    <2>2. /\ link' \in [Nodes -> [Slots -> LinkRecord]]
          /\ \A m \in Nodes, t \in Slots : link'[m][t] \in {link[m][t], Stopped(link[m][t])}
      BY SMT, <2>1, <1>0, <1>20
    <2>3. \A m \in Nodes, t \in Slots : StreamInv(link'[m][t], reactor[m][t])
      BY SMT, <2>2, <1>0, StopStream
    <2> QED
      BY <2>2, <2>3, <1>20, <1>a, <1>0, StreamsMove DEF StreamTypes
  <1>21. CASE GatewaySteps
    BY <1>21, <1>2, <1>3, <1>4, <1>5, <1>6, <1>7, <1>8, <1>9, <1>10, <1>b
       DEF GatewaySteps, ExpirePending, ArmReconnect, RetryTake, nodeVars
  <1>22. CASE NodeSteps
    BY <1>22, <1>12, <1>13, <1>14, <1>15, <1>16, <1>17 DEF NodeSteps
  <1>23. CASE StopLinks
    BY <1>23, <1>20 DEF StopLinks, nodeVars
  <1>24. CASE \E want \in SUBSET Nodes : ApplyTopology(want)
    BY <1>24, <1>20 DEF ApplyTopology, nodeVars
  <1>25. CASE StopPending \/ UNCHANGED vars
    BY <1>25, <1>b DEF StopPending, vars, nodeVars, gatewayVars
  <1> QED
    BY <1>21, <1>22, <1>23, <1>24, <1>25, <1>1, <1>11, <1>18, <1>19 DEF Next

LinkInv == CallInv /\ NodeTypes /\ StreamsInv

\* All of the invariant holds initially.
LEMMA LinkInit == Init => LinkInv
  <1> SUFFICES ASSUME Init PROVE LinkInv
    OBVIOUS
  <1>1. NoRetry \in RetryRecord /\ FreeLink \in LinkRecord /\ NoReactor \in ReactorRecord
    BY FreeFields DEF NoRetry, RetryRecord, NoReactor, ReactorRecord
  <1>2. NodeTypes
    BY <1>1 DEF Init, NodeTypes
  <1>3. StreamInv(FreeLink, NoReactor)
    BY <1>1, FreeFields, Untold DEF StreamInv, NoReactor
  <1>4. \A n \in Nodes, s \in Slots : link[n][s] = FreeLink /\ reactor[n][s] = NoReactor
    BY DEF Init
  <1>5. \A f \in Calls : call[f].pc = "new"
    BY DEF Init, NewCall
  <1>6. StreamTypes
    BY <1>1 DEF Init, StreamTypes
  <1>7. StreamsInv
    BY <1>3, <1>4, <1>5, <1>6 DEF StreamsInv
  <1> QED
    BY <1>2, <1>7, CallInit DEF LinkInv

\* A command is only ever before a node that has registered the stream: Forward and
\* RetryPending choose a link only after its RegisterResult, and nobody who holds a
\* link can see its object taken for another stream.
THEOREM CommandsFollowRegistration == Spec => []CommandsAfterRegistration
  <1>1. LinkInv /\ [Next]_vars => LinkInv'
    BY CallStep, NodeTypesStep, StreamsStep DEF LinkInv
  <1>2. LinkInv => CommandsAfterRegistration
    BY DEF LinkInv, StreamsInv, StreamInv, CommandsAfterRegistration
  <1> QED
    BY LinkInit, <1>1, <1>2, PTL DEF Spec
=============================================================================
