------------------------- MODULE MessageRunsProofs --------------------------
(***************************************************************************)
(* How often a command is executed, for every set of calls, nodes, links   *)
(* and faults. The argument is a budget: a command that is executed, on a  *)
(* stream, with a worker or taken for a retry has been paid for by the     *)
(* call or by the attempt that RetryPending counted.                       *)
(***************************************************************************)
EXTENDS MessageLinkProofs, FiniteSetTheorems

\* Zenon is the default prover; a leaf with arithmetic or sequences cites SMT.
USE Zenon

\* The copies of command f: on streams, with workers, taken by a RetryPending that has
\* not sent it yet; and what may still become one: Forward has not come to the queue,
\* RetryPending has not counted an attempt.
Up(f) == {p \in Nodes \X Slots : f \in reactor[p[1]][p[2]].up}
Work(f) == {x \in running : x.call = f}
Taken(f) == {n \in Nodes : retry[n].taken = f}

Unsent(f) == call[f].pc \in {"new", "selected", "pending"}

Untaken(f) ==
    /\ f \in Retryable
    /\ \/ call[f].pc \in {"new", "selected"}
       \/ pending[RequestId[f]].call = f /\ pending[RequestId[f]].attempts = 0

One(b) == IF b THEN 1 ELSE 0

Copies(f) == Cardinality(Up(f)) + Cardinality(Work(f)) + Cardinality(Taken(f))

BudgetOf(f) ==
    /\ IsFiniteSet(Up(f)) /\ IsFiniteSet(Work(f)) /\ IsFiniteSet(Taken(f))
    /\ runs[f] \in Nat
    /\ Copies(f) + runs[f] + One(Unsent(f)) + One(Untaken(f)) <= 1 + One(f \in Retryable)

RunsInv == runs \in [Calls -> Nat] /\ \A f \in Calls : BudgetOf(f)

\* One is 0 or 1.
LEMMA OneNat == \A b \in BOOLEAN : One(b) \in {0, 1} /\ (b <=> One(b) = 1)
  BY SMT DEF One

\* A smaller set.
LEMMA Fewer ==
    ASSUME NEW S, NEW T, IsFiniteSet(S), T \subseteq S
    PROVE  /\ IsFiniteSet(T) /\ Cardinality(S) \in Nat /\ Cardinality(T) \in Nat
           /\ Cardinality(T) <= Cardinality(S)
  BY FS_Subset, FS_CardinalityType

\* An element less.
LEMMA OneLess ==
    ASSUME NEW S, NEW T, NEW x \in S, IsFiniteSet(S), T \subseteq S \ {x}
    PROVE  /\ IsFiniteSet(T) /\ Cardinality(S) \in Nat /\ Cardinality(T) \in Nat
           /\ Cardinality(T) + 1 <= Cardinality(S)
  <1>1. IsFiniteSet(S \ {x}) /\ Cardinality(S \ {x}) = Cardinality(S) - 1
    BY FS_RemoveElement
  <1>2. /\ IsFiniteSet(T) /\ Cardinality(T) \in Nat /\ Cardinality(S \ {x}) \in Nat
        /\ Cardinality(T) <= Cardinality(S \ {x})
    BY <1>1, Fewer
  <1>3. Cardinality(S) \in Nat
    BY FS_CardinalityType
  <1> QED
    BY SMT, <1>1, <1>2, <1>3

\* At most one element more.
LEMMA OneMore ==
    ASSUME NEW S, NEW T, NEW x, IsFiniteSet(S), T \subseteq S \cup {x}
    PROVE  /\ IsFiniteSet(T) /\ Cardinality(S) \in Nat /\ Cardinality(T) \in Nat
           /\ Cardinality(T) <= Cardinality(S) + 1
  <1>1. /\ IsFiniteSet(S \cup {x})
        /\ Cardinality(S \cup {x}) = IF x \in S THEN Cardinality(S) ELSE Cardinality(S) + 1
    BY FS_AddElement
  <1>2. /\ IsFiniteSet(T) /\ Cardinality(T) \in Nat /\ Cardinality(S \cup {x}) \in Nat
        /\ Cardinality(T) <= Cardinality(S \cup {x})
    BY <1>1, Fewer
  <1>3. Cardinality(S) \in Nat
    BY FS_CardinalityType
  <1> QED
    BY SMT, <1>1, <1>2, <1>3

\* Nothing is executed initially.
LEMMA RunsInit == Init => RunsInv
  <1>0. Init => runs \in [Calls -> Nat]
    BY SMT DEF Init
  <1> SUFFICES ASSUME Init, NEW f \in Calls PROVE BudgetOf(f)
    BY <1>0 DEF RunsInv
  <1>1. Up(f) = {}
    BY DEF Init, Up, NoReactor
  <1>2. Work(f) = {} /\ runs \in [Calls -> Nat] /\ runs[f] = 0
    BY DEF Init, Work
  <1>3. Taken(f) = {}
    BY NoOneAssumption DEF Init, Taken, NoRetry
  <1>4. Unsent(f) \in BOOLEAN /\ Untaken(f) \in BOOLEAN /\ (Untaken(f) => f \in Retryable)
    BY SMT DEF Unsent, Untaken
  <1>5. /\ One(Unsent(f)) \in {0, 1} /\ One(Untaken(f)) \in {0, 1} /\ One(f \in Retryable) \in {0, 1}
        /\ One(Untaken(f)) <= One(f \in Retryable)
    BY SMT, <1>4 DEF One
  <1>6. IsFiniteSet({}) /\ Cardinality({}) = 0
    BY FS_EmptySet
  <1> QED
    BY SMT, <1>1, <1>2, <1>3, <1>5, <1>6 DEF BudgetOf, Copies

\* No copy of f comes into being.
Quiet(f) ==
    /\ Up(f)' \subseteq Up(f) /\ Work(f)' \subseteq Work(f) /\ Taken(f)' \subseteq Taken(f)
    /\ Unsent(f)' => Unsent(f)
    /\ Untaken(f)' => Untaken(f)

\* The flags of a command, before and after a step.
LEMMA Flags ==
    ASSUME NEW f \in Calls
    PROVE  /\ One(Unsent(f)) \in {0, 1} /\ (Unsent(f) <=> One(Unsent(f)) = 1)
           /\ One(Untaken(f)) \in {0, 1} /\ (Untaken(f) <=> One(Untaken(f)) = 1)
           /\ One(f \in Retryable) \in {0, 1}
           /\ One(Unsent(f)') \in {0, 1} /\ (Unsent(f)' <=> One(Unsent(f)') = 1)
           /\ One(Untaken(f)') \in {0, 1} /\ (Untaken(f)' <=> One(Untaken(f)') = 1)
  <1>1. /\ Unsent(f) \in BOOLEAN /\ Untaken(f) \in BOOLEAN /\ (f \in Retryable) \in BOOLEAN
        /\ Unsent(f)' \in BOOLEAN /\ Untaken(f)' \in BOOLEAN
    BY SMT DEF Unsent, Untaken
  <1> QED
    BY <1>1, OneNat

\* From S to T, d elements more; from the condition a to b.
Grows(S, T, d) == IsFiniteSet(T) /\ Cardinality(T) <= Cardinality(S) + d
Turns(a, b, d) == One(b) <= One(a) + d

\* How far a finite set grows.
LEMMA GrowsBy ==
    ASSUME NEW S, NEW T, IsFiniteSet(S)
    PROVE  /\ T \subseteq S => Grows(S, T, 0)
           /\ (\E x : T \subseteq S \cup {x}) => Grows(S, T, 1)
           /\ (\E x \in S : T \subseteq S \ {x}) => Grows(S, T, -1)
  <1>1. ASSUME T \subseteq S PROVE Grows(S, T, 0)
    <2>1. /\ IsFiniteSet(T) /\ Cardinality(S) \in Nat /\ Cardinality(T) \in Nat
          /\ Cardinality(T) <= Cardinality(S)
      BY <1>1, Fewer
    <2> QED
      BY SMT, <2>1 DEF Grows
  <1>2. ASSUME NEW x, T \subseteq S \cup {x} PROVE Grows(S, T, 1)
    BY <1>2, OneMore DEF Grows
  <1>3. ASSUME NEW x \in S, T \subseteq S \ {x} PROVE Grows(S, T, -1)
    <2>1. /\ IsFiniteSet(T) /\ Cardinality(S) \in Nat /\ Cardinality(T) \in Nat
          /\ Cardinality(T) + 1 <= Cardinality(S)
      BY <1>3, OneLess
    <2> QED
      BY SMT, <2>1 DEF Grows
  <1> QED
    BY <1>1, <1>2, <1>3

\* How far a flag turns.
LEMMA TurnsBy ==
    ASSUME NEW f \in Calls
    PROVE  /\ (Unsent(f)' => Unsent(f)) => Turns(Unsent(f), Unsent(f)', 0)
           /\ (Unsent(f) /\ ~Unsent(f)') => Turns(Unsent(f), Unsent(f)', -1)
           /\ (Untaken(f)' => Untaken(f)) => Turns(Untaken(f), Untaken(f)', 0)
           /\ (Untaken(f) /\ ~Untaken(f)') => Turns(Untaken(f), Untaken(f)', -1)
  BY SMT, Flags DEF Turns

\* A step that trades copies of f.
LEMMA BudgetKept ==
    ASSUME NEW f \in Calls, BudgetOf(f), NEW d1 \in Int, NEW d2 \in Int, NEW d3 \in Int,
           NEW d4 \in Int, NEW d5 \in Int, NEW d6 \in Int, d1 + d2 + d3 + d4 + d5 + d6 <= 0,
           Grows(Up(f), Up(f)', d1), Grows(Work(f), Work(f)', d2), Grows(Taken(f), Taken(f)', d3),
           runs'[f] \in Nat, runs'[f] <= runs[f] + d4,
           Turns(Unsent(f), Unsent(f)', d5), Turns(Untaken(f), Untaken(f)', d6)
    PROVE  BudgetOf(f)'
  <1> DEFINE u == Cardinality(Up(f))  w == Cardinality(Work(f))  t == Cardinality(Taken(f))
             u2 == Cardinality(Up(f)')  w2 == Cardinality(Work(f)')  t2 == Cardinality(Taken(f)')
             a == One(Unsent(f))  b == One(Untaken(f))  a2 == One(Unsent(f)')  b2 == One(Untaken(f)')
             r == runs[f]  r2 == runs'[f]  c == One(f \in Retryable)
  <1>1. /\ u \in Nat /\ w \in Nat /\ t \in Nat /\ r \in Nat /\ r2 \in Nat
        /\ u2 \in Nat /\ w2 \in Nat /\ t2 \in Nat
    BY FS_CardinalityType DEF BudgetOf, Grows
  <1>2. u + w + t + r + a + b <= 1 + c
    BY DEF BudgetOf, Copies
  <1>3. /\ u2 <= u + d1 /\ w2 <= w + d2 /\ t2 <= t + d3 /\ r2 <= r + d4
        /\ a2 <= a + d5 /\ b2 <= b + d6
    BY DEF Grows, Turns
  <1>4. a \in {0, 1} /\ b \in {0, 1} /\ c \in {0, 1} /\ a2 \in {0, 1} /\ b2 \in {0, 1}
    BY Flags
  <1> HIDE DEF u, w, t, u2, w2, t2, a, b, a2, b2, r, r2, c
  <1>5. u2 + w2 + t2 + r2 + a2 + b2 <= 1 + c
    BY SMT, <1>1, <1>2, <1>3, <1>4
  <1> QED
    BY <1>5 DEF BudgetOf, Copies, One, Grows, u2, w2, t2, a2, b2, r2, c

\* A step that makes no copy of a command and executes none.
LEMMA QuietKept ==
    ASSUME NEW f \in Calls, BudgetOf(f), Quiet(f), runs'[f] = runs[f]
    PROVE  BudgetOf(f)'
  <1>1. /\ Grows(Up(f), Up(f)', 0) /\ Grows(Work(f), Work(f)', 0) /\ Grows(Taken(f), Taken(f)', 0)
        /\ Turns(Unsent(f), Unsent(f)', 0) /\ Turns(Untaken(f), Untaken(f)', 0)
    BY GrowsBy, TurnsBy DEF BudgetOf, Quiet
  <1>2. runs'[f] \in Nat /\ runs'[f] <= runs[f] + 0
    BY SMT DEF BudgetOf
  <1>3. 0 \in Int /\ 0 + 0 + 0 + 0 + 0 + 0 <= 0
    BY SMT
  <1> QED
    BY <1>1, <1>2, <1>3, BudgetKept

-----------------------------------------------------------------------------
(* What a step does to each kind of copy *)

\* Streams that lose frames.
LEMMA UpShrinks ==
    ASSUME NEW f, \A n \in Nodes, s \in Slots : reactor'[n][s].up \subseteq reactor[n][s].up
    PROVE  Up(f)' \subseteq Up(f)
  BY DEF Up

\* A stream that a command is written to.
LEMMA UpWritten ==
    ASSUME StreamTypes, NEW n \in Nodes, NEW s \in Slots, NEW g \in Calls, NEW f \in Calls,
           reactor' = Written(n, s, g)
    PROVE  /\ Up(f)' \subseteq Up(f) \cup {<<n, s>>}
           /\ f # g => Up(f)' \subseteq Up(f)
  <1>1. \A m \in Nodes, t \in Slots :
            /\ (m # n \/ t # s) => reactor'[m][t] = reactor[m][t]
            /\ reactor'[m][t].up \subseteq reactor[m][t].up \cup {g}
    <2>1. CASE reactor' = reactor
      BY <2>1
    <2>2. CASE reactor' = [reactor EXCEPT ![n][s] = [reactor[n][s] EXCEPT !.up = @ \cup {g}]]
      <3> DEFINE r == [reactor[n][s] EXCEPT !.up = reactor[n][s].up \cup {g}]
      <3>1. r \in ReactorRecord /\ r.up = reactor[n][s].up \cup {g}
        BY SMT DEF StreamTypes, ReactorRecord
      <3>2. reactor' = [reactor EXCEPT ![n][s] = r]
        BY <2>2
      <3> HIDE DEF r
      <3>3. /\ reactor'[n][s] = r
            /\ \A m \in Nodes, t \in Slots : (m # n \/ t # s) => reactor'[m][t] = reactor[m][t]
        BY SMT, <3>1, <3>2, TableAt DEF StreamTypes
      <3> QED
        BY <3>1, <3>3
    <2> QED
      BY <2>1, <2>2, WrittenAt
  <1> QED
    BY SMT, <1>1 DEF Up

\* Entries of pending go, or keep their command and its attempts.
PendingKept ==
    \A i \in Ids : \/ pending'[i] = NoPending
                   \/ pending'[i].call = pending[i].call /\ pending'[i].attempts = pending[i].attempts

\* An attempt that was counted stays counted.
LEMMA UntakenKept ==
    ASSUME NEW f \in Calls, PendingKept,
           call'[f].pc \in {"new", "selected"} => call[f].pc \in {"new", "selected"}
    PROVE  Untaken(f)' => Untaken(f)
  <1>1. RequestId[f] \in Ids /\ NoPending.call # f
    BY CallsAssumption, NoOneAssumption DEF NoPending
  <1> QED
    BY <1>1 DEF Untaken, PendingKept

\* An answer only removes an entry of pending_.
LEMMA AnswerShrinks ==
    ASSUME CallInv, NEW i \in Ids, Answer(i)
    PROVE  PendingKept
  BY DEF CallInv, CallTypes, Answer, PendingKept

\* A step that leaves the nodes and RetryPending alone and moves calls on.
LEMMA CallsQuiet ==
    ASSUME NEW f \in Calls, UNCHANGED <<reactor, running, retry>>, PendingKept,
           call'[f].pc \in {"new", "selected"} => call[f].pc \in {"new", "selected"},
           Unsent(f)' => Unsent(f)
    PROVE  Quiet(f)
  <1>1. Up(f)' \subseteq Up(f)
    BY DEF Up
  <1>2. Work(f)' \subseteq Work(f)
    BY DEF Work
  <1>3. Taken(f)' \subseteq Taken(f)
    BY DEF Taken
  <1> QED
    BY <1>1, <1>2, <1>3, UntakenKept DEF Quiet

\* A step that leaves the calls alone and adds to nothing.
LEMMA NodesQuiet ==
    ASSUME NEW f \in Calls, UNCHANGED <<call, pending>>, Up(f)' \subseteq Up(f),
           running' \subseteq running, Taken(f)' \subseteq Taken(f)
    PROVE  Quiet(f)
  <1>1. Work(f)' \subseteq Work(f)
    BY DEF Work
  <1>2. (Unsent(f)' => Unsent(f)) /\ (Untaken(f)' => Untaken(f))
    BY DEF Unsent, Untaken
  <1> QED
    BY <1>1, <1>2 DEF Quiet

\* Commands of one stream.
LEMMA ReactorAt ==
    ASSUME StreamTypes, NEW n \in Nodes, NEW s \in Slots, NEW r \in ReactorRecord,
           r.up \subseteq reactor[n][s].up, reactor' = [reactor EXCEPT ![n][s] = r]
    PROVE  \A m \in Nodes, t \in Slots : reactor'[m][t].up \subseteq reactor[m][t].up
  <1>1. /\ reactor'[n][s] = r
        /\ \A m \in Nodes, t \in Slots : (m # n \/ t # s) => reactor'[m][t] = reactor[m][t]
    BY SMT, TableAt DEF StreamTypes
  <1> QED
    BY <1>1

\* The node's steps other than HandleCommand and Execute, and StartLink: no command more
\* on any stream.
LEMMA ReactorsShrink ==
    ASSUME LinkInv, NEW n \in Nodes,
           \/ StartLink(n) \/ NodeExit(n)
           \/ \E s \in Slots : NodeCheck(n, s) \/ Register(n, s) \/ NodeRegistered(n, s) \/ ReactorDone(n, s)
    PROVE  \A m \in Nodes, t \in Slots : reactor'[m][t].up \subseteq reactor[m][t].up
  <1>0. StreamTypes
    BY DEF LinkInv, StreamsInv
  <1>1. CASE StartLink(n)
    <2>1. [pc |-> "new", up |-> {}] \in ReactorRecord /\ [pc |-> "new", up |-> {}].up = {}
      BY DEF ReactorRecord
    <2> QED
      BY SMT, <1>1, <2>1, <1>0, ReactorAt DEF StartLink
  <1>2. CASE NodeExit(n)
    BY <1>2, <1>0 DEF NodeExit, StreamTypes, NoReactor
  <1>3. ASSUME NEW s \in Slots, NEW pc \in {"valid", "refused", "registering", "open"},
               reactor' = [reactor EXCEPT ![n][s].pc = pc]
        PROVE  \A m \in Nodes, t \in Slots : reactor'[m][t].up \subseteq reactor[m][t].up
    <2> DEFINE r == [reactor[n][s] EXCEPT !.pc = pc]
    <2>0. reactor[n][s] \in ReactorRecord
      BY <1>0 DEF StreamTypes
    <2>1. r \in ReactorRecord /\ r.up = reactor[n][s].up
      BY <2>0 DEF ReactorRecord
    <2>2. reactor' = [reactor EXCEPT ![n][s] = r]
      BY <1>3
    <2> HIDE DEF r
    <2> QED
      BY <2>1, <2>2, <1>0, ReactorAt
  <1>4. ASSUME NEW s \in Slots, ReactorDone(n, s)
        PROVE  \A m \in Nodes, t \in Slots : reactor'[m][t].up \subseteq reactor[m][t].up
    <2>1. NoReactor \in ReactorRecord /\ NoReactor.up = {}
      BY DEF NoReactor, ReactorRecord
    <2> QED
      BY <1>4, <2>1, <1>0, ReactorAt DEF ReactorDone
  <1>5. ASSUME NEW s \in Slots, NodeCheck(n, s) \/ Register(n, s) \/ NodeRegistered(n, s)
        PROVE  \E pc \in {"valid", "refused", "registering", "open"} :
                   reactor' = [reactor EXCEPT ![n][s].pc = pc]
    BY <1>5 DEF NodeCheck, Register, NodeRegistered
  <1> QED
    BY <1>1, <1>2, <1>3, <1>4, <1>5

\* The inductive step for the copies of a command.
LEMMA BudgetStep ==
    ASSUME LinkInv, RunsInv, [Next]_vars, NEW f \in Calls
    PROVE  BudgetOf(f)'
  <1> USE CallsAssumption
  <1>0. /\ CallInv /\ CallTypes /\ NodeTypes /\ StreamTypes /\ BudgetOf(f)
        /\ runs \in [Calls -> Nat] /\ runs[f] \in Nat
        /\ IsFiniteSet(Up(f)) /\ IsFiniteSet(Work(f)) /\ IsFiniteSet(Taken(f))
    BY DEF LinkInv, CallInv, StreamsInv, RunsInv, BudgetOf
  <1>q. ASSUME Quiet(f), UNCHANGED runs PROVE BudgetOf(f)'
    BY <1>q, <1>0, QuietKept
  <1>r. UNCHANGED runs => runs'[f] \in Nat /\ runs'[f] <= runs[f] + 0
    BY SMT, <1>0
  <1>p. UNCHANGED pending => PendingKept
    BY DEF PendingKept
  <1>t. UNCHANGED retry => Taken(f)' \subseteq Taken(f)
    BY DEF Taken
  <1>w. UNCHANGED running => Work(f)' \subseteq Work(f)
    BY DEF Work
  <1>u. UNCHANGED reactor => Up(f)' \subseteq Up(f)
    BY DEF Up
  <1>s. UNCHANGED call => Unsent(f)' = Unsent(f)
    BY DEF Unsent
  <1>n. ASSUME UNCHANGED <<call, pending, reactor, running, retry, runs>> PROVE BudgetOf(f)'
    BY <1>n, <1>p, <1>s, <1>q, CallsQuiet
  <1>1. ASSUME NEW g \in Calls, ForwardSelect(g) PROVE BudgetOf(f)'
    <2>1. UNCHANGED <<reactor, running, retry, pending, runs>> /\ call[g].pc = "new"
      BY <1>1 DEF ForwardSelect, nodeVars
    <2>2. \A h \in Calls \ {g} : call'[h] = call[h]
      BY <1>1, <1>0 DEF ForwardSelect, CallTypes
    <2>3. /\ call'[f].pc \in {"new", "selected"} => call[f].pc \in {"new", "selected"}
          /\ Unsent(f)' => Unsent(f)
      BY <2>1, <2>2 DEF Unsent
    <2> QED
      BY <2>1, <2>3, <1>p, <1>q, CallsQuiet
  <1>2. ASSUME NEW g \in Calls, ForwardPending(g) PROVE BudgetOf(f)'
    <2>1. UNCHANGED <<reactor, running, retry, runs>> /\ call[g].pc = "selected" /\ RequestId[g] \in Ids
      BY <1>2 DEF ForwardPending, nodeVars
    <2>2. \A h \in Calls \ {g} : call'[h] = call[h]
      BY <1>2, <1>0 DEF ForwardPending, CallTypes
    <2>3. /\ call'[f].pc \in {"new", "selected"} => call[f].pc \in {"new", "selected"}
          /\ Unsent(f)' => Unsent(f)
      BY <2>1, <2>2 DEF Unsent
    <2>4. CASE UNCHANGED pending
      BY <2>1, <2>3, <2>4, <1>p, <1>q, CallsQuiet
    <2>5. CASE /\ pending[RequestId[g]] = NoPending
               /\ pending' = [pending EXCEPT ![RequestId[g]] =
                                [call |-> g, node |-> call[g].node, attempts |-> 0]]
      <3>1. /\ pending'[RequestId[g]].call = g
            /\ \A i \in Ids \ {RequestId[g]} : pending'[i] = pending[i]
        BY <2>1, <2>5, <1>0 DEF CallTypes
      <3>2. Untaken(f)' => Untaken(f)
        <4>1. CASE f = g
          BY <4>1, <2>1 DEF Untaken
        <4>2. CASE f # g
          <5>1. RequestId[f] \in Ids /\ pending'[RequestId[f]].call = f => RequestId[f] # RequestId[g]
            BY <3>1, <4>2
          <5> QED
            BY <4>2, <5>1, <3>1, <2>2 DEF Untaken
        <4> QED
          BY <4>1, <4>2
      <3>3. Quiet(f)
        BY <2>1, <2>3, <3>2, <1>t, <1>u, <1>w DEF Quiet
      <3> QED
        BY <2>1, <3>3, <1>q
    <2> QED
      BY <1>2, <2>4, <2>5 DEF ForwardPending
  <1>3. ASSUME NEW g \in Calls, ForwardEnqueue(g) PROVE BudgetOf(f)'
    <2>1. /\ UNCHANGED <<running, retry, runs>> /\ call[g].pc = "pending" /\ RequestId[g] \in Ids
          /\ call' = [call EXCEPT ![g].pc = "returned"]
          /\ call[g].node \in Nodes /\ call[g].slot \in Slots
      BY <1>3, <1>0 DEF ForwardEnqueue, CallTypes
    <2>2. call'[g].pc = "returned" /\ \A h \in Calls \ {g} : call'[h] = call[h]
      BY <2>1, <1>0, CallAt
    <2>3. /\ call'[f].pc \in {"new", "selected"} => call[f].pc \in {"new", "selected"}
          /\ Unsent(f)' => Unsent(f)
          /\ f = g => Unsent(f) /\ ~Unsent(f)'
      BY <2>1, <2>2 DEF Unsent
    <2>4. CASE reactor' = Written(call[g].node, call[g].slot, g) /\ UNCHANGED pending
      <3>1. Untaken(f)' => Untaken(f)
        BY <2>3, <2>4, <1>p, UntakenKept
      <3>2. CASE f # g
        <4>1. Up(f)' \subseteq Up(f)
          BY SMT, <3>2, <2>1, <2>4, <1>0, UpWritten
        <4> QED
          BY <4>1, <3>1, <2>1, <2>3, <1>t, <1>w, <1>q DEF Quiet
      <3>3. CASE f = g
        <4>1. Up(f)' \subseteq Up(f) \cup {<<call[g].node, call[g].slot>>}
          BY <2>1, <2>4, <1>0, UpWritten
        <4>2. Grows(Up(f), Up(f)', 1) /\ Grows(Work(f), Work(f)', 0) /\ Grows(Taken(f), Taken(f)', 0)
          BY <4>1, <2>1, <1>t, <1>w, <1>0, GrowsBy
        <4>3. Turns(Unsent(f), Unsent(f)', -1) /\ Turns(Untaken(f), Untaken(f)', 0)
          BY <3>1, <3>3, <2>3, TurnsBy
        <4> QED
          BY SMT, <4>2, <4>3, <2>1, <1>r, <1>0, BudgetKept
      <3> QED
        BY <3>2, <3>3
    <2>5. CASE UNCHANGED reactor /\ (UNCHANGED pending \/ Answer(RequestId[g]))
      BY <2>1, <2>3, <2>5, <1>0, <1>p, <1>q, AnswerShrinks, CallsQuiet
    <2> QED
      BY <1>3, <2>4, <2>5 DEF ForwardEnqueue
  <1>4. ASSUME UNCHANGED <<call, reactor, running, retry, runs>>,
               PendingKept
        PROVE  BudgetOf(f)'
    BY <1>4, <1>s, <1>q, CallsQuiet
  <1>5. ASSUME NEW i \in Ids, ExpirePending(i) PROVE BudgetOf(f)'
    BY <1>5, <1>4, <1>0, AnswerShrinks DEF ExpirePending, nodeVars
  <1>6. ASSUME NEW n \in Nodes, NEW s \in Slots, ReadCommandResult(n, s) PROVE BudgetOf(f)'
    <2>1. UNCHANGED <<call, reactor, running, retry, runs>>
      BY <1>6 DEF ReadCommandResult, nodeVars
    <2>2. RequestId[Head(link[n][s].down)] \in Ids
      BY <1>6 DEF ReadCommandResult, Reads
    <2>3. UNCHANGED pending \/ Answer(RequestId[Head(link[n][s].down)])
      BY <1>6 DEF ReadCommandResult
    <2> QED
      BY <2>1, <2>2, <2>3, <1>4, <1>p, <1>0, AnswerShrinks
  <1>7. CASE StopPending
    <2>1. UNCHANGED <<call, reactor, running, retry, runs>> /\ pending' = [i \in Ids |-> NoPending]
      BY <1>7 DEF StopPending, nodeVars
    <2>2. PendingKept
      BY <2>1 DEF PendingKept
    <2> QED
      BY <2>1, <2>2, <1>4
  <1>8. ASSUME NEW n \in Nodes, RetrySend(n) PROVE BudgetOf(f)'
    <2> DEFINE g == retry[n].taken
    <2>1. /\ UNCHANGED <<call, running, runs>> /\ g # NoOne /\ retry' = [retry EXCEPT ![n].taken = NoOne]
      BY <1>8 DEF RetrySend
    <2>2. g \in Calls /\ retry \in [Nodes -> RetryRecord]
      BY <2>1, <1>0 DEF NodeTypes, RetryRecord
    <2>3. retry'[n].taken = NoOne /\ \A m \in Nodes \ {n} : retry'[m] = retry[m]
      BY <2>1, <2>2 DEF RetryRecord
    <2>4. /\ Taken(f)' \subseteq Taken(f)
          /\ f = g => n \in Taken(f) /\ Taken(f)' \subseteq Taken(f) \ {n}
      BY <2>3, NoOneAssumption DEF Taken
    <2>5. CASE \E m \in SelectLink(n) :
                 /\ reactor' = Written(m, links[m], g)
                 /\ pending' = [pending EXCEPT ![RequestId[g]] =
                                 IF @ = NoPending THEN @ ELSE [@ EXCEPT !.node = m]]
      <3>1. PICK m \in SelectLink(n) :
                 /\ reactor' = Written(m, links[m], g)
                 /\ pending' = [pending EXCEPT ![RequestId[g]] =
                                 IF @ = NoPending THEN @ ELSE [@ EXCEPT !.node = m]]
        BY <2>5
      <3>2. m \in Nodes /\ links[m] \in Slots
        BY <1>0 DEF SelectLink, CallTypes
      <3>3. \A i \in Ids : pending[i] # NoPending =>
                /\ [pending[i] EXCEPT !.node = m].call = pending[i].call
                /\ [pending[i] EXCEPT !.node = m].attempts = pending[i].attempts
        BY SMT, <1>0, EntryFields DEF CallTypes
      <3>4. \A i \in Ids : \/ pending'[i] = pending[i]
                           \/ pending[i] # NoPending /\ pending'[i] = [pending[i] EXCEPT !.node = m]
        BY <3>1, <1>0 DEF CallTypes
      <3>5. PendingKept
        BY <3>3, <3>4 DEF PendingKept
      <3>6. Untaken(f)' => Untaken(f)
        BY <2>1, <3>5, UntakenKept
      <3>7. CASE f # g
        <4>1. Up(f)' \subseteq Up(f)
          BY SMT, <3>7, <3>1, <3>2, <2>2, <1>0, UpWritten
        <4> QED
          BY ZenonT(30), <4>1, <3>6, <2>1, <2>4, <1>s, <1>w, <1>q DEF Quiet
      <3>8. CASE f = g
        <4>1. Up(f)' \subseteq Up(f) \cup {<<m, links[m]>>}
          BY <3>1, <3>2, <2>2, <1>0, UpWritten
        <4>2. n \in Taken(f) /\ Taken(f)' \subseteq Taken(f) \ {n}
          BY <3>8, <2>4
        <4>3. Grows(Up(f), Up(f)', 1) /\ Grows(Work(f), Work(f)', 0) /\ Grows(Taken(f), Taken(f)', -1)
          BY <4>1, <4>2, <2>1, <1>w, <1>0, GrowsBy
        <4>4. Turns(Unsent(f), Unsent(f)', 0) /\ Turns(Untaken(f), Untaken(f)', 0)
          BY <3>6, <2>1, <1>s, TurnsBy
        <4>5. 1 \in Int /\ 0 \in Int /\ -1 \in Int /\ 1 + 0 + -1 + 0 + 0 + 0 <= 0
          BY SMT
        <4>6. runs'[f] \in Nat /\ runs'[f] <= runs[f] + 0
          BY <2>1, <1>r
        <4> QED
          BY <4>3, <4>4, <4>5, <4>6, <1>0, BudgetKept
      <3> QED
        BY <3>7, <3>8
    <2>6. CASE UNCHANGED <<reactor, pending>>
      <3>1. Up(f)' \subseteq Up(f)
        BY <2>6, <1>u
      <3> QED
        BY <3>1, <2>1, <2>4, <2>6, <1>q, NodesQuiet
    <2> QED
      BY <1>8, <2>5, <2>6 DEF RetrySend
  <1>9. ASSUME NEW n \in Nodes, NEW i \in Ids, RetryTake(n, i) PROVE BudgetOf(f)'
    <2>1. UNCHANGED <<call, reactor, running, runs>>
      BY <1>9 DEF RetryTake, nodeVars
    <2>2. retry \in [Nodes -> RetryRecord]
      BY <1>0 DEF NodeTypes
    <2>3. CASE retry' = [retry EXCEPT ![n].todo = @ \ {i}] /\ UNCHANGED pending
      <3>1. \A m \in Nodes : retry'[m].taken = retry[m].taken
        BY <2>2, <2>3 DEF RetryRecord
      <3>2. Taken(f)' \subseteq Taken(f)
        BY <3>1 DEF Taken
      <3> QED
        BY <3>2, <2>1, <2>3, <1>u, <1>q, NodesQuiet
    <2>4. CASE /\ pending[i] # NoPending /\ pending[i].attempts < 1 /\ CanRetry(pending[i].call)
               /\ pending' = [pending EXCEPT ![i].attempts = @ + 1]
               /\ retry' = [retry EXCEPT ![n].todo = @ \ {i}, ![n].taken = pending[i].call]
      <3> DEFINE g == pending[i].call
      <3>1. /\ g \in Retryable /\ g \in Calls /\ RequestId[g] = i /\ pending[i].attempts = 0
            /\ call[g].pc \notin {"new", "selected"}
        BY SMT, <2>4, <1>0, EntryFields DEF CallInv, CallTypes, CallFacts, CanRetry, Early
      <3>2. /\ pending'[i].call = g /\ pending'[i].attempts = 1
            /\ \A j \in Ids \ {i} : pending'[j] = pending[j]
        BY SMT, <2>4, <3>1, <1>0, EntryFields DEF CallTypes
      <3>3. /\ retry'[n].taken = g /\ \A m \in Nodes \ {n} : retry'[m] = retry[m]
        BY <2>2, <2>4 DEF RetryRecord
      <3> HIDE DEF g
      <3>4. CASE f # g
        <4>1. Taken(f)' \subseteq Taken(f)
          BY <3>3, <3>4 DEF Taken
        <4>2. RequestId[f] = i => pending'[i].call # f
          BY <3>2, <3>4
        <4>3. Untaken(f)' => Untaken(f)
          BY <4>2, <3>2, <2>1 DEF Untaken
        <4> QED
          BY <4>1, <4>3, <2>1, <1>s, <1>u, <1>w, <1>q DEF Quiet
      <3>5. CASE f = g
        <4>1. Taken(f)' \subseteq Taken(f) \cup {n}
          BY <3>3 DEF Taken
        <4>2. Untaken(f) /\ ~Untaken(f)'
          BY SMT, <3>1, <3>2, <3>5, <2>1 DEF Untaken, g
        <4>3. Grows(Up(f), Up(f)', 0) /\ Grows(Work(f), Work(f)', 0) /\ Grows(Taken(f), Taken(f)', 1)
          BY <4>1, <2>1, <1>u, <1>w, <1>0, GrowsBy
        <4>4. Turns(Unsent(f), Unsent(f)', 0) /\ Turns(Untaken(f), Untaken(f)', -1)
          BY <4>2, <2>1, <1>s, TurnsBy
        <4>5. 1 \in Int /\ 0 \in Int /\ -1 \in Int /\ 0 + 0 + 1 + 0 + 0 + -1 <= 0
          BY SMT
        <4>6. runs'[f] \in Nat /\ runs'[f] <= runs[f] + 0
          BY <2>1, <1>r
        <4> QED
          BY <4>3, <4>4, <4>5, <4>6, <1>0, BudgetKept
      <3> QED
        BY <3>4, <3>5
    <2> QED
      BY <1>9, <2>3, <2>4 DEF RetryTake
  <1>10. ASSUME NEW n \in Nodes, NEW s \in Slots, OnLinkDone(n, s) PROVE BudgetOf(f)'
    <2>1. UNCHANGED <<call, pending, reactor, running, runs>>
      BY <1>10 DEF OnLinkDone, nodeVars
    <2>2. \/ UNCHANGED retry
          \/ retry' = [retry EXCEPT ![n] = [todo |-> {i \in Ids : pending[i].node = n},
                                            taken |-> NoOne, slot |-> s]]
      BY <1>10 DEF OnLinkDone
    <2>3. Taken(f)' \subseteq Taken(f)
      BY SMT, <2>2, <1>0, NoOneAssumption DEF Taken, NodeTypes
    <2> QED
      BY <2>1, <2>3, <1>u, <1>q, NodesQuiet
  <1>11. ASSUME NEW n \in Nodes, ArmReconnect(n) PROVE BudgetOf(f)'
    <2>1. UNCHANGED <<call, pending, reactor, running, runs>> /\ retry' = [retry EXCEPT ![n] = NoRetry]
      BY <1>11 DEF ArmReconnect, nodeVars
    <2>2. Taken(f)' \subseteq Taken(f)
      BY <2>1, <1>0, NoOneAssumption DEF Taken, NodeTypes, NoRetry
    <2> QED
      BY <2>1, <2>2, <1>u, <1>q, NodesQuiet
  <1>12. ASSUME UNCHANGED <<call, pending, retry, runs>>, running' \subseteq running,
                \A m \in Nodes, t \in Slots : reactor'[m][t].up \subseteq reactor[m][t].up
         PROVE  BudgetOf(f)'
    BY <1>12, <1>t, <1>q, UpShrinks, NodesQuiet
  <1>13. ASSUME NEW n \in Nodes, Reconnect(n) \/ StartMissing(n) PROVE BudgetOf(f)'
    <2>1. UNCHANGED <<call, pending, retry, running, runs>> /\ (StartLink(n) \/ UNCHANGED reactor)
      BY <1>13 DEF Reconnect, StartMissing
    <2> QED
      BY <2>1, <1>n, <1>12, ReactorsShrink
  <1>14. ASSUME NEW n \in Nodes, NEW s \in Slots,
                NodeCheck(n, s) \/ Register(n, s) \/ NodeRegistered(n, s) \/ ReactorDone(n, s)
         PROVE  BudgetOf(f)'
    <2>1. UNCHANGED <<call, pending, retry, running, runs>>
      BY <1>14 DEF NodeCheck, Register, NodeRegistered, ReactorDone, gatewayVars
    <2> QED
      BY <2>1, <1>14, <1>12, ReactorsShrink
  <1>15. ASSUME NEW n \in Nodes, NodeExit(n) PROVE BudgetOf(f)'
    <2>1. UNCHANGED <<call, pending, retry, runs>> /\ running' \subseteq running
      BY <1>15 DEF NodeExit, gatewayVars
    <2> QED
      BY <2>1, <1>15, <1>12, ReactorsShrink
  <1>16. ASSUME NEW n \in Nodes, NEW s \in Slots, NEW g \in Calls, HandleCommand(n, s, g)
         PROVE  BudgetOf(f)'
    <2> DEFINE r == [reactor[n][s] EXCEPT !.up = @ \ {g}]
               x == [call |-> g, node |-> n, slot |-> s]
    <2>1. /\ UNCHANGED <<call, pending, retry, runs>> /\ g \in reactor[n][s].up
          /\ reactor' = [reactor EXCEPT ![n][s] = r]
          /\ running' = running \cup {x} \/ running' = running
      BY <1>16 DEF HandleCommand, gatewayVars
    <2>2. reactor[n][s] \in ReactorRecord
      BY <1>0 DEF StreamTypes
    <2>3. r \in ReactorRecord /\ r.up = reactor[n][s].up \ {g}
      BY <2>2 DEF ReactorRecord
    <2>4. x.call = g
      OBVIOUS
    <2> HIDE DEF r, x
    <2>5. /\ reactor'[n][s] = r
          /\ \A m \in Nodes, t \in Slots : (m # n \/ t # s) => reactor'[m][t] = reactor[m][t]
      BY SMT, <2>1, <2>3, <1>0, TableAt DEF StreamTypes
    <2>6. /\ Up(f)' \subseteq Up(f)
          /\ f = g => <<n, s>> \in Up(f) /\ Up(f)' \subseteq Up(f) \ {<<n, s>>}
      <3>1. Up(f)' \subseteq Up(f)
        BY SMT, <2>3, <2>5 DEF Up
      <3>2. ASSUME f = g PROVE <<n, s>> \in Up(f) /\ <<n, s>> \notin Up(f)'
        BY <3>2, <2>1, <2>3, <2>5 DEF Up
      <3> QED
        BY <3>1, <3>2
    <2>7. Work(f)' \subseteq Work(f) \cup {x} /\ (f # g => Work(f)' \subseteq Work(f))
      BY <2>1, <2>4 DEF Work
    <2>8. (Unsent(f)' => Unsent(f)) /\ (Untaken(f)' => Untaken(f))
      BY <2>1 DEF Unsent, Untaken
    <2>9. CASE f # g
      BY ZenonT(30), <2>9, <2>1, <2>6, <2>7, <2>8, <1>t, <1>q DEF Quiet
    <2>10. CASE f = g
      <3>1. <<n, s>> \in Up(f) /\ Up(f)' \subseteq Up(f) \ {<<n, s>>}
        BY <2>6, <2>10
      <3>2. Grows(Up(f), Up(f)', -1) /\ Grows(Work(f), Work(f)', 1) /\ Grows(Taken(f), Taken(f)', 0)
        BY <3>1, <2>1, <2>7, <1>t, <1>0, GrowsBy
      <3>3. Turns(Unsent(f), Unsent(f)', 0) /\ Turns(Untaken(f), Untaken(f)', 0)
        BY <2>8, TurnsBy
      <3>4. 1 \in Int /\ 0 \in Int /\ -1 \in Int /\ -1 + 1 + 0 + 0 + 0 + 0 <= 0
        BY SMT
      <3>5. runs'[f] \in Nat /\ runs'[f] <= runs[f] + 0
        BY <2>1, <1>r
      <3> QED
        BY <3>2, <3>3, <3>4, <3>5, <1>0, BudgetKept
    <2> QED
      BY <2>9, <2>10
  <1>17. ASSUME NEW x \in running, Execute(x) PROVE BudgetOf(f)'
    <2>1. /\ UNCHANGED <<call, pending, retry, reactor>> /\ running' = running \ {x}
          /\ runs' = [runs EXCEPT ![x.call] = @ + 1] \/ runs' = runs
      BY <1>17 DEF Execute, gatewayVars
    <2>2. Work(f)' \subseteq Work(f) /\ (x.call = f => x \in Work(f) /\ Work(f)' \subseteq Work(f) \ {x})
      BY <2>1 DEF Work
    <2>3. (Unsent(f)' => Unsent(f)) /\ (Untaken(f)' => Untaken(f))
      BY <2>1 DEF Unsent, Untaken
    <2>4. CASE x.call # f
      <3>1. runs'[f] = runs[f]
        BY <2>1, <2>4, <1>0
      <3> QED
        BY ZenonT(30), <3>1, <2>1, <2>2, <2>3, <1>t, <1>u, <1>0, QuietKept DEF Quiet
    <2>5. CASE x.call = f
      <3>1. runs'[f] \in Nat /\ runs'[f] <= runs[f] + 1
        BY SMT, <2>1, <2>5, <1>0
      <3>2. Grows(Up(f), Up(f)', 0) /\ Grows(Work(f), Work(f)', -1) /\ Grows(Taken(f), Taken(f)', 0)
        BY ZenonT(30), <2>1, <2>2, <2>5, <1>t, <1>u, <1>0, GrowsBy
      <3>3. Turns(Unsent(f), Unsent(f)', 0) /\ Turns(Untaken(f), Untaken(f)', 0)
        BY <2>3, TurnsBy
      <3>4. 1 \in Int /\ 0 \in Int /\ -1 \in Int /\ 0 + -1 + 0 + 1 + 0 + 0 <= 0
        BY SMT
      <3> QED
        BY ZenonT(30), <3>1, <3>2, <3>3, <3>4, <1>0, BudgetKept
    <2> QED
      BY <2>4, <2>5
  <1>18. CASE GatewaySteps
    <2>1. ASSUME NEW n \in Nodes,
                 IdleStop(n) \/ \E s \in Slots : ReadRegisterResult(n, s) \/ ReadDrainNotice(n, s)
          PROVE  BudgetOf(f)'
      BY <2>1, <1>n DEF IdleStop, ReadRegisterResult, ReadDrainNotice, gatewayVars, nodeVars
    <2> QED
      BY ZenonT(30), <1>18, <2>1, <1>2, <1>3, <1>5, <1>6, <1>8, <1>9, <1>10, <1>11, <1>13 DEF GatewaySteps
  <1>19. CASE NodeSteps
    BY <1>19, <1>14, <1>16, <1>17 DEF NodeSteps
  <1>20. CASE StopLinks \/ UNCHANGED vars
    BY <1>20, <1>n DEF StopLinks, vars, gatewayVars, nodeVars
  <1>21. CASE \E n \in Nodes : DrainAll(n) \/ \E s \in Slots : OnDone(n, s)
    BY <1>21, <1>n DEF DrainAll, OnDone, gatewayVars, nodeVars
  <1>22. CASE \E want \in SUBSET Nodes : ApplyTopology(want)
    BY <1>22, <1>n DEF ApplyTopology, nodeVars
  <1> QED
    BY ZenonT(30), <1>1, <1>7, <1>15, <1>18, <1>19, <1>20, <1>21, <1>22 DEF Next

\* runs is a count.
LEMMA RunsTyped ==
    ASSUME runs \in [Calls -> Nat], NodeTypes, [Next]_vars
    PROVE  runs' \in [Calls -> Nat]
  <1>1. CASE UNCHANGED runs
    BY <1>1
  <1>2. ASSUME NEW x \in running, Execute(x) PROVE runs' \in [Calls -> Nat]
    BY SMT, <1>2 DEF Execute, NodeTypes
  <1>3. CASE GatewaySteps
    BY ZenonT(30), <1>3, <1>1, GatewayLeavesNodes
  <1>4. CASE NodeSteps
    BY SMT, <1>4, <1>1, <1>2 DEF NodeSteps, NodeCheck, Register, NodeRegistered, ReactorDone, HandleCommand
  <1>5. CASE StopLinks \/ StopPending \/ \E f \in Calls : ForwardSelect(f)
    BY <1>5, <1>1 DEF StopLinks, StopPending, ForwardSelect, nodeVars
  <1>6. CASE \E n \in Nodes : DrainAll(n) \/ NodeExit(n) \/ \E s \in Slots : OnDone(n, s)
    BY <1>6, <1>1 DEF DrainAll, NodeExit, OnDone, nodeVars
  <1>7. CASE UNCHANGED vars \/ \E want \in SUBSET Nodes : ApplyTopology(want)
    BY <1>7, <1>1 DEF vars, nodeVars, ApplyTopology
  <1> QED
    BY <1>3, <1>4, <1>5, <1>6, <1>7 DEF Next

\* However streams break, nodes exit and results are lost, a command is executed at most
\* twice, and one whose service may not be retried at most once: RetryPending counts the
\* attempt before it sends, so every copy of a command has been paid for.
THEOREM RunsBounded == Spec => []BoundedRuns
  <1>1. LinkInv /\ [Next]_vars => LinkInv'
    BY CallStep, NodeTypesStep, StreamsStep DEF LinkInv
  <1>2. LinkInv /\ RunsInv /\ [Next]_vars => RunsInv'
    BY BudgetStep, RunsTyped DEF LinkInv, RunsInv
  <1>3. RunsInv => BoundedRuns
    <2> SUFFICES ASSUME RunsInv, NEW f \in Calls PROVE runs[f] <= IF f \in Retryable THEN 2 ELSE 1
      BY DEF BoundedRuns
    <2>1. BudgetOf(f)
      BY DEF RunsInv
    <2>2. /\ Cardinality(Up(f)) \in Nat /\ Cardinality(Work(f)) \in Nat
          /\ Cardinality(Taken(f)) \in Nat
      BY <2>1, FS_CardinalityType DEF BudgetOf
    <2> QED
      BY SMT, <2>1, <2>2 DEF BudgetOf, Copies, One
  <1> QED
    BY LinkInit, RunsInit, <1>1, <1>2, <1>3, PTL DEF Spec
=============================================================================
