---------------------------- MODULE ClientProofs ----------------------------
(***************************************************************************)
(* Proofs for ClientMessages.tla: what the user has written is not lost,   *)
(* what is shown of it is what the server did, a message that is shown as  *)
(* waiting has a request, and what is acknowledged is in the database.     *)
(***************************************************************************)
EXTENDS ClientMessages, TLAPS

\* Zenon is the default prover; a leaf with arithmetic or sequences cites SMT.
USE Zenon

-----------------------------------------------------------------------------
(* Frames *)

\* The frame f belongs to message t, or to the login for t = 0.
Is(f, t) == \/ t = 0 /\ f.kind = "login"
            \/ t # 0 /\ f.kind = "send" /\ f.m = t

Has(s, t) == \E i \in 1..Len(s) : Is(s[i], t)
Once(s, t) == \A i, j \in 1..Len(s) : Is(s[i], t) /\ Is(s[j], t) => i = j

\* t is on the wire with the frames u and d; at most once.
OnWire(u, d, t) == Has(u, t) \/ Has(d, t)
Single(u, d, t) == Once(u, t) /\ Once(d, t) /\ ~(Has(u, t) /\ Has(d, t))

Sends == [kind : {"send"}, m : Messages]
Pulls == [kind : {"pull"}, after : Nat]
UpFrames == Sends \cup Pulls \cup {[kind |-> "login"], [kind |-> "quit"]}

SendAnswers == [kind : {"send"}, m : Messages, id : Nat, retryable : BOOLEAN]
Pages == [kind : {"pull"}, ok : {TRUE}, seqs : SUBSET Nat, more : BOOLEAN, next : Nat]
DownFrames ==
  SendAnswers \cup Pages \cup [kind : {"push"}, id : Nat]
    \cup [kind : {"login"}, ok : BOOLEAN, token : BOOLEAN]
    \cup {[kind |-> "pull", ok |-> FALSE], [kind |-> "quit"]}

-----------------------------------------------------------------------------
(* The inductive invariant *)

Closed == {"none", "Accepted", "PermanentFailed"}
Records == [st : Unsettled \cup Closed, id : Nat]

WireTypes ==
  /\ queue \in [Kinds -> Seq(UpFrames)]
  /\ queue["send"] \in Seq(Sends) /\ queue["pull"] \in Seq(Pulls)
  /\ up \in Seq(UpFrames) /\ down \in Seq(DownFrames)

Types ==
  /\ WireTypes
  /\ sock \in {"unconnected", "connecting", "connected", "closing"}
  /\ rec \in [Messages -> Records] /\ row \in [Messages -> Records]
  /\ outbox \subseteq Messages /\ cursor \in Nat
  /\ log \in Seq(Messages \cup {Peer})
  /\ mixedUp \in BOOLEAN

Queued(m) == Has(queue["send"], m)

\* Before the socket is connected no request is under way, and until the login is
\* answered no message is.
Connection ==
  /\ backoff => sock = "unconnected"
  /\ sock \in {"unconnected", "connecting"} =>
       /\ ~IsReady /\ queue["send"] = <<>>
       /\ \A t \in 0..MaxMessages : ~OnWire(up, down, t)
  /\ Single(up, down, 0)
  /\ OnWire(up, down, 0) =>
       /\ ~IsReady /\ queue["send"] = <<>>
       /\ \A m \in Messages : ~OnWire(up, down, m)

\* The queue holds every message once that waits for its acceptance.
Queues ==
  \A m \in Messages :
    /\ Queued(m) => rec[m].st = "WaitingAccept"
    /\ Once(queue["send"], m)
    /\ IsReady /\ rec[m].st = "WaitingAccept" => Queued(m)

\* The tables agree with each other, and with the memory unless AcceptOutgoing failed.
RowOK(m) ==
  /\ row[m].st # "none" => row[m].st = rec[m].st \/ rec[m].st = "Accepted"
  /\ rec[m].st \in Unsettled => row[m].st = rec[m].st
  /\ m \in outbox <=> row[m].st \in Unsettled

Tables ==
  \A m \in Messages :
    /\ RowOK(m)
    /\ OnWire(up, down, m) \/ m \in Range(log) => row[m].st # "none"

OwnId(i, l) == i = 0 \/ (i \in 1..Len(l) /\ l[i] \in Messages)

\* Answers tell what the log says; messages of others are stored before they are shown.
DownOK(f, l) ==
  /\ f \in SendAnswers /\ f.id # 0 => f.id \in 1..Len(l) /\ l[f.id] = f.m
  /\ f \in Pages => f.seqs \subseteq 1..Len(l)
  /\ f.kind = "push" => f.id \in 1..Len(l) /\ l[f.id] = Peer

Incoming ==
  /\ \A j \in 1..Len(down) : DownOK(down[j], log)
  /\ \A m \in Messages : OwnId(rec[m].id, log) /\ OwnId(row[m].id, log)
  /\ seen \subseteq 1..Len(log) /\ stored \subseteq 1..Len(log)
  /\ \A i \in seen : log[i] = Peer => i \in stored
  /\ acked \subseteq stored

IdRight(m, i) == i # 0 => i \in 1..Len(log) /\ log[i] = m

\* A message is on the wire once; it is the front of the queue or has timed out.
Outgoing ==
  \A m \in Messages :
    /\ Single(up, down, m)
    /\ OnWire(up, down, m) /\ Queued(m) => Head(queue["send"]).m = m
    /\ OnWire(up, down, m) /\ ~Queued(m) => rec[m].st = "Unknown"

\* What the client believes of a message, and what it will be told, is what the server did.
Outcomes ==
  \A m \in Messages :
    /\ "PermanentFailed" \in {rec[m].st, row[m].st} => m \notin Range(log)
    /\ SendAnswer(m, 0, FALSE) \in Range(down) => m \notin Range(log)
    /\ row[m].st = "Accepted" => m \in Range(log)
    /\ IdRight(m, rec[m].id) /\ IdRight(m, row[m].id)

ClientInv ==
  /\ Types /\ Connection /\ Queues /\ Tables /\ Incoming
  /\ ~mixedUp => Outgoing /\ Outcomes

-----------------------------------------------------------------------------
(* Frames of a message in a sequence *)

\* Taking the first frame away.
LEMMA TailFrames ==
  ASSUME NEW S, NEW s \in Seq(S), s # <<>>, NEW t
  PROVE  /\ Tail(s) \in Seq(S) /\ Len(Tail(s)) = Len(s) - 1 /\ Head(s) \in S /\ Head(s) = s[1]
         /\ \A i \in 1..Len(Tail(s)) : i + 1 \in 1..Len(s) /\ Tail(s)[i] = s[i + 1]
         /\ Has(s, t) <=> Is(Head(s), t) \/ Has(Tail(s), t)
         /\ Once(s, t) => Once(Tail(s), t)
         /\ Once(s, t) /\ Is(Head(s), t) => ~Has(Tail(s), t)
<1>1. /\ Tail(s) \in Seq(S) /\ Len(Tail(s)) = Len(s) - 1 /\ Head(s) \in S /\ Head(s) = s[1]
      /\ Len(s) \in Nat /\ Len(s) > 0
  BY SMT
<1>2. \A i \in 1..Len(Tail(s)) : i + 1 \in 1..Len(s) /\ Tail(s)[i] = s[i + 1]
  BY SMT, <1>1
<1>3. \A i \in 1..Len(s) : i = 1 \/ (i - 1 \in 1..Len(Tail(s)) /\ Tail(s)[i - 1] = s[i])
  BY SMT, <1>1
<1>4. 1 \in 1..Len(s)
  BY SMT, <1>1
<1> DEFINE r == Tail(s)  h == Head(s)
<1> HIDE DEF r, h
<1>5. Has(s, t) <=> Is(h, t) \/ Has(r, t)
  BY <1>1, <1>2, <1>3, <1>4 DEF Has, r, h
<1>6. Once(s, t) => Once(r, t)
  <2> SUFFICES ASSUME Once(s, t), NEW i \in 1..Len(r), NEW j \in 1..Len(r), Is(r[i], t), Is(r[j], t)
               PROVE  i = j
    BY DEF Once
  <2>1. i + 1 = j + 1
    BY <1>2 DEF Once, r
  <2> QED  BY SMT, <2>1
<1>7. Once(s, t) /\ Is(h, t) => ~Has(r, t)
  <2> SUFFICES ASSUME Once(s, t), Is(h, t), NEW i \in 1..Len(r), Is(r[i], t)
               PROVE  FALSE
    BY DEF Has
  <2>1. 1 = i + 1
    BY <1>1, <1>2, <1>4 DEF Once, r, h
  <2> QED  BY SMT, <2>1
<1> QED  BY <1>1, <1>2, <1>5, <1>6, <1>7 DEF r, h

\* Joining two sequences.
LEMMA JoinedFrames ==
  ASSUME NEW S, NEW s \in Seq(S), NEW r \in Seq(S), NEW t
  PROVE  /\ s \o r \in Seq(S)
         /\ Has(s \o r, t) <=> Has(s, t) \/ Has(r, t)
         /\ Once(s, t) /\ Once(r, t) /\ ~(Has(s, t) /\ Has(r, t)) => Once(s \o r, t)
<1>1. /\ s \o r \in Seq(S) /\ Len(s \o r) = Len(s) + Len(r) /\ Len(s) \in Nat /\ Len(r) \in Nat
      /\ \A i \in 1..Len(s) : (s \o r)[i] = s[i]
      /\ \A i \in 1..Len(r) : (s \o r)[Len(s) + i] = r[i]
  BY SMT
<1> DEFINE w == s \o r
<1> HIDE DEF w
<1>2. \A i \in 1..Len(s) : i \in 1..Len(w) /\ w[i] = s[i]
  BY SMT, <1>1 DEF w
<1>3. \A i \in 1..Len(r) : Len(s) + i \in 1..Len(w) /\ w[Len(s) + i] = r[i]
  BY SMT, <1>1 DEF w
<1>4. \A i \in 1..Len(w) : \/ i \in 1..Len(s) /\ w[i] = s[i]
                           \/ i - Len(s) \in 1..Len(r) /\ w[i] = r[i - Len(s)]
  BY SMT, <1>1 DEF w
<1>5. Has(w, t) <=> Has(s, t) \/ Has(r, t)
  BY <1>2, <1>3, <1>4 DEF Has
<1>6. Once(s, t) /\ Once(r, t) /\ ~(Has(s, t) /\ Has(r, t)) => Once(w, t)
  <2> SUFFICES ASSUME Once(s, t), Once(r, t), ~(Has(s, t) /\ Has(r, t)),
                      NEW i \in 1..Len(w), NEW j \in 1..Len(w), Is(w[i], t), Is(w[j], t)
               PROVE  i = j
    BY DEF Once
  <2>1. CASE i \in 1..Len(s) /\ w[i] = s[i] /\ j \in 1..Len(s) /\ w[j] = s[j]
    BY <2>1 DEF Once
  <2>2. CASE i - Len(s) \in 1..Len(r) /\ w[i] = r[i - Len(s)] /\ j - Len(s) \in 1..Len(r) /\ w[j] = r[j - Len(s)]
    <3>1. i - Len(s) = j - Len(s)
      BY <2>2 DEF Once
    <3> QED  BY SMT, <3>1, <1>1
  <2>3. ~(i \in 1..Len(s) /\ w[i] = s[i] /\ j - Len(s) \in 1..Len(r) /\ w[j] = r[j - Len(s)])
    BY DEF Has
  <2>4. ~(j \in 1..Len(s) /\ w[j] = s[j] /\ i - Len(s) \in 1..Len(r) /\ w[i] = r[i - Len(s)])
    BY DEF Has
  <2> QED  BY <2>1, <2>2, <2>3, <2>4, <1>4
<1> QED  BY <1>1, <1>5, <1>6 DEF w

\* No frame, and one frame.
LEMMA FewFrames ==
  ASSUME NEW t, NEW f
  PROVE  /\ ~Has(<<>>, t) /\ Once(<<>>, t)
         /\ Has(<<f>>, t) <=> Is(f, t)
         /\ Once(<<f>>, t)
<1>1. Len(<<>>) = 0 /\ Len(<<f>>) = 1 /\ <<f>>[1] = f
  OBVIOUS
<1> QED  BY SMT, <1>1 DEF Has, Once

\* One more frame at the end.
LEMMA AppendedFrame ==
  ASSUME NEW S, NEW s \in Seq(S), NEW f \in S, NEW t
  PROVE  /\ Append(s, f) \in Seq(S)
         /\ Has(Append(s, f), t) <=> Has(s, t) \/ Is(f, t)
         /\ Once(s, t) /\ ~(Has(s, t) /\ Is(f, t)) => Once(Append(s, f), t)
<1>1. Append(s, f) = s \o <<f>> /\ <<f>> \in Seq(S)
  BY SMT
<1>2. /\ s \o <<f>> \in Seq(S)
      /\ Has(s \o <<f>>, t) <=> Has(s, t) \/ Has(<<f>>, t)
      /\ Once(s, t) /\ Once(<<f>>, t) /\ ~(Has(s, t) /\ Has(<<f>>, t)) => Once(s \o <<f>>, t)
  BY <1>1, JoinedFrames
<1> QED  BY <1>1, <1>2, FewFrames

\* What the frames are; only a send and its answer belong to a message.
LEMMA KindNames ==
  /\ "send" # "pull" /\ "send" # "login" /\ "send" # "quit" /\ "send" # "push"
  /\ "pull" # "login" /\ "pull" # "quit" /\ "pull" # "push"
  /\ "login" # "quit" /\ "login" # "push" /\ "quit" # "push"
OBVIOUS

\* The request for message m is a frame of m and of no other.
LEMMA SendFrame ==
  ASSUME NEW m \in Messages
  PROVE  /\ Send(m) \in Sends /\ Send(m) \in UpFrames /\ Send(m).m = m
         /\ \A t \in 0..MaxMessages : Is(Send(m), t) <=> t = m
<1>1. Send(m) \in Sends /\ Send(m).m = m /\ Send(m).kind = "send"
  BY DEF Send, Sends
<1>2. m # 0
  BY SMT, ClientBounds DEF Messages
<1> QED  BY <1>1, <1>2, KindNames DEF Is, UpFrames

\* A request to send is the one SendMessage makes for its message.
LEMMA SendsAre ==
  ASSUME NEW f \in Sends
  PROVE  f = Send(f.m) /\ f.m \in Messages /\ f.kind = "send"
BY DEF Sends, Send

\* A request for a page belongs to no message.
LEMMA PullsAre ==
  /\ Pulls \subseteq UpFrames
  /\ \A a \in Nat : Pull(a) \in Pulls
  /\ \A f \in Pulls : f.kind = "pull" /\ f.after \in Nat /\ \A t : ~Is(f, t)
<1>1. Pulls \subseteq UpFrames
  BY DEF UpFrames
<1>2. \A a \in Nat : Pull(a) \in Pulls
  BY DEF Pull, Pulls
<1>3. \A f \in Pulls : f.kind = "pull" /\ f.after \in Nat
  BY DEF Pulls
<1> QED  BY <1>1, <1>2, <1>3, KindNames DEF Is

\* Login and quit are requests; only the login is one that Is counts.
LEMMA OtherUpFrames ==
  /\ [kind |-> "login"] \in UpFrames /\ [kind |-> "quit"] \in UpFrames
  /\ \A t : Is([kind |-> "login"], t) <=> t = 0
  /\ \A t : ~Is([kind |-> "quit"], t)
<1>1. [kind |-> "login"].kind = "login" /\ [kind |-> "quit"].kind = "quit"
  OBVIOUS
<1>2. [kind |-> "login"] \in UpFrames /\ [kind |-> "quit"] \in UpFrames
  BY DEF UpFrames
<1> QED  BY <1>1, <1>2, KindNames DEF Is

\* The kind of a request tells what it holds.
LEMMA UpFramesAre ==
  ASSUME NEW f \in UpFrames
  PROVE  /\ f.kind = "send" => f \in Sends
         /\ f.kind = "pull" => f \in Pulls
<1>1. [kind |-> "login"].kind = "login" /\ [kind |-> "quit"].kind = "quit"
  OBVIOUS
<1>2. f \in Sends \/ f \in Pulls \/ f = [kind |-> "login"] \/ f = [kind |-> "quit"]
  BY DEF UpFrames
<1>3. f \in Sends => f.kind = "send"
  BY SendsAre
<1>4. f \in Pulls => f.kind = "pull"
  BY PullsAre
<1> QED  BY <1>1, <1>2, <1>3, <1>4, KindNames

\* The kind of a frame from the gateway tells what it holds.
LEMMA DownFramesAre ==
  ASSUME NEW f \in DownFrames
  PROVE  /\ f.kind = "send" <=> f \in SendAnswers
         /\ f \in SendAnswers => f = SendAnswer(f.m, f.id, f.retryable) /\ f.m \in Messages /\ f.id \in Nat
                                 /\ f.retryable \in BOOLEAN
         /\ f.kind = "pull" /\ f.ok => f \in Pages
         /\ f \in Pages => f.kind = "pull" /\ f.seqs \subseteq Nat /\ f.next \in Nat /\ f.more \in BOOLEAN
         /\ f.kind = "push" => f.id \in Nat
<1> DEFINE bad == [kind |-> "pull", ok |-> FALSE]
           quit == [kind |-> "quit"]
           P == [kind : {"push"}, id : Nat]
           L == [kind : {"login"}, ok : BOOLEAN, token : BOOLEAN]
<1>1. f \in SendAnswers \/ f \in Pages \/ f \in P \/ f \in L \/ f = bad \/ f = quit
  BY DEF DownFrames
<1>2. bad.kind = "pull" /\ bad.ok = FALSE /\ quit.kind = "quit"
  OBVIOUS
<1>3. f \in SendAnswers => /\ f.kind = "send" /\ f.m \in Messages /\ f.id \in Nat /\ f.retryable \in BOOLEAN
                           /\ f = SendAnswer(f.m, f.id, f.retryable)
  BY DEF SendAnswers, SendAnswer
<1>4. f \in Pages => f.kind = "pull" /\ f.seqs \subseteq Nat /\ f.next \in Nat /\ f.more \in BOOLEAN
  BY DEF Pages
<1>5. f \in P => f.kind = "push" /\ f.id \in Nat
  OBVIOUS
<1>6. f \in L => f.kind = "login"
  OBVIOUS
<1> HIDE DEF bad, quit, P, L
<1> QED  BY <1>1, <1>2, <1>3, <1>4, <1>5, <1>6, KindNames

\* The answers the server makes to a message are answers to that message only.
LEMMA SendAnswerMade ==
  ASSUME NEW m \in Messages, NEW i \in Nat, NEW b \in BOOLEAN
  PROVE  /\ SendAnswer(m, i, b) \in SendAnswers /\ SendAnswer(m, i, b) \in DownFrames
         /\ SendAnswer(m, i, b).kind = "send" /\ SendAnswer(m, i, b).m = m /\ SendAnswer(m, i, b).id = i
         /\ \A t \in 0..MaxMessages : Is(SendAnswer(m, i, b), t) <=> t = m
<1>1. /\ SendAnswer(m, i, b) \in SendAnswers
      /\ SendAnswer(m, i, b).kind = "send" /\ SendAnswer(m, i, b).m = m /\ SendAnswer(m, i, b).id = i
  BY DEF SendAnswer, SendAnswers
<1>2. m # 0
  BY SMT, ClientBounds DEF Messages
<1> QED  BY <1>1, <1>2, KindNames DEF DownFrames, Is

\* A page of messages is a frame from the gateway and no answer to a message.
LEMMA PageMade ==
  ASSUME NEW s \in SUBSET Nat, NEW n \in Nat, NEW b \in BOOLEAN
  PROVE  LET f == [kind |-> "pull", ok |-> TRUE, seqs |-> s, more |-> b, next |-> n]
         IN  f \in Pages /\ f \in DownFrames /\ f.kind = "pull" /\ f.seqs = s /\ \A t : ~Is(f, t)
<1> DEFINE f == [kind |-> "pull", ok |-> TRUE, seqs |-> s, more |-> b, next |-> n]
<1>1. f \in Pages /\ f.kind = "pull" /\ f.seqs = s
  BY DEF Pages
<1> HIDE DEF f
<1>2. f \in DownFrames
  BY <1>1 DEF DownFrames
<1>3. \A t : ~Is(f, t)
  BY <1>1, KindNames DEF Is
<1> QED  BY <1>1, <1>2, <1>3 DEF f

\* A pull that fails is answered without a page.
LEMMA RefusalMade ==
  LET f == [kind |-> "pull", ok |-> FALSE]
  IN  f \in DownFrames /\ f.kind = "pull" /\ f \notin Pages /\ \A t : ~Is(f, t)
<1> DEFINE f == [kind |-> "pull", ok |-> FALSE]
<1>1. f.kind = "pull" /\ f.ok = FALSE
  OBVIOUS
<1>2. f \in DownFrames
  BY DEF DownFrames
<1>3. \A g \in Pages : g.ok = TRUE
  BY DEF Pages
<1> HIDE DEF f
<1>4. \A t : ~Is(f, t)
  BY <1>1, KindNames DEF Is
<1> QED  BY <1>1, <1>2, <1>3, <1>4 DEF f

\* A push is a frame from the gateway and no answer to a message.
LEMMA PushMade ==
  ASSUME NEW i \in Nat
  PROVE  LET f == [kind |-> "push", id |-> i]
         IN  f \in DownFrames /\ f.kind = "push" /\ f.id = i /\ \A t : ~Is(f, t)
BY KindNames DEF DownFrames, Is

\* The answer to a login answers the login and no message.
LEMMA LoginAnswerMade ==
  ASSUME NEW a \in BOOLEAN, NEW b \in BOOLEAN
  PROVE  LET f == [kind |-> "login", ok |-> a, token |-> b]
         IN  f \in DownFrames /\ f.kind = "login" /\ \A t : Is(f, t) <=> t = 0
BY KindNames DEF DownFrames, Is

\* The answer to a quit answers no message.
LEMMA QuitAnswerMade ==
  LET f == [kind |-> "quit"]
  IN  f \in DownFrames /\ f.kind = "quit" /\ \A t : ~Is(f, t)
BY KindNames DEF DownFrames, Is

-----------------------------------------------------------------------------
(* Frames on the wire *)

\* The server answers the first frame with one that belongs to the same message.
LEMMA WireAnswered ==
  ASSUME NEW u \in Seq(UpFrames), u # <<>>, NEW d \in Seq(DownFrames), NEW f \in DownFrames, NEW t,
         Is(f, t) <=> Is(Head(u), t)
  PROVE  /\ OnWire(Tail(u), Append(d, f), t) <=> OnWire(u, d, t)
         /\ Single(u, d, t) => Single(Tail(u), Append(d, f), t)
<1>1. /\ Has(u, t) <=> Is(Head(u), t) \/ Has(Tail(u), t)
      /\ Once(u, t) => Once(Tail(u), t)
      /\ Once(u, t) /\ Is(Head(u), t) => ~Has(Tail(u), t)
  BY TailFrames
<1>2. /\ Has(Append(d, f), t) <=> Has(d, t) \/ Is(f, t)
      /\ Once(d, t) /\ ~(Has(d, t) /\ Is(f, t)) => Once(Append(d, f), t)
  BY AppendedFrame
<1> QED  BY <1>1, <1>2 DEF OnWire, Single

\* The server loses the first frame.
LEMMA WireLost ==
  ASSUME NEW u \in Seq(UpFrames), u # <<>>, NEW d, NEW t
  PROVE  /\ OnWire(Tail(u), d, t) => OnWire(u, d, t)
         /\ Single(u, d, t) => Single(Tail(u), d, t)
<1>1. /\ Has(u, t) <=> Is(Head(u), t) \/ Has(Tail(u), t)
      /\ Once(u, t) => Once(Tail(u), t)
  BY TailFrames
<1> QED  BY <1>1 DEF OnWire, Single

\* The client takes the first frame from the wire.
LEMMA WireTaken ==
  ASSUME NEW u, NEW d \in Seq(DownFrames), d # <<>>, NEW t
  PROVE  /\ OnWire(u, Tail(d), t) => OnWire(u, d, t)
         /\ Is(Head(d), t) => OnWire(u, d, t)
         /\ Single(u, d, t) => Single(u, Tail(d), t)
         /\ Single(u, d, t) /\ Is(Head(d), t) => ~OnWire(u, Tail(d), t)
<1>1. /\ Has(d, t) <=> Is(Head(d), t) \/ Has(Tail(d), t)
      /\ Once(d, t) => Once(Tail(d), t)
      /\ Once(d, t) /\ Is(Head(d), t) => ~Has(Tail(d), t)
  BY TailFrames
<1> QED  BY <1>1 DEF OnWire, Single

\* A push belongs to no message.
LEMMA WirePushed ==
  ASSUME NEW u, NEW d \in Seq(DownFrames), NEW f \in DownFrames, NEW t, ~Is(f, t)
  PROVE  /\ OnWire(u, Append(d, f), t) <=> OnWire(u, d, t)
         /\ Single(u, d, t) => Single(u, Append(d, f), t)
<1>1. /\ Has(Append(d, f), t) <=> Has(d, t) \/ Is(f, t)
      /\ Once(d, t) /\ ~(Has(d, t) /\ Is(f, t)) => Once(Append(d, f), t)
  BY AppendedFrame
<1> QED  BY <1>1 DEF OnWire, Single

\* The client writes the frames r.
LEMMA WireWritten ==
  ASSUME NEW u \in Seq(UpFrames), NEW d, NEW r \in Seq(UpFrames), NEW t
  PROVE  /\ OnWire(u \o r, d, t) <=> OnWire(u, d, t) \/ Has(r, t)
         /\ Single(u, d, t) /\ Once(r, t) /\ ~(Has(r, t) /\ OnWire(u, d, t)) => Single(u \o r, d, t)
<1>1. /\ Has(u \o r, t) <=> Has(u, t) \/ Has(r, t)
      /\ Once(u, t) /\ Once(r, t) /\ ~(Has(u, t) /\ Has(r, t)) => Once(u \o r, t)
  BY JoinedFrames
<1> QED  BY <1>1 DEF OnWire, Single

\* Nothing is on an empty wire.
LEMMA WireEmpty == \A t : ~OnWire(<<>>, <<>>, t) /\ Single(<<>>, <<>>, t)
BY FewFrames DEF OnWire, Single

\* Pulls belong to no message.
LEMMA PullFrames ==
  ASSUME NEW r \in Seq(Pulls), NEW t
  PROVE  r \in Seq(UpFrames) /\ ~Has(r, t) /\ Once(r, t)
<1>1. \A i \in 1..Len(r) : r[i] \in Pulls
  BY SMT
<1>2. r \in Seq(UpFrames)
  <2>1. Pulls \subseteq UpFrames
    BY PullsAre
  <2> QED  BY SMT, <2>1
<1>3. \A i \in 1..Len(r) : ~Is(r[i], t)
  BY <1>1, PullsAre
<1> QED  BY <1>2, <1>3 DEF Has, Once

\* The queue of the sends, as a sequence of messages.
LEMMA SendQueue ==
  ASSUME NEW q \in Seq(Sends)
  PROVE  /\ q \in Seq(UpFrames)
         /\ \A m \in Messages : Has(q, m) <=> \E i \in 1..Len(q) : q[i].m = m
         /\ q # <<>> => /\ Head(q) \in Sends /\ Head(q).m \in Messages /\ Head(q) \in UpFrames
                        /\ Head(q) = Send(Head(q).m) /\ Has(q, Head(q).m)
                        /\ Tail(q) \in Seq(Sends)
<1>1. \A i \in 1..Len(q) : q[i] \in Sends
  BY SMT
<1>2. q \in Seq(UpFrames)
  <2>1. Sends \subseteq UpFrames
    BY DEF UpFrames
  <2> QED  BY SMT, <2>1
<1>3. \A i \in 1..Len(q) : \A m \in Messages : Is(q[i], m) <=> q[i].m = m
  <2> TAKE i \in 1..Len(q)
  <2> TAKE m \in Messages
  <2>1. q[i] = Send(q[i].m) /\ q[i].m \in Messages
    BY <1>1, SendsAre
  <2>2. m \in 0..MaxMessages
    BY SMT, ClientBounds DEF Messages
  <2> QED  BY <2>1, <2>2, SendFrame
<1>4. \A m \in Messages : Has(q, m) <=> \E i \in 1..Len(q) : q[i].m = m
  BY <1>3 DEF Has
<1>5. ASSUME q # <<>>
      PROVE  /\ Head(q) \in Sends /\ Head(q).m \in Messages /\ Head(q) \in UpFrames
             /\ Head(q) = Send(Head(q).m) /\ Has(q, Head(q).m) /\ Tail(q) \in Seq(Sends)
  <2>1. Head(q) \in Sends /\ Tail(q) \in Seq(Sends) /\ 1 \in 1..Len(q) /\ Head(q) = q[1]
    BY SMT, <1>5
  <2>2. Head(q) = Send(Head(q).m) /\ Head(q).m \in Messages
    BY <2>1, SendsAre
  <2>3. Has(q, Head(q).m)
    BY <1>4, <2>1, <2>2
  <2> QED  BY <2>1, <2>2, <2>3 DEF UpFrames
<1> QED  BY <1>2, <1>4, <1>5

-----------------------------------------------------------------------------
(* What the steps do to the queues and to the wire *)

\* A step writes at most the messages N, and drops others at most.
Writes(N) ==
  \A t \in 0..MaxMessages :
    /\ OnWire(up, down, t)' => OnWire(up, down, t) \/ t \in N
    /\ Single(up, down, t) /\ ~(t \in N /\ OnWire(up, down, t)) => Single(up, down, t)'

\* A step takes the first frame of the gateway and writes at most the messages N.
Takes(N) ==
  /\ Writes(N)
  /\ \A t \in 0..MaxMessages :
       Single(up, down, t) /\ Is(Head(down), t) /\ t \notin N => ~OnWire(up, down, t)'

Front(s) == IF s = <<>> THEN <<>> ELSE <<Head(s)>>
FrontOf(s) == IF s = <<>> THEN {} ELSE {Head(s).m}

Quiet == WireTypes' /\ queue'["send"] = queue["send"] /\ Writes({})

\* The empty queues are those in which nothing was asked.
LEMMA NoQueueIs ==
  /\ NoQueue = Asked(<<>>, <<>>)
  /\ NoQueue \in [Kinds -> Seq(UpFrames)] /\ NoQueue["send"] = <<>> /\ NoQueue["pull"] = <<>>
<1>1. "send" \in Kinds /\ "pull" \in Kinds
  BY DEF Kinds
<1> QED  BY SMT, <1>1 DEF NoQueue, Asked

\* QueueRequest, one kind at a time.
LEMMA EnqueueIs ==
  ASSUME NEW q \in [Kinds -> Seq(UpFrames)], q["send"] \in Seq(Sends), q["pull"] \in Seq(Pulls),
         NEW p \in Seq(Pulls), NEW s \in Seq(Sends)
  PROVE  LET e == Enqueue(q, Asked(p, s))
         IN  /\ e \in [Kinds -> Seq(UpFrames)]
             /\ e["send"] = q["send"] \o s /\ e["send"] \in Seq(Sends)
             /\ e["pull"] = q["pull"] \o p /\ e["pull"] \in Seq(Pulls)
<1> DEFINE e == Enqueue(q, Asked(p, s))
<1>1. "send" \in Kinds /\ "pull" \in Kinds /\ (\A k \in Kinds : k = "send" \/ k = "pull") /\ "send" # "pull"
  BY DEF Kinds
<1>2. Asked(p, s)["send"] = s /\ Asked(p, s)["pull"] = p
  BY <1>1 DEF Asked
<1>3. e["send"] = q["send"] \o s /\ e["pull"] = q["pull"] \o p
  BY <1>1, <1>2 DEF Enqueue
<1>4. q["send"] \o s \in Seq(Sends) /\ q["pull"] \o p \in Seq(Pulls)
  BY SMT
<1>5. q["send"] \o s \in Seq(UpFrames) /\ q["pull"] \o p \in Seq(UpFrames)
  BY <1>4, SendQueue, PullFrames
<1>6. e = [k \in Kinds |-> q[k] \o Asked(p, s)[k]]
  BY DEF Enqueue
<1>7. \A k \in Kinds : q[k] \o Asked(p, s)[k] \in Seq(UpFrames)
  BY <1>1, <1>2, <1>5
<1>8. e \in [Kinds -> Seq(UpFrames)]
  BY <1>6, <1>7
<1> QED  BY <1>3, <1>4, <1>8

\* What is written at once of new requests: the front of each kind that had none waiting.
LEMMA FramesAre ==
  ASSUME NEW q, NEW p, NEW s
  PROVE  Frames(q, Asked(p, s)) = (IF q["pull"] = <<>> THEN Front(p) ELSE <<>>)
                                    \o (IF q["send"] = <<>> THEN Front(s) ELSE <<>>)
<1>1. "send" \in Kinds /\ "pull" \in Kinds /\ "send" # "pull"
  BY DEF Kinds
<1>2. Asked(p, s)["send"] = s /\ Asked(p, s)["pull"] = p
  BY <1>1 DEF Asked
<1> QED  BY <1>2 DEF Frames, SendFront, Front

\* The first frame of a queue.
LEMMA FrontFrames ==
  ASSUME NEW s \in Seq(Sends)
  PROVE  /\ Front(s) \in Seq(UpFrames)
         /\ \A t \in 0..MaxMessages : (Has(Front(s), t) <=> t \in FrontOf(s)) /\ Once(Front(s), t)
         /\ FrontOf(s) \subseteq Messages
         /\ \A m \in FrontOf(s) : Has(s, m)
<1>1. CASE s = <<>>
  <2>1. Front(s) = <<>> /\ FrontOf(s) = {} /\ <<>> \in Seq(UpFrames)
    BY SMT, <1>1 DEF Front, FrontOf
  <2> QED  BY <2>1, FewFrames
<1>2. CASE s # <<>>
  <2>1. /\ Head(s) \in UpFrames /\ Head(s).m \in Messages /\ Head(s) = Send(Head(s).m)
        /\ Has(s, Head(s).m)
    BY <1>2, SendQueue
  <2>2. Front(s) = <<Head(s)>> /\ FrontOf(s) = {Head(s).m}
    BY <1>2 DEF Front, FrontOf
  <2>3. \A t \in 0..MaxMessages : Is(Head(s), t) <=> t = Head(s).m
    BY <2>1, SendFrame
  <2>4. <<Head(s)>> \in Seq(UpFrames)
    BY SMT, <2>1
  <2> QED  BY <2>1, <2>2, <2>3, <2>4, FewFrames
<1> QED  BY <1>1, <1>2

\* The front of a queue of pulls is a sequence of pulls.
LEMMA FrontPulls ==
  ASSUME NEW p \in Seq(Pulls)
  PROVE  Front(p) \in Seq(Pulls)
BY SMT DEF Front

\* Pulls, then the front of s.
LEMMA PullsThenFront ==
  ASSUME NEW p \in Seq(Pulls), NEW s \in Seq(Sends)
  PROVE  /\ p \o Front(s) \in Seq(UpFrames)
         /\ \A t \in 0..MaxMessages :
              (Has(p \o Front(s), t) <=> t \in FrontOf(s)) /\ Once(p \o Front(s), t)
<1>1. Front(s) \in Seq(UpFrames) /\ p \in Seq(UpFrames)
  BY FrontFrames, PullFrames
<1>2. p \o Front(s) \in Seq(UpFrames)
  BY SMT, <1>1
<1>3. ASSUME NEW t \in 0..MaxMessages
      PROVE  (Has(p \o Front(s), t) <=> t \in FrontOf(s)) /\ Once(p \o Front(s), t)
  <2>1. ~Has(p, t) /\ Once(p, t)
    BY PullFrames
  <2>2. (Has(Front(s), t) <=> t \in FrontOf(s)) /\ Once(Front(s), t)
    BY FrontFrames
  <2>3. /\ Has(p \o Front(s), t) <=> Has(p, t) \/ Has(Front(s), t)
        /\ Once(p, t) /\ Once(Front(s), t) /\ ~(Has(p, t) /\ Has(Front(s), t)) => Once(p \o Front(s), t)
    BY <1>1, JoinedFrames
  <2> QED  BY <2>1, <2>2, <2>3
<1> QED  BY <1>2, <1>3

\* Pulls, then the front of s, are written.
LEMMA FramesWritten ==
  ASSUME up \in Seq(UpFrames), NEW p \in Seq(Pulls), NEW s \in Seq(Sends),
         up' = up \o (p \o Front(s)), down' = down
  PROVE  up' \in Seq(UpFrames) /\ Writes(FrontOf(s))
<1> DEFINE r == p \o Front(s)
<1>2. r \in Seq(UpFrames)
  BY PullsThenFront
<1>3. \A t \in 0..MaxMessages : (Has(r, t) <=> t \in FrontOf(s)) /\ Once(r, t)
  BY PullsThenFront
<1> HIDE DEF r
<1>4. up' = up \o r
  BY DEF r
<1>5. up' \in Seq(UpFrames)
  BY SMT, <1>2, <1>4
<1>6. ASSUME NEW t \in 0..MaxMessages
      PROVE  /\ OnWire(up', down', t) => OnWire(up, down, t) \/ t \in FrontOf(s)
             /\ Single(up, down, t) /\ ~(t \in FrontOf(s) /\ OnWire(up, down, t)) => Single(up', down', t)
  <2>1. /\ OnWire(up \o r, down, t) <=> OnWire(up, down, t) \/ Has(r, t)
        /\ Single(up, down, t) /\ Once(r, t) /\ ~(Has(r, t) /\ OnWire(up, down, t)) => Single(up \o r, down, t)
    BY <1>2, WireWritten
  <2> QED  BY <1>3, <1>4, <2>1
<1> QED  BY <1>5, <1>6 DEF Writes

\* The same, when the first frame of the gateway has been taken.
LEMMA FramesTaken ==
  ASSUME up \in Seq(UpFrames), down \in Seq(DownFrames), down # <<>>,
         NEW p \in Seq(Pulls), NEW s \in Seq(Sends),
         up' = up \o (p \o Front(s)), down' = Tail(down)
  PROVE  up' \in Seq(UpFrames) /\ down' \in Seq(DownFrames) /\ Takes(FrontOf(s))
<1> DEFINE r == p \o Front(s)
<1>2. r \in Seq(UpFrames)
  BY PullsThenFront
<1>3. \A t \in 0..MaxMessages : (Has(r, t) <=> t \in FrontOf(s)) /\ Once(r, t)
  BY PullsThenFront
<1> HIDE DEF r
<1>4. up' = up \o r
  BY DEF r
<1>5. up' \in Seq(UpFrames) /\ down' \in Seq(DownFrames)
  BY SMT, <1>2, <1>4
<1>6. ASSUME NEW t \in 0..MaxMessages
      PROVE  /\ OnWire(up', down', t) => OnWire(up, down, t) \/ t \in FrontOf(s)
             /\ Single(up, down, t) /\ ~(t \in FrontOf(s) /\ OnWire(up, down, t)) => Single(up', down', t)
             /\ Single(up, down, t) /\ Is(Head(down), t) /\ t \notin FrontOf(s) => ~OnWire(up', down', t)
  <2> DEFINE d == Tail(down)
  <2>1. /\ OnWire(up, d, t) => OnWire(up, down, t)
        /\ Single(up, down, t) => Single(up, d, t)
        /\ Single(up, down, t) /\ Is(Head(down), t) => ~OnWire(up, d, t)
    BY WireTaken
  <2> HIDE DEF d
  <2>2. /\ OnWire(up \o r, d, t) <=> OnWire(up, d, t) \/ Has(r, t)
        /\ Single(up, d, t) /\ Once(r, t) /\ ~(Has(r, t) /\ OnWire(up, d, t)) => Single(up \o r, d, t)
    BY <1>2, WireWritten
  <2>3. down' = d
    BY DEF d
  <2> QED  BY <1>3, <1>4, <2>1, <2>2, <2>3
<1> QED  BY <1>5, <1>6 DEF Writes, Takes

\* sendMessage and retryMessage queue one send.
LEMMA QueueEffect ==
  ASSUME WireTypes, NEW m \in Messages, Queue(Asked(<<>>, <<Send(m)>>)), down' = down
  PROVE  /\ WireTypes' /\ queue'["send"] = Append(queue["send"], Send(m))
         /\ Writes(IF queue["send"] = <<>> THEN {m} ELSE {})
<1>1. <<>> \in Seq(Pulls) /\ <<Send(m)>> \in Seq(Sends) /\ <<>> \in Seq(Sends)
  BY SMT, SendFrame
<1> DEFINE s == <<Send(m)>>
<1>2. Front(<<>>) = <<>> /\ Front(s) = s /\ FrontOf(s) = {m} /\ FrontOf(<<>>) = {}
  <2>1. s # <<>> /\ Head(s) = Send(m)
    BY SMT
  <2> QED  BY <2>1, SendFrame DEF Front, FrontOf
<1> HIDE DEF s
<1>3. LET e == queue'
      IN  /\ e \in [Kinds -> Seq(UpFrames)]
          /\ e["send"] = queue["send"] \o s /\ e["send"] \in Seq(Sends)
          /\ e["pull"] = queue["pull"] \o <<>> /\ e["pull"] \in Seq(Pulls)
  <2>1. queue' = Enqueue(queue, Asked(<<>>, s))
    BY DEF Queue, s
  <2> QED  BY <1>1, <2>1, EnqueueIs DEF WireTypes, s
<1>4. queue["send"] \o s = Append(queue["send"], Send(m))
  BY SMT, <1>1 DEF WireTypes, s
<1>5. up' = up \o (<<>> \o Front(IF queue["send"] = <<>> THEN s ELSE <<>>))
  <2>1. up' = up \o Frames(queue, Asked(<<>>, s))
    BY DEF Queue, s
  <2>2. Frames(queue, Asked(<<>>, s)) = (IF queue["pull"] = <<>> THEN Front(<<>>) ELSE <<>>)
                                    \o (IF queue["send"] = <<>> THEN Front(s) ELSE <<>>)
    BY FramesAre
  <2> QED  BY <1>2, <2>1, <2>2
<1>6. (IF queue["send"] = <<>> THEN s ELSE <<>>) \in Seq(Sends)
  BY <1>1 DEF s
<1>7. up' \in Seq(UpFrames) /\ Writes(FrontOf(IF queue["send"] = <<>> THEN s ELSE <<>>))
  BY <1>1, <1>5, <1>6, FramesWritten DEF WireTypes
<1>8. FrontOf(IF queue["send"] = <<>> THEN s ELSE <<>>) = IF queue["send"] = <<>> THEN {m} ELSE {}
  BY <1>2
<1> QED  BY <1>3, <1>4, <1>7, <1>8 DEF WireTypes

\* A step that touches the messages N only touches those of a larger set only.
LEMMA TakesMore ==
  ASSUME NEW N, NEW M, N \subseteq M
  PROVE  (Writes(N) => Writes(M)) /\ (Takes(N) => Takes(M))
BY DEF Writes, Takes

\* One queue without its front.
LEMMA QueueTail ==
  ASSUME WireTypes, NEW k \in Kinds, queue[k] # <<>>
  PROVE  LET rest == [queue EXCEPT ![k] = Tail(@)]
         IN  /\ rest \in [Kinds -> Seq(UpFrames)]
             /\ rest["send"] = (IF k = "send" THEN Tail(queue["send"]) ELSE queue["send"])
             /\ rest["pull"] = (IF k = "pull" THEN Tail(queue["pull"]) ELSE queue["pull"])
             /\ rest["send"] \in Seq(Sends) /\ rest["pull"] \in Seq(Pulls)
<1>1. "send" \in Kinds /\ "pull" \in Kinds /\ (\A j \in Kinds : j = "send" \/ j = "pull") /\ "send" # "pull"
  BY DEF Kinds
<1> DEFINE rest == [queue EXCEPT ![k] = Tail(@)]
<1>2. Tail(queue[k]) \in Seq(UpFrames)
  BY SMT DEF WireTypes
<1>3. rest \in [Kinds -> Seq(UpFrames)]
  BY <1>2 DEF WireTypes
<1>4. /\ rest["send"] = (IF k = "send" THEN Tail(queue["send"]) ELSE queue["send"])
      /\ rest["pull"] = (IF k = "pull" THEN Tail(queue["pull"]) ELSE queue["pull"])
  BY <1>1 DEF WireTypes
<1>5. k = "send" => Tail(queue["send"]) \in Seq(Sends)
  BY SMT DEF WireTypes
<1>6. k = "pull" => Tail(queue["pull"]) \in Seq(Pulls)
  BY SMT DEF WireTypes
<1> QED  BY <1>1, <1>3, <1>4, <1>5, <1>6 DEF WireTypes

\* The answer to a send: the front of the queue goes, the next one is written.
LEMMA CompleteSend ==
  ASSUME WireTypes, down # <<>>, CompleteFront("send", NoQueue)
  PROVE  /\ queue["send"] # <<>> /\ WireTypes' /\ down' = Tail(down)
         /\ queue'["send"] = Tail(queue["send"]) /\ Takes(FrontOf(Tail(queue["send"])))
<1> DEFINE rest == [queue EXCEPT !["send"] = Tail(@)]
           new  == Enqueue(rest, NoQueue)
           sent == IF IsReady THEN Frames(rest, NoQueue) \o SendFront(new, "send") ELSE <<>>
<1>1. queue["send"] # <<>> /\ queue' = new /\ up' = up \o sent /\ down' = Tail(down)
  BY DEF CompleteFront
<1>2. "send" \in Kinds /\ "send" # "pull"
  BY DEF Kinds
<1>3. /\ rest \in [Kinds -> Seq(UpFrames)]
      /\ rest["send"] = Tail(queue["send"]) /\ rest["send"] \in Seq(Sends) /\ rest["pull"] \in Seq(Pulls)
  BY <1>1, <1>2, QueueTail
<1> HIDE DEF rest
<1>4. <<>> \in Seq(Pulls) /\ <<>> \in Seq(Sends) /\ NoQueue = Asked(<<>>, <<>>) /\ Front(<<>>) = <<>>
  BY SMT, NoQueueIs DEF Front
<1>5. /\ new \in [Kinds -> Seq(UpFrames)]
      /\ new["send"] = rest["send"] \o <<>> /\ new["send"] \in Seq(Sends) /\ new["pull"] \in Seq(Pulls)
  BY <1>3, <1>4, EnqueueIs
<1>6. new["send"] = Tail(queue["send"])
  BY SMT, <1>3, <1>5
<1>7. Frames(rest, NoQueue) = <<>>
  <2>1. Frames(rest, Asked(<<>>, <<>>)) = (IF rest["pull"] = <<>> THEN Front(<<>>) ELSE <<>>)
                                    \o (IF rest["send"] = <<>> THEN Front(<<>>) ELSE <<>>)
    BY FramesAre
  <2>2. <<>> \o <<>> = <<>>
    BY SMT
  <2> QED  BY <1>4, <2>1, <2>2
<1> DEFINE s == IF IsReady THEN Tail(queue["send"]) ELSE <<>>
<1> HIDE DEF new
<1>8. sent = <<>> \o Front(s)
  <2>1. SendFront(new, "send") = Front(Tail(queue["send"]))
    BY <1>6 DEF SendFront, Front
  <2>2. Front(Tail(queue["send"])) \in Seq(UpFrames)
    BY <1>3, FrontFrames
  <2>3. \A f \in Seq(UpFrames) : <<>> \o f = f
    BY SMT
  <2>4. <<>> \in Seq(UpFrames)
    BY SMT
  <2>5. CASE IsReady
    <3>1. sent = <<>> \o Front(Tail(queue["send"]))
      BY <1>7, <2>1, <2>5
    <3> QED  BY <3>1, <2>5
  <2>6. CASE ~IsReady
    BY <1>4, <2>3, <2>4, <2>6
  <2> QED  BY <2>5, <2>6
<1>9. s \in Seq(Sends)
  BY <1>3, <1>4
<1> HIDE DEF s, sent
<1>10. up' \in Seq(UpFrames) /\ down' \in Seq(DownFrames) /\ Takes(FrontOf(s))
  BY <1>1, <1>4, <1>8, <1>9, FramesTaken DEF WireTypes
<1>11. FrontOf(s) \subseteq FrontOf(Tail(queue["send"]))
  BY DEF s, FrontOf
<1>12. Takes(FrontOf(Tail(queue["send"])))
  BY <1>10, <1>11, TakesMore
<1> QED  BY <1>1, <1>5, <1>6, <1>10, <1>12 DEF WireTypes

\* The answer to a pull: pulls are written.
LEMMA CompletePull ==
  ASSUME WireTypes, down # <<>>, NEW p \in Seq(Pulls), CompleteFront("pull", Asked(p, <<>>))
  PROVE  Quiet /\ down' = Tail(down)
<1> DEFINE rest == [queue EXCEPT !["pull"] = Tail(@)]
           asked == IF IsReady THEN Asked(p, <<>>) ELSE NoQueue
           new  == Enqueue(rest, asked)
           sent == IF IsReady THEN Frames(rest, asked) \o SendFront(new, "pull") ELSE <<>>
<1>1. queue["pull"] # <<>> /\ queue' = new /\ up' = up \o sent /\ down' = Tail(down)
  BY DEF CompleteFront
<1>2. "pull" \in Kinds /\ "send" # "pull"
  BY DEF Kinds
<1>3. /\ rest \in [Kinds -> Seq(UpFrames)]
      /\ rest["send"] = queue["send"] /\ rest["send"] \in Seq(Sends) /\ rest["pull"] \in Seq(Pulls)
  BY <1>1, <1>2, QueueTail
<1> HIDE DEF rest
<1>4. <<>> \in Seq(Pulls) /\ <<>> \in Seq(Sends) /\ NoQueue = Asked(<<>>, <<>>) /\ Front(<<>>) = <<>>
  BY SMT, NoQueueIs DEF Front
<1> DEFINE p2 == IF IsReady THEN p ELSE <<>>
<1>5. p2 \in Seq(Pulls) /\ asked = Asked(p2, <<>>)
  BY <1>4
<1> HIDE DEF asked, p2
<1>6. /\ new \in [Kinds -> Seq(UpFrames)]
      /\ new["send"] = rest["send"] \o <<>> /\ new["send"] \in Seq(Sends) /\ new["pull"] \in Seq(Pulls)
  BY <1>3, <1>4, <1>5, EnqueueIs
<1>7. new["send"] = queue["send"]
  BY SMT, <1>3, <1>6
<1>8. Frames(rest, asked) \in Seq(Pulls)
  <2>1. Frames(rest, Asked(p2, <<>>)) = (IF rest["pull"] = <<>> THEN Front(p2) ELSE <<>>)
                                    \o (IF rest["send"] = <<>> THEN Front(<<>>) ELSE <<>>)
    BY FramesAre
  <2>2. Front(p2) \in Seq(Pulls)
    BY <1>5, FrontPulls
  <2>3. Frames(rest, asked) = (IF rest["pull"] = <<>> THEN Front(p2) ELSE <<>>) \o <<>>
    BY <1>4, <1>5, <2>1
  <2>4. (IF rest["pull"] = <<>> THEN Front(p2) ELSE <<>>) \in Seq(Pulls)
    BY <1>4, <2>2
  <2> QED  BY SMT, <1>4, <2>3, <2>4
<1>9. SendFront(new, "pull") \in Seq(Pulls)
  <2>1. SendFront(new, "pull") = Front(new["pull"])
    BY DEF SendFront, Front
  <2> QED  BY <1>6, <2>1, FrontPulls
<1>10. sent \in Seq(Pulls)
  BY SMT, <1>4, <1>8, <1>9
<1> HIDE DEF sent, new
<1>11. sent = sent \o Front(<<>>)
  BY SMT, <1>4, <1>10
<1>12. up' \in Seq(UpFrames) /\ down' \in Seq(DownFrames) /\ Takes(FrontOf(<<>>))
  BY <1>1, <1>4, <1>10, <1>11, FramesTaken DEF WireTypes
<1>13. FrontOf(<<>>) = {}
  BY DEF FrontOf
<1> QED  BY <1>1, <1>6, <1>7, <1>12, <1>13 DEF WireTypes, Quiet, Takes

\* The timer of a send: as with an answer, and the frame stays on the wire.
LEMMA TimeoutSend ==
  ASSUME WireTypes, RequestTimeout("send")
  PROVE  /\ queue["send"] # <<>> /\ WireTypes' /\ down' = down
         /\ queue'["send"] = Tail(queue["send"]) /\ Writes(FrontOf(Tail(queue["send"])))
<1> DEFINE rest == [queue EXCEPT !["send"] = Tail(@)]
           sent == IF IsReady THEN SendFront(rest, "send") ELSE <<>>
<1>1. queue["send"] # <<>> /\ queue' = rest /\ up' = up \o sent /\ down' = down
  BY DEF RequestTimeout
<1>2. "send" \in Kinds /\ "send" # "pull"
  BY DEF Kinds
<1>3. /\ rest \in [Kinds -> Seq(UpFrames)]
      /\ rest["send"] = Tail(queue["send"]) /\ rest["send"] \in Seq(Sends) /\ rest["pull"] \in Seq(Pulls)
  BY <1>1, <1>2, QueueTail
<1> HIDE DEF rest
<1> DEFINE s == IF IsReady THEN Tail(queue["send"]) ELSE <<>>
<1>4. s \in Seq(Sends) /\ <<>> \in Seq(Pulls)
  BY SMT, <1>3
<1>5. Front(s) \in Seq(UpFrames)
  BY <1>4, FrontFrames
<1>6. sent = Front(s)
  BY <1>3 DEF SendFront, Front
<1> HIDE DEF s, sent
<1>7. sent = <<>> \o Front(s)
  BY SMT, <1>5, <1>6
<1>8. up' \in Seq(UpFrames) /\ Writes(FrontOf(s))
  BY <1>1, <1>4, <1>7, FramesWritten DEF WireTypes
<1>9. FrontOf(s) \subseteq FrontOf(Tail(queue["send"]))
  BY DEF s, FrontOf
<1>10. Writes(FrontOf(Tail(queue["send"])))
  BY <1>8, <1>9, TakesMore
<1> QED  BY <1>1, <1>3, <1>8, <1>10 DEF WireTypes

\* The timer of a pull.
LEMMA TimeoutPull ==
  ASSUME WireTypes, RequestTimeout("pull")
  PROVE  Quiet /\ down' = down
<1> DEFINE rest == [queue EXCEPT !["pull"] = Tail(@)]
           sent == IF IsReady THEN SendFront(rest, "pull") ELSE <<>>
<1>1. queue["pull"] # <<>> /\ queue' = rest /\ up' = up \o sent /\ down' = down
  BY DEF RequestTimeout
<1>2. "pull" \in Kinds /\ "send" # "pull"
  BY DEF Kinds
<1>3. /\ rest \in [Kinds -> Seq(UpFrames)]
      /\ rest["send"] = queue["send"] /\ rest["send"] \in Seq(Sends) /\ rest["pull"] \in Seq(Pulls)
  BY <1>1, <1>2, QueueTail
<1> HIDE DEF rest
<1>4. sent \in Seq(Pulls)
  <2>1. SendFront(rest, "pull") = Front(rest["pull"])
    BY DEF SendFront, Front
  <2>2. SendFront(rest, "pull") \in Seq(Pulls)
    BY <1>3, <2>1, FrontPulls
  <2> QED  BY SMT, <2>2
<1> HIDE DEF sent
<1>5. Front(<<>>) = <<>> /\ FrontOf(<<>>) = {} /\ <<>> \in Seq(Sends)
  BY SMT DEF Front, FrontOf
<1>6. sent = sent \o Front(<<>>)
  BY SMT, <1>4, <1>5
<1>7. up' \in Seq(UpFrames) /\ Writes(FrontOf(<<>>))
  BY <1>1, <1>4, <1>5, <1>6, FramesWritten DEF WireTypes
<1> QED  BY <1>1, <1>3, <1>5, <1>7 DEF WireTypes, Quiet

\* The answer to the login: pulls, then the first of the sends.
LEMMA LoginEffect ==
  ASSUME WireTypes, down # <<>>, queue["send"] = <<>>, NEW p \in Seq(Pulls), NEW s \in Seq(Sends),
         LoginAccepted(Asked(p, s))
  PROVE  WireTypes' /\ queue'["send"] = s /\ Takes(FrontOf(s)) /\ down' = Tail(down)
<1>1. /\ queue' = Enqueue(queue, Asked(p, s)) /\ up' = up \o Frames(queue, Asked(p, s))
      /\ down' = Tail(down)
  BY DEF LoginAccepted
<1>2. /\ queue' \in [Kinds -> Seq(UpFrames)]
      /\ queue'["send"] = queue["send"] \o s /\ queue'["send"] \in Seq(Sends) /\ queue'["pull"] \in Seq(Pulls)
  BY <1>1, EnqueueIs DEF WireTypes
<1>3. queue'["send"] = s
  BY SMT, <1>2
<1> DEFINE p2 == IF queue["pull"] = <<>> THEN Front(p) ELSE <<>>
<1>4. p2 \in Seq(Pulls)
  BY SMT, FrontPulls
<1>5. Frames(queue, Asked(p, s)) = p2 \o Front(s)
  <2>1. Frames(queue, Asked(p, s)) = (IF queue["pull"] = <<>> THEN Front(p) ELSE <<>>)
                                    \o (IF queue["send"] = <<>> THEN Front(s) ELSE <<>>)
    BY FramesAre
  <2> QED  BY <2>1
<1> HIDE DEF p2
<1>6. up' = up \o (p2 \o Front(s))
  BY <1>1, <1>5
<1>7. up' \in Seq(UpFrames) /\ down' \in Seq(DownFrames) /\ Takes(FrontOf(s))
  BY <1>1, <1>4, <1>6, FramesTaken DEF WireTypes
<1> QED  BY <1>1, <1>2, <1>3, <1>7 DEF WireTypes

\* Open, the disconnected slot and a restart leave nothing.
LEMMA ClearedEffect ==
  ASSUME queue' = NoQueue, up' = <<>>, down' = <<>>
  PROVE  /\ WireTypes' /\ queue'["send"] = <<>> /\ Writes({})
         /\ \A t : ~OnWire(up, down, t)' /\ Single(up, down, t)'
<1>1. WireTypes' /\ queue'["send"] = <<>>
  <2>1. <<>> \in Seq(UpFrames) /\ <<>> \in Seq(Pulls) /\ <<>> \in Seq(Sends) /\ <<>> \in Seq(DownFrames)
    BY SMT
  <2> QED  BY <2>1, NoQueueIs DEF WireTypes
<1>2. \A t : ~OnWire(up', down', t) /\ Single(up', down', t)
  BY WireEmpty
<1> QED  BY <1>1, <1>2 DEF Writes

\* Steps that leave the queues and the wire alone.
LEMMA SameEffect ==
  ASSUME WireTypes, UNCHANGED <<queue, up, down>>
  PROVE  Quiet
<1>1. \A t : (OnWire(up', down', t) <=> OnWire(up, down, t)) /\ (Single(up', down', t) <=> Single(up, down, t))
  BY DEF OnWire, Single
<1> QED  BY <1>1 DEF Quiet, WireTypes, Writes

\* A frame from the gateway is dropped, or concerns no request.
LEMMA TakenEffect ==
  ASSUME WireTypes, down # <<>>, down' = Tail(down), UNCHANGED <<queue, up>>
  PROVE  Quiet
<1>1. ASSUME NEW t
      PROVE  /\ OnWire(up', down', t) => OnWire(up, down, t)
             /\ Single(up, down, t) => Single(up', down', t)
  BY WireTaken DEF WireTypes
<1>2. down' \in Seq(DownFrames)
  BY SMT DEF WireTypes
<1> QED  BY <1>1, <1>2 DEF Quiet, WireTypes, Writes

\* Close writes at most a quit.
LEMMA CloseEffect ==
  ASSUME WireTypes, Close
  PROVE  Quiet
<1> DEFINE f == [kind |-> "quit"]
<1>1. queue' = queue /\ down' = down /\ (up' = up \/ up' = Append(up, f))
  BY DEF Close
<1>2. CASE up' = up
  BY <1>1, <1>2, SameEffect
<1>3. CASE up' = Append(up, f)
  <2>1. f \in UpFrames /\ \A t : ~Is(f, t)
    BY OtherUpFrames
  <2> HIDE DEF f
  <2>2. ASSUME NEW t
        PROVE  /\ OnWire(up', down', t) => OnWire(up, down, t)
               /\ Single(up, down, t) => Single(up', down', t)
    <3>1. /\ Has(Append(up, f), t) <=> Has(up, t) \/ Is(f, t)
          /\ Once(up, t) /\ ~(Has(up, t) /\ Is(f, t)) => Once(Append(up, f), t)
      BY <2>1, AppendedFrame DEF WireTypes
    <3> QED  BY <1>1, <1>3, <2>1, <3>1 DEF OnWire, Single
  <2>3. up' \in Seq(UpFrames)
    BY SMT, <1>3, <2>1 DEF WireTypes
  <2> QED  BY <1>1, <2>2, <2>3 DEF Quiet, WireTypes, Writes
<1> QED  BY <1>1, <1>2, <1>3

\* The server answers with a frame of the same message.
LEMMA AnsweredEffect ==
  ASSUME WireTypes, up # <<>>, NEW f \in DownFrames,
         \A t \in 0..MaxMessages : Is(f, t) <=> Is(Head(up), t),
         up' = Tail(up), down' = Append(down, f), queue' = queue
  PROVE  Quiet
<1>1. ASSUME NEW t \in 0..MaxMessages
      PROVE  /\ OnWire(up', down', t) => OnWire(up, down, t)
             /\ Single(up, down, t) => Single(up', down', t)
  <2>1. /\ OnWire(Tail(up), Append(down, f), t) <=> OnWire(up, down, t)
        /\ Single(up, down, t) => Single(Tail(up), Append(down, f), t)
    BY WireAnswered DEF WireTypes
  <2> QED  BY <2>1
<1>2. up' \in Seq(UpFrames) /\ down' \in Seq(DownFrames)
  BY SMT DEF WireTypes
<1> QED  BY <1>1, <1>2 DEF Quiet, WireTypes, Writes

\* A request the server loses changes nothing for the messages that are still under way.
LEMMA LostEffect ==
  ASSUME WireTypes, up # <<>>, up' = Tail(up), UNCHANGED <<queue, down>>
  PROVE  Quiet
<1>1. ASSUME NEW t
      PROVE  /\ OnWire(up', down', t) => OnWire(up, down, t)
             /\ Single(up, down, t) => Single(up', down', t)
  BY WireLost DEF WireTypes
<1>2. up' \in Seq(UpFrames)
  BY SMT DEF WireTypes
<1> QED  BY <1>1, <1>2 DEF Quiet, WireTypes, Writes

\* A push changes nothing for the messages under way.
LEMMA PushedEffect ==
  ASSUME WireTypes, NEW i \in Nat, down' = Append(down, [kind |-> "push", id |-> i]), UNCHANGED <<queue, up>>
  PROVE  Quiet
<1> DEFINE f == [kind |-> "push", id |-> i]
<1>1. f \in DownFrames /\ \A t : ~Is(f, t)
  BY PushMade
<1>2. down' = Append(down, f)
  OBVIOUS
<1> HIDE DEF f
<1>3. ASSUME NEW t
      PROVE  /\ OnWire(up', down', t) => OnWire(up, down, t)
             /\ Single(up, down, t) => Single(up', down', t)
  BY ZenonT(30), <1>1, <1>2, WirePushed DEF WireTypes
<1>4. down' \in Seq(DownFrames)
  BY SMT, <1>1, <1>2 DEF WireTypes
<1> QED  BY <1>3, <1>4 DEF Quiet, WireTypes, Writes

-----------------------------------------------------------------------------
(* What the steps do to the messages *)

DataTypes ==
  /\ rec \in [Messages -> Records] /\ row \in [Messages -> Records] /\ outbox \subseteq Messages

Outcome == {"WaitingAccept", "Unknown", "RetryableFailed", "PermanentFailed"}

\* The states of a message, as unsettled, closed and settled ones.
LEMMA StateNames ==
  /\ Unsettled \cap Closed = {} /\ Unsettled \cap Settled = {}
  /\ "WaitingAccept" \in Unsettled /\ "Unknown" \in Unsettled /\ "RetryableFailed" \in Unsettled
  /\ "PendingLocal" \in Unsettled
  /\ "PermanentFailed" \in Closed /\ "Accepted" \in Closed /\ "none" \in Closed
  /\ "PermanentFailed" \in Settled /\ "Accepted" \in Settled /\ "none" \notin Settled
  /\ "WaitingAccept" # "Unknown" /\ "WaitingAccept" # "RetryableFailed" /\ "Unknown" # "RetryableFailed"
  /\ "PermanentFailed" # "Accepted" /\ "none" # "Accepted" /\ "none" # "PermanentFailed"
  /\ "PendingLocal" # "WaitingAccept" /\ "PendingLocal" # "Unknown"
  /\ NoRecord \in Records /\ NoRecord.st = "none" /\ NoRecord.id = 0
BY DEF Unsettled, Closed, Settled, NoRecord, Records

\* CanTransition leaves the unsettled states only, and a failed answer never leads to Accepted.
LEMMA Transitions ==
  \A s \in Outcome :
    /\ s \in Unsettled \cup Closed /\ s # "none" /\ s # "Accepted"
    /\ s \in Settled <=> s \notin Unsettled
    /\ \A f : CanTransition(f, s) => f \in Unsettled
    /\ CanTransition("WaitingAccept", s) <=> s # "WaitingAccept"
    /\ s = "WaitingAccept" => \A f \in Unsettled : f = "WaitingAccept" \/ CanTransition(f, s)
<1>1. \A s \in Outcome : s \in Unsettled \cup Closed /\ s # "none" /\ s # "Accepted"
  BY DEF Outcome, Unsettled, Closed
<1>2. \A s \in Outcome : s \in Settled <=> s \notin Unsettled
  BY DEF Outcome, Unsettled, Settled
<1>3. \A s \in Outcome : \A f : CanTransition(f, s) => f \in Unsettled
  BY DEF Outcome, Unsettled, CanTransition
<1>4. \A s \in Outcome : CanTransition("WaitingAccept", s) <=> s # "WaitingAccept"
  BY DEF Outcome, CanTransition
<1>5. \A f \in Unsettled : f = "WaitingAccept" \/ CanTransition(f, "WaitingAccept")
  BY DEF Unsettled, CanTransition
<1> QED  BY <1>1, <1>2, <1>3, <1>4, <1>5

\* UpdateMessageState keeps the table and the memory together.
LEMMA UpdateEffect ==
  ASSUME DataTypes, \A m \in Messages : RowOK(m),
         NEW ms \in SUBSET Messages, NEW s \in Outcome, UpdateMessageState(ms, s)
  PROVE  /\ DataTypes' /\ UNCHANGED <<stored, cursor, attached>>
         /\ \A m \in Messages :
              /\ RowOK(m)'
              /\ rec'[m].id = rec[m].id /\ row'[m].id = row[m].id
              /\ row'[m].st = "none" <=> row[m].st = "none"
              /\ m \in ms /\ CanTransition(rec[m].st, s) =>
                   rec'[m].st = s /\ row'[m].st = s /\ rec[m].st \in Unsettled
              /\ ~(m \in ms /\ CanTransition(rec[m].st, s)) =>
                   rec'[m].st = rec[m].st /\ row'[m].st = row[m].st
<1> DEFINE changed == {m \in ms : CanTransition(rec[m].st, s)}
<1>1. /\ rec' = [m \in Messages |-> IF m \in changed THEN [rec[m] EXCEPT !.st = s] ELSE rec[m]]
      /\ row' = [m \in Messages |-> IF m \in changed /\ row[m].st # "none" THEN [row[m] EXCEPT !.st = s] ELSE row[m]]
      /\ outbox' = (IF s \in Settled THEN outbox \ changed ELSE outbox)
      /\ UNCHANGED <<stored, cursor, attached>>
  BY DEF UpdateMessageState, UpdateDeliveryState
<1>2. \A m : m \in changed <=> m \in ms /\ CanTransition(rec[m].st, s)
  OBVIOUS
<1> HIDE DEF changed
<1>3. /\ s \in Unsettled \cup Closed /\ s # "none" /\ s # "Accepted"
      /\ s \in Settled <=> s \notin Unsettled
      /\ \A f : CanTransition(f, s) => f \in Unsettled
  BY Transitions
<1>4. \A r \in Records : /\ [r EXCEPT !.st = s] \in Records /\ [r EXCEPT !.st = s].st = s
                         /\ [r EXCEPT !.st = s].id = r.id
  BY <1>3 DEF Records
<1>5. \A m \in Messages : rec[m] \in Records /\ row[m] \in Records
  BY DEF DataTypes
<1>6. DataTypes'
  <2>1. rec' \in [Messages -> Records]
    BY <1>1, <1>4, <1>5
  <2>2. row' \in [Messages -> Records]
    BY <1>1, <1>4, <1>5
  <2>3. outbox' \subseteq Messages
    BY <1>1 DEF DataTypes
  <2> QED  BY <2>1, <2>2, <2>3 DEF DataTypes
<1>7. ASSUME NEW m \in Messages
      PROVE  /\ RowOK(m)'
             /\ rec'[m].id = rec[m].id /\ row'[m].id = row[m].id
             /\ row'[m].st = "none" <=> row[m].st = "none"
             /\ m \in ms /\ CanTransition(rec[m].st, s) =>
                  rec'[m].st = s /\ row'[m].st = s /\ rec[m].st \in Unsettled
             /\ ~(m \in ms /\ CanTransition(rec[m].st, s)) =>
                  rec'[m].st = rec[m].st /\ row'[m].st = row[m].st
  <2>1. rec'[m] = IF m \in changed THEN [rec[m] EXCEPT !.st = s] ELSE rec[m]
    BY <1>1
  <2>2. row'[m] = IF m \in changed /\ row[m].st # "none" THEN [row[m] EXCEPT !.st = s] ELSE row[m]
    BY <1>1
  <2>3. CASE m \in changed
    <3>1. rec[m].st \in Unsettled /\ row[m].st = rec[m].st
      BY <1>2, <1>3, <2>3 DEF RowOK
    <3>2. row[m].st # "none"
      BY <3>1, StateNames
    <3>3. /\ rec'[m].st = s /\ rec'[m].id = rec[m].id
          /\ row'[m].st = s /\ row'[m].id = row[m].id
      BY SMT, <1>4, <1>5, <2>1, <2>2, <2>3, <3>2
    <3>4. m \in outbox
      BY <3>1 DEF RowOK
    <3>5. m \in outbox' <=> s \in Unsettled
      BY <1>1, <1>3, <2>3, <3>4
    <3> QED  BY <1>2, <1>3, <2>3, <3>1, <3>2, <3>3, <3>5 DEF RowOK
  <2>4. CASE m \notin changed
    <3>1. m \in outbox' <=> m \in outbox
      BY <1>1, <2>4
    <3>2. rec'[m] = rec[m] /\ row'[m] = row[m]
      BY <2>1, <2>2, <2>4
    <3> QED  BY <1>2, <2>4, <3>1, <3>2 DEF RowOK
  <2> QED  BY <2>3, <2>4
<1> QED  BY <1>1, <1>6, <1>7

\* The next client message id is that of no message in memory.
LEMMA NextIdIsNew ==
  ASSUME NEW m \in Messages, NextId(m)
  PROVE  rec[m].st = "none"
<1>1. m >= m
  BY SMT, ClientBounds DEF Messages
<1> QED  BY <1>1 DEF NextId

-----------------------------------------------------------------------------
(* Steps that leave the user's messages alone *)

\* The server stores messages that are on the wire, and those of others.
LogGrows ==
  \/ log' = log
  \/ \E x \in Messages \cup {Peer} : log' = Append(log, x) /\ (x \in Messages => Has(up, x))

RejectsKept ==
  \A m \in Messages : SendAnswer(m, 0, FALSE) \in Range(down') =>
    SendAnswer(m, 0, FALSE) \in Range(down) \/ (m \notin Range(log) /\ log' = log)

QuietStep ==
  /\ WireTypes' /\ queue'["send"] = queue["send"] /\ Writes({0})
  /\ UNCHANGED <<rec, row, outbox, mixedUp>> /\ (IsReady' => IsReady)
  /\ sock' \in {"unconnected", "connecting", "connected", "closing"} /\ cursor' \in Nat
  /\ LogGrows /\ RejectsKept

\* The range of a sequence by its positions.
LEMMA RangeOfSeq ==
  ASSUME NEW S, NEW s \in Seq(S)
  PROVE  Range(s) = {s[i] : i \in 1..Len(s)}
BY SMT DEF Range

\* Appending to the server's log keeps the entries it has and adds one.
LEMMA LogAppend ==
  ASSUME NEW S, NEW l \in Seq(S), NEW x \in S
  PROVE  /\ Append(l, x) \in Seq(S) /\ Len(Append(l, x)) = Len(l) + 1 /\ Len(l) \in Nat
         /\ \A i \in 1..Len(l) : i \in 1..Len(Append(l, x)) /\ Append(l, x)[i] = l[i]
         /\ Append(l, x)[Len(l) + 1] = x /\ Len(l) + 1 \in 1..Len(Append(l, x))
         /\ \A y : y \in Range(Append(l, x)) <=> y \in Range(l) \/ y = x
<1>1. /\ Append(l, x) \in Seq(S) /\ Len(Append(l, x)) = Len(l) + 1 /\ Len(l) \in Nat
      /\ \A i \in 1..Len(l) : Append(l, x)[i] = l[i]
      /\ Append(l, x)[Len(l) + 1] = x
  BY SMT
<1> DEFINE r == Append(l, x)
<1> HIDE DEF r
<1>2. Len(l) + 1 \in 1..Len(r) /\ \A i \in 1..Len(l) : i \in 1..Len(r) /\ r[i] = l[i]
  BY SMT, <1>1 DEF r
<1>3. \A i \in 1..Len(r) : (i \in 1..Len(l) /\ r[i] = l[i]) \/ r[i] = x
  BY SMT, <1>1 DEF r
<1>4. Range(r) = {r[i] : i \in 1..Len(r)} /\ Range(l) = {l[i] : i \in 1..Len(l)}
  BY <1>1, RangeOfSeq DEF r
<1>5. \A y : y \in Range(r) <=> y \in Range(l) \/ y = x
  BY <1>1, <1>2, <1>3, <1>4 DEF r
<1> QED  BY <1>1, <1>2, <1>5 DEF r

\* When the log grows, what is new in it was on the wire.
LEMMA LogGrowth ==
  ASSUME log \in Seq(Messages \cup {Peer}), LogGrows
  PROVE  /\ log' \in Seq(Messages \cup {Peer})
         /\ Len(log) \in Nat /\ Len(log') \in Nat /\ Len(log) <= Len(log')
         /\ \A i \in 1..Len(log) : i \in 1..Len(log') /\ log'[i] = log[i]
         /\ Range(log) \subseteq Range(log')
         /\ \A m \in Messages : m \in Range(log') => m \in Range(log) \/ (Has(up, m) /\ log' # log)
<1>1. CASE log' = log
  BY SMT, <1>1
<1>2. CASE log' # log
  <2>1. PICK x \in Messages \cup {Peer} : log' = Append(log, x) /\ (x \in Messages => Has(up, x))
    BY <1>2 DEF LogGrows
  <2>2. /\ Append(log, x) \in Seq(Messages \cup {Peer}) /\ Len(Append(log, x)) = Len(log) + 1
        /\ Len(log) \in Nat
        /\ \A i \in 1..Len(log) : i \in 1..Len(Append(log, x)) /\ Append(log, x)[i] = log[i]
        /\ \A y : y \in Range(Append(log, x)) <=> y \in Range(log) \/ y = x
    BY SMT, LogAppend
  <2>3. Len(log') = Len(log) + 1 /\ \A y : y \in Range(log') <=> y \in Range(log) \/ y = x
    BY <2>1, <2>2
  <2>4. Len(log') \in Nat /\ Len(log) <= Len(log')
    BY SMT, <2>2, <2>3
  <2> QED  BY <1>2, <2>1, <2>2, <2>3, <2>4
<1> QED  BY <1>1, <1>2

\* A rejection on its way is a frame of the message.
LEMMA RejectOnWire ==
  ASSUME NEW d \in Seq(DownFrames), NEW m \in Messages, SendAnswer(m, 0, FALSE) \in Range(d)
  PROVE  Has(d, m)
<1>1. m \in 0..MaxMessages
  BY SMT, ClientBounds DEF Messages
<1>2. Is(SendAnswer(m, 0, FALSE), m)
  BY <1>1, SendAnswerMade
<1>3. PICK i \in 1..Len(d) : d[i] = SendAnswer(m, 0, FALSE)
  BY RangeOfSeq
<1> QED  BY <1>2, <1>3 DEF Has

\* A step that leaves rows and requests of own messages alone keeps what is known of them.
LEMMA QuietInv ==
  ASSUME Types, Queues, Tables, ~mixedUp => Outgoing /\ Outcomes, QuietStep
  PROVE  Types' /\ Queues' /\ Tables' /\ (~mixedUp' => Outgoing' /\ Outcomes')
<1>1. /\ log' \in Seq(Messages \cup {Peer})
      /\ \A i \in 1..Len(log) : i \in 1..Len(log') /\ log'[i] = log[i]
      /\ Range(log) \subseteq Range(log')
      /\ \A m \in Messages : m \in Range(log') => m \in Range(log) \/ (Has(up, m) /\ log' # log)
  BY LogGrowth DEF Types, QuietStep
<1>2. \A m \in Messages : m \in 0..MaxMessages /\ m # 0
  BY SMT, ClientBounds DEF Messages
<1>3. \A m \in Messages : /\ OnWire(up', down', m) => OnWire(up, down, m)
                          /\ Single(up, down, m) => Single(up', down', m)
  BY <1>2 DEF QuietStep, Writes
<1>4. \A m \in Messages : Has(queue'["send"], m) <=> Has(queue["send"], m)
  BY DEF QuietStep
<1>5. rec' = rec /\ row' = row /\ outbox' = outbox /\ mixedUp' = mixedUp /\ queue'["send"] = queue["send"]
  BY DEF QuietStep
<1>6. Types'
  BY <1>1 DEF QuietStep, Types
<1>7. Queues'
  BY <1>4, <1>5 DEF Queues, Queued, QuietStep, IsReady
<1>8. Tables'
  <2> SUFFICES ASSUME NEW m \in Messages
               PROVE  RowOK(m)' /\ (OnWire(up', down', m) \/ m \in Range(log') => row'[m].st # "none")
    BY DEF Tables
  <2>1. RowOK(m)'
    BY <1>5 DEF Tables, RowOK
  <2>2. Has(up, m) => OnWire(up, down, m)
    BY DEF OnWire
  <2>3. OnWire(up, down, m) \/ m \in Range(log) => row[m].st # "none"
    BY DEF Tables
  <2> QED  BY <1>1, <1>3, <1>5, <2>1, <2>2, <2>3
<1>9. ASSUME ~mixedUp
      PROVE  Outgoing' /\ Outcomes'
  <2>1. Outgoing /\ Outcomes
    BY <1>9
  <2>2. Outgoing'
    BY <1>3, <1>4, <1>5, <2>1 DEF Outgoing, Queued
  <2>3. ASSUME NEW m \in Messages, Has(up, m)
        PROVE  /\ ~Has(down, m) /\ rec[m].st # "PermanentFailed" /\ row[m].st # "PermanentFailed"
    <3>1. OnWire(up, down, m) /\ ~Has(down, m)
      BY <2>1, <2>3 DEF Outgoing, OnWire, Single
    <3>2. rec[m].st \in {"WaitingAccept", "Unknown"}
      BY <2>1, <3>1 DEF Outgoing, Queues
    <3>3. rec[m].st \in Unsettled /\ rec[m].st # "PermanentFailed"
      BY <3>2, StateNames
    <3>4. row[m].st = rec[m].st
      BY <3>3 DEF Tables, RowOK
    <3> QED  BY <3>1, <3>3, <3>4
  <2>4. ASSUME NEW m \in Messages
        PROVE  /\ "PermanentFailed" \in {rec'[m].st, row'[m].st} => m \notin Range(log')
               /\ SendAnswer(m, 0, FALSE) \in Range(down') => m \notin Range(log')
               /\ row'[m].st = "Accepted" => m \in Range(log')
               /\ IdRight(m, rec[m].id)' /\ IdRight(m, row[m].id)'
    <3>1. /\ "PermanentFailed" \in {rec[m].st, row[m].st} => m \notin Range(log)
          /\ SendAnswer(m, 0, FALSE) \in Range(down) => m \notin Range(log)
          /\ row[m].st = "Accepted" => m \in Range(log)
          /\ IdRight(m, rec[m].id) /\ IdRight(m, row[m].id)
      BY <2>1 DEF Outcomes
    <3>2. "PermanentFailed" \in {rec'[m].st, row'[m].st} => m \notin Range(log')
      BY <1>1, <1>5, <2>3, <3>1
    <3>3. SendAnswer(m, 0, FALSE) \in Range(down) => Has(down, m)
      BY RejectOnWire DEF Types, WireTypes
    <3>4. SendAnswer(m, 0, FALSE) \in Range(down') => m \notin Range(log')
      BY <1>1, <2>3, <3>1, <3>3 DEF QuietStep, RejectsKept
    <3>5. row'[m].st = "Accepted" => m \in Range(log')
      BY <1>1, <1>5, <3>1
    <3>6. IdRight(m, rec[m].id)' /\ IdRight(m, row[m].id)'
      BY <1>1, <1>5, <3>1 DEF IdRight
    <3> QED  BY <3>2, <3>4, <3>5, <3>6
  <2>5. Outcomes'
    BY <2>4 DEF Outcomes, IdRight
  <2> QED  BY <2>2, <2>5
<1> QED  BY <1>5, <1>6, <1>7, <1>8, <1>9

\* The connection keeps its invariant in a step that only closes it or fails to open it.
LEMMA ConnQuiet ==
  ASSUME Connection, Quiet, IsReady' => IsReady, backoff' => sock' = "unconnected",
         sock' \in {"unconnected", "connecting"} => sock \in {"unconnected", "connecting"}
  PROVE  Connection'
<1>1. \A t \in 0..MaxMessages : /\ OnWire(up', down', t) => OnWire(up, down, t)
                                /\ Single(up, down, t) => Single(up', down', t)
  BY DEF Quiet, Writes
<1>2. 0 \in 0..MaxMessages /\ \A m \in Messages : m \in 0..MaxMessages
  BY SMT, ClientBounds DEF Messages
<1>3. queue'["send"] = queue["send"]
  BY DEF Quiet
<1> QED  BY <1>1, <1>2, <1>3 DEF Connection

\* A quiet step writes no frame but a login.
LEMMA QuietWrites ==
  ASSUME Quiet
  PROVE  WireTypes' /\ queue'["send"] = queue["send"] /\ Writes({0})
BY TakesMore DEF Quiet

\* down' is made of frames of down, and of frames that are right.
DownFrom ==
  \A j \in 1..Len(down') : (\E i \in 1..Len(down) : down'[j] = down[i]) \/ DownOK(down'[j], log')

\* A frame that is received or lost leaves only frames that were there.
LEMMA DownSmaller ==
  ASSUME WireTypes, \/ down' = down
                    \/ down # <<>> /\ down' = Tail(down)
                    \/ down' = <<>>
  PROVE  DownFrom /\ RejectsKept
<1>1. \A j \in 1..Len(down') : \E i \in 1..Len(down) : down'[j] = down[i]
  <2>1. CASE down' = down
    BY <2>1
  <2>2. CASE down # <<>> /\ down' = Tail(down)
    <3>1. \A i \in 1..Len(Tail(down)) : i + 1 \in 1..Len(down) /\ Tail(down)[i] = down[i + 1]
      BY <2>2, TailFrames DEF WireTypes
    <3> QED  BY <2>2, <3>1
  <2>3. CASE down' = <<>>
    BY SMT, <2>3
  <2> QED  BY <2>1, <2>2, <2>3
<1>2. down' \in Seq(DownFrames)
  <2>1. down \in Seq(DownFrames) /\ <<>> \in Seq(DownFrames)
    BY SMT DEF WireTypes
  <2>2. down # <<>> => Tail(down) \in Seq(DownFrames)
    BY SMT, <2>1
  <2> QED  BY <2>1, <2>2
<1>3. Range(down') = {down'[i] : i \in 1..Len(down')} /\ Range(down) = {down[i] : i \in 1..Len(down)}
  BY <1>2, RangeOfSeq DEF WireTypes
<1>4. Range(down') \subseteq Range(down)
  BY <1>1, <1>3
<1> QED  BY <1>1, <1>4 DEF DownFrom, RejectsKept

\* A frame the server adds is true of the log after it.
LEMMA DownLonger ==
  ASSUME WireTypes, NEW f \in DownFrames, down' = Append(down, f), DownOK(f, log')
  PROVE  /\ DownFrom
         /\ (\A m \in Messages : f = SendAnswer(m, 0, FALSE) => m \notin Range(log) /\ log' = log) => RejectsKept
<1>1. /\ Len(down') = Len(down) + 1 /\ Len(down) \in Nat
      /\ \A i \in 1..Len(down) : down'[i] = down[i]
      /\ down'[Len(down) + 1] = f
      /\ \A y : y \in Range(down') <=> y \in Range(down) \/ y = f
  BY SMT, LogAppend DEF WireTypes
<1>2. DownFrom
  <2> SUFFICES ASSUME NEW j \in 1..Len(down')
               PROVE  (\E i \in 1..Len(down) : down'[j] = down[i]) \/ DownOK(down'[j], log')
    BY DEF DownFrom
  <2>1. j \in 1..Len(down) \/ j = Len(down) + 1
    BY SMT, <1>1
  <2> QED  BY <1>1, <2>1
<1> QED  BY <1>1, <1>2 DEF RejectsKept

\* What is right of the log stays right.
LEMMA LogKeeps ==
  ASSUME log \in Seq(Messages \cup {Peer}), LogGrows
  PROVE  /\ \A f : DownOK(f, log) => DownOK(f, log')
         /\ \A i : OwnId(i, log) => OwnId(i, log')
         /\ \A i \in 1..Len(log) : i \in 1..Len(log') /\ log'[i] = log[i]
<1>1. \A i \in 1..Len(log) : i \in 1..Len(log') /\ log'[i] = log[i]
  BY LogGrowth
<1>2. \A i : OwnId(i, log) => OwnId(i, log')
  BY <1>1 DEF OwnId
<1>3. \A f : DownOK(f, log) => DownOK(f, log')
  BY <1>1 DEF DownOK
<1> QED  BY <1>1, <1>2, <1>3

\* A step that shows, stores and acknowledges nothing new.
LEMMA IncomingKept ==
  ASSUME log \in Seq(Messages \cup {Peer}), Incoming, LogGrows, DownFrom, UNCHANGED <<seen, stored, acked>>,
         \A m \in Messages : OwnId(rec'[m].id, log') /\ OwnId(row'[m].id, log')
  PROVE  Incoming'
<1>1. /\ \A f : DownOK(f, log) => DownOK(f, log')
      /\ \A i \in 1..Len(log) : i \in 1..Len(log') /\ log'[i] = log[i]
  BY LogKeeps
<1>2. \A j \in 1..Len(down') : DownOK(down'[j], log')
  <2> TAKE j \in 1..Len(down')
  <2>1. CASE DownOK(down'[j], log')
    BY <2>1
  <2>2. CASE \E i \in 1..Len(down) : down'[j] = down[i]
    <3>1. PICK i \in 1..Len(down) : down'[j] = down[i]
      BY <2>2
    <3>2. DownOK(down[i], log)
      BY DEF Incoming
    <3> QED  BY <1>1, <3>1, <3>2
  <2> QED  BY <2>1, <2>2 DEF DownFrom
<1>3. /\ seen' \subseteq 1..Len(log') /\ stored' \subseteq 1..Len(log') /\ acked' \subseteq stored'
      /\ \A i \in seen' : log'[i] = Peer => i \in stored'
  BY <1>1 DEF Incoming
<1> QED  BY <1>2, <1>3 DEF Incoming

\* The same, when neither the log nor the messages change.
LEMMA IncomingSame ==
  ASSUME Types, Incoming, UNCHANGED <<log, rec, row, seen, stored, acked>>, DownFrom
  PROVE  Incoming'
<1>1. LogGrows
  BY DEF LogGrows
<1>2. \A m \in Messages : OwnId(rec'[m].id, log') /\ OwnId(row'[m].id, log')
  BY DEF Incoming
<1> QED  BY <1>1, <1>2, IncomingKept DEF Types

\* Own messages are positive numbers and none of them is the peer's.
LEMMA NotPeer == \A m \in Messages : m # Peer /\ m \in Nat /\ m # 0 /\ m \in 0..MaxMessages
BY SMT, ClientBounds, PeerAssumption DEF Messages

-----------------------------------------------------------------------------
(* The quiet actions *)

QuietGood == QuietStep /\ Connection' /\ Incoming'

\* The connection and the messages stay as they are.
LEMMA QuietKept ==
  ASSUME Types, Quiet, UNCHANGED <<rec, row, outbox, mixedUp>>, IsReady' => IsReady,
         sock' \in {"unconnected", "connecting", "connected", "closing"}, cursor' \in Nat, LogGrows, RejectsKept
  PROVE  QuietStep
BY QuietWrites DEF QuietStep

\* Signing in and reading touch no own message.
LEMMA UserQuiet ==
  ASSUME Types, Connection, Incoming,
         Authenticate \/ SignInFailed \/ \E i \in 1..MaxLog : MarkRead(i)
  PROVE  QuietGood
<1>1. UNCHANGED <<connVars, rec, row, outbox, cursor, mixedUp, log, stored, seen>>
  BY DEF Authenticate, SignInFailed, MarkRead, dbVars
<1>2. UNCHANGED <<queue, up, down, state, sock, backoff>>
  BY <1>1 DEF connVars
<1>3. Quiet
  BY <1>2, SameEffect DEF Types
<1>4. DownFrom /\ RejectsKept /\ LogGrows
  BY <1>1, <1>2, DownSmaller DEF Types, LogGrows
<1>5. QuietStep
  BY <1>1, <1>2, <1>3, <1>4, QuietKept DEF Types, IsReady
<1>6. Connection'
  BY <1>2, <1>3, ConnQuiet DEF Connection, IsReady
<1>7. acked' \subseteq stored'
  <2>1. CASE acked' = acked
    BY <1>1, <2>1 DEF Incoming
  <2>2. CASE \E i \in 1..MaxLog : MarkRead(i)
    BY <1>1, <2>2 DEF Incoming, MarkRead
  <2> QED  BY <2>1, <2>2 DEF Authenticate, SignInFailed
<1>8. Incoming'
  BY <1>1, <1>2, <1>7 DEF Incoming
<1> QED  BY <1>5, <1>6, <1>8 DEF QuietGood

\* Steps of the connection that concern no message.
LEMMA SocketQuiet ==
  ASSUME Types, Connection, Incoming,
         GatewayUnreachable \/ ReconnectTimer \/ LeaveTimeout \/ SessionExpires \/ Leave
  PROVE  QuietGood
<1>1. UNCHANGED <<rec, row, outbox, cursor, mixedUp, log, stored, seen, acked>>
  BY DEF GatewayUnreachable, ReconnectTimer, LeaveTimeout, SessionExpires, Leave, appVars, dbVars
<1>2. UNCHANGED <<queue, down>> /\ (UNCHANGED up \/ Close)
  BY DEF GatewayUnreachable, ReconnectTimer, LeaveTimeout, SessionExpires, Leave,
         ConnectFails, Reconnect, QuitTimeout, TokenExpires, Close
<1>3. Quiet
  BY <1>2, SameEffect, CloseEffect DEF Types
<1>4. DownFrom /\ RejectsKept /\ LogGrows
  BY <1>1, <1>2, DownSmaller DEF Types, LogGrows
<1>5. /\ IsReady' => IsReady
      /\ backoff' => sock' = "unconnected"
      /\ sock' \in {"unconnected", "connecting"} => sock \in {"unconnected", "connecting"}
      /\ sock' \in {"unconnected", "connecting", "connected", "closing"}
  <2>1. CASE GatewayUnreachable
    BY <2>1 DEF GatewayUnreachable, ConnectFails, IsReady
  <2>2. CASE ReconnectTimer
    BY <2>2 DEF ReconnectTimer, Reconnect, IsReady, Connection
  <2>3. CASE LeaveTimeout
    BY <2>3 DEF LeaveTimeout, QuitTimeout, IsReady, Connection, Types
  <2>4. CASE SessionExpires
    BY <2>4 DEF SessionExpires, TokenExpires, IsReady, Connection, Types
  <2>5. CASE Leave
    BY <2>5 DEF Leave, Close, IsReady, Connection, Types
  <2> QED  BY <2>1, <2>2, <2>3, <2>4, <2>5
<1>6. QuietStep
  BY <1>1, <1>3, <1>4, <1>5, QuietKept DEF Types
<1>7. Connection'
  BY <1>3, <1>5, ConnQuiet
<1>8. Incoming'
  BY <1>1, <1>4, IncomingSame
<1> QED  BY <1>6, <1>7, <1>8 DEF QuietGood

\* The login request goes out on an empty wire.
LEMMA ConnectedQuiet ==
  ASSUME Types, Connection, Incoming, GatewayConnected
  PROVE  QuietGood
<1> DEFINE f == [kind |-> "login"]
<1>1. /\ UNCHANGED <<rec, row, outbox, cursor, mixedUp, log, stored, seen, acked>>
      /\ UNCHANGED <<queue, down, backoff>> /\ up' = up \o <<f>> /\ sock = "connecting" /\ sock' = "connected"
      /\ state' = "Authenticating"
  BY DEF GatewayConnected, SocketConnected, appVars, dbVars
<1>2. f \in UpFrames /\ \A t : Is(f, t) <=> t = 0
  BY OtherUpFrames
<1> HIDE DEF f
<1>3. <<f>> \in Seq(UpFrames)
  BY SMT, <1>2
<1>4. \A t \in 0..MaxMessages : ~OnWire(up, down, t)
  BY <1>1 DEF Connection
<1>5. ASSUME NEW t \in 0..MaxMessages
      PROVE  /\ OnWire(up', down', t) <=> OnWire(up, down, t) \/ t = 0
             /\ Single(up, down, t) => Single(up', down', t)
  <2>1. /\ OnWire(up \o <<f>>, down, t) <=> OnWire(up, down, t) \/ Has(<<f>>, t)
        /\ Single(up, down, t) /\ Once(<<f>>, t) /\ ~(Has(<<f>>, t) /\ OnWire(up, down, t)) => Single(up \o <<f>>, down, t)
    BY <1>3, WireWritten DEF Types, WireTypes
  <2>2. (Has(<<f>>, t) <=> t = 0) /\ Once(<<f>>, t)
    BY <1>2, FewFrames
  <2> QED  BY <1>1, <1>4, <2>1, <2>2
<1>6. Writes({0})
  BY <1>5 DEF Writes
<1>7. WireTypes'
  BY SMT, <1>1, <1>3 DEF Types, WireTypes
<1>8. DownFrom /\ RejectsKept /\ LogGrows
  BY <1>1, DownSmaller DEF Types, LogGrows
<1>9. ~IsReady'
  BY <1>1 DEF IsReady
<1>10. QuietStep
  BY <1>1, <1>6, <1>7, <1>8, <1>9 DEF QuietStep, Types
<1>11. Connection'
  <2>1. queue["send"] = <<>> /\ ~backoff /\ Single(up, down, 0)
    BY <1>1 DEF Connection
  <2>2. 0 \in 0..MaxMessages /\ \A m \in Messages : m \in 0..MaxMessages /\ m # 0
    BY SMT, ClientBounds DEF Messages
  <2>3. Single(up', down', 0) /\ \A m \in Messages : ~OnWire(up', down', m)
    BY <1>4, <1>5, <2>1, <2>2
  <2> QED  BY <1>1, <1>9, <2>1, <2>3 DEF Connection
<1>12. Incoming'
  BY <1>1, <1>8, IncomingSame
<1> QED  BY <1>10, <1>11, <1>12 DEF QuietGood

\* A message of another user has no row or record of an own message.
LEMMA PeerStored ==
  ASSUME Types, Incoming, NEW i \in 1..Len(log), log[i] = Peer
  PROVE  (Known(i) => i \in stored) /\ (IdTaken(i, 0) => i \in stored)
<1>1. i # 0
  BY SMT
<1>2. \A m \in Messages : rec[m].id # i /\ row[m].id # i
  BY <1>1, NotPeer DEF Incoming, OwnId
<1> QED  BY <1>2 DEF Known, IdTaken, Incoming

\* The first frame from the gateway.
LEMMA ReceivedFrame ==
  ASSUME Types, Connection, Incoming, NEW k, Receives(k)
  PROVE  /\ down # <<>> /\ Head(down) \in DownFrames /\ Head(down).kind = k /\ DownOK(Head(down), log)
         /\ sock \in {"connected", "closing"} /\ ~backoff
<1>1. down # <<>> /\ down \in Seq(DownFrames) /\ Head(down).kind = k /\ sock \in {"connected", "closing"}
  BY DEF Receives, Types, WireTypes
<1>2. Head(down) \in DownFrames /\ Head(down) = down[1] /\ 1 \in 1..Len(down)
  BY SMT, <1>1
<1> QED  BY <1>1, <1>2 DEF Incoming, Connection

\* Answers without effect on the messages.
LEMMA ReceiveQuiet ==
  ASSUME Types, Connection, Incoming,
         \/ LoginError \/ QuitResponse \/ PullUnsaved \/ PullRefused \/ PushUnsaved
         \/ \E k \in Kinds : Unexpected(k)
  PROVE  QuietGood
<1>1. PICK k : Receives(k)
  BY DEF LoginError, QuitResponse, PullUnsaved, PullRefused, PushUnsaved, Unexpected
<1>2. down # <<>> /\ sock \in {"connected", "closing"} /\ ~backoff
  BY <1>1, ReceivedFrame
<1>3. UNCHANGED <<rec, row, outbox, cursor, mixedUp, log, stored, seen, acked>>
  BY DEF LoginError, QuitResponse, PullUnsaved, PullRefused, PushUnsaved, Unexpected, appVars, dbVars
<1>4. UNCHANGED <<state, backoff>> /\ sock' \in {sock, "closing"}
  BY DEF LoginError, QuitResponse, PullUnsaved, PullRefused, PushUnsaved, Unexpected,
         LoginRefused, QuitAnswered, Idle
<1>5. Quiet /\ down' = Tail(down)
  <2>1. CASE down' = Tail(down) /\ UNCHANGED <<queue, up>>
    BY <1>2, <2>1, TakenEffect DEF Types
  <2>2. CASE CompleteFront("pull", NoQueue)
    <3>1. <<>> \in Seq(Pulls) /\ NoQueue = Asked(<<>>, <<>>)
      BY SMT, NoQueueIs
    <3> QED  BY <1>2, <2>2, <3>1, CompletePull DEF Types
  <2> QED  BY <2>1, <2>2
           DEF LoginError, QuitResponse, PullUnsaved, PullRefused, PushUnsaved, Unexpected,
               LoginRefused, QuitAnswered, UnexpectedResponse, wireVars
<1>6. DownFrom /\ RejectsKept /\ LogGrows
  BY <1>2, <1>3, <1>5, DownSmaller DEF Types, LogGrows
<1>7. QuietStep
  BY <1>2, <1>3, <1>4, <1>5, <1>6, QuietKept DEF Types, IsReady
<1>8. Connection'
  BY <1>2, <1>4, <1>5, ConnQuiet DEF IsReady
<1>9. Incoming'
  BY <1>3, <1>6, IncomingSame
<1> QED  BY <1>7, <1>8, <1>9 DEF QuietGood

\* A page or a push: what is new is stored before it is acknowledged.
LEMMA BatchStored ==
  ASSUME Types, Incoming, UNCHANGED <<log, rec, row>>, down # <<>>, down' = Tail(down),
         NEW batch \in SUBSET (1..Len(log)), NEW fresh \in SUBSET batch,
         \A i \in fresh : log[i] = Peer => i \in stored',
         seen' = seen \cup fresh,
         stored' = stored \cup {i \in fresh : ~IdTaken(i, 0)},
         acked' \subseteq acked \cup {i \in batch : log[i] = Peer /\ i \in stored'}
  PROVE  Incoming'
<1>1. LogGrows /\ DownFrom
  BY DownSmaller DEF LogGrows, Types
<1>2. \A j \in 1..Len(down') : DownOK(down'[j], log')
  BY <1>1 DEF DownFrom, Incoming
<1>3. /\ seen' \subseteq 1..Len(log') /\ stored' \subseteq 1..Len(log') /\ acked' \subseteq stored'
      /\ \A i \in seen' : log'[i] = Peer => i \in stored'
  BY DEF Incoming
<1> QED  BY <1>2, <1>3 DEF Incoming

\* The answer to a pull touches no own message.
LEMMA PullQuiet ==
  ASSUME Types, Connection, Incoming, PullAnswered
  PROVE  QuietGood
<1> DEFINE page == Head(down)
           additions == {i \in page.seqs : ~Known(i)}
           p == IF page.more THEN <<Pull(page.next)>> ELSE <<>>
<1>1. /\ Receives("pull") /\ page.ok
      /\ CompleteFront("pull", IF page.more THEN Asked(<<Pull(page.next)>>, <<>>) ELSE NoQueue)
      /\ ApplyIncomingBatch(additions, page.next)
      /\ seen' = seen \cup additions
      /\ acked' = (IF IsReady THEN acked \cup {i \in additions : log[i] = Peer} ELSE acked)
      /\ UNCHANGED <<rec, mixedUp, log, state, backoff, sock>>
  BY DEF PullAnswered, Idle
<1>2. /\ down # <<>> /\ page \in DownFrames /\ page.kind = "pull" /\ DownOK(page, log)
      /\ sock \in {"connected", "closing"} /\ ~backoff
  BY <1>1, ReceivedFrame
<1>3. page \in Pages /\ page.next \in Nat /\ page.seqs \subseteq 1..Len(log)
  BY <1>1, <1>2, DownFramesAre DEF DownOK
<1>4. p \in Seq(Pulls) /\ NoQueue = Asked(<<>>, <<>>)
  BY SMT, <1>3, PullsAre, NoQueueIs
<1>5. CompleteFront("pull", Asked(p, <<>>))
  BY <1>1, <1>4
<1> HIDE DEF p, page
<1>6. Quiet /\ down' = Tail(down)
  BY <1>2, <1>4, <1>5, CompletePull DEF Types
<1>7. /\ UNCHANGED <<row, outbox>> /\ cursor' \in Nat
      /\ stored' = stored \cup {i \in additions : ~IdTaken(i, 0)}
  BY <1>1, <1>3 DEF ApplyIncomingBatch, Types
<1>8. RejectsKept /\ LogGrows
  BY <1>1, <1>2, <1>6, DownSmaller DEF Types, LogGrows
<1>9. QuietStep
  BY <1>1, <1>2, <1>6, <1>7, <1>8, QuietKept DEF Types, IsReady
<1>10. Connection'
  BY <1>1, <1>2, <1>6, ConnQuiet DEF IsReady
<1>11. Incoming'
  <2>1. additions \in SUBSET page.seqs /\ page.seqs \in SUBSET (1..Len(log))
    BY <1>3
  <2> HIDE DEF additions
  <2>2. \A i \in additions : log[i] = Peer => i \in stored'
    <3> TAKE i \in additions
    <3>1. i \in 1..Len(log)
      BY <2>1
    <3> QED  BY <1>7, <3>1, PeerStored
  <2>3. acked' \subseteq acked \cup {i \in page.seqs : log[i] = Peer /\ i \in stored'}
    BY <1>1, <2>1, <2>2
  <2> QED  BY <1>1, <1>2, <1>6, <1>7, <2>1, <2>2, <2>3, BatchStored
<1> QED  BY <1>9, <1>10, <1>11 DEF QuietGood

\* A push touches no own message.
LEMMA PushQuiet ==
  ASSUME Types, Connection, Incoming, Push
  PROVE  QuietGood
<1> DEFINE i == Head(down).id
<1>1. /\ Receives("push") /\ down' = Tail(down) /\ UNCHANGED <<queue, up>>
      /\ IF Known(i) THEN UNCHANGED <<seen, row, stored, outbox, cursor>>
                     ELSE seen' = seen \cup {i} /\ ApplyIncomingBatch({i}, i)
      /\ acked' = (IF IsReady THEN acked \cup {i} ELSE acked)
      /\ UNCHANGED <<rec, mixedUp, log, state, backoff, sock>>
  BY DEF Push, Idle, wireVars, Acknowledge
<1>2. /\ down # <<>> /\ Head(down).kind = "push" /\ DownOK(Head(down), log)
      /\ sock \in {"connected", "closing"} /\ ~backoff
  BY <1>1, ReceivedFrame
<1>3. i \in 1..Len(log) /\ log[i] = Peer
  BY <1>2 DEF DownOK
<1> HIDE DEF i
<1>4. Quiet
  BY <1>1, <1>2, TakenEffect DEF Types
<1>5. i \in Nat
  BY SMT, <1>3
<1>6. UNCHANGED <<row, outbox>> /\ cursor' \in Nat
  BY <1>1, <1>5 DEF ApplyIncomingBatch, Types
<1>7. RejectsKept /\ LogGrows
  BY <1>1, <1>2, DownSmaller DEF Types, LogGrows
<1>8. QuietStep
  BY <1>1, <1>2, <1>4, <1>6, <1>7, QuietKept DEF Types, IsReady
<1>9. Connection'
  BY <1>1, <1>2, <1>4, ConnQuiet DEF IsReady
<1>10. (Known(i) => i \in stored) /\ (IdTaken(i, 0) => i \in stored)
  BY <1>3, PeerStored
<1>11. Incoming'
  <2> DEFINE fresh == IF Known(i) THEN {} ELSE {i}
  <2>1. seen' = seen \cup fresh /\ stored' = stored \cup {j \in fresh : ~IdTaken(j, 0)}
    BY <1>1 DEF ApplyIncomingBatch
  <2>2. i \in stored'
    BY <1>10, <2>1
  <2>3. {i} \in SUBSET (1..Len(log)) /\ fresh \in SUBSET {i} /\ \A j \in fresh : log[j] = Peer => j \in stored'
    BY <1>3, <2>2
  <2>4. acked' \subseteq acked \cup {j \in {i} : log[j] = Peer /\ j \in stored'}
    BY <1>1, <1>3, <2>2
  <2> HIDE DEF fresh
  <2> QED  BY <1>1, <1>2, <1>6, <2>1, <2>3, <2>4, BatchStored
<1> QED  BY <1>8, <1>9, <1>11 DEF QuietGood

\* The timer of a pull.
LEMMA TimeoutQuiet ==
  ASSUME Types, Connection, Incoming, Timeout("pull")
  PROVE  QuietGood
<1>1. RequestTimeout("pull") /\ UNCHANGED <<rec, row, outbox, cursor, stored, mixedUp, log, seen, acked, state, backoff, sock>>
  <2>1. "pull" # "send"
    OBVIOUS
  <2> QED  BY <2>1 DEF Timeout, dbVars, RequestTimeout
<1>2. Quiet /\ down' = down
  BY <1>1, TimeoutPull DEF Types
<1>3. DownFrom /\ RejectsKept /\ LogGrows
  BY <1>1, <1>2, DownSmaller DEF Types, LogGrows
<1>4. QuietStep
  BY <1>1, <1>2, <1>3, QuietKept DEF Types, IsReady
<1>5. Connection'
  BY <1>1, <1>2, ConnQuiet DEF IsReady, Connection
<1>6. Incoming'
  BY <1>1, <1>3, IncomingSame
<1> QED  BY <1>4, <1>5, <1>6 DEF QuietGood

-----------------------------------------------------------------------------
(* The server *)

\* The first frame from the client.
LEMMA ArrivedFrame ==
  ASSUME Types, NEW k, Arrives(k)
  PROVE  /\ up # <<>> /\ Head(up) \in UpFrames /\ Head(up).kind = k
         /\ \A t : Is(Head(up), t) => Has(up, t)
<1>1. up # <<>> /\ up \in Seq(UpFrames) /\ Head(up).kind = k
  BY DEF Arrives, Types, WireTypes
<1>2. Head(up) \in UpFrames /\ Head(up) = up[1] /\ 1 \in 1..Len(up)
  BY SMT, <1>1
<1> QED  BY <1>1, <1>2 DEF Has

\* Any answer that is right of the log keeps everything.
LEMMA AnswerQuiet ==
  ASSUME Types, Connection, Incoming, up # <<>>, NEW f \in DownFrames, Replies(f),
         \A t \in 0..MaxMessages : Is(f, t) <=> Is(Head(up), t),
         LogGrows, DownOK(f, log'),
         \A m \in Messages : f = SendAnswer(m, 0, FALSE) => m \notin Range(log) /\ log' = log
  PROVE  QuietGood
<1>1. /\ up' = Tail(up) /\ down' = Append(down, f)
      /\ UNCHANGED <<queue, state, sock, backoff, rec, row, outbox, cursor, mixedUp, stored, seen, acked>>
  BY DEF Replies, appVars, dbVars
<1>2. Quiet
  BY <1>1, AnsweredEffect DEF Types
<1>3. DownFrom /\ RejectsKept
  BY <1>1, DownLonger DEF Types
<1>4. QuietStep
  BY <1>1, <1>2, <1>3, QuietKept DEF Types, IsReady
<1>5. Connection'
  BY <1>1, <1>2, ConnQuiet DEF IsReady, Connection
<1>6. \A m \in Messages : OwnId(rec'[m].id, log') /\ OwnId(row'[m].id, log')
  BY <1>1, LogKeeps DEF Incoming, Types
<1>7. Incoming'
  BY <1>1, <1>3, <1>6, IncomingKept DEF Types
<1> QED  BY <1>4, <1>5, <1>7 DEF QuietGood

\* Frames that are no answer to a send or a pull, and no push, are right of every log.
LEMMA OtherFrameRight ==
  ASSUME NEW f \in DownFrames, f.kind \in {"login", "quit"} \/ (f.kind = "pull" /\ f \notin Pages), NEW l
  PROVE  DownOK(f, l) /\ \A m \in Messages : f # SendAnswer(m, 0, FALSE)
<1>1. f.kind # "send" /\ f.kind # "push" /\ f \notin Pages
  <2>1. f \in Pages => f.kind = "pull"
    BY DownFramesAre
  <2> QED  BY <2>1, KindNames
<1>2. f \notin SendAnswers
  BY <1>1, DownFramesAre
<1>3. \A m \in Messages : SendAnswer(m, 0, FALSE).kind = "send"
  BY SendAnswerMade
<1> QED  BY <1>1, <1>2, <1>3 DEF DownOK

\* Answering a login touches no own message.
LEMMA ServerLoginQuiet ==
  ASSUME Types, Connection, Incoming, ServerLogin
  PROVE  QuietGood
<1>1. /\ up # <<>> /\ Head(up).kind = "login"
  BY ArrivedFrame DEF ServerLogin
<1>2. PICK a \in BOOLEAN, b \in BOOLEAN : Replies([kind |-> "login", ok |-> a, token |-> b])
  BY DEF ServerLogin, Answer
<1> DEFINE f == [kind |-> "login", ok |-> a, token |-> b]
<1>3. f \in DownFrames /\ f.kind = "login" /\ \A t : Is(f, t) <=> t = 0
  BY LoginAnswerMade
<1>4. Replies(f)
  BY <1>2
<1> HIDE DEF f
<1>5. \A t : Is(Head(up), t) <=> t = 0
  BY <1>1, KindNames DEF Is
<1>6. DownOK(f, log') /\ \A m \in Messages : f # SendAnswer(m, 0, FALSE)
  BY <1>3, OtherFrameRight
<1>7. LogGrows
  BY DEF ServerLogin, LogGrows
<1> QED  BY <1>1, <1>3, <1>4, <1>5, <1>6, <1>7, AnswerQuiet

\* Answering a quit touches no own message.
LEMMA ServerQuitQuiet ==
  ASSUME Types, Connection, Incoming, ServerQuit
  PROVE  QuietGood
<1>1. /\ up # <<>> /\ Head(up).kind = "quit"
  BY ArrivedFrame DEF ServerQuit
<1> DEFINE f == [kind |-> "quit"]
<1>2. f \in DownFrames /\ f.kind = "quit" /\ \A t : ~Is(f, t)
  BY QuitAnswerMade
<1>3. Replies(f)
  BY DEF ServerQuit, Answer
<1> HIDE DEF f
<1>4. \A t : ~Is(Head(up), t)
  BY <1>1, KindNames DEF Is
<1>5. DownOK(f, log') /\ \A m \in Messages : f # SendAnswer(m, 0, FALSE)
  BY <1>2, OtherFrameRight
<1>6. LogGrows
  BY DEF ServerQuit, LogGrows
<1> QED  BY <1>1, <1>2, <1>3, <1>4, <1>5, <1>6, AnswerQuiet

\* The server's answer to a send: the id under which the log has it, or 0.
LEMMA ServerSendQuiet ==
  ASSUME Types, Connection, Incoming, ServerSend
  PROVE  QuietGood
<1> DEFINE m == Head(up).m
<1>1. up # <<>> /\ Head(up) \in UpFrames /\ Head(up).kind = "send" /\ \A t : Is(Head(up), t) => Has(up, t)
  BY ArrivedFrame DEF ServerSend
<1>2. Head(up) = Send(m) /\ m \in Messages
  BY <1>1, UpFramesAre, SendsAre
<1>3. \A t \in 0..MaxMessages : Is(Head(up), t) <=> t = m
  BY <1>2, SendFrame
<1>4. m \in 0..MaxMessages /\ m # 0
  BY <1>2, NotPeer
<1>5. Has(up, m)
  BY <1>1, <1>3, <1>4
<1>6. log \in Seq(Messages \cup {Peer}) /\ Len(log) \in Nat /\ Range(log) = {log[i] : i \in 1..Len(log)}
  <2>1. log \in Seq(Messages \cup {Peer})
    BY DEF Types
  <2> QED  BY SMT, <2>1, RangeOfSeq
<1>7. \/ m \in Range(log) /\ log' = log /\ Replies(SendAnswer(m, IdOf(m), FALSE))
      \/ log' = Append(log, m) /\ Replies(SendAnswer(m, Len(log) + 1, FALSE))
      \/ m \notin Range(log) /\ log' = log /\ Replies(SendAnswer(m, 0, FALSE))
      \/ log' = log /\ Replies(SendAnswer(m, 0, TRUE))
  BY DEF ServerSend, Answer
<1> HIDE DEF m
<1>8. ASSUME NEW i \in Nat, NEW b \in BOOLEAN, Replies(SendAnswer(m, i, b)), LogGrows,
             i # 0 => i \in 1..Len(log') /\ log'[i] = m,
             i = 0 /\ ~b => m \notin Range(log) /\ log' = log
      PROVE  QuietGood
  <2> DEFINE f == SendAnswer(m, i, b)
  <2>1. /\ f \in SendAnswers /\ f \in DownFrames /\ f.kind = "send" /\ f.m = m /\ f.id = i
        /\ \A t \in 0..MaxMessages : Is(f, t) <=> t = m
    BY SMT, <1>2, SendAnswerMade
  <2>2. \A n \in Messages : f = SendAnswer(n, 0, FALSE) => n = m /\ i = 0 /\ ~b
    BY DEF SendAnswer
  <2>3. Replies(f)
    BY <1>8
  <2> HIDE DEF f
  <2>4. DownOK(f, log')
    <3>1. f \notin Pages /\ f.kind # "push"
      BY <2>1, DownFramesAre, KindNames
    <3> QED  BY <1>8, <2>1, <3>1 DEF DownOK
  <2>5. \A n \in Messages : f = SendAnswer(n, 0, FALSE) => n \notin Range(log) /\ log' = log
    BY <1>8, <2>2
  <2>6. \A t \in 0..MaxMessages : Is(f, t) <=> Is(Head(up), t)
    BY <1>3, <2>1
  <2> QED  BY <1>1, <1>8, <2>1, <2>3, <2>4, <2>5, <2>6, AnswerQuiet
<1>9. CASE m \in Range(log) /\ log' = log /\ Replies(SendAnswer(m, IdOf(m), FALSE))
  <2>1. \E i \in 1..Len(log) : log[i] = m
    BY <1>6, <1>9
  <2>2. IdOf(m) \in 1..Len(log) /\ log[IdOf(m)] = m
    BY <2>1 DEF IdOf
  <2>3. IdOf(m) \in Nat /\ IdOf(m) # 0
    BY SMT, <2>2
  <2> QED  BY <1>8, <1>9, <2>2, <2>3 DEF LogGrows
<1>10. CASE log' = Append(log, m) /\ Replies(SendAnswer(m, Len(log) + 1, FALSE))
  <2>1. LogGrows
    BY <1>2, <1>5, <1>10 DEF LogGrows
  <2>2. Len(log) + 1 \in 1..Len(log') /\ log'[Len(log) + 1] = m
    BY SMT, <1>2, <1>6, <1>10, LogAppend
  <2>3. Len(log) + 1 \in Nat /\ Len(log) + 1 # 0
    BY SMT, <1>6
  <2> QED  BY <1>8, <1>10, <2>1, <2>2, <2>3
<1>11. CASE m \notin Range(log) /\ log' = log /\ Replies(SendAnswer(m, 0, FALSE))
  BY <1>8, <1>11 DEF LogGrows
<1>12. CASE log' = log /\ Replies(SendAnswer(m, 0, TRUE))
  BY <1>8, <1>12 DEF LogGrows
<1> QED  BY <1>7, <1>9, <1>10, <1>11, <1>12

\* Answering a pull touches no own message.
LEMMA ServerPullQuiet ==
  ASSUME Types, Connection, Incoming, ServerPull \/ ServerPullFails
  PROVE  QuietGood
<1>1. up # <<>> /\ Head(up) \in UpFrames /\ Head(up).kind = "pull" /\ log' = log
  BY ArrivedFrame DEF ServerPull, ServerPullFails
<1>2. \A t : ~Is(Head(up), t)
  BY <1>1, KindNames DEF Is
<1>3. LogGrows
  BY <1>1 DEF LogGrows
<1>4. CASE ServerPullFails
  <2> DEFINE f == [kind |-> "pull", ok |-> FALSE]
  <2>1. f \in DownFrames /\ f.kind = "pull" /\ f \notin Pages /\ \A t : ~Is(f, t)
    BY RefusalMade
  <2>2. Replies(f)
    BY <1>4 DEF ServerPullFails
  <2> HIDE DEF f
  <2>3. DownOK(f, log') /\ \A m \in Messages : f # SendAnswer(m, 0, FALSE)
    BY <2>1, OtherFrameRight
  <2> QED  BY <1>1, <1>2, <1>3, <2>1, <2>2, <2>3, AnswerQuiet
<1>5. CASE ServerPull
  <2> DEFINE after == Head(up).after
             last  == IF after + PageSize < Len(log) THEN after + PageSize ELSE Len(log)
             next == IF last > after THEN last ELSE after
             more == last < Len(log)
             f == [kind |-> "pull", ok |-> TRUE, seqs |-> after+1..last, more |-> more, next |-> next]
  <2>1. after \in Nat
    BY <1>1, UpFramesAre, PullsAre
  <2>2. log \in Seq(Messages \cup {Peer}) /\ Len(log) \in Nat
    BY SMT DEF Types
  <2>3. Replies(f)
    BY <1>5 DEF ServerPull, Answer
  <2> HIDE DEF after
  <2>4. last \in Nat /\ last <= Len(log) /\ next \in Nat
    BY SMT, <2>1, <2>2, ClientBounds
  <2>5. more \in BOOLEAN
    BY SMT
  <2> HIDE DEF last, next, more
  <2>6. after+1..last \subseteq 1..Len(log) /\ after+1..last \in SUBSET Nat
    BY SMT, <2>1, <2>2, <2>4
  <2>7. f \in Pages /\ f \in DownFrames /\ f.kind = "pull" /\ f.seqs = after+1..last /\ \A t : ~Is(f, t)
    BY <2>4, <2>5, <2>6, PageMade
  <2> HIDE DEF f
  <2>8. f.kind # "send" /\ f.kind # "push" /\ f \notin SendAnswers
    BY <2>7, KindNames, DownFramesAre
  <2>9. DownOK(f, log')
    BY <1>1, <2>6, <2>7, <2>8 DEF DownOK
  <2>10. \A m \in Messages : f # SendAnswer(m, 0, FALSE)
    <3>1. \A m \in Messages : SendAnswer(m, 0, FALSE) \in SendAnswers
      BY SendAnswerMade
    <3> QED  BY <2>8, <3>1
  <2> QED  BY <1>1, <1>2, <1>3, <2>3, <2>7, <2>9, <2>10, AnswerQuiet
<1> QED  BY <1>4, <1>5

\* A request that is lost touches no own message.
LEMMA ServerLosesQuiet ==
  ASSUME Types, Connection, Incoming, ServerLoses
  PROVE  QuietGood
<1>1. PICK k \in Kinds : Arrives(k)
  BY DEF ServerLoses
<1>2. /\ up # <<>> /\ up' = Tail(up)
      /\ UNCHANGED <<queue, down, state, sock, backoff, rec, row, outbox, cursor, mixedUp, stored, seen, acked, log>>
  BY <1>1, ArrivedFrame DEF ServerLoses, appVars, dbVars
<1>3. Quiet
  BY <1>2, LostEffect DEF Types
<1>4. DownFrom /\ RejectsKept /\ LogGrows
  BY <1>2, DownSmaller DEF Types, LogGrows
<1>5. QuietStep
  BY <1>2, <1>3, <1>4, QuietKept DEF Types, IsReady
<1>6. Connection'
  BY <1>2, <1>3, ConnQuiet DEF IsReady, Connection
<1>7. Incoming'
  BY <1>2, <1>4, IncomingSame
<1> QED  BY <1>5, <1>6, <1>7 DEF QuietGood

\* Messages of others, and their pushes.
LEMMA PeerQuiet ==
  ASSUME Types, Connection, Incoming, PeerWrites \/ \E i \in 1..MaxLog : ServerPushes(i)
  PROVE  QuietGood
<1>1. UNCHANGED <<queue, up, state, sock, backoff, rec, row, outbox, cursor, mixedUp, stored, seen, acked>>
  BY DEF PeerWrites, ServerPushes, connVars, appVars, dbVars
<1>2. Quiet /\ DownFrom /\ RejectsKept /\ LogGrows
  <2>1. CASE PeerWrites
    <3>1. down' = down /\ LogGrows
      BY <2>1, NotPeer DEF PeerWrites, connVars, LogGrows
    <3>2. Quiet
      BY <1>1, <3>1, SameEffect DEF Types
    <3>3. DownFrom /\ RejectsKept
      BY <3>1, DownSmaller DEF Types
    <3> QED  BY <3>1, <3>2, <3>3
  <2>2. CASE \E i \in 1..MaxLog : ServerPushes(i)
    <3>1. PICK i \in 1..MaxLog : ServerPushes(i)
      BY <2>2
    <3> DEFINE f == [kind |-> "push", id |-> i]
    <3>2. i \in 1..Len(log) /\ log[i] = Peer /\ down' = Append(down, f) /\ log' = log /\ i \in Nat
      BY SMT, <3>1 DEF ServerPushes
    <3>3. f \in DownFrames /\ f.kind = "push" /\ f.id = i
      BY <3>2, PushMade
    <3>4. Quiet
      BY <1>1, <3>2, PushedEffect DEF Types
    <3> HIDE DEF f
    <3>5. f \notin SendAnswers /\ f \notin Pages
      BY <3>3, DownFramesAre, KindNames
    <3>6. DownOK(f, log')
      BY <3>2, <3>3, <3>5 DEF DownOK
    <3>7. \A m \in Messages : f # SendAnswer(m, 0, FALSE)
      <4>1. \A m \in Messages : SendAnswer(m, 0, FALSE) \in SendAnswers
        BY SendAnswerMade
      <4> QED  BY <3>5, <4>1
    <3>8. DownFrom /\ RejectsKept
      BY <3>2, <3>3, <3>6, <3>7, DownLonger DEF Types
    <3> QED  BY <3>2, <3>4, <3>8 DEF LogGrows
  <2> QED  BY <2>1, <2>2
<1>3. QuietStep
  BY <1>1, <1>2, QuietKept DEF Types, IsReady
<1>4. Connection'
  BY <1>1, <1>2, ConnQuiet DEF IsReady, Connection
<1>5. \A m \in Messages : OwnId(rec'[m].id, log') /\ OwnId(row'[m].id, log')
  BY <1>1, <1>2, LogKeeps DEF Incoming, Types
<1>6. Incoming'
  BY <1>1, <1>2, <1>5, IncomingKept DEF Types
<1> QED  BY <1>3, <1>4, <1>6 DEF QuietGood

-----------------------------------------------------------------------------
(* Steps after which no request is open *)

Ids == \A m \in Messages :
  rec'[m].id \in {0, rec[m].id, row[m].id} /\ row'[m].id \in {0, row[m].id}

\* What the step says of a message was said before.
NothingSaid == \A m \in Messages :
  /\ "PermanentFailed" \in {rec'[m].st, row'[m].st} => "PermanentFailed" \in {rec[m].st, row[m].st}
  /\ row'[m].st = "Accepted" => row[m].st = "Accepted"

\* Steps that take over ids leave them right.
LEMMA IdsKept ==
  ASSUME Ids, UNCHANGED log
  PROVE  /\ Incoming => \A m \in Messages : OwnId(rec'[m].id, log') /\ OwnId(row'[m].id, log')
         /\ Outcomes => \A m \in Messages : IdRight(m, rec[m].id)' /\ IdRight(m, row[m].id)'
<1>1. \A i : OwnId(i, log') <=> OwnId(i, log)
  OBVIOUS
<1>2. OwnId(0, log)
  BY DEF OwnId
<1>3. Incoming => \A m \in Messages : OwnId(rec'[m].id, log') /\ OwnId(row'[m].id, log')
  BY <1>1, <1>2 DEF Ids, Incoming
<1>4. Outcomes => \A m \in Messages : IdRight(m, rec[m].id)' /\ IdRight(m, row[m].id)'
  BY DEF Ids, Outcomes, IdRight
<1> QED  BY <1>3, <1>4

\* Outcomes after a step that leaves the log alone and brings no new answer.
LEMMA OutcomesKept ==
  ASSUME Outcomes, Ids, NothingSaid, UNCHANGED log, RejectsKept
  PROVE  Outcomes'
<1>1. \A m \in Messages : IdRight(m, rec[m].id)' /\ IdRight(m, row[m].id)'
  BY IdsKept
<1>2. \A m \in Messages : SendAnswer(m, 0, FALSE) \in Range(down') => m \notin Range(log')
  BY DEF RejectsKept, Outcomes
<1>3. \A m \in Messages : /\ "PermanentFailed" \in {rec'[m].st, row'[m].st} => m \notin Range(log')
                          /\ row'[m].st = "Accepted" => m \in Range(log')
  BY DEF NothingSaid, Outcomes
<1> QED  BY <1>1, <1>2, <1>3 DEF Outcomes

\* Dropping all requests and frames keeps the invariant when no row is left waiting.
LEMMA ClearedInv ==
  ASSUME ClientInv, queue' = NoQueue, up' = <<>>, down' = <<>>, ~IsReady',
         sock' \in {"unconnected", "connecting", "connected", "closing"}, backoff' => sock' = "unconnected",
         DataTypes', cursor' \in Nat, UNCHANGED <<log, mixedUp, stored, acked>>, seen' \in {seen, stored},
         \A m \in Messages : RowOK(m)' /\ (row'[m].st = "none" => row[m].st = "none"),
         Ids, NothingSaid
  PROVE  ClientInv'
<1>1. /\ WireTypes' /\ queue'["send"] = <<>>
      /\ \A t : ~OnWire(up', down', t) /\ Single(up', down', t)
  BY ClearedEffect
<1>2. Types'
  BY <1>1 DEF ClientInv, Types, DataTypes
<1>3. Connection'
  BY <1>1 DEF Connection
<1>4. \A m : ~Has(queue'["send"], m) /\ Once(queue'["send"], m)
  BY <1>1, FewFrames
<1>5. Queues'
  BY <1>4 DEF Queues, Queued
<1>6. Tables'
  BY <1>1 DEF ClientInv, Tables
<1>7. LogGrows /\ DownFrom /\ RejectsKept
  BY DownSmaller DEF LogGrows, ClientInv, Types
<1>8. Incoming'
  <2>1. \A m \in Messages : OwnId(rec'[m].id, log') /\ OwnId(row'[m].id, log')
    BY IdsKept DEF ClientInv
  <2>2. \A j \in 1..Len(down') : DownOK(down'[j], log')
    BY SMT
  <2> QED  BY <2>1, <2>2 DEF ClientInv, Incoming
<1>9. ~mixedUp' => Outgoing'
  BY <1>1 DEF Outgoing
<1>10. ~mixedUp' => Outcomes'
  BY <1>7, OutcomesKept DEF ClientInv
<1> QED  BY <1>2, <1>3, <1>5, <1>6, <1>8, <1>9, <1>10 DEF ClientInv

\* QueuedSends are the messages that have a request in the queue.
LEMMA QueuedSendsAre ==
  ASSUME WireTypes
  PROVE  QueuedSends \in SUBSET Messages /\ \A m \in Messages : m \in QueuedSends <=> Queued(m)
<1>1. \A i \in 1..Len(queue["send"]) : queue["send"][i] \in Sends
  BY SMT DEF WireTypes
<1>2. \A i \in 1..Len(queue["send"]) : queue["send"][i].m \in Messages
  BY <1>1, SendsAre
<1>3. \A m \in Messages : Has(queue["send"], m) <=> \E i \in 1..Len(queue["send"]) : queue["send"][i].m = m
  BY SendQueue DEF WireTypes
<1> QED  BY <1>2, <1>3 DEF QueuedSends, Queued

\* Open and the disconnected slot leave the outcome of what was queued open.
LEMMA FailedInv ==
  ASSUME ClientInv, queue' = NoQueue, up' = <<>>, down' = <<>>, ~IsReady',
         sock' \in {"unconnected", "connecting", "connected", "closing"}, backoff' => sock' = "unconnected",
         UNCHANGED <<log, mixedUp, acked, seen>>, HandleGatewayFailure(QueuedSends)
  PROVE  ClientInv'
<1>1. QueuedSends \in SUBSET Messages /\ DataTypes /\ \A m \in Messages : RowOK(m)
  BY QueuedSendsAre DEF ClientInv, Types, DataTypes, Tables
<1>2. "Unknown" \in Outcome /\ "Unknown" # "PermanentFailed" /\ "Unknown" # "Accepted"
  BY DEF Outcome
<1>3. /\ DataTypes' /\ UNCHANGED <<stored, cursor, attached>>
      /\ \A m \in Messages :
           /\ RowOK(m)'
           /\ rec'[m].id = rec[m].id /\ row'[m].id = row[m].id
           /\ row'[m].st = "none" <=> row[m].st = "none"
           /\ m \in QueuedSends /\ CanTransition(rec[m].st, "Unknown") =>
                rec'[m].st = "Unknown" /\ row'[m].st = "Unknown" /\ rec[m].st \in Unsettled
           /\ ~(m \in QueuedSends /\ CanTransition(rec[m].st, "Unknown")) =>
                rec'[m].st = rec[m].st /\ row'[m].st = row[m].st
  BY <1>1, <1>2, UpdateEffect DEF HandleGatewayFailure
<1>4. Ids /\ NothingSaid
  BY <1>2, <1>3 DEF Ids, NothingSaid
<1>5. cursor' \in Nat
  BY <1>3 DEF ClientInv, Types
<1> QED  BY <1>3, <1>4, <1>5, ClearedInv

\* A lost connection and a new sign-in make the queued messages Unknown: the invariant holds.
LEMMA LostInv ==
  ASSUME ClientInv, ConnectionLost \/ SignInSucceeded
  PROVE  ClientInv'
<1>1. CASE SignInSucceeded
  <2>1. /\ queue' = NoQueue /\ up' = <<>> /\ down' = <<>> /\ ~IsReady' /\ sock' = "connecting" /\ ~backoff'
        /\ UNCHANGED <<log, mixedUp, acked, seen>> /\ HandleGatewayFailure(QueuedSends)
    BY <1>1 DEF SignInSucceeded, Open, FailAllPending, IsReady
  <2> QED  BY <2>1, FailedInv
<1>2. CASE ConnectionLost
  <2>1. /\ queue' = NoQueue /\ up' = <<>> /\ down' = <<>> /\ sock' = "unconnected"
        /\ UNCHANGED <<log, mixedUp, acked, seen>> /\ HandleGatewayFailure(QueuedSends)
    BY <1>2 DEF ConnectionLost, Disconnected, FailAllPending
  <2>2. ~IsReady'
    BY <1>2 DEF ConnectionLost, Disconnected, ScheduleReconnect, IsReady
  <2> QED  BY <2>1, <2>2, FailedInv
<1> QED  BY <1>1, <1>2

\* A message the user has just written is nowhere yet.
LEMMA FreshMessage ==
  ASSUME ClientInv, NEW m \in Messages, NextId(m)
  PROVE  /\ rec[m].st = "none" /\ row[m].st = "none"
         /\ ~OnWire(up, down, m) /\ m \notin Range(log) /\ ~Queued(m) /\ m \notin outbox
<1>1. rec[m].st = "none"
  BY NextIdIsNew
<1>2. RowOK(m) /\ (OnWire(up, down, m) \/ m \in Range(log) => row[m].st # "none")
  BY DEF ClientInv, Tables
<1>3. row[m].st = "none"
  BY <1>1, <1>2, StateNames DEF RowOK
<1>4. ~Queued(m)
  BY <1>1 DEF ClientInv, Queues
<1> QED  BY <1>1, <1>2, <1>3, <1>4, StateNames DEF RowOK

\* EnqueueOutgoing writes the row and the outbox entry of one message.
LEMMA EnqueuedRow ==
  ASSUME DataTypes, NEW m \in Messages, NEW s \in Unsettled, EnqueueOutgoing(m, s)
  PROVE  /\ row' \in [Messages -> Records] /\ outbox' \subseteq Messages
         /\ row'[m].st = s /\ row'[m].id = 0 /\ m \in outbox'
         /\ \A n \in Messages \ {m} : row'[n] = row[n] /\ (n \in outbox' <=> n \in outbox)
         /\ UNCHANGED <<stored, cursor, attached>>
<1> DEFINE r == [st |-> s, id |-> 0]
<1>1. r \in Records /\ r.st = s /\ r.id = 0
  BY DEF Records
<1>2. row' = [row EXCEPT ![m] = r] /\ outbox' = outbox \cup {m} /\ UNCHANGED <<stored, cursor, attached>>
  BY DEF EnqueueOutgoing
<1> HIDE DEF r
<1> QED  BY <1>1, <1>2 DEF DataTypes

\* A restart, also one in the middle of SendMessage, keeps the invariant.
LEMMA RestartInv ==
  ASSUME ClientInv, Restart \/ \E m \in Messages : CrashInSendMessage(m)
  PROVE  ClientInv'
<1>1. Reload
  BY DEF Restart, CrashInSendMessage
<1>2. /\ queue' = NoQueue /\ up' = <<>> /\ down' = <<>> /\ ~IsReady' /\ sock' = "unconnected"
      /\ UNCHANGED <<log, mixedUp, acked>> /\ rec' = row' /\ seen' = stored'
  BY <1>1 DEF Reload, IsReady
<1>3. DataTypes /\ cursor \in Nat /\ \A m \in Messages : RowOK(m)
  BY DEF ClientInv, Types, DataTypes, Tables
<1>4. CASE UNCHANGED dbVars
  <2>1. UNCHANGED <<row, outbox, stored, cursor>>
    BY <1>4 DEF dbVars
  <2>2. DataTypes' /\ \A m \in Messages : RowOK(m)'
    BY <1>2, <1>3, <2>1 DEF DataTypes, RowOK
  <2>3. Ids /\ NothingSaid
    BY <1>2, <2>1 DEF Ids, NothingSaid
  <2> QED  BY <1>2, <1>3, <2>1, <2>2, <2>3, ClearedInv
<1>5. CASE \E m \in Messages : CrashInSendMessage(m)
  <2>1. PICK m \in Messages : NextId(m) /\ EnqueueOutgoing(m, "PendingLocal")
    BY <1>5 DEF CrashInSendMessage
  <2>2. "PendingLocal" \in Unsettled /\ "PendingLocal" # "PermanentFailed" /\ "PendingLocal" # "Accepted"
        /\ "PendingLocal" # "none"
    BY DEF Unsettled
  <2>3. /\ row' \in [Messages -> Records] /\ outbox' \subseteq Messages
        /\ row'[m].st = "PendingLocal" /\ row'[m].id = 0 /\ m \in outbox'
        /\ \A n \in Messages \ {m} : row'[n] = row[n] /\ (n \in outbox' <=> n \in outbox)
        /\ UNCHANGED <<stored, cursor, attached>>
    BY <1>3, <2>1, <2>2, EnqueuedRow
  <2>4. DataTypes'
    BY <1>2, <2>3 DEF DataTypes
  <2>5. \A n \in Messages : RowOK(n)' /\ (row'[n].st = "none" => row[n].st = "none")
    <3> TAKE n \in Messages
    <3>1. CASE n = m
      BY <1>2, <2>2, <2>3, <3>1 DEF RowOK
    <3>2. CASE n # m
      BY <1>2, <1>3, <2>3, <3>2 DEF RowOK
    <3> QED  BY <3>1, <3>2
  <2>6. Ids /\ NothingSaid
    BY <1>2, <2>2, <2>3 DEF Ids, NothingSaid
  <2> QED  BY <1>2, <1>3, <2>3, <2>4, <2>5, <2>6, ClearedInv
<1> QED  BY <1>4, <1>5 DEF Restart

-----------------------------------------------------------------------------
(* Steps that send a message *)

\* While messages may be queued, the connection is up and the login is over.
LEMMA ConnSends ==
  ASSUME Connection, IsReady \/ queue["send"] # <<>>, sock \in {"unconnected", "connecting", "connected", "closing"},
         NEW N \in SUBSET Messages, Writes(N), UNCHANGED <<sock, backoff>>
  PROVE  Connection'
<1>1. sock \notin {"unconnected", "connecting"} /\ ~OnWire(up, down, 0) /\ Single(up, down, 0) /\ ~backoff
  BY DEF Connection
<1>2. 0 \in 0..MaxMessages /\ 0 \notin N
  BY SMT, ClientBounds, NotPeer
<1>3. ~OnWire(up', down', 0) /\ Single(up', down', 0)
  BY <1>1, <1>2 DEF Writes
<1> QED  BY <1>1, <1>3 DEF Connection

\* sendMessage and retryMessage over a connection that is ready.
LEMMA SentInv ==
  ASSUME ClientInv, NEW m \in Messages, Queue(Asked(<<>>, <<Send(m)>>)), Idle,
         UNCHANGED <<down, log, seen, acked, mixedUp, stored, cursor>>,
         DataTypes', \A n \in Messages : RowOK(n)',
         rec[m].st # "WaitingAccept", ~mixedUp => ~OnWire(up, down, m),
         rec'[m].st = "WaitingAccept", row'[m].st = "WaitingAccept",
         \A n \in Messages \ {m} : rec'[n].st = rec[n].st /\ row'[n].st = row[n].st,
         Ids
  PROVE  ClientInv'
<1> DEFINE q == queue["send"]
           N == IF q = <<>> THEN {m} ELSE {}
<1>1. IsReady /\ UNCHANGED <<state, sock, backoff>>
  BY DEF Queue, Idle
<1>2. WireTypes' /\ queue'["send"] = Append(q, Send(m)) /\ Writes(N)
  BY QueueEffect DEF ClientInv, Types
<1>3. N \in SUBSET Messages
  OBVIOUS
<1>4. q \in Seq(Sends) /\ Send(m) \in Sends /\ Send(m).m = m /\ \A n \in Messages : Is(Send(m), n) <=> n = m
  BY SendFrame, NotPeer DEF ClientInv, Types, WireTypes
<1>5. Types'
  BY <1>1, <1>2 DEF ClientInv, Types, DataTypes
<1>6. Connection'
  BY <1>1, <1>2, <1>3, ConnSends DEF ClientInv, Types
<1> HIDE DEF N, q
<1>7. ASSUME NEW n \in Messages
      PROVE  /\ Has(queue'["send"], n) <=> Has(q, n) \/ n = m
             /\ Once(q, n) /\ ~(Has(q, n) /\ n = m) => Once(queue'["send"], n)
  <2>1. /\ Has(Append(q, Send(m)), n) <=> Has(q, n) \/ Is(Send(m), n)
        /\ Once(q, n) /\ ~(Has(q, n) /\ Is(Send(m), n)) => Once(Append(q, Send(m)), n)
    BY <1>4, AppendedFrame
  <2> QED  BY <1>2, <1>4, <2>1
<1>8. \A n \in Messages : /\ Has(q, n) => rec[n].st = "WaitingAccept"
                          /\ Once(q, n)
                          /\ rec[n].st = "WaitingAccept" => Has(q, n)
  BY <1>1 DEF ClientInv, Queues, Queued, q
<1>9. Queues'
  <2> SUFFICES ASSUME NEW n \in Messages
               PROVE  /\ Has(queue'["send"], n) => rec'[n].st = "WaitingAccept"
                      /\ Once(queue'["send"], n)
                      /\ rec'[n].st = "WaitingAccept" => Has(queue'["send"], n)
    BY DEF Queues, Queued
  <2>1. CASE n = m
    BY <1>7, <1>8, <2>1
  <2>2. CASE n # m
    BY <1>7, <1>8, <2>2
  <2> QED  BY <2>1, <2>2
<1>10. \A n \in Messages : n \in 0..MaxMessages
  BY NotPeer
<1>11. Tables'
  <2> SUFFICES ASSUME NEW n \in Messages
               PROVE  OnWire(up', down', n) \/ n \in Range(log') => row'[n].st # "none"
    BY DEF Tables
  <2>1. OnWire(up, down, n) \/ n \in Range(log) => row[n].st # "none"
    BY DEF ClientInv, Tables
  <2>2. CASE n = m
    BY <2>2
  <2>3. CASE n # m
    <3>1. OnWire(up', down', n) => OnWire(up, down, n)
      BY <1>2, <1>10, <2>3 DEF Writes, N
    <3> QED  BY <2>1, <2>3, <3>1
  <2> QED  BY <2>2, <2>3
<1>12. LogGrows /\ DownFrom /\ RejectsKept
  BY DownSmaller DEF LogGrows, ClientInv, Types
<1>13. Incoming'
  <2>1. \A n \in Messages : OwnId(rec'[n].id, log') /\ OwnId(row'[n].id, log')
    BY IdsKept DEF ClientInv
  <2> QED  BY <1>12, <2>1, IncomingKept DEF ClientInv, Types
<1>14. ASSUME ~mixedUp
       PROVE  Outgoing' /\ Outcomes'
  <2>1. Outgoing /\ Outcomes /\ ~OnWire(up, down, m)
    BY <1>14 DEF ClientInv
  <2>2. NothingSaid
    <3>1. "WaitingAccept" # "PermanentFailed" /\ "WaitingAccept" # "Accepted"
      OBVIOUS
    <3> QED  BY <3>1 DEF NothingSaid
  <2>3. Outcomes'
    BY <1>12, <2>1, <2>2, OutcomesKept
  <2>4. ASSUME NEW n \in Messages
        PROVE  /\ Single(up', down', n)
               /\ OnWire(up', down', n) /\ Has(queue'["send"], n) => Head(queue'["send"]).m = n
               /\ OnWire(up', down', n) /\ ~Has(queue'["send"], n) => rec'[n].st = "Unknown"
    <3>1. /\ Single(up, down, n)
          /\ OnWire(up, down, n) /\ Has(q, n) => Head(q).m = n
          /\ OnWire(up, down, n) /\ ~Has(q, n) => rec[n].st = "Unknown"
      BY <2>1 DEF Outgoing, Queued, q
    <3>2. /\ OnWire(up', down', n) => OnWire(up, down, n) \/ n \in N
          /\ Single(up, down, n) /\ ~(n \in N /\ OnWire(up, down, n)) => Single(up', down', n)
      BY <1>2, <1>10 DEF Writes
    <3>3. CASE n = m
      <4>1. Single(up', down', n) /\ Has(queue'["send"], n)
        BY <1>7, <2>1, <3>1, <3>2, <3>3
      <4>2. OnWire(up', down', n) => q = <<>>
        BY <2>1, <3>2, <3>3 DEF N
      <4>3. q = <<>> => Head(queue'["send"]) = Send(m)
        BY SMT, <1>2
      <4> QED  BY <1>4, <3>3, <4>1, <4>2, <4>3
    <3>4. CASE n # m
      <4>1. n \notin N
        BY <3>4 DEF N
      <4>2. Has(q, n) => q # <<>>
        BY FewFrames
      <4>3. q # <<>> => Head(queue'["send"]) = Head(q)
        BY SMT, <1>2, <1>4
      <4> QED  BY <1>7, <3>1, <3>2, <3>4, <4>1, <4>2, <4>3
    <3> QED  BY <3>3, <3>4
  <2>5. Outgoing'
    BY <2>4 DEF Outgoing, Queued
  <2> QED  BY <2>3, <2>5
<1> QED  BY <1>5, <1>6, <1>9, <1>11, <1>13, <1>14 DEF ClientInv

\* sendMessage, with and without a connection.
LEMMA SendMessageInv ==
  ASSUME ClientInv, NEW m \in Messages, SendMessage(m)
  PROVE  ClientInv'
<1> DEFINE s == IF IsReady THEN "WaitingAccept" ELSE "Unknown"
<1>1. /\ rec' = [rec EXCEPT ![m].st = s] /\ EnqueueOutgoing(m, s) /\ NextId(m)
      /\ Idle /\ UNCHANGED <<seen, acked, mixedUp, log, down>>
  BY DEF SendMessage
<1>2. /\ rec[m].st = "none" /\ row[m].st = "none"
      /\ ~OnWire(up, down, m) /\ m \notin Range(log) /\ ~Queued(m)
  BY <1>1, FreshMessage
<1>3. s \in Unsettled /\ s # "none" /\ s # "PermanentFailed" /\ s # "Accepted"
  BY DEF Unsettled
<1>4. (IsReady => s = "WaitingAccept") /\ (~IsReady => s = "Unknown")
  OBVIOUS
<1> HIDE DEF s
<1>5. DataTypes /\ cursor \in Nat /\ \A n \in Messages : RowOK(n)
  BY DEF ClientInv, Types, DataTypes, Tables
<1>6. /\ row' \in [Messages -> Records] /\ outbox' \subseteq Messages
      /\ row'[m].st = s /\ row'[m].id = 0 /\ m \in outbox'
      /\ \A n \in Messages \ {m} : row'[n] = row[n] /\ (n \in outbox' <=> n \in outbox)
      /\ UNCHANGED <<stored, cursor, attached>>
  BY <1>1, <1>3, <1>5, EnqueuedRow
<1>7. /\ rec' \in [Messages -> Records] /\ rec'[m].st = s /\ rec'[m].id = rec[m].id
      /\ \A n \in Messages \ {m} : rec'[n] = rec[n]
  BY <1>1, <1>3, <1>5 DEF DataTypes, Records
<1>8. DataTypes'
  BY <1>6, <1>7 DEF DataTypes
<1>9. \A n \in Messages : RowOK(n)'
  <2> TAKE n \in Messages
  <2>1. CASE n = m
    BY <1>3, <1>6, <1>7, <2>1 DEF RowOK
  <2>2. CASE n # m
    BY <1>5, <1>6, <1>7, <2>2 DEF RowOK
  <2> QED  BY <2>1, <2>2
<1>10. Ids
  BY <1>6, <1>7 DEF Ids
<1>11. CASE IsReady
  <2>1. Queue(Asked(<<>>, <<Send(m)>>))
    BY <1>11 DEF SendMessage
  <2>2. rec[m].st # "WaitingAccept" /\ s = "WaitingAccept"
    BY <1>2, <1>4, <1>11
  <2>3. \A n \in Messages \ {m} : rec'[n].st = rec[n].st /\ row'[n].st = row[n].st
    BY <1>6, <1>7
  <2> QED  BY ZenonT(30), <1>1, <1>2, <1>6, <1>7, <1>8, <1>9, <1>10, <2>1, <2>2, <2>3, SentInv
<1>12. CASE ~IsReady
  <2>1. UNCHANGED <<queue, up, down, state, sock, backoff>>
    BY <1>1, <1>12 DEF SendMessage, wireVars, Idle
  <2>2. Quiet
    BY <2>1, SameEffect DEF ClientInv, Types
  <2>3. Types'
    BY <1>1, <1>5, <1>6, <1>8, <2>1, <2>2 DEF ClientInv, Types, DataTypes, Quiet
  <2>4. Connection'
    BY <2>1, <2>2, ConnQuiet DEF ClientInv, Connection, IsReady
  <2>5. Queues'
    <3>1. ~IsReady'
      BY <1>12, <2>1 DEF IsReady
    <3> QED  BY <1>2, <1>7, <2>1, <3>1 DEF ClientInv, Queues, Queued
  <2>6. Tables'
    BY <1>1, <1>2, <1>6, <1>9, <2>1 DEF ClientInv, Tables, OnWire
  <2>7. LogGrows /\ DownFrom /\ RejectsKept
    BY <1>1, DownSmaller DEF LogGrows, ClientInv, Types
  <2>8. Incoming'
    <3>1. \A n \in Messages : OwnId(rec'[n].id, log') /\ OwnId(row'[n].id, log')
      BY <1>1, <1>10, IdsKept DEF ClientInv
    <3> QED  BY <1>1, <1>6, <2>7, <3>1, IncomingKept DEF ClientInv, Types
  <2>9. ~mixedUp => Outgoing'
    BY <1>2, <1>7, <2>1 DEF ClientInv, Outgoing, Queued, OnWire, Single
  <2>10. NothingSaid
    BY <1>3, <1>6, <1>7 DEF NothingSaid
  <2>11. ~mixedUp => Outcomes'
    BY <1>1, <1>10, <2>7, <2>10, OutcomesKept DEF ClientInv
  <2> QED  BY <1>1, <2>3, <2>4, <2>5, <2>6, <2>8, <2>9, <2>11 DEF ClientInv
<1> QED  BY <1>11, <1>12

\* sendMessage, when the database fails.
LEMMA UnsavedInv ==
  ASSUME ClientInv, NEW m \in Messages, SendMessageUnsaved(m)
  PROVE  ClientInv'
<1>1. /\ rec' = [rec EXCEPT ![m].st = "PermanentFailed"] /\ NextId(m)
      /\ UNCHANGED <<connVars, seen, row, outbox, stored, cursor, acked, mixedUp, log>>
  BY DEF SendMessageUnsaved, dbVars
<1>2. /\ rec[m].st = "none" /\ row[m].st = "none"
      /\ ~OnWire(up, down, m) /\ m \notin Range(log) /\ ~Queued(m)
  BY <1>1, FreshMessage
<1>3. UNCHANGED <<queue, up, down, state, sock, backoff>>
  BY <1>1 DEF connVars
<1>4. DataTypes /\ \A n \in Messages : RowOK(n)
  BY DEF ClientInv, Types, DataTypes, Tables
<1>5. /\ rec' \in [Messages -> Records] /\ rec'[m].st = "PermanentFailed" /\ rec'[m].id = rec[m].id
      /\ \A n \in Messages \ {m} : rec'[n] = rec[n]
  BY <1>1, <1>4 DEF DataTypes, Records, Closed
<1>6. Quiet
  BY <1>3, SameEffect DEF ClientInv, Types
<1>7. Types'
  BY <1>1, <1>3, <1>5, <1>6 DEF ClientInv, Types, Quiet
<1>8. Connection'
  BY <1>3, <1>6, ConnQuiet DEF ClientInv, Connection, IsReady
<1>9. Queues'
  <2>1. "PermanentFailed" # "WaitingAccept"
    OBVIOUS
  <2> QED  BY <1>2, <1>3, <1>5, <2>1 DEF ClientInv, Queues, Queued, IsReady
<1>10. Tables'
  <2>1. \A n \in Messages : RowOK(n)'
    <3> TAKE n \in Messages
    <3>1. CASE n = m
      BY <1>1, <1>2, <1>4, <1>5, <3>1, StateNames DEF RowOK
    <3>2. CASE n # m
      BY <1>1, <1>4, <1>5, <3>2 DEF RowOK
    <3> QED  BY <3>1, <3>2
  <2> QED  BY <1>1, <1>3, <2>1 DEF ClientInv, Tables, OnWire
<1>11. LogGrows /\ DownFrom /\ RejectsKept
  BY <1>1, <1>3, DownSmaller DEF LogGrows, ClientInv, Types
<1>12. Ids
  BY <1>1, <1>5 DEF Ids
<1>13. Incoming'
  <2>1. \A n \in Messages : OwnId(rec'[n].id, log') /\ OwnId(row'[n].id, log')
    BY <1>1, <1>12, IdsKept DEF ClientInv
  <2> QED  BY <1>1, <1>11, <2>1, IncomingKept DEF ClientInv, Types
<1>14. ~mixedUp => Outgoing'
  BY <1>2, <1>3, <1>5 DEF ClientInv, Outgoing, Queued, OnWire, Single
<1>15. ASSUME ~mixedUp
       PROVE  Outcomes'
  <2>1. Outcomes
    BY <1>15 DEF ClientInv
  <2>2. \A n \in Messages : IdRight(n, rec[n].id)' /\ IdRight(n, row[n].id)'
    BY <1>1, <1>12, <2>1, IdsKept
  <2>3. \A n \in Messages : SendAnswer(n, 0, FALSE) \in Range(down') => n \notin Range(log')
    BY <1>1, <1>3, <2>1 DEF Outcomes
  <2>4. \A n \in Messages : /\ "PermanentFailed" \in {rec'[n].st, row'[n].st} => n \notin Range(log')
                            /\ row'[n].st = "Accepted" => n \in Range(log')
    BY <1>1, <1>2, <1>5, <2>1 DEF Outcomes
  <2> QED  BY <2>2, <2>3, <2>4 DEF Outcomes
<1> QED  BY <1>1, <1>7, <1>8, <1>9, <1>10, <1>13, <1>14, <1>15 DEF ClientInv

\* retryMessage.
LEMMA RetryInv ==
  ASSUME ClientInv, NEW m \in Messages, RetryMessage(m)
  PROVE  ClientInv'
<1>1. /\ rec[m].st = "RetryableFailed" /\ UpdateMessageState({m}, "WaitingAccept")
      /\ Queue(Asked(<<>>, <<Send(m)>>)) /\ Idle /\ UNCHANGED <<seen, acked, mixedUp, log, down>>
  BY DEF RetryMessage
<1>2. DataTypes /\ \A n \in Messages : RowOK(n)
  BY DEF ClientInv, Types, DataTypes, Tables
<1>3. "WaitingAccept" \in Outcome /\ CanTransition("RetryableFailed", "WaitingAccept") /\ {m} \in SUBSET Messages
  BY DEF Outcome, CanTransition
<1>4. /\ DataTypes' /\ UNCHANGED <<stored, cursor, attached>>
      /\ \A n \in Messages :
           /\ RowOK(n)'
           /\ rec'[n].id = rec[n].id /\ row'[n].id = row[n].id
           /\ n \in {m} /\ CanTransition(rec[n].st, "WaitingAccept") =>
                rec'[n].st = "WaitingAccept" /\ row'[n].st = "WaitingAccept"
           /\ ~(n \in {m} /\ CanTransition(rec[n].st, "WaitingAccept")) =>
                rec'[n].st = rec[n].st /\ row'[n].st = row[n].st
  BY ZenonT(30), <1>1, <1>2, <1>3, UpdateEffect
<1>5. "RetryableFailed" # "WaitingAccept" /\ "RetryableFailed" # "Unknown"
  OBVIOUS
<1>6. ~mixedUp => ~OnWire(up, down, m)
  BY <1>1, <1>5 DEF ClientInv, Outgoing, Queues
<1>7. Ids
  BY <1>4 DEF Ids
<1>8. \A n \in Messages \ {m} : rec'[n].st = rec[n].st /\ row'[n].st = row[n].st
  BY <1>4
<1>9. rec'[m].st = "WaitingAccept" /\ row'[m].st = "WaitingAccept"
  BY <1>1, <1>3, <1>4
<1> QED  BY <1>1, <1>4, <1>5, <1>6, <1>7, <1>8, <1>9, SentInv

-----------------------------------------------------------------------------
(* Steps that end the request at the front *)

\* The front m has an answer or has timed out, and the next message goes out.
LEMMA PoppedInv ==
  ASSUME ClientInv, NEW m, queue["send"] # <<>>, m = Head(queue["send"]).m,
         WireTypes', queue'["send"] = Tail(queue["send"]), Writes(FrontOf(Tail(queue["send"]))),
         Idle, UNCHANGED <<log, seen, acked, stored>>, cursor' \in Nat, mixedUp' \in BOOLEAN, mixedUp => mixedUp',
         down' = down \/ (down # <<>> /\ down' = Tail(down)),
         DataTypes', \A n \in Messages : RowOK(n)',
         rec'[m].st # "WaitingAccept", row'[m].st # "none",
         \A n \in Messages \ {m} : rec'[n] = rec[n] /\ row'[n] = row[n],
         OwnId(rec'[m].id, log), OwnId(row'[m].id, log),
         ~mixedUp' => /\ OnWire(up', down', m) => rec'[m].st = "Unknown"
                      /\ "PermanentFailed" \in {rec'[m].st, row'[m].st} => m \notin Range(log)
                      /\ row'[m].st = "Accepted" => m \in Range(log)
                      /\ IdRight(m, rec'[m].id) /\ IdRight(m, row'[m].id)
  PROVE  ClientInv'
<1> DEFINE q == queue["send"]
           r == Tail(q)
           N == FrontOf(r)
<1>1. q \in Seq(Sends) /\ UNCHANGED <<state, sock, backoff>>
  BY DEF ClientInv, Types, WireTypes, Idle
<1>2. /\ m \in Messages /\ Has(q, m) /\ Head(q) = Send(m) /\ r \in Seq(Sends)
  BY <1>1, SendQueue
<1>3. N \subseteq Messages /\ \A n \in N : Has(r, n)
  BY <1>2, FrontFrames
<1>4. \A n \in Messages : n \in 0..MaxMessages
  BY ZenonT(30), NotPeer
<1>5. \A n \in Messages : Is(Head(q), n) <=> n = m
  BY SMT, <1>2, <1>4, SendFrame
<1>6. \A n \in Messages : Once(q, n) /\ (Has(q, n) => rec[n].st = "WaitingAccept")
                          /\ (IsReady /\ rec[n].st = "WaitingAccept" => Has(q, n))
  BY DEF ClientInv, Queues, Queued
<1>7. \A n \in Messages : (Has(r, n) <=> Has(q, n) /\ n # m) /\ Once(r, n)
  <2> TAKE n \in Messages
  <2>1. /\ Has(q, n) <=> Is(Head(q), n) \/ Has(Tail(q), n)
        /\ Once(q, n) => Once(Tail(q), n)
        /\ Once(q, n) /\ Is(Head(q), n) => ~Has(Tail(q), n)
    BY <1>1, TailFrames
  <2> QED  BY <1>5, <1>6, <2>1
<1>8. Types'
  BY <1>1 DEF ClientInv, Types, DataTypes
<1>9. Connection'
  BY <1>1, <1>3, ConnSends DEF ClientInv, Types
<1>10. queue'["send"] = r
  OBVIOUS
<1>11. FrontOf(r) = N /\ Writes(N)
  OBVIOUS
<1>12. r # <<>> => N = {Head(r).m}
  BY DEF FrontOf
<1>13. r = <<>> => N = {}
  BY DEF FrontOf
<1> HIDE DEF q, r, N
<1>14. Queues'
  <2> SUFFICES ASSUME NEW n \in Messages
               PROVE  /\ Has(queue'["send"], n) => rec'[n].st = "WaitingAccept"
                      /\ Once(queue'["send"], n)
                      /\ IsReady' /\ rec'[n].st = "WaitingAccept" => Has(queue'["send"], n)
    BY DEF Queues, Queued
  <2>1. IsReady' <=> IsReady
    BY <1>1 DEF IsReady
  <2> QED  BY <1>6, <1>7, <1>10, <2>1
<1>15. \A n \in Messages : OnWire(up', down', n) => OnWire(up, down, n) \/ n \in N
  BY <1>4, <1>11 DEF Writes
<1>16. Tables'
  <2> SUFFICES ASSUME NEW n \in Messages
               PROVE  OnWire(up', down', n) \/ n \in Range(log') => row'[n].st # "none"
    BY DEF Tables
  <2>1. OnWire(up, down, n) \/ n \in Range(log) => row[n].st # "none"
    BY DEF ClientInv, Tables
  <2>2. n \in N => row[n].st # "none"
    <3>1. n \in N => rec[n].st = "WaitingAccept"
      BY <1>3, <1>6, <1>7
    <3>2. rec[n].st \in Unsettled => row[n].st = rec[n].st
      BY DEF ClientInv, Tables, RowOK
    <3> QED  BY <3>1, <3>2, StateNames
  <2> QED  BY <1>15, <2>1, <2>2
<1>17. LogGrows /\ DownFrom /\ RejectsKept
  BY DownSmaller DEF LogGrows, ClientInv, Types
<1>18. Incoming'
  <2>1. \A n \in Messages : OwnId(rec'[n].id, log') /\ OwnId(row'[n].id, log')
    BY DEF ClientInv, Incoming
  <2> QED  BY <1>17, <2>1, IncomingKept DEF ClientInv, Types
<1>19. ASSUME ~mixedUp'
       PROVE  Outgoing' /\ Outcomes'
  <2>1. Outgoing /\ Outcomes
    BY <1>19 DEF ClientInv
  <2>2. ASSUME NEW n \in Messages
        PROVE  /\ Single(up', down', n)
               /\ OnWire(up', down', n) /\ Has(queue'["send"], n) => Head(queue'["send"]).m = n
               /\ OnWire(up', down', n) /\ ~Has(queue'["send"], n) => rec'[n].st = "Unknown"
    <3>1. /\ Single(up, down, n)
          /\ OnWire(up, down, n) /\ Has(q, n) => m = n
          /\ OnWire(up, down, n) /\ ~Has(q, n) => rec[n].st = "Unknown"
      BY <2>1 DEF Outgoing, Queued, q
    <3>2. Has(r, n) => ~OnWire(up, down, n)
      BY <1>7, <3>1
    <3>3. n \in N => Has(r, n)
      BY <1>3
    <3>4. Single(up', down', n)
      BY <1>4, <1>11, <3>1, <3>2, <3>3 DEF Writes
    <3>5. OnWire(up', down', n) /\ Has(r, n) => Head(r).m = n
      BY <1>12, <1>13, <1>15, <3>2
    <3>6. OnWire(up', down', n) /\ ~Has(r, n) => rec'[n].st = "Unknown"
      <4>1. CASE n = m
        BY <1>19, <4>1
      <4>2. CASE n # m
        BY <1>7, <1>15, <3>1, <3>3, <4>2
      <4> QED  BY <4>1, <4>2
    <3> QED  BY <1>10, <3>4, <3>5, <3>6
  <2>3. Outgoing'
    BY <2>2 DEF Outgoing, Queued
  <2>4. ASSUME NEW n \in Messages
        PROVE  /\ "PermanentFailed" \in {rec'[n].st, row'[n].st} => n \notin Range(log')
               /\ SendAnswer(n, 0, FALSE) \in Range(down') => n \notin Range(log')
               /\ row'[n].st = "Accepted" => n \in Range(log')
               /\ IdRight(n, rec[n].id)' /\ IdRight(n, row[n].id)'
    <3>1. SendAnswer(n, 0, FALSE) \in Range(down') => n \notin Range(log')
      BY <1>17, <2>1 DEF RejectsKept, Outcomes
    <3>2. CASE n = m
      BY ZenonT(30), <1>19, <3>1, <3>2 DEF IdRight
    <3>3. CASE n # m
      BY ZenonT(30), <2>1, <3>1, <3>3 DEF IdRight, Outcomes
    <3> QED  BY <3>2, <3>3
  <2>5. Outcomes'
    BY <2>4 DEF Outcomes
  <2> QED  BY <2>3, <2>5
<1> QED  BY <1>8, <1>9, <1>14, <1>16, <1>18, <1>19 DEF ClientInv

\* UpdateMessageState for the front of the queue, which is waiting.
LEMMA FrontUpdated ==
  ASSUME ClientInv, queue["send"] # <<>>, NEW m, m = Head(queue["send"]).m,
         NEW s \in Outcome, s # "WaitingAccept", UpdateMessageState({m}, s)
  PROVE  /\ m \in Messages /\ DataTypes' /\ UNCHANGED <<stored, cursor>>
         /\ \A n \in Messages : RowOK(n)'
         /\ rec'[m].st = s /\ row'[m].st = s /\ rec'[m].id = rec[m].id /\ row'[m].id = row[m].id
         /\ \A n \in Messages \ {m} : rec'[n] = rec[n] /\ row'[n] = row[n]
<1>1. m \in Messages /\ Has(queue["send"], m)
  BY SendQueue DEF ClientInv, Types, WireTypes
<1>2. rec[m].st = "WaitingAccept"
  BY <1>1 DEF ClientInv, Queues, Queued
<1>3. CanTransition(rec[m].st, s)
  BY SMT, <1>2, Transitions
<1>4. DataTypes /\ (\A n \in Messages : RowOK(n)) /\ {m} \in SUBSET Messages
  BY <1>1 DEF ClientInv, Types, DataTypes, Tables
<1>5. /\ DataTypes' /\ UNCHANGED <<stored, cursor, attached>>
      /\ \A n \in Messages :
           /\ RowOK(n)'
           /\ rec'[n].id = rec[n].id /\ row'[n].id = row[n].id
           /\ row'[n].st = "none" <=> row[n].st = "none"
           /\ n \in {m} /\ CanTransition(rec[n].st, s) =>
                rec'[n].st = s /\ row'[n].st = s /\ rec[n].st \in Unsettled
           /\ ~(n \in {m} /\ CanTransition(rec[n].st, s)) =>
                rec'[n].st = rec[n].st /\ row'[n].st = row[n].st
  BY <1>4, UpdateEffect
<1>6. \A n \in Messages \ {m} : rec'[n] = rec[n] /\ row'[n] = row[n]
  BY DEF UpdateMessageState, UpdateDeliveryState
<1> QED  BY <1>1, <1>3, <1>5, <1>6

\* The timer of a send: the outcome is open, and a late answer may come.
LEMMA TimeoutInv ==
  ASSUME ClientInv, Timeout("send")
  PROVE  ClientInv'
<1> DEFINE m == Head(queue["send"]).m
<1>1. /\ RequestTimeout("send") /\ UpdateMessageState({m}, "Unknown")
      /\ UNCHANGED <<seen, acked, mixedUp, log>>
  BY DEF Timeout, HandleGatewayFailure
<1>2. /\ queue["send"] # <<>> /\ WireTypes' /\ down' = down
      /\ queue'["send"] = Tail(queue["send"]) /\ Writes(FrontOf(Tail(queue["send"])))
  BY <1>1, TimeoutSend DEF ClientInv, Types
<1>3. Idle
  BY <1>1 DEF RequestTimeout, Idle
<1>4. "Unknown" \in Outcome /\ "Unknown" # "WaitingAccept" /\ "Unknown" # "none" /\ "Unknown" # "PermanentFailed"
      /\ "Unknown" # "Accepted"
  BY DEF Outcome
<1> HIDE DEF m
<1>5. m = Head(queue["send"]).m
  BY DEF m
<1>6. /\ m \in Messages /\ DataTypes' /\ UNCHANGED <<stored, cursor>>
      /\ \A n \in Messages : RowOK(n)'
      /\ rec'[m].st = "Unknown" /\ row'[m].st = "Unknown" /\ rec'[m].id = rec[m].id /\ row'[m].id = row[m].id
      /\ \A n \in Messages \ {m} : rec'[n] = rec[n] /\ row'[n] = row[n]
  BY <1>1, <1>2, <1>4, <1>5, FrontUpdated
<1>7. OwnId(rec'[m].id, log) /\ OwnId(row'[m].id, log)
  BY <1>6 DEF ClientInv, Incoming
<1>8. ~mixedUp => IdRight(m, rec'[m].id) /\ IdRight(m, row'[m].id)
  BY <1>6 DEF ClientInv, Outcomes
<1>9. cursor' \in Nat /\ mixedUp' \in BOOLEAN
  BY <1>1, <1>6 DEF ClientInv, Types
<1> QED  BY <1>1, <1>2, <1>3, <1>4, <1>5, <1>6, <1>7, <1>8, <1>9, PoppedInv

\* The answer to a send, as far as both outcomes share it.
LEMMA AnswerTaken ==
  ASSUME ClientInv, Receives("send"), CompleteFront("send", NoQueue), TakenForFront,
         NEW m, m = Head(queue["send"]).m
  PROVE  /\ down # <<>> /\ Head(down) \in SendAnswers /\ DownOK(Head(down), log)
         /\ Head(down) = SendAnswer(Head(down).m, Head(down).id, Head(down).retryable)
         /\ Head(down).id \in Nat /\ Head(down).retryable \in BOOLEAN
         /\ queue["send"] # <<>> /\ WireTypes' /\ down' = Tail(down) /\ m \in Messages
         /\ queue'["send"] = Tail(queue["send"]) /\ Writes(FrontOf(Tail(queue["send"])))
         /\ mixedUp' \in BOOLEAN /\ (mixedUp => mixedUp')
         /\ ~mixedUp' => Head(down).m = m /\ ~OnWire(up', down', m)
<1>1. down # <<>> /\ Head(down) \in DownFrames /\ Head(down).kind = "send" /\ DownOK(Head(down), log)
  BY ReceivedFrame DEF ClientInv
<1>2. /\ Head(down) \in SendAnswers /\ Head(down).id \in Nat /\ Head(down).retryable \in BOOLEAN
      /\ Head(down) = SendAnswer(Head(down).m, Head(down).id, Head(down).retryable)
  BY <1>1, DownFramesAre
<1>3. /\ queue["send"] # <<>> /\ WireTypes' /\ down' = Tail(down)
      /\ queue'["send"] = Tail(queue["send"]) /\ Takes(FrontOf(Tail(queue["send"])))
  BY <1>1, CompleteSend DEF ClientInv, Types
<1>4. m \in Messages /\ Tail(queue["send"]) \in Seq(Sends) /\ Head(queue["send"]) = Send(m)
  BY <1>3, SendQueue DEF ClientInv, Types, WireTypes
<1>5. mixedUp' \in BOOLEAN /\ (mixedUp => mixedUp') /\ (~mixedUp' => ~mixedUp /\ Head(down).m = m)
  BY DEF TakenForFront, ClientInv, Types
<1>6. ASSUME ~mixedUp'
      PROVE  ~OnWire(up', down', m)
  <2>1. Single(up, down, m) /\ Head(down).m = m
    BY <1>4, <1>5, <1>6 DEF ClientInv, Outgoing
  <2>2. m \in 0..MaxMessages /\ m # 0
    BY <1>4, NotPeer
  <2>3. Is(Head(down), m)
    BY <1>1, <2>1, <2>2 DEF Is
  <2>4. m \notin FrontOf(Tail(queue["send"]))
    <3>1. Once(queue["send"], m)
      BY <1>4 DEF ClientInv, Queues
    <3>2. Is(Head(queue["send"]), m)
      BY SMT, <1>4, <2>2, SendFrame
    <3>3. queue["send"] \in Seq(Sends)
      BY DEF ClientInv, Types, WireTypes
    <3>4. ~Has(Tail(queue["send"]), m)
      BY SMT, <1>3, <3>1, <3>2, <3>3, TailFrames
    <3> QED  BY <1>4, <3>4, FrontFrames
  <2> QED  BY <1>3, <2>1, <2>2, <2>3, <2>4 DEF Takes
<1> QED  BY <1>1, <1>2, <1>3, <1>4, <1>5, <1>6 DEF Takes

\* An answer that a message was refused keeps the invariant.
LEMMA RejectedInv ==
  ASSUME ClientInv, SendRejected
  PROVE  ClientInv'
<1> DEFINE m == Head(queue["send"]).m
           s == IF Head(down).retryable THEN "RetryableFailed" ELSE "PermanentFailed"
<1>1. /\ Receives("send") /\ Head(down).id = 0 /\ CompleteFront("send", NoQueue) /\ Idle /\ TakenForFront
      /\ UpdateMessageState({m}, s) /\ UNCHANGED <<seen, acked, log>>
  BY DEF SendRejected
<1>2. s \in Outcome /\ s # "WaitingAccept" /\ s # "none" /\ s # "Accepted"
  BY DEF Outcome
<1>3. s = "PermanentFailed" <=> ~Head(down).retryable
  OBVIOUS
<1>4. m = Head(queue["send"]).m
  OBVIOUS
<1> HIDE DEF m, s
<1>5. /\ down # <<>> /\ Head(down) = SendAnswer(Head(down).m, Head(down).id, Head(down).retryable)
      /\ Head(down).retryable \in BOOLEAN
      /\ queue["send"] # <<>> /\ WireTypes' /\ down' = Tail(down) /\ m \in Messages
      /\ queue'["send"] = Tail(queue["send"]) /\ Writes(FrontOf(Tail(queue["send"])))
      /\ mixedUp' \in BOOLEAN /\ (mixedUp => mixedUp')
      /\ ~mixedUp' => Head(down).m = m /\ ~OnWire(up', down', m)
  BY <1>1, <1>4, AnswerTaken
<1>6. /\ DataTypes' /\ UNCHANGED <<stored, cursor>>
      /\ \A n \in Messages : RowOK(n)'
      /\ rec'[m].st = s /\ row'[m].st = s /\ rec'[m].id = rec[m].id /\ row'[m].id = row[m].id
      /\ \A n \in Messages \ {m} : rec'[n] = rec[n] /\ row'[n] = row[n]
  BY <1>1, <1>2, <1>4, <1>5, FrontUpdated
<1>7. OwnId(rec'[m].id, log) /\ OwnId(row'[m].id, log)
  BY <1>5, <1>6 DEF ClientInv, Incoming
<1>8. ASSUME ~mixedUp'
      PROVE  /\ IdRight(m, rec'[m].id) /\ IdRight(m, row'[m].id)
             /\ s = "PermanentFailed" => m \notin Range(log)
  <2>1. Outcomes /\ Head(down).m = m
    BY <1>5, <1>8 DEF ClientInv
  <2>2. IdRight(m, rec'[m].id) /\ IdRight(m, row'[m].id)
    BY <1>5, <1>6, <2>1 DEF Outcomes
  <2>3. ASSUME s = "PermanentFailed"
        PROVE  m \notin Range(log)
    <3>1. Head(down) = SendAnswer(m, 0, FALSE)
      BY <1>1, <1>3, <1>5, <2>1, <2>3
    <3>2. Head(down) \in Range(down)
      <4>1. down \in Seq(DownFrames)
        BY DEF ClientInv, Types, WireTypes
      <4>2. Head(down) = down[1] /\ 1 \in 1..Len(down)
        BY SMT, <1>5, <4>1
      <4>3. Range(down) = {down[i] : i \in 1..Len(down)}
        BY <4>1, RangeOfSeq
      <4> QED  BY <4>2, <4>3
    <3> QED  BY <1>5, <2>1, <3>1, <3>2 DEF Outcomes
  <2> QED  BY <2>2, <2>3
<1>9. cursor' \in Nat
  BY ZenonT(30), <1>6 DEF ClientInv, Types
<1> QED  BY <1>1, <1>2, <1>4, <1>5, <1>6, <1>7, <1>8, <1>9, PoppedInv

\* An answer that a message was accepted keeps the invariant.
LEMMA AcceptedInv ==
  ASSUME ClientInv, SendAccepted
  PROVE  ClientInv'
<1> DEFINE m == Head(queue["send"]).m
           i == Head(down).id
           a == [st |-> "Accepted", id |-> i]
<1>1. /\ Receives("send") /\ i # 0 /\ CompleteFront("send", NoQueue) /\ Idle /\ TakenForFront
      /\ rec' = [rec EXCEPT ![m] = a] /\ AcceptOutgoing(m, i) /\ UNCHANGED <<seen, stored, acked, log>>
  BY DEF SendAccepted
<1>2. m = Head(queue["send"]).m
  OBVIOUS
<1>3. /\ down # <<>> /\ Head(down) \in SendAnswers /\ DownOK(Head(down), log) /\ i \in Nat
      /\ queue["send"] # <<>> /\ WireTypes' /\ down' = Tail(down) /\ m \in Messages
      /\ queue'["send"] = Tail(queue["send"]) /\ Writes(FrontOf(Tail(queue["send"])))
      /\ mixedUp' \in BOOLEAN /\ (mixedUp => mixedUp')
      /\ ~mixedUp' => Head(down).m = m /\ ~OnWire(up', down', m)
  BY <1>1, <1>2, AnswerTaken
<1>4. i \in 1..Len(log) /\ log[i] = Head(down).m /\ Head(down).m \in Messages
  BY <1>1, <1>3 DEF DownOK, SendAnswers
<1>5. a \in Records /\ a.st = "Accepted" /\ a.id = i
  BY <1>3 DEF Records, Closed
<1>6. \/ UNCHANGED <<row, outbox, cursor>>
      \/ /\ row' = [row EXCEPT ![m] = a] /\ outbox' = outbox \ {m}
         /\ cursor' = (IF i > cursor THEN i ELSE cursor)
  BY <1>1 DEF AcceptOutgoing
<1> HIDE DEF m, i, a
<1>7. DataTypes /\ (\A n \in Messages : RowOK(n)) /\ cursor \in Nat
  BY DEF ClientInv, Types, DataTypes, Tables
<1>8. /\ rec' \in [Messages -> Records] /\ rec'[m] = a /\ \A n \in Messages \ {m} : rec'[n] = rec[n]
  BY <1>1, <1>3, <1>5, <1>7 DEF DataTypes
<1>9. /\ row' \in [Messages -> Records] /\ row'[m] \in {row[m], a} /\ outbox' \subseteq Messages
      /\ \A n \in Messages \ {m} : row'[n] = row[n] /\ (n \in outbox' <=> n \in outbox)
      /\ row'[m] = a \/ (row'[m] = row[m] /\ (m \in outbox' <=> m \in outbox))
      /\ row'[m] = row[m] \/ (row'[m] = a /\ m \notin outbox')
      /\ (row'[m] = row[m] /\ (m \in outbox' <=> m \in outbox)) \/ (row'[m] = a /\ m \notin outbox')
  BY <1>3, <1>5, <1>6, <1>7 DEF DataTypes
<1>10. cursor' \in Nat
  BY <1>3, <1>6, <1>7
<1>11. DataTypes'
  BY <1>8, <1>9 DEF DataTypes
<1>12. "Accepted" \notin Unsettled /\ "Accepted" # "none" /\ "Accepted" # "WaitingAccept" /\ "Accepted" # "PermanentFailed"
  BY DEF Unsettled
<1>13. rec[m].st = "WaitingAccept" /\ row[m].st = "WaitingAccept"
  <2>1. Has(queue["send"], m)
    BY <1>2, <1>3, SendQueue DEF ClientInv, Types, WireTypes
  <2>2. rec[m].st = "WaitingAccept"
    BY <1>3, <2>1 DEF ClientInv, Queues, Queued
  <2> QED  BY <1>3, <1>7, <2>2, StateNames DEF RowOK
<1>14. \A n \in Messages : RowOK(n)'
  <2> TAKE n \in Messages
  <2>1. CASE n = m
    <3>1. CASE row'[m] = a /\ m \notin outbox'
      BY <1>5, <1>8, <1>12, <2>1, <3>1 DEF RowOK
    <3>2. CASE row'[m] = row[m] /\ (m \in outbox' <=> m \in outbox)
      BY <1>5, <1>7, <1>8, <1>12, <2>1, <3>2 DEF RowOK
    <3> QED  BY <1>9, <3>1, <3>2
  <2>2. CASE n # m
    BY <1>7, <1>8, <1>9, <2>2 DEF RowOK
  <2> QED  BY <2>1, <2>2
<1>15. row'[m].st # "none" /\ row'[m].st # "PermanentFailed" /\ rec'[m].st = "Accepted"
  <2>1. "WaitingAccept" # "none" /\ "WaitingAccept" # "PermanentFailed"
    OBVIOUS
  <2> QED  BY <1>5, <1>8, <1>9, <1>12, <1>13, <2>1
<1>16. OwnId(rec'[m].id, log) /\ OwnId(row'[m].id, log)
  <2>1. OwnId(i, log) /\ OwnId(row[m].id, log)
    BY <1>3, <1>4 DEF ClientInv, Incoming, OwnId
  <2> QED  BY <1>5, <1>8, <1>9, <2>1
<1>17. ASSUME ~mixedUp'
       PROVE  m \in Range(log) /\ IdRight(m, rec'[m].id) /\ IdRight(m, row'[m].id)
  <2>1. Outcomes /\ log[i] = m
    BY <1>3, <1>4, <1>17 DEF ClientInv
  <2>2. Range(log) = {log[j] : j \in 1..Len(log)}
    BY RangeOfSeq DEF ClientInv, Types
  <2>3. IdRight(m, i) /\ IdRight(m, row[m].id)
    BY <1>3, <1>4, <2>1 DEF IdRight, Outcomes
  <2> QED  BY SMTT(30), <1>4, <1>5, <1>8, <1>9, <2>1, <2>2, <2>3
<1> QED  BY ZenonT(30), <1>1, <1>2, <1>3, <1>8, <1>9, <1>10, <1>11, <1>12, <1>14, <1>15, <1>16, <1>17, PoppedInv

-----------------------------------------------------------------------------
(* The login *)

\* ResumePendingOutgoing sends each message that waits once.
LEMMA ResumedSends ==
  ASSUME NEW W \in SUBSET Messages, NEW ms \in Ascending(W)
  PROVE  /\ ResumePendingOutgoing(ms) \in Seq(Sends)
         /\ \A n \in Messages : /\ Has(ResumePendingOutgoing(ms), n) <=> n \in W
                                /\ Once(ResumePendingOutgoing(ms), n)
<1> DEFINE s == ResumePendingOutgoing(ms)
<1>1. PICK k \in 0..MaxMessages : ms \in [1..k -> W]
  BY DEF Ascending
<1>2. k \in Nat /\ Range(ms) = W /\ \A i, j \in DOMAIN ms : i < j => ms[i] < ms[j]
  BY SMT, ClientBounds DEF Ascending
<1>3. ms \in Seq(W) /\ Len(ms) = k /\ DOMAIN ms = 1..k
  BY SMT, <1>1, <1>2
<1>4. s = [i \in 1..k |-> Send(ms[i])]
  BY <1>3 DEF ResumePendingOutgoing
<1>5. \A i \in 1..k : ms[i] \in W /\ ms[i] \in Messages /\ Send(ms[i]) \in Sends
  BY <1>1, SendFrame
<1> HIDE DEF s
<1>6. s \in Seq(Sends) /\ Len(s) = k /\ \A i \in 1..k : s[i] = Send(ms[i])
  BY SMT, <1>2, <1>4, <1>5
<1>7. \A i \in 1..k : \A n \in Messages : Is(s[i], n) <=> ms[i] = n
  BY SMT, <1>5, <1>6, SendFrame, NotPeer
<1>8. \A n \in W : \E i \in 1..k : ms[i] = n
  BY <1>2, <1>3 DEF Range
<1>9. ASSUME NEW n \in Messages
      PROVE  (Has(s, n) <=> n \in W) /\ Once(s, n)
  <2>1. Has(s, n) <=> \E i \in 1..k : ms[i] = n
    BY <1>6, <1>7 DEF Has
  <2>2. Has(s, n) <=> n \in W
    BY <1>5, <1>8, <2>1
  <2>3. ASSUME NEW i \in 1..k, NEW j \in 1..k, ms[i] = n, ms[j] = n
        PROVE  i = j
    <3>1. ~(n < n)
      BY SMT, NotPeer
    <3>2. ~(i < j) /\ ~(j < i)
      BY <1>2, <1>3, <2>3, <3>1
    <3> QED  BY SMT, <1>1, <3>2
  <2>4. Once(s, n)
    BY <1>6, <1>7, <2>3 DEF Once
  <2> QED  BY <2>2, <2>4
<1> QED  BY <1>6, <1>9 DEF s

\* The answer to a login, with the requests it resumes, keeps the invariant.
LEMMA AuthenticatedInv ==
  ASSUME ClientInv, Authenticated
  PROVE  ClientInv'
<1> DEFINE p == SyncKnownConversations
<1>1. PICK ms \in Ascending(Waiting) : LoginAccepted(Asked(p, ResumePendingOutgoing(ms)))
  BY DEF Authenticated
<1> DEFINE s == ResumePendingOutgoing(ms)
<1>2. /\ Receives("login") /\ UpdateMessageState(Waiting, "WaitingAccept")
      /\ UNCHANGED <<seen, acked, mixedUp, log>>
  BY DEF Authenticated
<1>3. /\ down # <<>> /\ Head(down).kind = "login" /\ sock \in {"connected", "closing"} /\ ~backoff
  BY <1>2, ReceivedFrame DEF ClientInv
<1>4. Waiting \in SUBSET Messages
  BY DEF Waiting
<1>5. s \in Seq(Sends) /\ \A n \in Messages : (Has(s, n) <=> n \in Waiting) /\ Once(s, n)
  BY <1>4, ResumedSends
<1>6. p \in Seq(Pulls)
  <2>1. Pull(cursor) \in Pulls
    BY PullsAre DEF ClientInv, Types
  <2> QED  BY SMT, <2>1 DEF SyncKnownConversations
<1>7. LoginAccepted(Asked(p, s))
  BY <1>1
<1> HIDE DEF s, p
<1>8. Is(Head(down), 0)
  BY <1>3 DEF Is
<1>9. OnWire(up, down, 0)
  BY <1>3, <1>8, WireTaken DEF ClientInv, Types, WireTypes
<1>10. /\ ~IsReady /\ queue["send"] = <<>> /\ (\A n \in Messages : ~OnWire(up, down, n))
       /\ Single(up, down, 0)
  BY <1>9 DEF ClientInv, Connection
<1>11. WireTypes' /\ queue'["send"] = s /\ Takes(FrontOf(s)) /\ down' = Tail(down)
  BY <1>3, <1>5, <1>6, <1>7, <1>10, LoginEffect DEF ClientInv, Types
<1>12. UNCHANGED <<sock, backoff>> /\ IsReady'
  BY <1>7 DEF LoginAccepted, IsReady
<1>13. DataTypes /\ (\A n \in Messages : RowOK(n)) /\ "WaitingAccept" \in Outcome
  BY DEF ClientInv, Types, DataTypes, Tables, Outcome
<1>14. /\ DataTypes' /\ UNCHANGED <<stored, cursor, attached>>
       /\ \A n \in Messages :
            /\ RowOK(n)'
            /\ rec'[n].id = rec[n].id /\ row'[n].id = row[n].id
            /\ row'[n].st = "none" <=> row[n].st = "none"
            /\ n \in Waiting /\ CanTransition(rec[n].st, "WaitingAccept") =>
                 rec'[n].st = "WaitingAccept" /\ row'[n].st = "WaitingAccept" /\ rec[n].st \in Unsettled
            /\ ~(n \in Waiting /\ CanTransition(rec[n].st, "WaitingAccept")) =>
                 rec'[n].st = rec[n].st /\ row'[n].st = row[n].st
  BY <1>2, <1>4, <1>13, UpdateEffect
<1>15. FrontOf(s) \subseteq Messages /\ \A n \in FrontOf(s) : Has(s, n)
  BY <1>5, FrontFrames
<1>16. 0 \in 0..MaxMessages /\ 0 \notin FrontOf(s) /\ \A n \in Messages : n \in 0..MaxMessages
  BY SMT, <1>15, ClientBounds, NotPeer
<1>17. \A n \in Messages : OnWire(up', down', n) => n \in FrontOf(s)
  BY <1>10, <1>11, <1>16 DEF Takes, Writes
<1>18. Types'
  BY <1>2, <1>11, <1>12, <1>14 DEF ClientInv, Types, DataTypes
<1>19. Connection'
  <2>1. ~OnWire(up', down', 0)
    BY <1>8, <1>10, <1>11, <1>16 DEF Takes
  <2>2. Single(up', down', 0)
    BY <1>10, <1>11, <1>16 DEF Takes, Writes
  <2> QED  BY <1>3, <1>12, <2>1, <2>2 DEF Connection
<1>20. \A n \in Messages : n \in Waiting <=> rec'[n].st = "WaitingAccept"
  <2> TAKE n \in Messages
  <2>1. n \in Waiting <=> rec[n].st \in Unsettled
    BY DEF Waiting
  <2>2. rec[n].st \in Unsettled => rec[n].st = "WaitingAccept" \/ CanTransition(rec[n].st, "WaitingAccept")
    BY <1>13, Transitions
  <2> QED  BY <1>14, <2>1, <2>2, StateNames
<1>21. Queues'
  BY <1>5, <1>11, <1>20 DEF Queues, Queued
<1>22. Tables'
  <2> SUFFICES ASSUME NEW n \in Messages
               PROVE  OnWire(up', down', n) \/ n \in Range(log') => row'[n].st # "none"
    BY <1>14 DEF Tables
  <2>1. n \in Range(log) => row[n].st # "none"
    BY DEF ClientInv, Tables
  <2>2. OnWire(up', down', n) => rec'[n].st = "WaitingAccept"
    BY <1>5, <1>15, <1>17, <1>20
  <2>3. rec'[n].st \in Unsettled => row'[n].st = rec'[n].st
    BY <1>14 DEF RowOK
  <2> QED  BY <1>2, <1>14, <2>1, <2>2, <2>3, StateNames
<1>23. LogGrows /\ DownFrom /\ RejectsKept
  BY <1>2, <1>3, <1>11, DownSmaller DEF LogGrows, ClientInv, Types
<1>24. Ids
  BY <1>14 DEF Ids
<1>25. Incoming'
  <2>1. \A n \in Messages : OwnId(rec'[n].id, log') /\ OwnId(row'[n].id, log')
    BY <1>2, <1>24, IdsKept DEF ClientInv
  <2> QED  BY <1>2, <1>14, <1>23, <2>1, IncomingKept DEF ClientInv, Types
<1>26. ASSUME ~mixedUp
       PROVE  Outgoing' /\ Outcomes'
  <2>1. Outgoing /\ Outcomes
    BY <1>26 DEF ClientInv
  <2>2. NothingSaid
    <3>1. "WaitingAccept" # "PermanentFailed" /\ "WaitingAccept" # "Accepted"
      OBVIOUS
    <3> QED  BY <1>14, <3>1 DEF NothingSaid
  <2>3. Outcomes'
    BY <1>2, <1>23, <1>24, <2>1, <2>2, OutcomesKept
  <2>4. \A n \in Messages : Single(up', down', n)
    BY <1>10, <1>11, <1>16, <2>1 DEF Takes, Writes, Outgoing
  <2>5. \A n \in FrontOf(s) : Head(s).m = n
    BY DEF FrontOf
  <2>6. Outgoing'
    BY <1>11, <1>15, <1>17, <2>4, <2>5 DEF Outgoing, Queued
  <2> QED  BY <2>3, <2>6
<1> QED  BY <1>2, <1>18, <1>19, <1>21, <1>22, <1>25, <1>26 DEF ClientInv

-----------------------------------------------------------------------------
(* The theorems *)

\* The invariant holds of a client without messages.
LEMMA ClientInit == Init => ClientInv
<1> SUFFICES ASSUME Init
             PROVE  ClientInv
  OBVIOUS
<1>1. queue = NoQueue /\ up = <<>> /\ down = <<>> /\ state = "Disconnected" /\ sock = "unconnected"
  BY DEF Init, ConnInit
<1>2. /\ rec = [m \in Messages |-> NoRecord] /\ row = rec
      /\ seen = {} /\ stored = {} /\ outbox = {} /\ cursor = 0
      /\ log = <<>> /\ acked = {} /\ mixedUp = FALSE
  BY DEF Init
<1>3. WireTypes
  <2>1. <<>> \in Seq(UpFrames) /\ <<>> \in Seq(Pulls) /\ <<>> \in Seq(Sends) /\ <<>> \in Seq(DownFrames)
    BY SMT
  <2> QED  BY <1>1, <2>1, NoQueueIs DEF WireTypes
<1>4. \A m \in Messages : rec[m] = NoRecord /\ row[m] = NoRecord
  BY <1>2
<1>5. Types
  <2>1. rec \in [Messages -> Records] /\ row \in [Messages -> Records]
    BY <1>2, StateNames
  <2>2. log \in Seq(Messages \cup {Peer})
    BY SMT, <1>2
  <2> QED  BY <1>1, <1>2, <1>3, <2>1, <2>2 DEF Types
<1>6. queue["send"] = <<>> /\ ~IsReady
  BY <1>1, NoQueueIs DEF IsReady
<1>7. \A t : ~OnWire(up, down, t) /\ Single(up, down, t)
  BY <1>1, WireEmpty
<1>8. Connection
  BY <1>1, <1>6, <1>7 DEF Connection
<1>9. Queues
  BY <1>6, FewFrames DEF Queues, Queued
<1>10. ~(\E m : m \in Range(log))
  <2>1. DOMAIN <<>> = {}
    BY SMT
  <2> QED  BY <1>2, <2>1 DEF Range
<1>11. Tables
  <2>1. "none" \notin Unsettled
    BY StateNames
  <2> QED  BY <1>2, <1>4, <1>7, <1>10, <2>1, StateNames DEF Tables, RowOK
<1>12. Incoming
  BY SMT, <1>1, <1>2, <1>4, StateNames DEF Incoming, OwnId
<1>13. Outgoing
  BY <1>7 DEF Outgoing
<1>14. Outcomes
  BY <1>4, <1>10, StateNames DEF Outcomes, IdRight
<1> QED  BY <1>5, <1>8, <1>9, <1>11, <1>12, <1>13, <1>14 DEF ClientInv

\* A quiet step keeps the invariant.
LEMMA QuietGoodInv ==
  ASSUME ClientInv, QuietGood
  PROVE  ClientInv'
<1>1. Types' /\ Queues' /\ Tables' /\ (~mixedUp' => Outgoing' /\ Outcomes')
  BY QuietInv DEF ClientInv, QuietGood
<1> QED  BY <1>1 DEF ClientInv, QuietGood

\* A step that changes nothing keeps the invariant.
LEMMA StutterInv ==
  ASSUME ClientInv, UNCHANGED vars
  PROVE  ClientInv'
<1>1. UNCHANGED <<connVars, rec, seen, row, stored, outbox, cursor, acked, mixedUp, log>>
  BY DEF vars, appVars, dbVars
<1>2. UNCHANGED <<queue, up, down, state, sock, backoff>>
  BY <1>1 DEF connVars
<1>3. Quiet
  BY <1>2, SameEffect DEF ClientInv, Types
<1>4. DownFrom /\ RejectsKept /\ LogGrows
  BY <1>1, <1>2, DownSmaller DEF ClientInv, Types, LogGrows
<1>5. QuietStep
  BY <1>1, <1>2, <1>3, <1>4, QuietKept DEF ClientInv, Types, IsReady
<1>6. Connection'
  BY <1>2, <1>3, ConnQuiet DEF ClientInv, Connection, IsReady
<1>7. Incoming'
  BY <1>1, <1>4, IncomingSame DEF ClientInv
<1> QED  BY <1>5, <1>6, <1>7, QuietGoodInv DEF QuietGood

\* Every step of the client, the server and the network keeps the invariant.
LEMMA ClientStep == ClientInv /\ [Next]_vars => ClientInv'
<1> SUFFICES ASSUME ClientInv, [Next]_vars
             PROVE  ClientInv'
  OBVIOUS
<1>1. Types /\ Connection /\ Incoming
  BY DEF ClientInv
<1>2. CASE User
  <2>1. CASE \E m \in Messages : SendMessage(m) \/ SendMessageUnsaved(m) \/ RetryMessage(m)
    BY <2>1, SendMessageInv, UnsavedInv, RetryInv
  <2>2. CASE Restart \/ \E m \in Messages : CrashInSendMessage(m)
    BY <2>2, RestartInv
  <2>3. CASE Authenticate \/ \E i \in 1..MaxLog : MarkRead(i)
    BY <1>1, <2>3, UserQuiet, QuietGoodInv
  <2>4. CASE Leave
    BY <1>1, <2>4, SocketQuiet, QuietGoodInv
  <2> QED  BY <1>2, <2>1, <2>2, <2>3, <2>4 DEF User
<1>3. CASE Gate
  BY <1>1, <1>3, UserQuiet, QuietGoodInv, LostInv DEF Gate
<1>4. CASE Sockets
  BY <1>1, <1>4, ConnectedQuiet, SocketQuiet, QuietGoodInv, LostInv DEF Sockets
<1>5. CASE Clocks
  <2>1. CASE ReconnectTimer \/ LeaveTimeout \/ SessionExpires
    BY <1>1, <2>1, SocketQuiet, QuietGoodInv
  <2>2. CASE \E k \in Kinds : Timeout(k)
    BY <1>1, <2>2, TimeoutQuiet, QuietGoodInv, TimeoutInv DEF Kinds
  <2> QED  BY <1>5, <2>1, <2>2 DEF Clocks
<1>6. CASE Receive
  <2>1. CASE Authenticated \/ SendRejected \/ SendAccepted
    BY <2>1, AuthenticatedInv, RejectedInv, AcceptedInv
  <2>2. CASE PullAnswered \/ Push
    BY <1>1, <2>2, PullQuiet, PushQuiet, QuietGoodInv
  <2>3. CASE \/ LoginError \/ QuitResponse \/ PullUnsaved \/ PullRefused \/ PushUnsaved
             \/ \E k \in Kinds : Unexpected(k)
    BY <1>1, <2>3, ReceiveQuiet, QuietGoodInv
  <2> QED  BY <1>6, <2>1, <2>2, <2>3 DEF Receive
<1>7. CASE Server
  <2>1. CASE ServerLogin \/ ServerQuit \/ ServerSend \/ ServerPull \/ ServerPullFails \/ ServerLoses
    BY <1>1, <2>1, ServerLoginQuiet, ServerQuitQuiet, ServerSendQuiet, ServerPullQuiet, ServerLosesQuiet,
       QuietGoodInv
  <2>2. CASE PeerWrites \/ \E i \in 1..MaxLog : ServerPushes(i)
    BY <1>1, <2>2, PeerQuiet, QuietGoodInv
  <2> QED  BY <1>7, <2>1, <2>2 DEF Server
<1>8. CASE UNCHANGED vars
  BY <1>8, StutterInv
<1> QED  BY <1>2, <1>3, <1>4, <1>5, <1>6, <1>7, <1>8 DEF Next

\* The inductive invariant of the client holds in every state.
THEOREM ClientInvariant == Spec => []ClientInv
BY ClientInit, ClientStep, PTL DEF Spec

\* For any number of messages, faults and restarts, what the user has written and the
\* database has taken is in the outbox with an open state, rejected for good, or with the
\* server, unless an answer was taken for that of a later request (EnqueueOutgoing,
\* UpdateDeliveryState, AcceptOutgoing).
THEOREM ClientLosesNothing == Spec => []NothingLost
<1>1. ClientInv => NothingLost
  <2> SUFFICES ASSUME ClientInv, ~mixedUp, NEW m \in Messages, row[m].st # "none"
               PROVE  \/ m \in outbox /\ row[m].st \in Unsettled
                      \/ m \notin outbox /\ row[m].st = "PermanentFailed"
                      \/ m \notin outbox /\ m \in Range(log)
    BY DEF NothingLost
  <2>1. row[m].st \in Unsettled \/ row[m].st = "Accepted" \/ row[m].st = "PermanentFailed"
    <3>1. row[m] \in Records
      BY DEF ClientInv, Types
    <3> QED  BY <3>1 DEF Records, Closed
  <2>2. m \in outbox <=> row[m].st \in Unsettled
    BY DEF ClientInv, Tables, RowOK
  <2>3. row[m].st = "Accepted" => m \in Range(log)
    BY DEF ClientInv, Outcomes
  <2> QED  BY <2>1, <2>2, <2>3, StateNames
<1> QED  BY <1>1, ClientInvariant, PTL

\* An id the client shows is that of this very message in the conversation, and a message
\* that failed for good is not in it, with the same exception (HandleGatewayResponse,
\* HandleGatewayFailure).
THEOREM ClientShowsTruth == Spec => []ShownTruthfully
<1>1. ClientInv => ShownTruthfully
  <2> SUFFICES ASSUME ClientInv, ~mixedUp, NEW m \in Messages
               PROVE  /\ rec[m].id # 0 => rec[m].id <= Len(log) /\ log[rec[m].id] = m
                      /\ row[m].id # 0 => row[m].id <= Len(log) /\ log[row[m].id] = m
                      /\ rec[m].st = "PermanentFailed" => m \notin Range(log)
    BY DEF ShownTruthfully
  <2>1. /\ IdRight(m, rec[m].id) /\ IdRight(m, row[m].id)
        /\ rec[m].st = "PermanentFailed" => m \notin Range(log)
    BY DEF ClientInv, Outcomes
  <2> QED  BY SMT, <2>1 DEF IdRight
<1> QED  BY <1>1, ClientInvariant, PTL

\* While the connection is ready, every message shown as waiting for its acceptance has a
\* request in the queue (ResumePendingOutgoing, FailAllPending, CompleteFront).
THEOREM ClientWaitsForAnswers == Spec => []WaitingIsPending
<1>1. ClientInv => WaitingIsPending
  BY QueuedSendsAre DEF ClientInv, Types, Queues, WaitingIsPending
<1> QED  BY <1>1, ClientInvariant, PTL

\* An incoming message is acknowledged only when the database has it (HandleGatewayPush,
\* HandleGatewayResponse).
THEOREM ClientAcksWhatIsSaved == Spec => []AckedIsSaved
<1>1. ClientInv => AckedIsSaved
  BY DEF ClientInv, Incoming, AckedIsSaved
<1> QED  BY <1>1, ClientInvariant, PTL
=============================================================================
