---------------------------- MODULE MessageLink ----------------------------
(***************************************************************************)
(* How a Connection Gateway reaches the Message nodes: MessageLinkManager  *)
(* keeps one gRPC stream (MessageLink) per node, sends each command over a *)
(* healthy one and pairs the results with the waiting calls by request id; *)
(* at the node, GatewayStreamService registers the stream, runs the        *)
(* commands on worker threads and replies over the registered stream.      *)
(*                                                                         *)
(* One gateway.  The io_context's threads, the gRPC threads and the nodes  *)
(* interleave between mutex sections.  Which healthy link SelectLink       *)
(* prefers is left open (a hash, or the inflight counters, which nothing   *)
(* else reads).  Deliveries and heartbeats are not modelled here.          *)
(***************************************************************************)
EXTENDS Integers, Sequences, FiniteSets

CONSTANTS Nodes,           \* Message node ids
          Slots,           \* bound: streams of one node that exist at a time
          Calls,           \* calls of Forward
          Ids,             \* request ids; clients choose them
          RequestId,       \* [Calls -> Ids]
          Retryable,       \* the calls whose service may be retried elsewhere
          NoOne,
          MaxStreamQueue,  \* kMaxStreamQueue
          MaxFaults        \* bound: broken streams, node exits, drains, topology changes

ASSUME CallsAssumption == RequestId \in [Calls -> Ids] /\ Retryable \subseteq Calls
ASSUME NoOneAssumption == NoOne \notin Nodes \cup Slots \cup Calls
ASSUME FramesAssumption == Calls \cap {"accepted", "rejected", "drain"} = {}
ASSUME LinkBounds == MaxStreamQueue \in Nat /\ MaxFaults \in Nat

VARIABLES manager,     \* MessageLinkManager::Stop: running, stopping, stopped
          configured,  \* configuredNodes
          toStart,     \* ApplyTopology: nodes it still has to look at
          links,       \* links, by node
          link,        \* the MessageLink objects
          timer,       \* a reconnect timer of the node is armed
          retry,       \* RetryPending under way for a node
          pending,     \* pending, by request id
          call,        \* where each call of Forward stands
          answered,    \* history: callbacks per call
          registered,  \* the node's streams entry for this gateway
          reactor,     \* the node's GatewayStreamReactor of a stream
          draining,    \* GatewayStreamService::draining
          running,     \* commands with the node's workers
          runs,        \* history: executions per call
          faults       \* faults so far

gatewayVars == <<manager, configured, toStart, links, timer, retry, pending, call, answered>>
nodeVars == <<registered, reactor, draining, running, runs>>
vars == <<gatewayVars, link, nodeVars, faults>>

-----------------------------------------------------------------------------
(* Data *)

\* A stream, free, open, or closed from OnDone until its OnLinkDone handler has run.
\* down: frames the gateway has not read, which are "accepted" or "rejected" (a
\* RegisterResult), "drain" (a DrainNotice) or a call (its CommandResult).
FreeLink == [pc |-> "free", stopped |-> TRUE, healthy |-> FALSE, down |-> <<>>]

\* The node's end of a stream: none, new, valid, registering, open or refused; up:
\* commands it has not read.
NoReactor == [pc |-> "none", up |-> {}]

\* An entry of pending.
NoPending == [call |-> NoOne, node |-> NoOne, attempts |-> 0]

\* A Forward: new, selected, pending, returned or refused, and the link it has selected.
NewCall == [pc |-> "new", node |-> NoOne, slot |-> NoOne]

\* RetryPending: todo, the requestIds; taken, the command whose attempt was just
\* counted; slot, the stream whose end the handler is about.
NoRetry == [todo |-> {}, taken |-> NoOne, slot |-> NoOne]

\* MessageLinkManager::Start: the configured nodes are about to be started.
Init ==
    /\ manager = "running" /\ configured = Nodes /\ toStart = Nodes
    /\ links = [n \in Nodes |-> NoOne]
    /\ link = [n \in Nodes |-> [s \in Slots |-> FreeLink]]
    /\ timer = [n \in Nodes |-> FALSE]
    /\ retry = [n \in Nodes |-> NoRetry]
    /\ pending = [i \in Ids |-> NoPending]
    /\ call = [f \in Calls |-> NewCall]
    /\ answered = [f \in Calls |-> 0]
    /\ registered = [n \in Nodes |-> NoOne]
    /\ reactor = [n \in Nodes |-> [s \in Slots |-> NoReactor]]
    /\ draining = [n \in Nodes |-> FALSE]
    /\ running = {} /\ runs = [f \in Calls |-> 0] /\ faults = 0

-----------------------------------------------------------------------------
(* MessageLink *)

\* MessageLink::Stop
Stopped(l) == [l EXCEPT !.stopped = TRUE, !.healthy = FALSE]

\* OnDone
Closed(l) == [l EXCEPT !.pc = "closed", !.stopped = TRUE, !.healthy = FALSE, !.down = <<>>]

\* MessageLink::Enqueue returns true.
Accepts(n, s) == ~link[n][s].stopped /\ Cardinality(reactor[n][s].up) < MaxStreamQueue

\* The command is written; a node that is gone never reads it.
Written(n, s, f) ==
    [reactor EXCEPT ![n][s].up = IF reactor[n][s].pc = "none" THEN @ ELSE @ \cup {f}]

\* A frame from the node, lost once the gateway's end is closed.
Sent(n, s, frame) ==
    [link EXCEPT ![n][s].down = IF link[n][s].pc = "open" THEN Append(@, frame) ELSE @]

\* A MessageLink can be created: another object's stream is over, and nobody
\* holds the object.
Free(n, s) ==
    /\ link[n][s].pc = "free" /\ reactor[n][s].pc = "none" /\ retry[n].slot # s
    /\ \A f \in Calls : call[f].pc \in {"selected", "pending"}
                        => call[f].node # n \/ call[f].slot # s

\* StartLink: replace and stop the node's link; the first frame registers.
StartLink(n) ==
    \E s \in Slots :
        /\ Free(n, s)
        /\ links' = [links EXCEPT ![n] = s]
        /\ link' = [link EXCEPT ![n] = [t \in Slots |->
              IF t = s THEN [FreeLink EXCEPT !.pc = "open", !.stopped = FALSE]
              ELSE IF t = links[n] THEN Stopped(link[n][t]) ELSE link[n][t]]]
        /\ reactor' = [reactor EXCEPT ![n][s] = [pc |-> "new", up |-> {}]]

\* Mutant: links of unregistered streams are used.
SelectAny(excluded) == {n \in Nodes \ {excluded} : links[n] # NoOne}

\* SelectLink: the nodes it may pick.
SelectLink(excluded) ==
    {n \in Nodes \ {excluded} : links[n] # NoOne /\ link[n][links[n]].healthy}

-----------------------------------------------------------------------------
(* Commands *)

\* The command under request id i leaves pending and its callback is called.
Answer(i) ==
    /\ pending' = [pending EXCEPT ![i] = NoPending]
    /\ answered' = [answered EXCEPT ![pending[i].call] = @ + 1]

\* Forward, to SelectLink; no link, no callback.
ForwardSelect(f) ==
    /\ call[f].pc = "new" /\ manager # "stopped"
    /\ \/ \E n \in SelectLink(NoOne) :
             call' = [call EXCEPT ![f] = [pc |-> "selected", node |-> n, slot |-> links[n]]]
       \/ /\ SelectLink(NoOne) = {}
          /\ call' = [call EXCEPT ![f].pc = "refused"]
    /\ UNCHANGED <<manager, configured, toStart, links, timer, retry, pending, answered,
                   link, nodeVars, faults>>

\* Forward: into pending, unless its request id is there; the deadline timer runs.
ForwardPending(f) ==
    /\ call[f].pc = "selected"
    /\ IF pending[RequestId[f]] # NoPending
       THEN call' = [call EXCEPT ![f].pc = "refused"] /\ UNCHANGED pending
       ELSE /\ call' = [call EXCEPT ![f].pc = "pending"]
            /\ pending' = [pending EXCEPT ![RequestId[f]] =
                             [call |-> f, node |-> call[f].node, attempts |-> 0]]
    /\ UNCHANGED <<manager, configured, toStart, links, timer, retry, answered,
                   link, nodeVars, faults>>

\* Forward: onto the stream, or back out of pending with ResourceExhausted.
ForwardEnqueue(f) ==
    LET i == RequestId[f]
    IN  /\ call[f].pc = "pending"
        /\ call' = [call EXCEPT ![f].pc = "returned"]
        /\ IF Accepts(call[f].node, call[f].slot)
           THEN /\ reactor' = Written(call[f].node, call[f].slot, f)
                /\ UNCHANGED <<pending, answered>>
           ELSE /\ IF pending[i] # NoPending THEN Answer(i) ELSE UNCHANGED <<pending, answered>>
                /\ UNCHANGED reactor
        /\ UNCHANGED <<manager, configured, toStart, links, timer, retry, link,
                       registered, draining, running, runs, faults>>

\* Mutant: a command that was retried has no deadline any more.
ExpireFirstAttempt(i) ==
    /\ pending[i] # NoPending /\ pending[i].attempts = 0 /\ manager # "stopped"
    /\ Answer(i)
    /\ UNCHANGED <<manager, configured, toStart, links, timer, retry, call, link, nodeVars, faults>>

\* ExpirePending: DeadlineExceeded.  Timers run while the io_context runs.
ExpirePending(i) ==
    /\ pending[i] # NoPending /\ manager # "stopped"
    /\ Answer(i)
    /\ UNCHANGED <<manager, configured, toStart, links, timer, retry, call, link, nodeVars, faults>>

-----------------------------------------------------------------------------
(* The node *)

\* HandleRegister, up to the validity check.
NodeCheck(n, s) ==
    /\ reactor[n][s].pc = "new"
    /\ IF draining[n]
       THEN /\ reactor' = [reactor EXCEPT ![n][s].pc = "refused"]
            /\ link' = Sent(n, s, "rejected")
       ELSE /\ reactor' = [reactor EXCEPT ![n][s].pc = "valid"]
            /\ UNCHANGED link
    /\ UNCHANGED <<gatewayVars, registered, draining, running, runs, faults>>

\* Register: whatever stream was there is overwritten.
Register(n, s) ==
    /\ reactor[n][s].pc = "valid"
    /\ reactor' = [reactor EXCEPT ![n][s].pc = "registering"]
    /\ registered' = [registered EXCEPT ![n] = s]
    /\ UNCHANGED <<gatewayVars, link, draining, running, runs, faults>>

\* HandleRegister: the result goes out.
NodeRegistered(n, s) ==
    /\ reactor[n][s].pc = "registering"
    /\ reactor' = [reactor EXCEPT ![n][s].pc = "open"]
    /\ link' = Sent(n, s, "accepted")
    /\ UNCHANGED <<gatewayVars, registered, draining, running, runs, faults>>

\* HandleCommand: to a worker, or answered at once (deadline elapsed, queue full).
HandleCommand(n, s, f) ==
    /\ reactor[n][s].pc = "open" /\ f \in reactor[n][s].up
    /\ reactor' = [reactor EXCEPT ![n][s].up = @ \ {f}]
    /\ \/ /\ running' = running \cup {[call |-> f, node |-> n, slot |-> s]}
          /\ UNCHANGED link
       \/ link' = Sent(n, s, f) /\ UNCHANGED running
    /\ UNCHANGED <<gatewayVars, registered, draining, runs, faults>>

\* Reply: only over the stream the command came on, while it is the registered one.
Reply(n, s, f) == IF registered[n] = s THEN Sent(n, s, f) ELSE link

\* The worker's task: the service runs, or the command is refused before it does
\* (expired, superseded session, unreadable packet); either way a reply.
Execute(x) ==
    /\ x \in running
    /\ running' = running \ {x}
    /\ \/ runs' = [runs EXCEPT ![x.call] = @ + 1]
       \/ UNCHANGED runs
    /\ link' = Reply(x.node, x.slot, x.call)
    /\ UNCHANGED <<gatewayVars, registered, reactor, draining, faults>>

\* OnReadDone or OnWriteDone fails, FinishOnce, OnDone, Unregister: the gateway's
\* end is gone or cancelled.
ReactorDone(n, s) ==
    /\ reactor[n][s].pc # "none"
    /\ link[n][s].pc # "open" \/ link[n][s].stopped
    /\ reactor' = [reactor EXCEPT ![n][s] = NoReactor]
    /\ registered' = [registered EXCEPT ![n] = IF @ = s THEN NoOne ELSE @]
    /\ UNCHANGED <<gatewayVars, link, draining, running, runs, faults>>

\* DrainAll
DrainAll(n) ==
    /\ ~draining[n] /\ faults < MaxFaults
    /\ draining' = [draining EXCEPT ![n] = TRUE] /\ faults' = faults + 1
    /\ link' = IF registered[n] = NoOne THEN link ELSE Sent(n, registered[n], "drain")
    /\ UNCHANGED <<gatewayVars, registered, reactor, running, runs>>

\* The node exits, drained or not, and is started again.
NodeExit(n) ==
    /\ faults < MaxFaults /\ faults' = faults + 1
    /\ reactor' = [reactor EXCEPT ![n] = [s \in Slots |-> NoReactor]]
    /\ registered' = [registered EXCEPT ![n] = NoOne]
    /\ draining' = [draining EXCEPT ![n] = FALSE]
    /\ running' = {x \in running : x.node # n}
    /\ UNCHANGED <<gatewayVars, link, runs>>

-----------------------------------------------------------------------------
(* Frames at the gateway *)

\* The gateway reads the stream's next frame, while it has not ended.
Reads(n, s, frames) ==
    link[n][s].pc = "open" /\ link[n][s].down # <<>> /\ Head(link[n][s].down) \in frames

Consumed(n, s) == [link EXCEPT ![n][s].down = Tail(@)]

\* OnReadDone: healthy is what the node said, also on a stream that is stopped.
ReadRegisterResult(n, s) ==
    /\ Reads(n, s, {"accepted", "rejected"})
    /\ link' = [Consumed(n, s) EXCEPT ![n][s].healthy = Head(link[n][s].down) = "accepted"]
    /\ UNCHANGED <<gatewayVars, nodeVars, faults>>

\* OnFrame: the notice stops the link the manager now has for the node.
ReadDrainNotice(n, s) ==
    /\ Reads(n, s, {"drain"})
    /\ link' = IF links[n] = NoOne THEN Consumed(n, s)
               ELSE [Consumed(n, s) EXCEPT ![n][links[n]] = Stopped(@)]
    /\ UNCHANGED <<gatewayVars, nodeVars, faults>>

\* Mutant: the entry stays in pending.
ResultKeepsPending(n, s) ==
    /\ Reads(n, s, Calls)
    /\ link' = Consumed(n, s)
    /\ LET i == RequestId[Head(link[n][s].down)]
       IN  answered' = IF pending[i] = NoPending THEN answered
                       ELSE [answered EXCEPT ![pending[i].call] = @ + 1]
    /\ UNCHANGED <<manager, configured, toStart, links, timer, retry, pending, call, nodeVars, faults>>

\* OnFrame: whoever waits under the request id is answered.
ReadCommandResult(n, s) ==
    /\ Reads(n, s, Calls)
    /\ link' = Consumed(n, s)
    /\ LET i == RequestId[Head(link[n][s].down)]
       IN  IF pending[i] = NoPending THEN UNCHANGED <<pending, answered>> ELSE Answer(i)
    /\ UNCHANGED <<manager, configured, toStart, links, timer, retry, call, nodeVars, faults>>

-----------------------------------------------------------------------------
(* The life of a stream *)

\* OnDone: the stream was stopped, the node ended it, or it broke.
OnDone(n, s) ==
    /\ link[n][s].pc = "open"
    /\ \/ (link[n][s].stopped \/ reactor[n][s].pc = "none") /\ UNCHANGED faults
       \/ faults < MaxFaults /\ faults' = faults + 1
    /\ link' = [link EXCEPT ![n][s] = Closed(@)]
    /\ UNCHANGED <<gatewayVars, nodeVars>>

\* TopologyLoop: a stream that is not healthy and that the node has nothing to say
\* on is stopped after 30 s; a healthy one has its heartbeats acknowledged.
IdleStop(n) ==
    LET s == links[n]
    IN  /\ manager = "running" /\ s # NoOne
        /\ ~link[n][s].stopped /\ ~link[n][s].healthy /\ link[n][s].down = <<>>
        /\ reactor[n][s].pc \in {"none", "open", "refused"}
        /\ link' = [link EXCEPT ![n][s] = Stopped(@)]
        /\ UNCHANGED <<gatewayVars, nodeVars, faults>>

\* Mutant: the entry of the finished stream stays.
OnLinkDoneKeepsEntry(n, s) ==
    /\ link[n][s].pc = "closed" /\ manager # "stopped" /\ retry[n].slot = NoOne
    /\ link' = [link EXCEPT ![n][s] = FreeLink]
    /\ IF manager = "running" /\ links[n] = s /\ n \in configured
       THEN retry' = [retry EXCEPT ![n] = [todo |-> {i \in Ids : pending[i].node = n},
                                           taken |-> NoOne, slot |-> s]]
       ELSE UNCHANGED retry
    /\ UNCHANGED <<manager, configured, toStart, links, timer, pending, call, answered,
                   nodeVars, faults>>

\* OnLinkDone's posted handler, to the list RetryPending works on.  One handler of
\* a node at a time.
OnLinkDone(n, s) ==
    LET current == manager = "running" /\ links[n] = s
    IN  /\ link[n][s].pc = "closed" /\ manager # "stopped" /\ retry[n].slot = NoOne
        /\ link' = [link EXCEPT ![n][s] = FreeLink]
        /\ links' = IF current THEN [links EXCEPT ![n] = NoOne] ELSE links
        /\ IF current /\ n \in configured
           THEN retry' = [retry EXCEPT ![n] = [todo |-> {i \in Ids : pending[i].node = n},
                                               taken |-> NoOne, slot |-> s]]
           ELSE UNCHANGED retry
        /\ UNCHANGED <<manager, configured, toStart, timer, pending, call, answered,
                       nodeVars, faults>>

\* Mutant: every service may run again on another node.
CanRetryAny(f) == f \in Calls

\* CanRetryOnAnotherMessageNode
CanRetry(f) == f \in Retryable

\* RetryPending: the next request id, if still pending, retryable and not retried.
RetryTake(n, i) ==
    /\ retry[n].taken = NoOne /\ i \in retry[n].todo
    /\ IF pending[i] # NoPending /\ pending[i].attempts < 1 /\ CanRetry(pending[i].call)
       THEN /\ pending' = [pending EXCEPT ![i].attempts = @ + 1]
            /\ retry' = [retry EXCEPT ![n].todo = @ \ {i}, ![n].taken = pending[i].call]
       ELSE retry' = [retry EXCEPT ![n].todo = @ \ {i}] /\ UNCHANGED pending
    /\ UNCHANGED <<manager, configured, toStart, links, timer, call, answered, link,
                   nodeVars, faults>>

\* RetryPending: onto a healthy link of another node; nowhere if the deadline has
\* passed, there is none, or its queue is full.
RetrySend(n) ==
    LET f == retry[n].taken
    IN  /\ f # NoOne
        /\ retry' = [retry EXCEPT ![n].taken = NoOne]
        /\ \/ \E m \in SelectLink(n) :
                /\ Accepts(m, links[m])
                /\ reactor' = Written(m, links[m], f)
                /\ pending' = [pending EXCEPT ![RequestId[f]] =
                                 IF @ = NoPending THEN @ ELSE [@ EXCEPT !.node = m]]
           \/ UNCHANGED <<reactor, pending>>
        /\ UNCHANGED <<manager, configured, toStart, links, timer, call, answered, link,
                       registered, draining, running, runs, faults>>

\* OnLinkDone: RetryPending is through, the reconnect timer is armed.
ArmReconnect(n) ==
    /\ retry[n].slot # NoOne /\ retry[n].todo = {} /\ retry[n].taken = NoOne
    /\ retry' = [retry EXCEPT ![n] = NoRetry]
    /\ timer' = [timer EXCEPT ![n] = TRUE]
    /\ UNCHANGED <<manager, configured, toStart, links, pending, call, answered, link,
                   nodeVars, faults>>

\* The reconnect timer fires.
Reconnect(n) ==
    /\ timer[n] /\ manager # "stopped"
    /\ timer' = [timer EXCEPT ![n] = FALSE]
    /\ IF manager = "running" /\ n \in configured /\ links[n] = NoOne
       THEN StartLink(n)
       ELSE UNCHANGED <<links, link, reactor>>
    /\ UNCHANGED <<manager, configured, toStart, retry, pending, call, answered,
                   registered, draining, running, runs, faults>>

-----------------------------------------------------------------------------
(* The manager *)

\* ApplyTopology: links of nodes no longer wanted go and are stopped.
ApplyTopology(want) ==
    /\ manager # "stopped" /\ toStart = {} /\ want # configured
    /\ faults < MaxFaults /\ faults' = faults + 1
    /\ configured' = want /\ toStart' = want
    /\ links' = [n \in Nodes |-> IF n \in want THEN links[n] ELSE NoOne]
    /\ link' = [n \in Nodes |-> [s \in Slots |->
                  IF n \notin want /\ links[n] = s THEN Stopped(link[n][s]) ELSE link[n][s]]]
    /\ UNCHANGED <<manager, timer, retry, pending, call, answered, nodeVars>>

\* ApplyTopology: a link for each node without one.
StartMissing(n) ==
    /\ n \in toStart /\ manager # "stopped"
    /\ toStart' = toStart \ {n}
    /\ IF links[n] = NoOne THEN StartLink(n) ELSE UNCHANGED <<links, link, reactor>>
    /\ UNCHANGED <<manager, configured, timer, retry, pending, call, answered,
                   registered, draining, running, runs, faults>>

\* Stop: the links are stopped...
StopLinks ==
    /\ manager = "running" /\ manager' = "stopping"
    /\ link' = [n \in Nodes |-> [s \in Slots |->
                  IF links[n] = s THEN Stopped(link[n][s]) ELSE link[n][s]]]
    /\ UNCHANGED <<configured, toStart, links, timer, retry, pending, call, answered,
                   nodeVars, faults>>

\* ... and everybody in pending gets DependencyUnavailable; the io_context stops.
StopPending ==
    /\ manager = "stopping" /\ manager' = "stopped"
    /\ pending' = [i \in Ids |-> NoPending]
    /\ answered' = [f \in Calls |->
                      answered[f] + IF pending[RequestId[f]].call = f THEN 1 ELSE 0]
    /\ UNCHANGED <<configured, toStart, links, timer, retry, call, link, nodeVars, faults>>

-----------------------------------------------------------------------------
Streams == Nodes \X Slots

GatewaySteps ==
    \/ \E f \in Calls : ForwardPending(f) \/ ForwardEnqueue(f)
    \/ \E i \in Ids : ExpirePending(i)
    \/ \E n \in Nodes :
          \/ IdleStop(n) \/ RetrySend(n) \/ ArmReconnect(n) \/ Reconnect(n) \/ StartMissing(n)
          \/ \E i \in Ids : RetryTake(n, i)
          \/ \E s \in Slots : \/ ReadRegisterResult(n, s) \/ ReadDrainNotice(n, s)
                              \/ ReadCommandResult(n, s) \/ OnLinkDone(n, s)

NodeSteps ==
    \/ \E n \in Nodes, s \in Slots :
          \/ NodeCheck(n, s) \/ Register(n, s) \/ NodeRegistered(n, s) \/ ReactorDone(n, s)
          \/ \E f \in Calls : HandleCommand(n, s, f)
    \/ \E x \in running : Execute(x)

Next ==
    \/ GatewaySteps \/ NodeSteps \/ StopLinks \/ StopPending
    \/ \E f \in Calls : ForwardSelect(f)
    \/ \E n \in Nodes : DrainAll(n) \/ NodeExit(n) \/ \E s \in Slots : OnDone(n, s)
    \/ \E want \in SUBSET Nodes : ApplyTopology(want)

Spec == Init /\ [][Next]_vars

\* Posted handlers and timers run while the io_context does, gRPC ends a stream that
\* is cancelled or whose other end is gone, worker threads finish their tasks.
\* Nothing forces a call, a fault or Stop.
Fairness ==
    /\ \A f \in Calls : WF_vars(ForwardPending(f)) /\ WF_vars(ForwardEnqueue(f))
    /\ \A i \in Ids : WF_vars(ExpirePending(i))
    /\ \A n \in Nodes :
         /\ WF_vars(IdleStop(n)) /\ WF_vars(RetrySend(n)) /\ WF_vars(ArmReconnect(n))
         /\ WF_vars(Reconnect(n)) /\ WF_vars(StartMissing(n))
         /\ \A i \in Ids : WF_vars(RetryTake(n, i))
         /\ \A s \in Slots :
              /\ WF_vars(ReadRegisterResult(n, s)) /\ WF_vars(ReadDrainNotice(n, s))
              /\ WF_vars(ReadCommandResult(n, s)) /\ WF_vars(OnLinkDone(n, s))
              /\ WF_vars(OnDone(n, s) /\ UNCHANGED faults)
              /\ WF_vars(NodeCheck(n, s)) /\ WF_vars(Register(n, s))
              /\ WF_vars(NodeRegistered(n, s)) /\ WF_vars(ReactorDone(n, s))
              /\ \A f \in Calls : WF_vars(HandleCommand(n, s, f))
    /\ WF_vars(\E x \in running : Execute(x))
    /\ WF_vars(StopPending)

FairSpec == Spec /\ Fairness

-----------------------------------------------------------------------------
(* Properties *)

\* Every call is answered at most once, whatever results, deadlines, retries, full
\* queues and the shutdown do at the same time, and a call that Forward refused is
\* not answered at all: the session answers that one itself.
AnsweredOnce ==
    \A f \in Calls : answered[f] <= (IF call[f].pc = "refused" THEN 0 ELSE 1)

\* A command is executed at most twice, and one whose service may not be retried
\* on another node at most once.
BoundedRuns == \A f \in Calls : runs[f] <= IF f \in Retryable THEN 2 ELSE 1

\* RegisterResult gates the stream: no command is ever before a node that has not
\* registered the stream, where it would be refused for good (HandleCommand:
\* "gateway stream must register before sending commands").
CommandsAfterRegistration ==
    \A n \in Nodes, s \in Slots : reactor[n][s].up # {} => reactor[n][s].pc = "open"

\* A call Forward took is answered, whatever becomes of its stream and its retry.
CallsAnswered ==
    \A f \in Calls : call[f].pc = "returned" ~> answered[f] = 1 \/ manager = "stopped"

\* A node that stays configured and up ends with a usable link, whichever way its
\* streams were stopped, broken, drained or refused before.
LinkRecovers ==
    \A n \in Nodes :
        <>[](n \in configured /\ ~draining[n] /\ manager = "running")
        => []<>(links[n] # NoOne /\ link[n][links[n]].healthy /\ ~link[n][links[n]].stopped)

\* gateway_message.proto: stream_epoch tells reconnected streams apart.  So the
\* stream a node replies and delivers on is the gateway's current one.
CurrentStreamRegistered ==
    \A n \in Nodes :
        links[n] # NoOne =>
            LET s == links[n]
            IN  link[n][s].healthy /\ ~link[n][s].stopped /\ reactor[n][s].pc = "open"
                => registered[n] = s
=============================================================================
