-------------------------- MODULE ClientConnection --------------------------
(***************************************************************************)
(* ConnectionGatewayClient: the client's one TCP connection to a           *)
(* Connection Gateway.  It logs in, reconnects with a back-off, and keeps  *)
(* the requests that expect the same kind of response in a queue of which  *)
(* only the front is on the wire.                                          *)
(*                                                                         *)
(* Everything runs on the Qt event loop of one thread, and a signal calls  *)
(* its slots before the emitting function goes on.  An action here is one  *)
(* event with its slots; what the slots of AppController queue while it    *)
(* runs is the parameter reqs (ClientMessages.tla conjoins the two sides). *)
(* Heartbeats, receipts and frames that do not parse are left out.         *)
(***************************************************************************)
EXTENDS Naturals, Sequences

VARIABLES state,     \* state_
          desired,   \* desired_open_
          sock,      \* the QTcpSocket: unconnected, connecting, connected, or closing once all is written
          backoff,   \* reconnect_timer_ is running
          attempts,  \* reconnect_attempt_, up to the exponent's cap of 6
          expired,   \* the session token's time is over
          queue,     \* pending_by_response_
          timers,    \* the kinds whose request timer is running
          quitTimer, \* the 1 s timer of Close is running
          up, down   \* frames on their way to and from the gateway

connVars == <<state, desired, sock, backoff, attempts, expired, queue, timers, quitTimer, up, down>>
wireVars == <<queue, timers, up>>

-----------------------------------------------------------------------------
(* Data *)

IsReady == state = "Ready"

\* The response services that requests wait for.
Kinds == {"send", "pull"}

NoQueue == [k \in Kinds |-> <<>>]

\* What slots queue: pulls, then sends.
Asked(pulls, sends) == [k \in Kinds |-> IF k = "pull" THEN pulls ELSE sends]

\* QueueRequest for each of reqs in turn, on the queues q.
Enqueue(q, reqs) == [k \in Kinds |-> q[k] \o reqs[k]]

\* SendFront.
SendFront(q, k) == IF q[k] = <<>> THEN <<>> ELSE <<Head(q[k])>>

\* The frames QueueRequest writes then: a request goes out when it is alone in its queue.
Frames(q, reqs) ==
  LET first(k) == IF q[k] = <<>> THEN SendFront(reqs, k) ELSE <<>>
  IN  first("pull") \o first("send")

KindsOf(frames) == {frames[i].kind : i \in 1..Len(frames)}

\* FailAllPending; RequestFailed is emitted for each request.
FailAllPending == queue' = NoQueue /\ timers' = {}

ConnInit ==
  /\ state = "Disconnected" /\ desired = FALSE /\ sock = "unconnected"
  /\ backoff = FALSE /\ attempts = 0 /\ expired = FALSE /\ quitTimer = FALSE
  /\ queue = NoQueue /\ timers = {}
  /\ up = <<>> /\ down = <<>>

-----------------------------------------------------------------------------
(* Requests *)

\* Slots that queue requests, and nothing else, while the connection is ready.
Queue(reqs) ==
  /\ IsReady
  /\ queue' = Enqueue(queue, reqs)
  /\ up' = up \o Frames(queue, reqs)
  /\ timers' = timers \cup KindsOf(Frames(queue, reqs))

\* CompleteFront, for the frame down[1] of kind k.  The slot of ResponseReceived runs
\* after the dequeue and before the test for an empty queue, which then sees what the
\* slot has queued.
CompleteFront(k, reqs) ==
  LET rest  == [queue EXCEPT ![k] = Tail(@)]
      asked == IF IsReady THEN reqs ELSE NoQueue
      new   == Enqueue(rest, asked)
      sent  == IF IsReady THEN Frames(rest, asked) \o SendFront(new, k) ELSE <<>>
  IN /\ queue[k] # <<>>
     /\ queue' = new
     /\ up' = up \o sent
     /\ timers' = (timers \ {k}) \cup KindsOf(sent)
     /\ down' = Tail(down)

\* CompleteFront without a request of that kind: ProtocolError.
UnexpectedResponse(k) ==
  /\ queue[k] = <<>>
  /\ down' = Tail(down)
  /\ UNCHANGED wireVars

InFlight(k) == \E i \in 1..Len(up \o down) : (up \o down)[i].kind = k

\* A request timer fires: RequestFailed for the front, then the next one goes out.  The
\* answer may be on its way.
RequestTimeout(k) ==
  LET rest == [queue EXCEPT ![k] = Tail(@)]
      sent == IF IsReady THEN SendFront(rest, k) ELSE <<>>
  IN /\ k \in timers /\ queue[k] # <<>>
     /\ queue' = rest
     /\ up' = up \o sent
     /\ timers' = (timers \ {k}) \cup KindsOf(sent)
     /\ UNCHANGED <<state, desired, sock, backoff, attempts, expired, quitTimer, down>>

-----------------------------------------------------------------------------
(* The connection *)

\* Open.  Aborting a socket that was connected runs the disconnected slot, which fails
\* every request; desired_open_ is false at that moment.
Open ==
  /\ state' = "Connecting" /\ desired' = TRUE /\ sock' = "connecting"
  /\ backoff' = FALSE /\ attempts' = 0 /\ expired' = FALSE
  /\ FailAllPending /\ up' = <<>> /\ down' = <<>>
  /\ UNCHANGED quitTimer

\* The connected slot: the login request goes out.
SocketConnected ==
  /\ sock = "connecting"
  /\ sock' = "connected" /\ attempts' = 0 /\ state' = "Authenticating"
  /\ up' = up \o <<[kind |-> "login"]>>
  /\ UNCHANGED <<desired, backoff, expired, queue, timers, quitTimer, down>>

\* A connection attempt fails.  Qt emits errorOccurred, and disconnected only for a
\* socket that had been connected, so the error slot alone runs: it reports.
ConnectFails ==
  /\ sock = "connecting"
  /\ sock' = "unconnected"
  /\ UNCHANGED <<state, desired, backoff, attempts, expired, queue, timers, quitTimer, up, down>>

\* ScheduleReconnect.
ScheduleReconnect ==
  IF expired
    THEN desired' = FALSE /\ state' = "Disconnected" /\ UNCHANGED <<backoff, attempts>>
    ELSE /\ state' = "Reconnecting" /\ backoff' = TRUE
         /\ attempts' = (IF attempts < 6 THEN attempts + 1 ELSE attempts)
         /\ UNCHANGED desired

\* The connection is gone: the disconnected slot fails all requests.
Disconnected ==
  /\ sock \in {"connected", "closing"}
  /\ sock' = "unconnected" /\ up' = <<>> /\ down' = <<>>
  /\ FailAllPending
  /\ IF desired /\ state # "Closing"
       THEN ScheduleReconnect
       ELSE state' = "Disconnected" /\ UNCHANGED <<desired, backoff, attempts>>
  /\ UNCHANGED <<expired, quitTimer>>

\* reconnect_timer_ fires: StartSocket.  Whatever clears desired_open_ finds the timer
\* stopped or stops it, so its early return is not taken here.
Reconnect ==
  /\ backoff /\ backoff' = FALSE
  /\ desired
  /\ state' = (IF attempts = 0 THEN "Connecting" ELSE "Reconnecting")
  /\ sock' = "connecting"
  /\ UNCHANGED <<desired, attempts, expired, queue, timers, quitTimer, up, down>>

\* HandleLoginResponse, on success; the slots of Authenticated queue reqs.
LoginAccepted(reqs) ==
  /\ state' = "Ready"
  /\ queue' = Enqueue(queue, reqs)
  /\ up' = up \o Frames(queue, reqs)
  /\ timers' = timers \cup KindsOf(Frames(queue, reqs))
  /\ down' = Tail(down)
  /\ UNCHANGED <<desired, sock, backoff, attempts, expired, quitTimer>>

\* HandleLoginResponse, on an error.
LoginRefused ==
  /\ desired' = FALSE /\ sock' = "closing" /\ down' = Tail(down)
  /\ UNCHANGED <<state, backoff, attempts, expired, queue, timers, quitTimer, up>>

\* Close.
Close ==
  /\ desired' = FALSE /\ backoff' = FALSE
  /\ IF sock = "unconnected"
       THEN state' = "Disconnected" /\ UNCHANGED <<quitTimer, up>>
       ELSE state' = "Closing" /\ quitTimer' = TRUE /\ up' = Append(up, [kind |-> "quit"])
  /\ UNCHANGED <<sock, attempts, expired, queue, timers, down>>

\* The timer Close has started: do not wait for the QuitResponse any longer.
QuitTimeout ==
  /\ quitTimer /\ quitTimer' = FALSE
  /\ sock' = (IF state = "Closing" /\ sock = "connected" THEN "closing" ELSE sock)
  /\ UNCHANGED <<state, desired, backoff, attempts, expired, queue, timers, up, down>>

\* A QuitResponse.
QuitAnswered ==
  /\ desired' = FALSE /\ sock' = "closing" /\ down' = Tail(down)
  /\ UNCHANGED <<state, backoff, attempts, expired, queue, timers, quitTimer, up>>

\* The clock passes token_expires_at_milliseconds_.
TokenExpires ==
  /\ desired /\ ~expired /\ expired' = TRUE
  /\ UNCHANGED <<state, desired, sock, backoff, attempts, queue, timers, quitTimer, up, down>>

=============================================================================
