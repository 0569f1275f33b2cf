----------------------------- MODULE EventLoop ------------------------------
(***************************************************************************)
(* The event loop of iouringd (iouringd_run in src/daemon/main.c): how     *)
(* connections are accepted, served, dispatched by priority, answered,     *)
(* flushed and closed, and how the loop sleeps in poll and stops.          *)
(*                                                                         *)
(* A pass of the loop over all clients (iouringd_service_ready_inputs,     *)
(* iouringd_dispatch_ready_requests, ...) is one step: what it does to a   *)
(* client depends on that client and on the loop alone, so what peers and  *)
(* the kernel do meanwhile can as well happen before or after it.  What a  *)
(* request does to tasks and resources is Daemon's subject; here it is     *)
(* answered and may start a task.  So is the sweep of closing resources,   *)
(* which at most sends the loop round once more.  A message is whole or    *)
(* not yet there.                                                          *)
(***************************************************************************)
EXTENDS Integers, Sequences, FiniteSets, SequencesExt

CONSTANTS
  MaxClients,     \* limits.max_clients
  SocketCapacity, \* replies a client's socket holds
  InboxCapacity,  \* messages the daemon's end of a socket holds
  TaskLimit,      \* tasks a client may have outstanding
  Greetings,      \* the first messages clients send
  Requests,       \* and those they send after it
  Pipelining,     \* whether clients send without waiting for the reply
  Mishaps         \* what else happens: peers hang up, the daemon is
                  \* stopped, accept fails (with EMFILE for one)

ASSUME LoopAssumption ==
  /\ MaxClients \in Nat \ {0}
  /\ SocketCapacity \in Nat \ {0}
  /\ InboxCapacity \in Nat \ {0}
  /\ TaskLimit \in Nat
  /\ Greetings \subseteq {"hello", "bad_hello"}
  /\ Requests \subseteq {"control", "high", "normal", "low", "malformed"}
  /\ Pipelining \in BOOLEAN
  /\ Mishaps \subseteq {"hang_up", "stop", "accept_fails"}

VARIABLES
  pc,              \* where iouringd_run is, or how the process ended
  progress,        \* its local variable
  clients,         \* runtime->clients, each with its peer and the kernel
  dispatch_cursor, \* runtime->dispatch_cursor
  place,           \* how far a dispatch pass has come
  backlog,         \* connections waiting to be accepted
  stop_requested,  \* iouringd_stop_requested; the handler also closes
                   \* the listening socket
  revents          \* what poll reported

vars == <<pc, progress, clients, dispatch_cursor, place, backlog,
          stop_requested, revents>>

-----------------------------------------------------------------------------
Clients == 0 .. MaxClients - 1

NoRequest == "none"

\* Mutant: the priorities in the order of their values on the wire.
DispatchBandsByValue == <<"control", "high", "low", "normal">>

\* dispatch_bands: control operations, then the priorities.
DispatchBands == <<"control", "high", "normal", "low">>

Bands == Range(DispatchBands)

\* phase is "closed" while client->fd < 0 and request_ready the band of the
\* request.  greeted, waiting and peer_open are the peer's, inbox and socket
\* what the kernel holds for either side; finished counts the tasks whose
\* completion is in the CQ.  hasty: the peer has once sent a message without
\* waiting for the reply to the one before.
ClosedClient ==
  [phase |-> "closed", request_ready |-> NoRequest,
   close_after_flush |-> FALSE, output |-> << >>, tasks |-> 0,
   finished |-> 0, inbox |-> << >>, socket |-> << >>, peer_open |-> FALSE,
   greeted |-> FALSE, waiting |-> FALSE, hasty |-> FALSE]

Active(k) == k.phase # "closed"

WantsWrite(k) == Active(k) /\ k.output # << >>

NoEvents == [server |-> FALSE, ring |-> FALSE, client |-> [c \in Clients |-> {}]]

Ended == pc \in {"stopped", "failed", "killed"}

Init ==
  /\ pc = "service"
  /\ progress = FALSE
  /\ clients = [c \in Clients |-> ClosedClient]
  /\ dispatch_cursor = 0
  /\ place = 1
  /\ backlog = 0
  /\ stop_requested = FALSE
  /\ revents = NoEvents

-----------------------------------------------------------------------------
(***************************************************************************)
(* What the handlers make of one client.                                   *)
(***************************************************************************)

\* Mutant: room for the completions and nothing else.
CompletionsCapacity == TaskLimit

\* runtime.client_output_capacity, a message counting one: a handshake, a
\* stats and a trace result, and a submit result and a completion per task.
OutputCapacity == 3 + 2 * TaskLimit

\* The tasks of a closed connection go on and keep the record from reuse.
Closed(k) == [ClosedClient EXCEPT !.tasks = k.tasks, !.finished = k.finished]

Queue(k, reply) == [k EXCEPT !.output = Append(@, reply)]

Overflows(k) == Len(k.output) > OutputCapacity

\* iouringd_queue_handshake_result: anything but a good handshake is turned
\* away, and the connection closed once the reply is out.
HandshakeAnswered(k, m) ==
  Queue(IF m = "hello" THEN [k EXCEPT !.phase = "submit"]
                       ELSE [k EXCEPT !.close_after_flush = TRUE], "reply")

\* iouringd_finish_submit_request; a handshake has no valid priority.
IsValidRequest(m) == m \in Bands

\* iouringd_process_submit_input, and the close of a client it fails for.
RequestRead(k, m) ==
  IF IsValidRequest(m) THEN [k EXCEPT !.request_ready = m] ELSE Closed(k)

\* iouringd_read_client_input finds neither a message nor an open peer.
EndOfInput(k) == k.inbox = << >> /\ ~k.peer_open

\* iouringd_service_client_readable: at most one message is taken.
Serviced(k) ==
  LET m == Head(k.inbox)
      rest == [k EXCEPT !.inbox = Tail(@)]
      more == k.inbox # << >>
  IN IF ~Active(k) \/ k.request_ready # NoRequest
     THEN k
     ELSE CASE EndOfInput(k) -> Closed(k)
            [] more /\ k.phase = "handshake" -> HandshakeAnswered(rest, m)
            [] more /\ k.phase = "submit" -> RequestRead(rest, m)
            [] OTHER -> k

\* A write to a peer that has closed raises SIGPIPE, which nothing handles.
FlushKills(k) == WantsWrite(k) /\ ~k.peer_open

Room(k) == SocketCapacity - Len(k.socket)

\* iouringd_flush_client_output writes what the socket takes.
Written(k) ==
  LET n == IF Room(k) < Len(k.output) THEN Room(k) ELSE Len(k.output)
  IN [k EXCEPT !.socket = @ \o SubSeq(k.output, 1, n),
               !.output = SubSeq(@, n + 1, Len(@))]

\* Mutant: the connection of a rejected handshake stays.
FlushedOnly(k) == IF WantsWrite(k) THEN Written(k) ELSE k

\* A flush closes the connection where that was asked for, also when the
\* socket did not take all of the output.
Flushed(k) ==
  CASE ~WantsWrite(k) -> k
    [] WantsWrite(k) /\ k.close_after_flush -> Closed(k)
    [] OTHER -> Written(k)

\* iouringd_reap_completions; a closed client is told nothing.
Reaped(k) ==
  LET news == [i \in 1 .. k.finished |-> "completion"]
  IN [k EXCEPT !.tasks = @ - k.finished, !.finished = 0,
               !.output = IF Active(k) THEN @ \o news ELSE @]

-----------------------------------------------------------------------------
(***************************************************************************)
(* The dispatch pass.  For each band it looks at MaxClients places after   *)
(* the cursor, which itself moves behind every client that is dispatched.  *)
(* place counts the places of the pass; a step goes to the next place      *)
(* whose client has a request of the place's band.                         *)
(***************************************************************************)
Places == 4 * MaxClients

PlaceBand(p) == DispatchBands[((p - 1) \div MaxClients) + 1]

PlaceClient(p) == (dispatch_cursor + ((p - 1) % MaxClients)) % MaxClients

\* Mutant: the loop over the bands stops short of the last.
PlacesToGoHigher ==
  {p \in place .. 3 * MaxClients :
     clients[PlaceClient(p)].request_ready = PlaceBand(p)}

PlacesToGo ==
  {p \in place .. Places : clients[PlaceClient(p)].request_ready = PlaceBand(p)}

\* A request is answered; one for a task may start it.
Answered(k, starts) ==
  Queue([k EXCEPT !.request_ready = NoRequest,
                  !.tasks = IF starts THEN @ + 1 ELSE @], "reply")

\* Mutant: tasks are not limited.
MayStartAnyway(k) == k.request_ready # "control"

MayStart(k) == k.request_ready # "control" /\ k.tasks < TaskLimit

-----------------------------------------------------------------------------
\* A handler that runs out of output space ends the loop with an error.
GoTo(next) ==
  pc' = IF \E c \in Clients : Overflows(clients'[c]) THEN "failed" ELSE next

\* The top of the loop clears progress.
ServiceReadyInputs ==
  /\ pc = "service"
  /\ clients' = [c \in Clients |-> Serviced(clients[c])]
  /\ progress' = (clients' # clients)
  /\ GoTo("dispatch")
  /\ UNCHANGED <<dispatch_cursor, place, backlog, stop_requested, revents>>

DispatchClientRequest ==
  LET p == Min(PlacesToGo)
      c == PlaceClient(p)
  IN /\ pc = "dispatch" /\ PlacesToGo # {}
     /\ \E starts \in {FALSE, MayStart(clients[c])} :
          clients' = [clients EXCEPT ![c] = Answered(clients[c], starts)]
     /\ dispatch_cursor' = (c + 1) % MaxClients
     /\ place' = p + 1
     /\ progress' = TRUE
     /\ GoTo("dispatch")
     /\ UNCHANGED <<backlog, stop_requested, revents>>

DispatchEnds ==
  /\ pc = "dispatch" /\ PlacesToGo = {}
  /\ pc' = "reap"
  /\ place' = 1
  /\ UNCHANGED <<progress, clients, dispatch_cursor, backlog, stop_requested,
                 revents>>

ReapCompletions ==
  /\ pc = "reap"
  /\ clients' = [c \in Clients |-> Reaped(clients[c])]
  /\ progress' = (progress \/ clients' # clients)
  /\ GoTo("flush")
  /\ UNCHANGED <<dispatch_cursor, place, backlog, stop_requested, revents>>

\* Only closing a client counts as progress here.
FlushClientOutputs ==
  /\ pc = "flush"
  /\ IF \E c \in Clients : FlushKills(clients[c])
     THEN pc' = "killed" /\ UNCHANGED <<clients, progress>>
     ELSE /\ clients' = [c \in Clients |-> Flushed(clients[c])]
          /\ progress' = (progress \/ \E c \in Clients :
                            Active(clients[c]) /\ ~Active(clients'[c]))
          /\ pc' = "turn"
  /\ UNCHANGED <<dispatch_cursor, place, backlog, stop_requested, revents>>

\* The loop breaks, goes round again or polls.
Turn ==
  /\ pc = "turn"
  /\ pc' = CASE stop_requested -> "stopped"
             [] ~stop_requested /\ progress -> "service"
             [] OTHER -> "poll"
  /\ UNCHANGED <<progress, clients, dispatch_cursor, place, backlog,
                 stop_requested, revents>>

-----------------------------------------------------------------------------
(***************************************************************************)
(* poll and what follows it.                                               *)
(***************************************************************************)
\* Mutant: a client is polled for input until its handshake is over.
WantsReadGreeting(k) ==
  /\ Active(k) /\ ~k.close_after_flush /\ k.request_ready = NoRequest
  /\ k.phase = "handshake"

WantsRead(k) ==
  Active(k) /\ ~k.close_after_flush /\ k.request_ready = NoRequest

\* What poll reports of a client; hang-up is reported of any polled socket.
Reported(k) ==
  (IF WantsRead(k) /\ (k.inbox # << >> \/ ~k.peer_open) THEN {"in"} ELSE {})
  \cup (IF WantsWrite(k) /\ (Room(k) > 0 \/ ~k.peer_open) THEN {"out"} ELSE {})
  \cup (IF (WantsRead(k) \/ WantsWrite(k)) /\ ~k.peer_open THEN {"hup"} ELSE {})

\* Mutant: the ring is polled while a client is there to be told.
PollResultTold ==
  [server |-> backlog > 0 /\ ~stop_requested,
   ring |-> \E c \in Clients : Active(clients[c]) /\ clients[c].finished > 0,
   client |-> [c \in Clients |-> Reported(clients[c])]]

PollResult ==
  [server |-> backlog > 0 /\ ~stop_requested,
   ring |-> \E c \in Clients : clients[c].finished > 0,
   client |-> [c \in Clients |-> Reported(clients[c])]]

\* Mutant: the signal handler leaves the listening socket open.
PollWakesOnEvents == PollResult # NoEvents

\* A closed listening socket is reported at once (POLLNVAL).
PollWakes == PollResult # NoEvents \/ stop_requested

Poll ==
  /\ pc = "poll"
  /\ PollWakes
  /\ revents' = PollResult
  /\ pc' = "events"
  /\ UNCHANGED <<progress, clients, dispatch_cursor, place, backlog,
                 stop_requested>>

RecordIsFree(k) == ~Active(k) /\ k.tasks = 0

\* iouringd_accept_clients, with iouringd_open_client.
Accepted ==
  LET free == {c \in Clients : RecordIsFree(clients[c])}
      first == CHOOSE c \in free : \A d \in free : c <= d
  IN IF revents.server /\ ~stop_requested /\ backlog > 0 /\ free # {}
     THEN [clients EXCEPT ![first] = [ClosedClient EXCEPT
                            !.phase = "handshake", !.peer_open = TRUE]]
     ELSE clients

\* POLLOUT comes first, then POLLIN, and only then a hang-up.
Handled(k, events) ==
  LET flushed == IF "out" \in events THEN Flushed(k) ELSE k
  IN CASE "in" \in events -> Serviced(flushed)
       [] "hup" \in events /\ "in" \notin events -> Closed(flushed)
       [] OTHER -> flushed

HandleEvents ==
  LET reaped == [c \in Clients |-> IF revents.ring THEN Reaped(Accepted[c])
                                                  ELSE Accepted[c]]
      overflow == \E c \in Clients : Overflows(reaped[c])
      killed == \E c \in Clients : "out" \in revents.client[c]
                                   /\ FlushKills(reaped[c])
  IN /\ pc = "events"
     /\ CASE overflow -> clients' = reaped /\ pc' = "failed"
          [] ~overflow /\ killed -> clients' = reaped /\ pc' = "killed"
          [] OTHER ->
               /\ clients' = [c \in Clients |->
                                Handled(reaped[c], revents.client[c])]
               /\ GoTo("service")
     /\ backlog' = IF revents.server THEN 0 ELSE backlog
     /\ revents' = NoEvents
     /\ UNCHANGED <<progress, dispatch_cursor, place, stop_requested>>

\* Any other error of accept ends the loop.
AcceptFails ==
  /\ "accept_fails" \in Mishaps
  /\ pc = "events" /\ revents.server /\ ~stop_requested
  /\ pc' = "failed"
  /\ UNCHANGED <<progress, clients, dispatch_cursor, place, backlog,
                 stop_requested, revents>>

-----------------------------------------------------------------------------
(***************************************************************************)
(* The peers, the kernel and whoever stops the daemon.                     *)
(***************************************************************************)
Connect ==
  /\ ~Ended /\ ~stop_requested /\ backlog = 0
  /\ backlog' = 1
  /\ UNCHANGED <<pc, progress, clients, dispatch_cursor, place,
                 stop_requested, revents>>

\* One step of client record c's surroundings.
Outside(c, k) ==
  /\ ~Ended
  /\ clients' = [clients EXCEPT ![c] = k]
  /\ UNCHANGED <<pc, progress, dispatch_cursor, place, backlog,
                 stop_requested, revents>>

Send(c) ==
  /\ clients[c].peer_open
  /\ Len(clients[c].inbox) < InboxCapacity
  /\ Pipelining \/ ~clients[c].waiting
  /\ \E m \in CASE ~clients[c].greeted -> Greetings
             [] clients[c].greeted /\ Pipelining -> Greetings \cup Requests
             [] OTHER -> Requests :
       Outside(c, [clients[c] EXCEPT !.inbox = Append(@, m), !.greeted = TRUE,
                                     !.waiting = TRUE,
                                     !.hasty = @ \/ clients[c].waiting])

Receive(c) ==
  /\ clients[c].peer_open
  /\ clients[c].socket # << >>
  /\ Outside(c, [clients[c] EXCEPT !.socket = Tail(@),
                   !.waiting = @ /\ Head(clients[c].socket) # "reply"])

Disconnect(c) ==
  /\ "hang_up" \in Mishaps
  /\ clients[c].peer_open
  /\ Outside(c, [clients[c] EXCEPT !.peer_open = FALSE, !.socket = << >>,
                                   !.waiting = FALSE])

TaskFinishes(c) ==
  /\ clients[c].finished < clients[c].tasks
  /\ Outside(c, [clients[c] EXCEPT !.finished = @ + 1])

\* iouringd_handle_stop_signal; a signal that meets the daemon inside poll
\* makes it return EINTR.
StopSignal ==
  /\ "stop" \in Mishaps
  /\ ~Ended /\ ~stop_requested
  /\ stop_requested' = TRUE
  /\ \/ pc' = pc
     \/ pc = "poll" /\ pc' = "stopped"
  /\ UNCHANGED <<progress, clients, dispatch_cursor, place, backlog,
                 revents>>

LoopStep ==
  \/ ServiceReadyInputs
  \/ DispatchClientRequest
  \/ DispatchEnds
  \/ ReapCompletions
  \/ FlushClientOutputs
  \/ Turn
  \/ Poll
  \/ HandleEvents
  \/ AcceptFails

Next ==
  \/ LoopStep
  \/ Connect
  \/ StopSignal
  \/ \E c \in Clients :
       Send(c) \/ Receive(c) \/ Disconnect(c) \/ TaskFinishes(c)

Spec == Init /\ [][Next]_vars

\* The process is scheduled: the loop takes a step while it can.
FairSpec == Spec /\ WF_vars(LoopStep)

-----------------------------------------------------------------------------
\* The state of the loop has the values iouringd_run can give it.
LoopTypeOK ==
  /\ pc \in {"service", "dispatch", "reap", "flush", "turn", "poll", "events",
             "stopped", "failed", "killed"}
  /\ progress \in BOOLEAN
  /\ dispatch_cursor \in Clients
  /\ place \in 1 .. Places + 1
  /\ backlog \in 0 .. 1
  /\ stop_requested \in BOOLEAN
  /\ \A c \in Clients :
       LET k == clients[c]
       IN /\ k.phase \in {"closed", "handshake", "submit"}
          /\ k.request_ready \in Bands \cup {NoRequest}
          /\ pc # "failed" => Len(k.output) <= OutputCapacity
          /\ Len(k.socket) <= SocketCapacity
          /\ k.finished <= k.tasks /\ k.tasks <= TaskLimit

\* While the daemon sleeps in poll (iouringd_run, with the interest set of
\* iouringd_build_pollfds) there is nothing it could do: no request waits to
\* be dispatched, no message, hang-up or completion to be read, no
\* output to be written to a socket with room, and no stop was requested.
NothingOverlooked ==
  pc = "poll" /\ ~PollWakes =>
    /\ ~stop_requested /\ backlog = 0
    /\ \A c \in Clients :
         LET k == clients[c]
         IN /\ k.request_ready = NoRequest
            /\ k.finished = 0
            /\ Active(k) => /\ k.peer_open /\ k.inbox = << >>
                            /\ ~k.close_after_flush
                            /\ k.output = << >> \/ Room(k) = 0

\* A request is read only from a connection whose handshake was accepted and
\* never from one that was turned away, whatever the peer sends behind a
\* rejected handshake (iouringd_queue_handshake_result, close_after_flush).
RejectedNeverServed ==
  \A c \in Clients : clients[c].request_ready # NoRequest =>
    clients[c].phase = "submit" /\ ~clients[c].close_after_flush

\* The urgency of a request, whatever DispatchBands says.
Urgency == [control |-> 3, high |-> 2, normal |-> 1, low |-> 0]

Waiting == {c \in Clients : clients[c].request_ready # NoRequest}

MostUrgent(c) ==
  \A d \in Waiting : Urgency[clients[d].request_ready]
                       <= Urgency[clients[c].request_ready]

\* When requests wait, a pass of iouringd_dispatch_ready_requests dispatches
\* some, the first of them one of the most urgent, wherever the cursor is.
MostUrgentFirst ==
  pc = "dispatch" /\ place = 1 /\ Waiting # {} =>
    PlacesToGo # {} /\ MostUrgent(PlaceClient(Min(PlacesToGo)))

\* Only of a client that sent a message before it had the reply to the last
\* does a handler run out of output space (EOVERFLOW in
\* iouringd_queue_client_output), which ends the daemon; the client library
\* waits for its replies.
LibraryClientsFit == \A c \in Clients : Overflows(clients[c]) => clients[c].hasty

\* The daemon ends by a stop signal or an error of its own, never by a peer
\* that hangs up before its replies are written.
NotKilledByPeer == pc # "killed"

\* A request that was read is dispatched, or its connection closed, whatever
\* the other clients keep sending: no client starves the others.
RequestsAreAnswered ==
  \A c \in Clients :
    clients[c].request_ready # NoRequest
      ~> Ended \/ clients[c].request_ready = NoRequest

\* A hang-up goes unnoticed for ever only while a request that was read from
\* the connection is never dispatched: such a client is neither serviced nor
\* polled for input (iouringd_build_pollfds).  In any other state of the
\* connection the loop notices and closes it.
HangUpsAreNoticed ==
  \A c \in Clients :
    <>[](~Ended /\ Active(clients[c]) /\ ~clients[c].peer_open)
      => <>[](clients[c].request_ready # NoRequest)

\* A stop signal ends the loop, also one that arrives between the test of
\* iouringd_stop_requested and the call of poll.
StopsWhenAsked == stop_requested ~> Ended

=============================================================================
