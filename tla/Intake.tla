------------------------------- MODULE Intake -------------------------------
(***************************************************************************)
(* How the daemon puts a client's bytes together to requests               *)
(* (iouringd_read_client_input, iouringd_process_submit_input and          *)
(* iouringd_finish_submit_request in src/daemon/main.c), and what becomes  *)
(* of the descriptors that come with them.  A client writes a message in   *)
(* pieces of any size, to any of which a descriptor may be attached, and   *)
(* the daemon knows how many bytes it wants only from those it has.  One   *)
(* client record is used by one connection after another.                  *)
(*                                                                         *)
(* Bytes come in units: a message is Base units that name its kind, the    *)
(* units of its body, and a payload as long as the body says.              *)
(***************************************************************************)
EXTENDS Integers, Sequences

CONSTANTS
  Base,           \* sizeof(struct iouringd_submit_request_v1)
  IoBytesMax,     \* client->io_bytes_max
  MaxLength,      \* bound: the payload length a message may name
  WireCapacity,   \* bound: units the socket holds
  MaxMessages,    \* bound: messages of all connections
  MaxConnections, \* bound: connections
  MaxFds          \* bound: descriptors sent

ASSUME IntakeAssumption ==
  /\ {Base, WireCapacity, IoBytesMax} \subseteq Nat \ {0}
  /\ {MaxLength, MaxMessages, MaxConnections, MaxFds} \subseteq Nat

\* Several descriptors in one control message count as one: nothing the
\* daemon does tells them apart.
Fds == 1 .. MaxFds

VARIABLES
  phase,          \* client->phase; "closed" while client->fd < 0, "rejected"
                  \* or "closing" while client->close_after_flush
  input,          \* client->input
  expected_input, \* client->expected_input
  ready,          \* the request of client->request_ready, or NoRequest
  received_fd,    \* client->received_fd, or 0
  wire,           \* what is in the socket
  rest,           \* what the peer has yet to write of its message
  peer_open,      \* the peer has not hung up
  arrived,        \* descriptors the kernel has given to the daemon
  registered,     \* those that went to a file slot
  closed,         \* those the daemon closed
  sent_with,      \* the message a descriptor was sent with, or 0
  bundled,        \* those that are several in one control message
  greeting,       \* the handshake message of the connection
  last,           \* the last message that was taken whole
  messages,       \* how many messages there have been
  connections     \* how many connections there have been

clientVars == <<phase, input, expected_input, ready, received_fd>>
fdVars == <<arrived, registered, closed>>
peerVars ==
  <<wire, rest, peer_open, sent_with, bundled, messages, connections>>
vars == <<clientVars, fdVars, peerVars, greeting, last>>

-----------------------------------------------------------------------------
(***************************************************************************)
(* Messages.  "nop" stands for the requests without a body (NOP,           *)
(* GET_STATS), "timeout" for those with a body of fixed size (TIMEOUT,     *)
(* CANCEL, the reads, the fixed transfers and RELEASE_RESOURCE), "poll"    *)
(* for those whose body is also checked (POLL, ACCEPT, CLOSE, GET_TRACE),  *)
(* "write" for SOCK_WRITE, FILE_WRITE and CONNECT.                         *)
(***************************************************************************)
Kinds == {"nop", "register_fd", "timeout", "poll", "write", "register_buffer",
          "openat"}

\* The body of OPENAT is longer than that of REGISTER_BUFFER.
BodyUnits(kind) ==
  CASE kind \in {"hello", "nop", "register_fd"} -> 0
    [] kind = "openat" -> 2
    [] OTHER -> 1

HasPayload(kind) == kind \in {"write", "register_buffer", "openat"}

\* sizeof(client->input): room for the longest REGISTER_BUFFER request.
InputCapacity == Base + BodyUnits("register_buffer") + IoBytesMax

\* header: magic, version and priority are right; body: the reserved fields
\* are zero and the path of an OPENAT ends in NUL.
Requests ==
  {m \in [kind : Kinds, header : BOOLEAN, body : BOOLEAN,
          length : 0 .. MaxLength] :
     /\ ~m.header => m.kind = "nop"
     /\ ~m.body => m.kind \in {"poll", "register_buffer", "openat"}
     /\ m.length > 0 => HasPayload(m.kind)}

Hello(good) ==
  [kind |-> "hello", header |-> good, body |-> TRUE, length |-> 0]

NoRequest == [message |-> Hello(FALSE), units |-> 0, id |-> 0]

Size(m) == Base + BodyUnits(m.kind) + m.length

Init ==
  /\ phase = "closed"
  /\ input = << >>
  /\ expected_input = Base
  /\ ready = NoRequest
  /\ received_fd = 0
  /\ wire = << >>
  /\ rest = << >>
  /\ peer_open = FALSE
  /\ arrived = {} /\ registered = {} /\ closed = {}
  /\ sent_with = [f \in Fds |-> 0]
  /\ bundled = {}
  /\ greeting = 0
  /\ last = 0
  /\ messages = 0
  /\ connections = 0

-----------------------------------------------------------------------------
(***************************************************************************)
(* The peer.                                                               *)
(***************************************************************************)
UnitsOf(m, id) == [i \in 1 .. Size(m) |-> [message |-> m, id |-> id,
                                           at |-> i, fd |-> 0]]

\* A connection begins with a handshake.  iouringd_open_client clears the
\* record.
Connect(good) ==
  /\ phase = "closed" /\ ~peer_open
  /\ connections < MaxConnections /\ messages < MaxMessages
  /\ connections' = connections + 1
  /\ messages' = messages + 1
  /\ phase' = "handshake"
  /\ peer_open' = TRUE
  /\ rest' = UnitsOf(Hello(good), messages')
  /\ wire' = << >>
  /\ input' = << >>
  /\ expected_input' = Base
  /\ ready' = NoRequest
  /\ received_fd' = 0
  /\ greeting' = messages'
  /\ last' = messages
  /\ UNCHANGED <<fdVars, sent_with, bundled>>

Compose(m) ==
  /\ peer_open /\ phase # "closed"
  /\ rest = << >>
  /\ messages < MaxMessages
  /\ messages' = messages + 1
  /\ rest' = UnitsOf(m, messages')
  /\ UNCHANGED <<clientVars, fdVars, wire, peer_open, sent_with, bundled,
                 connections, greeting, last>>

NextFd ==
  LET unsent == {f \in Fds : sent_with[f] = 0}
  IN {f \in unsent : \A g \in unsent : f <= g}

\* A piece of the message goes out, with a descriptor, with many or without.
\* The library sends one with the last piece of a REGISTER_FD; the daemon
\* serves any peer.
Write(n, f, many) ==
  /\ peer_open /\ phase # "closed"
  /\ n \in 1 .. Len(rest)
  /\ Len(wire) + n <= WireCapacity
  /\ f \in {0} \cup NextFd
  /\ many => f # 0
  /\ wire' = wire \o [i \in 1 .. n |->
                        IF i = 1 THEN [rest[1] EXCEPT !.fd = f] ELSE rest[i]]
  /\ sent_with' = IF f = 0 THEN sent_with
                  ELSE [sent_with EXCEPT ![f] = rest[1].id]
  /\ bundled' = IF many THEN bundled \cup {f} ELSE bundled
  /\ rest' = SubSeq(rest, n + 1, Len(rest))
  /\ UNCHANGED <<clientVars, fdVars, peer_open, messages, connections,
                 greeting, last>>

HangUp ==
  /\ peer_open
  /\ peer_open' = FALSE
  /\ rest' = << >>
  /\ UNCHANGED <<clientVars, fdVars, wire, sent_with, bundled, messages,
                 connections, greeting, last>>

-----------------------------------------------------------------------------
\* Mutant: a descriptor that waits for its request is forgotten.
CloseClientKeepsFd(f) ==
  /\ phase' = "closed"
  /\ input' = << >>
  /\ expected_input' = Base
  /\ ready' = NoRequest
  /\ closed' = closed \cup ({f} \ {0})
  /\ wire' = << >>
  /\ peer_open' = FALSE
  /\ rest' = << >>
  /\ UNCHANGED <<received_fd, registered, sent_with, bundled, messages,
                 connections>>

(***************************************************************************)
(* iouringd_close_client, with one more descriptor that is closed if f is  *)
(* not 0.  What is still in the socket never becomes the daemon's.         *)
(***************************************************************************)
CloseClient(f) ==
  /\ phase' = "closed"
  /\ input' = << >>
  /\ expected_input' = Base
  /\ ready' = NoRequest
  /\ received_fd' = 0
  /\ closed' = closed \cup ({received_fd, f} \ {0})
  /\ wire' = << >>
  /\ peer_open' = FALSE
  /\ rest' = << >>
  /\ UNCHANGED <<registered, sent_with, bundled, messages, connections>>

\* The flush that closes a client in phase "closing" is before its next read.
Reads == phase \notin {"closed", "closing"} /\ ready = NoRequest

Wanted == expected_input - Len(input)

FdsIn(units) == {units[i].fd : i \in DOMAIN units} \ {0}

\* Mutant: a second descriptor takes the place of the first.
ExtraFdReplaces(fds) == {}

\* The descriptors there is no room for: one may wait for its request.
ExtraFds(fds) == IF received_fd = 0 THEN {} ELSE fds

(***************************************************************************)
(* iouringd_read_client_input: one recvmsg, of as many units as are wanted *)
(* and there.  The kernel never puts the descriptors of two writes into    *)
(* one answer.  It leaves out (MSG_CTRUNC) descriptors there is no room    *)
(* for in the control buffer or in the table of the process; then, and     *)
(* when a control message has not the length for one descriptor, the       *)
(* connection ends, and what was installed is not closed.                  *)
(***************************************************************************)
ReadInput(n) ==
  LET units == SubSeq(wire, 1, n)
      fds == FdsIn(units)
  IN /\ Reads
     /\ n \in 1 .. Len(wire) /\ n <= Wanted
     /\ \A f, g \in fds : f = g
     /\ \/ /\ fds \cap bundled = {} /\ ExtraFds(fds) = {}
           /\ arrived' = arrived \cup fds
           /\ input' = input \o units
           /\ wire' = SubSeq(wire, n + 1, Len(wire))
           /\ received_fd' = IF fds = {} THEN received_fd
                             ELSE CHOOSE f \in fds : TRUE
           /\ UNCHANGED <<phase, expected_input, ready, registered, closed,
                          rest, peer_open, sent_with, bundled, messages,
                          connections>>
        \/ \E f \in ExtraFds(fds) \ bundled :
             /\ arrived' = arrived \cup fds
             /\ CloseClient(f)
        \/ \E installed \in SUBSET (fds \cap bundled) :
             /\ fds # {}
             /\ arrived' = arrived \cup installed
             /\ CloseClient(0)
     /\ UNCHANGED <<greeting, last>>

\* The end of the stream, between two messages or within one.
EndOfInput ==
  /\ Reads
  /\ Wanted > 0
  /\ wire = << >> /\ ~peer_open
  /\ CloseClient(0)
  /\ UNCHANGED <<arrived, greeting, last>>

\* poll reports the hang-up of a client that waits for its output to be
\* written, whatever was read of it.
PollHangUp ==
  /\ phase # "closed" /\ ~peer_open
  /\ CloseClient(0)
  /\ UNCHANGED <<arrived, greeting, last>>

-----------------------------------------------------------------------------
(***************************************************************************)
(* A message is judged when as much of it is there as was asked for.       *)
(***************************************************************************)
Judged == Reads /\ Wanted = 0

Message == input[1].message

\* iouringd_queue_handshake_result.  A client whose handshake is rejected at
\* the top of the loop is flushed and closed before it is read again.  One
\* that is rejected when poll reports it is first served once more, as a
\* client in its handshake, and closed whatever comes of that.
Handshake ==
  /\ phase \in {"handshake", "rejected"} /\ Judged
  /\ phase' \in CASE phase = "rejected" -> {"closing"}
                  [] phase = "handshake" /\ Message.header -> {"submit"}
                  [] OTHER -> {"rejected", "closing"}
  /\ input' = << >>
  /\ expected_input' = Base
  /\ last' = input[1].id
  /\ UNCHANGED <<ready, received_fd, fdVars, peerVars, greeting>>

\* close_after_flush.
FlushRejected ==
  /\ phase \in {"rejected", "closing"}
  /\ CloseClient(0)
  /\ UNCHANGED <<arrived, greeting, last>>

MinLength(kind) ==
  CASE kind = "write" -> 1 [] kind = "openat" -> 2 [] OTHER -> 0

\* Mutant: the length is not compared with the limit.
LengthIsNamed(m) == MinLength(m.kind) <= m.length

\* What iouringd_process_submit_input checks once the body is there.
LengthIsValid(m) ==
  /\ MinLength(m.kind) <= m.length /\ m.length <= IoBytesMax
  /\ Size(m) <= InputCapacity

BodyIsValid(m) ==
  /\ HasPayload(m.kind) => LengthIsValid(m)
  /\ m.kind # "openat" => m.body

\* Mutant: the payload length counts from the start of the body.
BodyAndPayload(m) ==
  IF Len(input) = Base THEN Base + BodyUnits(m.kind) ELSE Base + m.length

\* Mutant: one unit more.
NeedsOneMore(m) ==
  IF Len(input) < Base + BodyUnits(m.kind) THEN Base + BodyUnits(m.kind)
                                           ELSE Size(m) + 1

\* How much the message needs, as far as what is there tells.
Needs(m) ==
  IF Len(input) < Base + BodyUnits(m.kind) THEN Base + BodyUnits(m.kind)
                                           ELSE Size(m)

\* Mutant: a descriptor may come with any request.
FdFitsAny(m) == TRUE

\* iouringd_finish_submit_request: only REGISTER_FD takes a descriptor.
FdFits(m) == received_fd # 0 => m.kind = "register_fd"

IsRefused(m) ==
  \/ ~m.header
  \/ Len(input) >= Base + BodyUnits(m.kind) /\ ~BodyIsValid(m)
  \/ Len(input) = Needs(m) /\ ~(FdFits(m) /\ (m.kind = "openat" => m.body))

\* iouringd_process_submit_input, in service of a readable client.
ProcessInput ==
  /\ phase = "submit" /\ Judged
  /\ \/ /\ IsRefused(Message)
        /\ CloseClient(0)
        /\ UNCHANGED <<arrived, greeting, last>>
     \/ /\ ~IsRefused(Message)
        /\ Len(input) < Needs(Message)
        /\ expected_input' = Needs(Message)
        /\ UNCHANGED <<phase, input, ready, received_fd, fdVars, peerVars,
                       greeting, last>>
     \/ /\ ~IsRefused(Message)
        /\ Len(input) >= Needs(Message)
        /\ ready' = [message |-> Message, units |-> Len(input),
                  id |-> input[1].id]
        /\ last' = input[1].id
        /\ input' = << >>
        /\ expected_input' = Base
        /\ UNCHANGED <<phase, received_fd, fdVars, peerVars, greeting>>

\* iouringd_dispatch_client_request.  A REGISTER_FD without a descriptor or
\* a slot is refused.
Dispatch ==
  /\ ready # NoRequest
  /\ ready' = NoRequest
  /\ received_fd' = 0
  /\ \/ /\ registered' = registered \cup ({received_fd} \ {0})
        /\ UNCHANGED closed
     \/ /\ received_fd # 0
        /\ closed' = closed \cup {received_fd}
        /\ UNCHANGED registered
  /\ UNCHANGED <<phase, input, expected_input, arrived, peerVars, greeting,
                 last>>

\* What the loop does for each client every time round.
Service ==
  \/ \E n \in 1 .. WireCapacity : ReadInput(n)
  \/ EndOfInput
  \/ Handshake
  \/ FlushRejected
  \/ ProcessInput

Next ==
  \/ Service
  \/ Dispatch
  \/ PollHangUp
  \/ \E good \in BOOLEAN : Connect(good)
  \/ \E m \in Requests : Compose(m)
  \/ \E n \in 1 .. WireCapacity, f \in Fds \cup {0}, many \in BOOLEAN :
       Write(n, f, many)
  \/ HangUp

Spec == Init /\ [][Next]_vars

\* The loop serves a readable client.  That it dispatches the request of
\* this client, while others have some too, is not assumed.
FairSpec == Spec /\ WF_vars(Service)

-----------------------------------------------------------------------------
\* Variables keep their types; a client that is not there holds nothing.
IntakeTypeOK ==
  /\ phase \in {"closed", "handshake", "submit", "rejected", "closing"}
  /\ Len(input) <= expected_input
  /\ received_fd \in Fds \cup {0}
  /\ arrived \subseteq Fds
  /\ phase = "closed" => input = << >> /\ ready = NoRequest /\ received_fd = 0

\* What iouringd_process_submit_input asks for next fits client->input,
\* whatever length a message names.
InputFits == expected_input <= InputCapacity

(***************************************************************************)
(* However a peer's writes are cut up, and whatever an earlier connection  *)
(* left half written, the daemon takes the messages of a connection one by *)
(* one, each of them whole: it never starts a message in the middle of     *)
(* another, and what is dispatched is exactly what was sent.               *)
(***************************************************************************)
RequestsAreWhole ==
  /\ \A i \in DOMAIN input : input[i].at = i /\ input[i].id = last + 1
  /\ ready # NoRequest => ready.units = Size(ready.message) /\ ready.id = last

(***************************************************************************)
(* A request is dispatched only with a descriptor that was sent for it:    *)
(* attached to its own bytes, or to the handshake that it follows at once. *)
(***************************************************************************)
OwnDescriptor ==
  ready # NoRequest /\ received_fd # 0 =>
    /\ ready.message.kind = "register_fd"
    /\ \/ sent_with[received_fd] = ready.id
       \/ sent_with[received_fd] = greeting /\ ready.id = greeting + 1

(***************************************************************************)
(* A descriptor that came as the only one of its control message waits in  *)
(* received_fd, is in a file slot or is closed, and never two of these,    *)
(* whatever way its connection ends.  Several in one control message are   *)
(* none of these: the error returns of iouringd_read_client_input leave    *)
(* them open.                                                              *)
(***************************************************************************)
DescriptorsAreKept ==
  /\ arrived \ bundled = registered \cup closed \cup ({received_fd} \ {0})
  /\ registered \cap closed = {}
  /\ received_fd \notin registered \cup closed

(***************************************************************************)
(* In the end everything a peer wrote is read, unless its connection is    *)
(* closed or a request of its own waits to be dispatched: the daemon waits *)
(* for more only while the peer has more of the same message to write.     *)
(***************************************************************************)
EverythingIsRead ==
  <>[](\/ phase = "closed" \/ ready # NoRequest
       \/ wire = << >> /\ (input # << >> => rest # << >>))

=============================================================================
