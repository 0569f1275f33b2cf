--------------------------- MODULE ClientLibrary ----------------------------
(***************************************************************************)
(* The client library (src/lib/client.c, src/lib/submit.c) in a process of *)
(* one thread, with the daemon as the library sees it.  A call writes its  *)
(* request and reads until its reply comes; completions that arrive before *)
(* the reply are kept in a list for iouringd_wait_completion, payloads in  *)
(* another for iouringd_read_completion_payload.  Both lists are global    *)
(* and keyed by descriptor number, and closing a descriptor leaves them as *)
(* they are.                                                               *)
(*                                                                         *)
(* A stream holds the messages the daemon has sent and the process has not *)
(* read; a payload is a unit of its own behind its completion.  conn names *)
(* a connection, whatever descriptor number it has, and is known to no     *)
(* code.  The process does what the library lets it: it waits for a        *)
(* completion only when one is due, and closes a descriptor on which a     *)
(* call failed (with anything but the rejection of a request).             *)
(***************************************************************************)
EXTENDS Integers, Sequences, SequencesExt, FiniteSets

CONSTANTS
  Fds,            \* the descriptor numbers of the process
  Credits,        \* the daemon's task capacity
  MaxConnections, \* bound: connections of a behaviour
  MaxTaskId,      \* bound: task ids of one run of the daemon
  MaxRestarts     \* bound: restarts of the daemon

Conns == 1 .. MaxConnections

VARIABLES
  conn,                 \* the connection a descriptor number stands for, or 0
  connections,          \* how many connections there have been
  call,                 \* the library call in progress
  buffered_completions, \* buffered_completions
  buffered_payloads,    \* buffered_payloads
  held,                 \* completions whose payload the process may read
  due,                  \* how many tasks the process was told of
  got,                  \* the completions the process was given
  inherited,            \* connections whose number had entries in the lists
  stream,               \* sent by the daemon and not yet read
  request,              \* written by the library and not yet answered
  open,                 \* the daemon has the connection open
  tasks,                \* the daemon's running tasks
  next_task_id,         \* runtime->next_task_id
  sent,                 \* the completions the daemon has queued
  restarts              \* restarts so far

listVars == <<buffered_completions, buffered_payloads>>
processVars == <<conn, connections, call, held, due, got, inherited>>
daemonVars == <<request, open, tasks, next_task_id, sent, restarts>>
vars == <<listVars, processVars, stream, daemonVars>>

-----------------------------------------------------------------------------
NoCall == [reply |-> "none", fd |-> 0]
NoRequest == [reply |-> "none", reads |-> FALSE]

Init ==
  /\ conn = [f \in Fds |-> 0]
  /\ connections = 0
  /\ call = NoCall
  /\ buffered_completions = << >>
  /\ buffered_payloads = << >>
  /\ held = {}
  /\ due = [k \in Conns |-> 0]
  /\ got = [k \in Conns |-> << >>]
  /\ inherited = {}
  /\ stream = [k \in Conns |-> << >>]
  /\ request = [k \in Conns |-> NoRequest]
  /\ open = {}
  /\ tasks = {}
  /\ next_task_id = 1
  /\ sent = [k \in Conns |-> << >>]
  /\ restarts = 0

Entries(list, fd) == {i \in DOMAIN list : list[i].fd = fd}

(***************************************************************************)
(* The process closes a descriptor; the library has no call for it.  The   *)
(* history of the connection is of no more interest.                       *)
(***************************************************************************)
CloseFd(fd) ==
  LET k == conn[fd]
  IN /\ conn' = [conn EXCEPT ![fd] = 0]
     /\ call' = NoCall
     /\ held' = {h \in held : h.fd # fd}
     /\ open' = open \ {k}
     /\ stream' = [stream EXCEPT ![k] = << >>]
     /\ request' = [request EXCEPT ![k] = NoRequest]
     /\ inherited' = inherited \ {k}
     /\ due' = [due EXCEPT ![k] = 0]
     /\ got' = [got EXCEPT ![k] = << >>]
     /\ sent' = [sent EXCEPT ![k] = << >>]
     /\ UNCHANGED <<connections, tasks, next_task_id, restarts>>

-----------------------------------------------------------------------------
(***************************************************************************)
(* Calls.  The request is written at once: MSG_NOSIGNAL turns a daemon     *)
(* that has closed into EPIPE.                                             *)
(***************************************************************************)
Call(fd, reply, reads) ==
  LET k == conn[fd]
  IN /\ call = NoCall
     /\ k # 0
     /\ \/ /\ k \in open
           /\ request' = [request EXCEPT ![k] = [reply |-> reply,
                                                 reads |-> reads]]
           /\ call' = [reply |-> reply, fd |-> fd]
           /\ UNCHANGED <<conn, connections, held, due, got, inherited,
                          stream, open, tasks, next_task_id, sent, restarts>>
        \/ /\ k \notin open
           /\ CloseFd(fd)
     /\ UNCHANGED listVars

\* iouringd_client_connect: the kernel gives the lowest free number.
Connect(fd) ==
  LET k == connections + 1
  IN /\ call = NoCall
     /\ conn[fd] = 0 /\ \A f \in Fds : conn[f] = 0 => fd <= f
     /\ k \in Conns
     /\ connections' = k
     /\ conn' = [conn EXCEPT ![fd] = k]
     /\ open' = open \cup {k}
     /\ inherited' =
          IF \/ Entries(buffered_completions, fd) # {}
             \/ Entries(buffered_payloads, fd) # {}
          THEN inherited \cup {k} ELSE inherited
     /\ call' = [reply |-> "handshake", fd |-> fd]
     /\ request' = [request EXCEPT ![k] = [reply |-> "handshake",
                                           reads |-> FALSE]]
     /\ UNCHANGED <<listVars, held, due, got, stream, tasks,
                    next_task_id, sent, restarts>>

\* NOP, TIMEOUT and CANCEL name no resource.
SubmitPlain(fd) == Call(fd, "submit", FALSE)

\* The calls that name a resource answer the invalid id with EINVAL.
ResourceIdInvalid == 0
ResourceIds == {ResourceIdInvalid, 1}

\* SOCK_READ, FILE_READ, SOCK_WRITE and FILE_WRITE.
SubmitTransfer(fd, resource, reads) ==
  resource # ResourceIdInvalid /\ Call(fd, "submit", reads)

\* POLL, CONNECT, ACCEPT (whose payload is an address), OPENAT and CLOSE.
SubmitOnFile(fd, resource, accepts) ==
  resource # ResourceIdInvalid /\ Call(fd, "submit", accepts)

\* READ_FIXED and WRITE_FIXED also name a buffer.
SubmitFixed(fd, resource, buffer, reads) ==
  /\ resource # ResourceIdInvalid
  /\ buffer # ResourceIdInvalid
  /\ Call(fd, "submit", reads)

\* REGISTER_FD, REGISTER_BUFFER and RELEASE_RESOURCE.
CallResource(fd) == Call(fd, "control", FALSE)

\* GET_STATS and GET_TRACE.
CallQuery(fd) == Call(fd, "control", FALSE)

Close(fd) ==
  /\ call = NoCall
  /\ conn[fd] # 0
  /\ CloseFd(fd)
  /\ UNCHANGED listVars

-----------------------------------------------------------------------------
(***************************************************************************)
(* Reading.  A message is taken whole: read_full waits for all of it, but  *)
(* the look ahead for completions does not.                                *)
(***************************************************************************)
Units(message) == IF message.payload THEN 2 ELSE 1

Arrived(k) == stream[k] # << >> /\ Len(stream[k]) >= Units(Head(stream[k]))

CompletionArrived(k) == Arrived(k) /\ Head(stream[k]).type = "completion"

Drop(n, q) == SubSeq(q, n + 1, Len(q))

Consume(k, n) == stream' = [stream EXCEPT ![k] = Drop(n, @)]

\* What the lists keep of the completion at the head of k's stream; of is
\* the connection it came from.
EntryOf(fd, k) ==
  [fd |-> fd, task_id |-> Head(stream[k]).task_id,
   payload |-> Head(stream[k]).payload, of |-> k]

\* Mutant: the first completion ends the call that waits for a reply.
DrainAsReply ==
  LET k == conn[call.fd]
  IN /\ call.reply \in {"submit", "control"}
     /\ CompletionArrived(k)
     /\ Consume(k, Units(Head(stream[k])))
     /\ call' = NoCall
     /\ UNCHANGED <<listVars, conn, connections, held, due, got, inherited,
                    daemonVars>>

\* drain_completion_prefix: a completion ahead of the awaited reply.
DrainCompletion ==
  LET k == conn[call.fd]
  IN /\ call.reply \in {"submit", "control"}
     /\ CompletionArrived(k)
     /\ Consume(k, Units(Head(stream[k])))
     /\ buffered_completions' =
          Append(buffered_completions, EntryOf(call.fd, k))
     /\ UNCHANGED <<buffered_payloads, processVars, daemonVars>>

\* peek_protocol_header does not wait for the rest of a header that is only
\* in part in the socket, of which the daemon may have written any part: the
\* call fails with EPROTO, and with the message still in the stream.
ShortPeek ==
  LET k == conn[call.fd]
  IN /\ call.reply \in {"submit", "control"}
     /\ stream[k] # << >>
     /\ CloseFd(call.fd)
     /\ UNCHANGED listVars

\* read_submit_result, read_resource_result, read_stats_result and
\* read_trace_result; a rejection ends the call with an error and no more.
TakeReply ==
  LET k == conn[call.fd]
  IN /\ call.reply \in {"submit", "control"}
     /\ Arrived(k)
     /\ Head(stream[k]).type # "completion"
     /\ Consume(k, 1)
     /\ due' = [due EXCEPT ![k] = IF Head(stream[k]).type = "submit"
                                    /\ Head(stream[k]).task_id # 0
                                  THEN @ + 1 ELSE @]
     /\ call' = NoCall
     /\ UNCHANGED <<listVars, conn, connections, held, got, inherited,
                    daemonVars>>

\* iouringd_client_handshake_fd takes an offer of no credits for an error.
FinishHandshake ==
  LET k == conn[call.fd]
  IN /\ call.reply = "handshake"
     /\ Arrived(k)
     /\ \/ /\ Head(stream[k]).credits = 0
           /\ CloseFd(call.fd)
        \/ /\ Head(stream[k]).credits # 0
           /\ Consume(k, 1)
           /\ call' = NoCall
           /\ UNCHANGED <<conn, connections, held, due, got, inherited,
                          daemonVars>>
     /\ UNCHANGED listVars

\* The daemon has closed and what it sent ends before the message does.
EndOfStream ==
  LET k == conn[call.fd]
  IN /\ call # NoCall
     /\ k \notin open
     /\ ~Arrived(k)
     /\ CloseFd(call.fd)
     /\ UNCHANGED listVars

(***************************************************************************)
(* A completion is given to the process.  Its payload goes to the list     *)
(* iouringd_read_completion_payload looks in.                              *)
(***************************************************************************)
Give(entry) ==
  LET k == conn[entry.fd]
  IN /\ got' = [got EXCEPT ![k] = Append(@, [of |-> entry.of,
                                             task_id |-> entry.task_id])]
     /\ buffered_payloads' = IF entry.payload
                             THEN Append(buffered_payloads, entry)
                             ELSE buffered_payloads
     /\ held' = IF entry.payload
                THEN held \cup {[fd |-> entry.fd, task_id |-> entry.task_id,
                                 of |-> entry.of]}
                ELSE held

\* Mutant: the entry of another descriptor is taken.
FirstOfAll(fd) == IF buffered_completions = << >> THEN {} ELSE {1}

\* Mutant: a wait reads from the socket without a look at the list.
FirstInSocket(fd) == {}

FirstBuffered(fd) ==
  LET S == Entries(buffered_completions, fd)
  IN {i \in S : \A j \in S : i <= j}

MayWait(fd) == /\ call = NoCall
               /\ conn[fd] # 0
               /\ due[conn[fd]] > Len(got[conn[fd]])

\* pop_buffered_completion.
WaitBuffered(fd) ==
  /\ MayWait(fd)
  /\ \E i \in FirstBuffered(fd) :
       /\ buffered_completions' = RemoveAt(buffered_completions, i)
       /\ Give([buffered_completions[i] EXCEPT !.fd = fd])
  /\ UNCHANGED <<conn, connections, call, due, inherited, stream,
                 daemonVars>>

WaitForStream(fd) ==
  /\ MayWait(fd)
  /\ FirstBuffered(fd) = {}
  /\ call' = [reply |-> "completion", fd |-> fd]
  /\ UNCHANGED <<listVars, conn, connections, held, due, got,
                 inherited, stream, daemonVars>>

FinishWait ==
  LET k == conn[call.fd]
  IN /\ call.reply = "completion"
     /\ CompletionArrived(k)
     /\ Consume(k, Units(Head(stream[k])))
     /\ Give(EntryOf(call.fd, k))
     /\ call' = NoCall
     /\ UNCHANGED <<buffered_completions, conn, connections, due,
                    inherited, daemonVars>>

(***************************************************************************)
(* malloc fails, for the payload or for the list entry.  The completion is *)
(* lost and its payload may be left in the stream, so the process closes.  *)
(***************************************************************************)
NoMemory ==
  LET k == conn[call.fd]
  IN /\ call.reply \in {"submit", "control", "completion"}
     /\ CompletionArrived(k)
     /\ call.reply = "completion" => Head(stream[k]).payload
     /\ CloseFd(call.fd)
     /\ UNCHANGED listVars

\* The entry is off the list before its payload is stored.
NoMemoryForBuffered(fd) ==
  /\ MayWait(fd)
  /\ \E i \in FirstBuffered(fd) :
       /\ buffered_completions[i].payload
       /\ buffered_completions' = RemoveAt(buffered_completions, i)
  /\ CloseFd(fd)
  /\ UNCHANGED buffered_payloads

\* Mutant: the descriptor alone decides.
PayloadForFd(h) ==
  LET S == {i \in DOMAIN buffered_payloads : buffered_payloads[i].fd = h.fd}
  IN {i \in S : \A j \in S : i <= j}

\* The payload iouringd_read_completion_payload finds for a completion.
PayloadFor(h) ==
  LET S == {i \in DOMAIN buffered_payloads :
              /\ buffered_payloads[i].fd = h.fd
              /\ buffered_payloads[i].task_id = h.task_id}
  IN {i \in S : \A j \in S : i <= j}

ReadPayload(h) ==
  /\ call = NoCall
  /\ \E i \in PayloadFor(h) :
       buffered_payloads' = RemoveAt(buffered_payloads, i)
  /\ held' = held \ {h}
  /\ UNCHANGED <<buffered_completions, conn, connections, call, due,
                 got, inherited, stream, daemonVars>>

-----------------------------------------------------------------------------
(***************************************************************************)
(* The daemon.  A submission may be refused for many reasons.              *)
(***************************************************************************)
Message(type, id, payload, credits) ==
  [type |-> type, task_id |-> id, payload |-> payload, credits |-> credits]

Send(k, messages) == stream' = [stream EXCEPT ![k] = @ \o messages]

FreeCredits == Credits - Cardinality(tasks)

DaemonReplies(k) ==
  /\ k \in open
  /\ request[k] # NoRequest
  /\ request' = [request EXCEPT ![k] = NoRequest]
  /\ \/ /\ request[k].reply = "handshake"
        /\ Send(k, <<Message("handshake", 0, FALSE, FreeCredits)>>)
        /\ UNCHANGED <<tasks, next_task_id>>
     \/ /\ request[k].reply = "submit"
        /\ FreeCredits > 0
        /\ next_task_id <= MaxTaskId
        /\ tasks' = tasks \cup {[of |-> k, task_id |-> next_task_id,
                                 reads |-> request[k].reads]}
        /\ next_task_id' = next_task_id + 1
        /\ Send(k, <<Message("submit", next_task_id, FALSE, 0)>>)
     \/ /\ request[k].reply # "handshake"
        /\ Send(k, <<Message(request[k].reply, 0, FALSE, 0)>>)
        /\ UNCHANGED <<tasks, next_task_id>>
  /\ UNCHANGED <<listVars, processVars, open, sent, restarts>>

\* Nobody is told when the connection has gone.
DaemonCompletes(task) ==
  LET k == task.of
  IN /\ tasks' = tasks \ {task}
     /\ \/ /\ k \in open
           /\ \E payload \in {FALSE, task.reads} :
                Send(k, <<Message("completion", task.task_id, payload, 0)>>
                        \o IF payload
                           THEN <<Message("payload", task.task_id, FALSE, 0)>>
                           ELSE << >>)
           /\ sent' = [sent EXCEPT ![k] = Append(@, [of |-> k, task_id |->
                                                            task.task_id])]
        \/ /\ k \notin open
           /\ UNCHANGED <<stream, sent>>
     /\ UNCHANGED <<listVars, processVars, request, open, next_task_id,
                    restarts>>

\* What was still in the client's output buffer is lost.
DaemonCloses(k) ==
  /\ k \in open
  /\ open' = open \ {k}
  /\ request' = [request EXCEPT ![k] = NoRequest]
  /\ \E n \in 0 .. Len(stream[k]) :
       stream' = [stream EXCEPT ![k] = SubSeq(@, 1, n)]
  /\ UNCHANGED <<listVars, processVars, tasks, next_task_id, sent, restarts>>

\* A new process of the daemon counts task ids from 1 again.
DaemonRestarts ==
  /\ restarts < MaxRestarts
  /\ restarts' = restarts + 1
  /\ open = {}
  /\ tasks' = {}
  /\ next_task_id' = 1
  /\ UNCHANGED <<listVars, processVars, stream, request, open, sent>>

-----------------------------------------------------------------------------
Reading ==
  \/ DrainCompletion
  \/ TakeReply
  \/ FinishHandshake
  \/ EndOfStream
  \/ FinishWait

Calling(fd) ==
  \/ Connect(fd)
  \/ SubmitPlain(fd)
  \/ \E resource \in ResourceIds, reads \in BOOLEAN :
       \/ SubmitTransfer(fd, resource, reads)
       \/ SubmitOnFile(fd, resource, reads)
       \/ \E buffer \in ResourceIds : SubmitFixed(fd, resource, buffer, reads)
  \/ CallResource(fd)
  \/ CallQuery(fd)
  \/ WaitBuffered(fd)
  \/ WaitForStream(fd)
  \/ NoMemoryForBuffered(fd)
  \/ Close(fd)

Next ==
  \/ \E fd \in Fds : Calling(fd)
  \/ Reading
  \/ ShortPeek
  \/ NoMemory
  \/ \E h \in held : ReadPayload(h)
  \/ \E k \in Conns : DaemonReplies(k)
  \/ \E task \in tasks : DaemonCompletes(task)
  \/ \E k \in Conns : DaemonCloses(k)
  \/ DaemonRestarts

Spec == Init /\ [][Next]_vars

(***************************************************************************)
(* A call reads until it has what it waits for.  The daemon serves the     *)
(* requests of its clients, and the tasks of this process end.             *)
(***************************************************************************)
FairSpec ==
  /\ Spec
  /\ WF_vars(Reading)
  /\ \A k \in Conns : WF_vars(DaemonReplies(k))
  /\ WF_vars(\E task \in tasks : DaemonCompletes(task))

-----------------------------------------------------------------------------
Record(e) == [of |-> e.of, task_id |-> e.task_id]

Records(list) == [i \in DOMAIN list |-> Record(list[i])]

BufferedFor(fd) ==
  Records(SelectSeq(buffered_completions, LAMBDA e : e.fd = fd))

InStream(k) ==
  LET completions == SelectSeq(stream[k], LAMBDA m : m.type = "completion")
  IN [i \in DOMAIN completions |->
        [of |-> k, task_id |-> completions[i].task_id]]

\* An earlier connection with the same number left nothing in the lists.
Sound(fd) == conn[fd] # 0 /\ conn[fd] \notin inherited

(***************************************************************************)
(* Completions are neither lost, duplicated, reordered nor mixed up, in    *)
(* whichever calls they are read: what iouringd_wait_completion gave, what *)
(* drain_completion_prefix put aside for the descriptor and what is still  *)
(* in the socket are, in this order, what the daemon sent, as long as the  *)
(* descriptor number has no past.                                          *)
(***************************************************************************)
CompletionsInOrder ==
  \A fd \in Fds : Sound(fd) =>
    LET k == conn[fd]
        all == got[k] \o BufferedFor(fd) \o InStream(k)
    IN IF k \in open THEN all = sent[k] ELSE IsPrefix(all, sent[k])

(***************************************************************************)
(* A completion given with a payload finds that payload, whatever else was *)
(* read in between and in whichever order payloads are asked for           *)
(* (iouringd_read_completion_payload looks for the descriptor and the id). *)
(* An unread payload of an earlier connection with the same number is not  *)
(* taken for it unless the daemon restarted and used the id again.         *)
(***************************************************************************)
PayloadsFound ==
  \A h \in held : restarts = 0 \/ Sound(h.fd) =>
    \E i \in PayloadFor(h) : Record(buffered_payloads[i]) = Record(h)

Replies(k) ==
  {i \in DOMAIN stream[k] : stream[k][i].type \notin {"completion", "payload"}}

(***************************************************************************)
(* The stream stays in step with the calls: on an open connection a        *)
(* request is unanswered, or one reply is unread, exactly while the call   *)
(* that asked is in progress, and that reply is of its kind.  No call can  *)
(* read another's reply, and a wait never meets a reply.                   *)
(***************************************************************************)
RepliesFitCalls ==
  \A fd \in {f \in Fds : conn[f] \in open} :
    LET k == conn[fd]
        asked == call.fd = fd /\ call.reply \notin {"none", "completion"}
    IN /\ asked <=> (request[k] # NoRequest \/ Replies(k) # {})
       /\ request[k] # NoRequest => /\ request[k].reply = call.reply
                                    /\ Replies(k) = {}
       /\ \A i \in Replies(k) : /\ stream[k][i].type = call.reply
                                /\ Replies(k) = {i}

(***************************************************************************)
(* Every call ends: a reply is not held up by completions ahead of it, and *)
(* a wait does not look for a completion in the socket that an earlier     *)
(* call put aside.                                                         *)
(***************************************************************************)
CallsEnd == call # NoCall ~> call = NoCall

=============================================================================
