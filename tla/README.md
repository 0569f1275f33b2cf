# TLA+ models of iouringd

iouringd is a single-threaded daemon that offers io_uring operations to clients
on a Unix socket. This directory models the daemon (`src/daemon/main.c`, and the
ring access and set-up in `src/daemon/submit.c`) and its client library
(`src/lib`): six modules, two abstract specifications that two of them are shown
to implement, TLC configurations, and seven modules of TLAPS proofs.
`PROJECT.json` lists the runs, maps each definition to the lines it models, and
names the hazards and the findings.

## The system

| Part | Where | State | Operations | Modelled in |
|---|---|---|---|---|
| client table | `main.c` 292-339, 744-840, 1271-1306 | `fd`, `phase`, `generation`, counters | open, handshake, close, reuse | `Daemon`, `EventLoop` |
| registered files and buffers | `main.c` 472-742, 2288-2542, 3825-3865 | slots with `in_flight`, `registered`, `closing`; the kernel's file table | register, release, sweep | `Daemon` |
| task table and admission | `main.c` 2560-3475, 3553-3823 | `tasks`, outstanding counters, `next_task_id` | submit (15 kinds), complete | `Daemon`, abstractly `TaskService` |
| rings | `submit.c` 125-482, 1030 | SQ, CQ | queue and enter, peek | `Daemon` (partly) |
| event loop | `main.c` 4001-4122 | `progress`, poll set | service, dispatch, reap, sweep, flush, poll | `EventLoop` |
| priority dispatch | `main.c` 3477-3528 | `dispatch_cursor` | dispatch pass | `EventLoop` |
| output | `main.c` 418-470, 3901-3928 | bounded buffer per client | queue, flush | `EventLoop` |
| wire parsing | `main.c` 1317-2064 | `input`, `expected_input`, `received_fd` | read, validate, take | `Intake`; in `EventLoop` a message is whole |
| trace ring | `main.c` 1148-1227, 2169-2226 | ring of events | emit, GET_TRACE | `TraceRing`, abstractly `TraceLog` |
| start-up, stop signals, clean-up | `main.c` 163-248, 370-416, 4123-4375, `submit.c` 57-110, 484-812 | what the process holds, the socket path | `main`, `iouringd_ring_init`, the handler | `Lifecycle`; the wake-up of poll in `EventLoop` |
| statistics | `main.c` 904-979 | counters | count, report | `Daemon` (accepted, completed) |
| client library | `lib/client.c`, `lib/submit.c` | completions and payloads read ahead | connect, handshake, submit, wait, read payload | `ClientLibrary` |

The loop owns all of the daemon's state; concurrency comes from the kernel,
which ends operations in any order, from peers, which send, read and hang up at
any moment, and from the stop signals. What is hard:

- a client goes away with operations in flight, whose results, slots, buffers
  and descriptors must neither reach the next connection nor be lost;
- a descriptor passes between message, slot, registered file table, SQE and CQE;
- credits, task slots and ring entries are three different limits;
- io_uring_enter may fail after the SQE was published;
- ids, generations and the trace ring wrap;
- the loop sleeps in poll without a timeout, so anything it overlooks is lost;
- the dispatch cursor moves in the middle of a pass;
- a message arrives in pieces, and says only on the way how long it is;
- completions come between a request and its reply, and the library keeps them
  by descriptor number;
- the set-up has some twenty steps, each with its own error path, and a signal
  may arrive at any of them.

## Modules

### Daemon and TaskService

What the daemon knows of clients, resources and tasks, and the queues it shares
with the kernel. Variables have the names of the C fields. One action is one
handler, run to its end: `OpenClient`, `AcceptHandshake`, `CloseClient`; the
branches of `iouringd_dispatch_client_request` (`RegisterFd`, `RegisterBuffer`,
`ReleaseResource`, `SubmitPlain`, `SubmitOpenat`, `SubmitClose`, `SubmitIo`,
`SubmitFixed`, `SubmitAccept` and the `...Fails` actions, which consume ids);
`SweepClosingResources`; `KernelCompletes` (external); `ReapCompletion`.
The loop runs its handlers in a fixed order and the module in any order, which
only adds behaviours. A request that is refused and changes nothing is a
stuttering step. Task kinds that are treated alike are one kind ("nop" is also
TIMEOUT, "io" is every read, write, POLL and CONNECT). `KernelCompletes` lets an
operation end at any time, so a CANCEL needs no target.

`EventLoopEnds` stands for every way the loop returns. A handler that fails
half-way returns -1, `iouringd_run` returns, and only the clean-up follows: what
such a handler undid before is not modelled.

`TaskService` says what all this amounts to for a client: a job is accepted
while there is room, gets an id no other job ever had, belongs to the connection
that submitted it and ends once; a place goes to a new connection when no job of
the old one runs. `ImplementsTaskService` maps the active slots to jobs.

### EventLoop

`iouringd_run` step by step (`pc`), with peers, kernel and stop signal between
any two steps. A pass over all clients is one step, except for dispatch, whose
steps are the single requests (`place`). Messages are whole and count one;
requests are "control", "high", "normal", "low" or "malformed". A request starts
a task or not, within `TaskLimit`. A write to a closed peer ends the process by
SIGPIPE ("killed"). `OutputCapacity` follows the formula of `main`, in messages:
one handshake, stats and trace result, and a submit result and a completion for
each task.

### Intake

How the bytes of one client record become requests. A message is `Base` units
that name its kind, the units of its body and a payload as long as the body
says. The peer writes it in pieces of any size, any of which may carry a
descriptor. `ReadInput` is one `recvmsg`, `ProcessInput` the judgement of what
is there (refused, more wanted, or taken), `Dispatch` what becomes of a
descriptor. One connection follows another in the same record. `InputCapacity`
has the daemon's largest `io_bytes_max`; with a smaller one there is only more
room. The longest OPENAT does not fit the buffer and is refused, as in the code.

The library attaches one descriptor to a write; another peer may attach several
in one control message, which the module counts as one (`bundled`). `recvmsg`
then installs some of them, or none, and `iouringd_read_client_input` returns an
error, for the length of the control message or because it was truncated, and
the connection is closed. So it is when a single descriptor finds the table of
the process full. A client that is rejected while poll's events are handled is
serviced once more, as if in its handshake, before its reply is flushed and it
is closed ("rejected"); one that is rejected at the top of the loop is not
("closing").

### TraceRing and TraceLog

`Emit`, `GetTrace` and a client that follows the trace (`Follow`). The history
variable `emitted` has every event; `TraceLog` answers from such a log, and
`ImplementsLog` maps the ring to it. Contents of events are model values;
timestamps and the copy on stderr are left out.

### Lifecycle

A process from `main` to its end, one action per step that acquires something or
may fail, in the order of the code, with the two stop signals and a kill (which
also stands for SIGPIPE) between any two. `held` is what the process has to give
back, `path` the file at the socket path, which survives a kill. The process is
started again, one at a time. The two handlers are installed in one step. After
`socket` a signal closes the socket, so that `bind` or `listen` fails and the
process returns 1; this is what the code does.

### ClientLibrary

A process of one thread that uses the library on several descriptors, and the
daemon as the library sees it: streams of replies, completions and payloads,
closed by the daemon at any moment, and a daemon that restarts. `conn` tells
connections apart whatever their number. The public calls are those of
`iouringd/submit.h`, in groups that behave alike. The lists of completions and
payloads are global, keyed by descriptor number (and task id), and no call
empties them when a descriptor is closed. The process is assumed to wait only
for completions that are due, and to close a descriptor after any error but a
rejection. It has to after ENOMEM, since the payload is still in the stream, and
after the EPROTO of a header that had arrived only in part (`ShortPeek`), since
the reply is still to come.

### How they fit together

`Intake` delivers what `EventLoop` takes for whole messages, `EventLoop` orders
the handlers that `Daemon` runs in any order, `TraceRing` is what they report
to, and `Lifecycle` is around the loop. They share the client record and
`iouringd_close_client`, and each abstracts from the parts of the others. The
library and the daemon's side of a connection are composed in `ClientLibrary`.

## Runs

`tlc -config <cfg> <MC module>`. Deadlock is not checked: each system may stop
for good, or its bounded inputs end.

| Configuration | Checks | States |
|---|---|---|
| DaemonAdmission (MCDaemon) | `TypeOK`, `CountersMatchTasks`, `StatsAddUp`, `CreditsNotOverdrawn`, `TasksBelongToConnection`, `RingMatchesTasks`, refinement `ImplementsTaskService` | 502,000 |
| DaemonResources (MCDaemon) | `InFlightMatchesTasks`, `SlotLifecycle`, `ResourceIdsDistinct`, `DescriptorsHaveOneOwner`, `OnlyFailedCloseLosesFd` | 391,000 |
| DaemonFaults (MCDaemon) | `SlotLifecycle`, `FixedFilesMatchSlots` when enter fails, liveness `ClosedClientsAreReclaimed` | 291,000 |
| LoopPoll (MCEventLoop) | `LoopTypeOK`, `NothingOverlooked`, `MostUrgentFirst`, liveness `HangUpsAreNoticed` | 357,000 |
| LoopTasks (MCEventLoop) | `NothingOverlooked`, `RejectedNeverServed`, `LibraryClientsFit`, liveness `StopsWhenAsked` | 219,000 |
| IntakeFraming (MCIntake) | `IntakeTypeOK`, `InputFits`, `RequestsAreWhole`, `OwnDescriptor`, `DescriptorsAreKept`, liveness `EverythingIsRead` | 881,000 |
| TraceFollow (MCTraceRing) | refinement `ImplementsLog`, `FollowerKnowsItsGaps`, liveness `FollowerCatchesUp` | 16,000 |
| LibraryCalls (MCClientLibrary) | `CompletionsInOrder`, `PayloadsFound`, `RepliesFitCalls`, liveness `CallsEnd` | 379,000 |
| LifecycleStops (MCLifecycle) | `ReturnsReleaseAll`, `LoopFindsSetUp`, `EndsByStopSignal`, liveness `StopEndsProcess` | 1,400 |

What they show. Two clients that come, go and submit tasks with and without
credit never disturb the counters, a result stays with its connection even when
the generation wraps, and every step is one of `TaskService` (DaemonAdmission).
Slots and descriptors follow their operations to the end, also when the client
has gone, and ids stay distinct when they wrap (DaemonResources). A refused
submission undoes what it did (for the counters and `in_flight` the proofs show
it), the kernel's file table follows the slots, and the record of a closed
client becomes usable again unless enter has failed (DaemonFaults);
`RingMatchesTasks` and `OnlyFailedCloseLosesFd` do not hold there, which
DaemonStaleSqe is about. The loop sleeps only when it has nothing to do, with
three clients (LoopPoll) and with completions, partial writes and stop signals
(LoopTasks). It starts a pass with a most urgent request and notices hang-ups,
with one exception: a client whose request is passed over in every pass (see
LoopStarvation) is neither serviced nor polled for input, and its hang-up is
never noticed. `HangUpsAreNoticed` says that this is the only way, and with the
three clients of LoopPoll it does happen. No rejected connection is served, whatever its peer
sends, a client that waits for its replies never fills its output buffer (one
that does not ends the daemon), and a stop signal ends the loop wherever it
arrives (LoopTasks). However writes are cut up, requests are taken whole and
with their own descriptor; a descriptor that came alone is kept or closed, while
those of a control message with several stay open for ever once the kernel has
installed them (IntakeFraming). A client that follows the trace can tell what it
missed (TraceFollow). The library neither loses nor mixes up completions, its
replies stay in step and its calls end, with one exception: what an earlier
connection left in the lists under the same descriptor number is given to the
later one. `Sound` names the connections without such a past; payloads are safe
in either case until the daemon restarts and uses task ids again (LibraryCalls).
Every error path of the set-up undoes what came before, and a stop signal ends
the process from wherever it is (LifecycleStops).

Three configurations are expected to violate their property:

- **DaemonStaleSqe**, `KernelRunsAcceptedTasks`: an SQE whose io_uring_enter
  failed stays queued; the next submission's enter makes the kernel run it, and
  its completion is taken for the next task's.
- **LoopStarvation**, `RequestsAreAnswered`: the cursor is moved while the
  offsets of the pass count from it, so a pass may miss a client. With three
  clients a less urgent request may be dispatched first, and one client's low
  request can be missed in every pass. With two clients, as in the repository's
  test, neither happens.
- **LoopHangUp**, `NotKilledByPeer`: SIGPIPE has its default action.

### Bounds

`Daemon`: two clients show everything about records, generations and shared
limits. `TaskIdReservedMin` bounds the tasks of a behaviour to two to four, with
one to three at a time: enough for a task to outlive its connection, for two to
share a slot and for the reserved range to be reached. `RingCapacity` of 2 to 4
lets credits, slots and, with `MaxEnterFaults`, the queue run full.
`ResourceIdModulus` is small enough for ids to wrap while others are in use, and
`GenerationModulus` is 2. `Fds` has as many numbers as can be in use, so that
numbers are given out again. `Requests` selects what a run is about.

`EventLoop`: three clients for the dispatch cursor, which with two passes over
nobody for ever; one for its output, its tasks and what its peer sends behind a
message not yet answered (`Pipelining`; otherwise peers wait for each reply, as
the library does). What the handlers do to a client depends on no other, the
order of dispatch apart, and three clients with tasks are out of reach.
`SocketCapacity` 1 makes writes partial. `Mishaps` selects hang-ups, stop signals
and errors of accept.

`Intake`: the base of two units and bodies of up to two can be cut in the
middle; `MaxLength` is one more than `IoBytesMax`, so that lengths at the limit
and beyond it occur, and one path that fits the limit and not the buffer;
`WireCapacity` makes every long message arrive in pieces. Three messages and two
descriptors over two connections: a handshake and two requests, or a connection
that follows an unfinished one.

`TraceRing`: six events in a ring of three go round twice. `ClientLibrary`: two
descriptors, two connections (so that a number is used again), two task ids,
one restart. `Lifecycle`: two starts, for what one process leaves to the next.

### Fairness

`Daemon`: `ReapCompletion` and `SweepClosingResources` are weakly fair, because
the loop calls both every time round, and the kernel ends NOP, TIMEOUT, CANCEL
and CLOSE. Nothing is assumed of clients or of operations that wait for a peer;
`ClosedClientsAreReclaimed` excludes the latter, which the daemon does not
cancel. `EventLoop`: weak fairness of the loop's steps, that is, the process is
scheduled. `Intake`: weak fairness of the service of a readable client, which
every pass of the loop does. That the client's request is dispatched is not
assumed (LoopStarvation shows that it may not be): while one waits,
`EverythingIsRead` asks for nothing. Nothing is assumed of peers. `Lifecycle`: the process is scheduled, and the loop returns once it is
asked to stop, which is `StopsWhenAsked` of `EventLoop`. `TraceRing`: the
follower asks again. `ClientLibrary`: reads return what has arrived, the daemon
answers requests, and tasks end; a wait for an operation that never ends would
not.

## Proofs

For all values of the constants that satisfy the assumptions of the modules
(`ConstantsAssumption` and its siblings: naturals, not zero where the code
guarantees it).

**Tasks** (`DaemonTaskProofs`, `DaemonRequestProofs`, `DaemonProofs`, each
extending the one before). `IInv` is an inductive invariant of `Daemon`
(`Invariance`), and from it follow `TypeCorrect`, `CountersCorrect`,
`StatsCorrect`, `AdmissionBounded` and `ResultsStayWithConnection`. None of the
five is inductive by itself. That a counter stays a natural when a task ends
needs that it counts at least that task; that a record changes its generation
only without tasks needs that `client_tasks` is the number of its tasks; the
bound on credits is admission's guard on a counter. `IInv` is their conjunction.
The argument has a lemma for each way a step can touch the task table:
`StartTaskCounted` and `FinishTaskCounted` compare the cardinalities of the four
sets before and after, `TasksUntouched` covers the steps that leave the table
alone, and `OpenClientCounted` the change of generation. One lemma per action
(`...Keeps`) adds the types, and `NextKeeps` collects them.

**The service** (`DaemonProofs`). `DaemonImplementsService`: every step of
`Daemon` is a step of `TaskService` under the mapping, or a stutter. It needs
`TaskIdsDistinct` beside `IInv` (equal ids would make two tasks one job), the
counts of `CountersMatchTasks` for the capacity, and that a record without
tasks is the only one that is opened.

**Slots** (`DaemonSlotProofs`). `TableMatchesSlots` follows each action's effect
on a client's slots and on the table at `GlobalFileIndex`, which is injective.
`InFlightCorrect` is inductive only together with `SlotsHeldOnce`: no task names
one slot both as the file it works on and as the slot of its result, so that a
completion takes one off exactly what its start put on. Each action is shown to
keep the counts, to count a task in (`CountedIn`) or to count it out
(`CountedOut`). It holds with failing io_uring_enter too.

**The trace** (`TraceRingProofs`). `RingIsTail`: each of the last `trace_count`
events is in the slot of its number, which needs that numbers less than
`TraceCapacity` apart have different slots. `RingImplementsLog` is the
refinement.

**The process** (`LifecycleProofs`). `LifecycleInvariant` bounds what is held at
every step from both sides (`Needed`, `Allowed`) and ties the socket to
`published` and to the signals; from it `NothingLeftBehind`, `LoopSetUp` and
`EndsBySignal`.

**Intake** (`IntakeProofs`). The strengthening in
`IntakeInvariant` is that input, wire and the peer's rest are one stream: each
unit is followed by the next of its message or by the first of the next message.
What is in the input buffer is then a prefix of one message, since no more is
ever asked for than the message has. A second part follows each descriptor from
the unit that carries it. From these `InputAlwaysFits`, `FramingCorrect`,
`DescriptorsMatch` and `LoneDescriptorsNeverLeak`, the last for descriptors that
came alone in their control message.

Only model-checked: `SlotLifecycle`, `ResourceIdsDistinct`, the ownership of
descriptors and `RingMatchesTasks` in `Daemon`, all of `EventLoop` and
`ClientLibrary`, and all liveness, which is out of the prover's reach.

## Not modelled

- The memory ordering of the ring indices and their wrap-around: the queues are
  sequences, and one thread on either side uses them by the kernel's protocol.
- Descriptor numbers in `Lifecycle`: a second stop signal before the clean-up,
  and the clean-up itself, close the number of the listening socket again.
- Two daemons at a time on one path: the later takes the path over, and the end
  of either, or a failed start, unlinks it.
- How the library tells a completion from a reply: by the magic number and
  version a completion starts with. The models take the answer to be right.
- The checks of the handshake's other fields, `rejected_submits`, the text of
  the statistics reply, the values of arguments, probing for single operations.
- `daemon/handshake.c`, which the loop does not call; logging.
- The modules are not composed into one: the product of loop, requests and
  input has too many states to say anything beyond what the parts say.
