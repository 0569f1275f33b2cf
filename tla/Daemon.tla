------------------------------- MODULE Daemon -------------------------------
(***************************************************************************)
(* The state the iouringd event loop keeps about its clients, their        *)
(* registered files and buffers, the tasks it has given to io_uring and    *)
(* the credits those tasks use (src/daemon/main.c), together with the      *)
(* submission and completion queues it shares with the kernel              *)
(* (src/daemon/submit.c).                                                  *)
(*                                                                         *)
(* Each action is one handler of the loop, run to its end.  The loop runs  *)
(* them in a fixed order, this module in any order.  A request is read and *)
(* dispatched in one step.  A handler that refuses a request and changes   *)
(* nothing here is a stuttering step: its conditions are the guards of the *)
(* action it does not take.  Replies and trace events are left out.        *)
(***************************************************************************)
EXTENDS Integers, Sequences, FiniteSets

CONSTANTS
  MaxClients,        \* limits.max_clients
  RingCapacity,      \* runtime.ring_capacity, the SQ entries of the ring
  PerClientCredits,  \* limits.per_client_credits
  FileSlotLimit,     \* limits.registered_fds_per_client
  BufferSlotLimit,   \* limits.registered_buffers_per_client
  IoBytesMax,        \* limits.io_bytes_max
  TaskIdReservedMin, \* IOURINGD_TASK_ID_RESERVED_MIN, 2^64 - 16 in the code
  ResourceIdModulus, \* the width of a resource id, 2^32 in the code
  GenerationModulus, \* the width of a client generation, 2^32 in the code
  Fds,               \* the file descriptor numbers the process may have
  Requests,          \* the requests clients send; the kernel's probe reports
                     \* support for the task kinds among them
  MaxEnterFaults     \* bound: how often io_uring_enter may fail

(***************************************************************************)
(* The task kinds, as far as the daemon treats them differently: "nop" is  *)
(* also TIMEOUT, "io" is SOCK_READ, SOCK_WRITE, FILE_READ, FILE_WRITE,     *)
(* POLL and CONNECT.                                                       *)
(***************************************************************************)
ResultKinds == {"accept", "openat"}
FixedKinds == {"read_fixed", "write_fixed"}
Kinds == {"nop", "cancel", "io", "close"} \cup ResultKinds \cup FixedKinds
ControlOps == {"register_fd", "register_buffer", "release"}

ASSUME ConstantsAssumption ==
  /\ MaxClients \in Nat \ {0}
  /\ RingCapacity \in Nat \ {0, 1}
  /\ PerClientCredits \in Nat \ {0}
  /\ FileSlotLimit \in Nat \ {0}
  /\ BufferSlotLimit \in Nat \ {0}
  /\ IoBytesMax \in Nat \ {0}
  /\ TaskIdReservedMin \in Nat \ {0}
  /\ ResourceIdModulus \in Nat \ {0, 1}
  /\ GenerationModulus \in Nat \ {0}
  /\ Fds \subseteq Nat
  /\ Requests \subseteq Kinds \cup ControlOps
  /\ MaxEnterFaults \in Nat

VARIABLES
  running,                  \* iouringd_run has not returned
  phase,                    \* client->phase, "closed" while client->fd < 0
  generation,               \* client->generation
  next_client_generation,   \* runtime->next_client_generation
  next_resource_id,         \* client->next_resource_id
  file_resources,           \* client->file_resources
  buffer_resources,         \* client->buffer_resources
  client_tasks,             \* client->outstanding_tasks
  client_credit_tasks,      \* client->outstanding_credit_tasks
  tasks,                    \* runtime->tasks
  next_task_id,             \* runtime->next_task_id
  outstanding_tasks,        \* runtime->outstanding_tasks
  outstanding_credit_tasks, \* runtime->outstanding_credit_tasks
  accepted_submits,         \* runtime->accepted_submits
  completions,              \* runtime->completions
  sq,                       \* SQEs written and not yet taken by the kernel
  sq_tail,                  \* *ring->sq_tail
  in_kernel,                \* SQEs the kernel has taken and not completed
  cq,                       \* CQEs posted and not yet reaped
  enter_faults,             \* failed io_uring_enter calls so far
  fixed_files,              \* the kernel's registered file table
  open_fds                  \* descriptors open in the daemon's process

clientVars == <<phase, generation, next_client_generation>>
resourceVars == <<next_resource_id, file_resources, buffer_resources,
                  fixed_files, open_fds>>
taskVars == <<tasks, next_task_id, outstanding_tasks,
              outstanding_credit_tasks, client_tasks, client_credit_tasks,
              accepted_submits, completions>>
ringVars == <<sq, sq_tail, in_kernel, cq, enter_faults>>
vars == <<running, clientVars, resourceVars, taskVars, ringVars>>

-----------------------------------------------------------------------------
Clients == 0 .. MaxClients - 1

\* Mutant: every entry of the ring is a task slot.
TaskCapacityWholeRing == RingCapacity

\* main: one entry fewer than the ring has.
TaskCapacity == RingCapacity - 1

TaskSlots == 0 .. TaskCapacity - 1

PerClientCreditLimit ==
  IF PerClientCredits > TaskCapacity THEN TaskCapacity ELSE PerClientCredits

FileSlots == 0 .. FileSlotLimit - 1
BufferSlots == 0 .. BufferSlotLimit - 1
ResourceIds == 0 .. ResourceIdModulus - 1
ResourceIdInvalid == 0

\* INT32_MAX where a resource id has 32 bits.
ResultIdMax == (ResourceIdModulus \div 2) - 1

NoFd == -1
NoSlot == -1

FreeFileSlot ==
  [resource_id |-> ResourceIdInvalid, daemon_fd |-> NoFd, in_flight |-> 0,
   registered |-> FALSE, closing |-> FALSE]

FreeBufferSlot ==
  [resource_id |-> ResourceIdInvalid, in_flight |-> 0, registered |-> FALSE,
   closing |-> FALSE, valid_length |-> 0]

ClearedTask ==
  [active |-> FALSE, consumes_credit |-> FALSE, task_id |-> 0,
   task_kind |-> "none", client_index |-> 0, client_generation |-> 0,
   file_slot_index |-> NoSlot, buffer_slot_index |-> NoSlot,
   result_file_slot_index |-> NoSlot, result_resource_id |-> ResourceIdInvalid,
   close_fd |-> NoFd]

GlobalFileIndex(c, s) == c * FileSlotLimit + s

\* A search loop returns the lowest index it finds.
FirstOf(i, S) == i \in S /\ \A j \in S : i <= j

ActiveTasks == {t \in TaskSlots : tasks[t].active}

FreeTaskSlots == {t \in TaskSlots : ~tasks[t].active}

SlotIsFree(slot) ==
  ~slot.registered /\ ~slot.closing /\ slot.in_flight = 0

FreeFileSlots(c) == {s \in FileSlots : SlotIsFree(file_resources[c][s])}

FreeBufferSlots(c) == {s \in BufferSlots : SlotIsFree(buffer_resources[c][s])}

HasRetainedResources(c) ==
  \/ \E s \in FileSlots : ~SlotIsFree(file_resources[c][s])
  \/ \E s \in BufferSlots : ~SlotIsFree(buffer_resources[c][s])

FindFileSlot(c, id) ==
  {s \in FileSlots : /\ file_resources[c][s].registered
                     /\ file_resources[c][s].resource_id = id}

FindBufferSlot(c, id) ==
  {s \in BufferSlots : /\ buffer_resources[c][s].registered
                       /\ buffer_resources[c][s].resource_id = id}

\* Mutant: the slots an ACCEPT or OPENAT has reserved are overlooked.
SlotRegistersId(slot, id) == slot.resource_id = id /\ slot.registered

SlotHoldsId(slot, id) == slot.resource_id = id /\ ~SlotIsFree(slot)

ResourceIdInUse(c, id) ==
  \/ \E s \in FileSlots : SlotHoldsId(file_resources[c][s], id)
  \/ \E s \in BufferSlots : SlotHoldsId(buffer_resources[c][s], id)

(***************************************************************************)
(* iouringd_allocate_resource_id tries as many successive ids as a client  *)
(* has slots and skips the invalid one and those in use.                   *)
(***************************************************************************)
Attempts == 0 .. FileSlotLimit + BufferSlotLimit - 1

Candidate(c, k) == (next_resource_id[c] + k) % ResourceIdModulus

UsableAttempts(c) ==
  {k \in Attempts : /\ Candidate(c, k) # ResourceIdInvalid
                    /\ ~ResourceIdInUse(c, Candidate(c, k))}

\* next_resource_id after attempt k was the one that succeeded.
IdAfterAttempt(c, k) == (next_resource_id[c] + k + 1) % ResourceIdModulus

IdAfterAllAttempts(c) ==
  (next_resource_id[c] + FileSlotLimit + BufferSlotLimit) % ResourceIdModulus

-----------------------------------------------------------------------------
Init ==
  /\ running = TRUE
  /\ phase = [c \in Clients |-> "closed"]
  /\ generation = [c \in Clients |-> 0]
  /\ next_client_generation = 0
  /\ next_resource_id = [c \in Clients |-> 1]
  /\ file_resources = [c \in Clients |-> [s \in FileSlots |-> FreeFileSlot]]
  /\ buffer_resources =
       [c \in Clients |-> [s \in BufferSlots |-> FreeBufferSlot]]
  /\ client_tasks = [c \in Clients |-> 0]
  /\ client_credit_tasks = [c \in Clients |-> 0]
  /\ tasks = [t \in TaskSlots |-> ClearedTask]
  /\ next_task_id = 1
  /\ outstanding_tasks = 0
  /\ outstanding_credit_tasks = 0
  /\ accepted_submits = 0
  /\ completions = 0
  /\ sq = << >>
  /\ sq_tail = 0
  /\ in_kernel = {}
  /\ cq = << >>
  /\ enter_faults = 0
  /\ fixed_files = [i \in 0 .. MaxClients * FileSlotLimit - 1 |-> NoFd]
  /\ open_fds = {}

-----------------------------------------------------------------------------
(***************************************************************************)
(* Connections.                                                            *)
(***************************************************************************)

\* Mutant: the tasks of the earlier connection are forgotten.
RecordLooksFree(c) == phase[c] = "closed" /\ ~HasRetainedResources(c)

\* Nothing of an earlier connection holds the record.
RecordIsFree(c) ==
  /\ phase[c] = "closed"
  /\ ~HasRetainedResources(c)
  /\ client_tasks[c] = 0

OpenClient ==
  /\ running
  /\ \E c \in Clients :
       /\ FirstOf(c, {d \in Clients : RecordIsFree(d)})
       /\ phase' = [phase EXCEPT ![c] = "handshake"]
       /\ next_client_generation' =
            (next_client_generation + 1) % GenerationModulus
       /\ generation' = [generation EXCEPT ![c] = next_client_generation']
       /\ next_resource_id' = [next_resource_id EXCEPT ![c] = 1]
       /\ file_resources' = [file_resources EXCEPT
                               ![c] = [s \in FileSlots |-> FreeFileSlot]]
       /\ buffer_resources' = [buffer_resources EXCEPT
                                 ![c] = [s \in BufferSlots |-> FreeBufferSlot]]
       /\ client_tasks' = [client_tasks EXCEPT ![c] = 0]
       /\ client_credit_tasks' = [client_credit_tasks EXCEPT ![c] = 0]
  /\ UNCHANGED <<running, tasks, next_task_id, outstanding_tasks,
                 outstanding_credit_tasks, accepted_submits, completions,
                 fixed_files, open_fds, ringVars>>

AcceptHandshake(c) ==
  /\ running
  /\ phase[c] = "handshake"
  /\ phase' = [phase EXCEPT ![c] = "submit"]
  /\ UNCHANGED <<running, generation, next_client_generation, resourceVars,
                 taskVars, ringVars>>

\* Every registered slot of a client that goes away is marked closing.
CloseClient(c) ==
  /\ running
  /\ phase[c] # "closed"
  /\ phase' = [phase EXCEPT ![c] = "closed"]
  /\ file_resources' =
       [file_resources EXCEPT ![c] =
          [s \in FileSlots |-> IF @[s].registered
                               THEN [@[s] EXCEPT !.closing = TRUE]
                               ELSE @[s]]]
  /\ buffer_resources' =
       [buffer_resources EXCEPT ![c] =
          [s \in BufferSlots |-> IF @[s].registered
                                 THEN [@[s] EXCEPT !.closing = TRUE]
                                 ELSE @[s]]]
  /\ UNCHANGED <<running, generation, next_client_generation,
                 next_resource_id, fixed_files, open_fds, taskVars, ringVars>>

-----------------------------------------------------------------------------
(***************************************************************************)
(* Registered resources.  fd is the descriptor that arrived with the       *)
(* request; the kernel gave it the lowest free number.                     *)
(***************************************************************************)
NewFd(fd) == FirstOf(fd, Fds \ open_fds)

CanRequest(c, kind) == running /\ phase[c] = "submit" /\ kind \in Requests

\* The ring refuses the descriptor or no id is usable: the fd is closed and
\* the ids that were tried stay consumed.
RegisterFdFails(c) ==
  /\ CanRequest(c, "register_fd")
  /\ Fds \ open_fds # {}
  /\ FreeFileSlots(c) # {}
  /\ \/ /\ UsableAttempts(c) = {}
        /\ next_resource_id' =
             [next_resource_id EXCEPT ![c] = IdAfterAllAttempts(c)]
     \/ \E k \in Attempts :
          /\ FirstOf(k, UsableAttempts(c))
          /\ next_resource_id' =
               [next_resource_id EXCEPT ![c] = IdAfterAttempt(c, k)]
  /\ UNCHANGED <<running, clientVars, file_resources, buffer_resources,
                 fixed_files, open_fds, taskVars, ringVars>>

RegisterFd(c) ==
  /\ CanRequest(c, "register_fd")
  /\ \E fd \in Fds, s \in FileSlots, k \in Attempts :
       /\ NewFd(fd)
       /\ FirstOf(s, FreeFileSlots(c))
       /\ FirstOf(k, UsableAttempts(c))
       /\ next_resource_id' =
            [next_resource_id EXCEPT ![c] = IdAfterAttempt(c, k)]
       /\ fixed_files' = [fixed_files EXCEPT ![GlobalFileIndex(c, s)] = fd]
       /\ file_resources' =
            [file_resources EXCEPT ![c][s] =
               [resource_id |-> Candidate(c, k), daemon_fd |-> fd,
                in_flight |-> 0, registered |-> TRUE, closing |-> FALSE]]
       /\ open_fds' = open_fds \cup {fd}
  /\ UNCHANGED <<running, clientVars, buffer_resources, taskVars, ringVars>>

RegisterBuffer(c, length) ==
  /\ CanRequest(c, "register_buffer")
  /\ FreeBufferSlots(c) # {}
  /\ \/ /\ UsableAttempts(c) = {}
        /\ next_resource_id' =
             [next_resource_id EXCEPT ![c] = IdAfterAllAttempts(c)]
        /\ UNCHANGED buffer_resources
     \/ \E s \in BufferSlots, k \in Attempts :
          /\ FirstOf(s, FreeBufferSlots(c))
          /\ FirstOf(k, UsableAttempts(c))
          /\ next_resource_id' =
               [next_resource_id EXCEPT ![c] = IdAfterAttempt(c, k)]
          /\ buffer_resources' =
               [buffer_resources EXCEPT ![c][s] =
                  [resource_id |-> Candidate(c, k), in_flight |-> 0,
                   registered |-> TRUE, closing |-> FALSE,
                   valid_length |-> length]]
  /\ UNCHANGED <<running, clientVars, file_resources, fixed_files, open_fds,
                 taskVars, ringVars>>

(***************************************************************************)
(* iouringd_try_release_file_slot and its buffer twin give a slot back     *)
(* when nothing uses it and it is not a registered one that stays.         *)
(***************************************************************************)

\* Mutant: the slot a CLOSE has emptied is not given back.
ReleasesRegistered(slot) ==
  slot.in_flight = 0 /\ slot.registered /\ slot.closing

Releases(slot) ==
  slot.in_flight = 0 /\ (slot.registered => slot.closing)

TryReleaseFile(slot) == IF Releases(slot) THEN FreeFileSlot ELSE slot

TryReleaseBuffer(slot) == IF Releases(slot) THEN FreeBufferSlot ELSE slot

\* RELEASE_RESOURCE: -EBUSY while in flight; a file is looked up first.
ReleaseResource(c, id) ==
  /\ CanRequest(c, "release")
  /\ id # ResourceIdInvalid
  /\ \/ \E s \in FileSlots :
          /\ FirstOf(s, FindFileSlot(c, id))
          /\ file_resources[c][s].in_flight = 0
          /\ file_resources' =
               [file_resources EXCEPT ![c][s] =
                  TryReleaseFile([@ EXCEPT !.closing = TRUE])]
          /\ fixed_files' =
               [fixed_files EXCEPT ![GlobalFileIndex(c, s)] = NoFd]
          /\ open_fds' = open_fds \ {file_resources[c][s].daemon_fd}
          /\ UNCHANGED buffer_resources
     \/ \E s \in BufferSlots :
          /\ FindFileSlot(c, id) = {}
          /\ FirstOf(s, FindBufferSlot(c, id))
          /\ buffer_resources[c][s].in_flight = 0
          /\ buffer_resources' =
               [buffer_resources EXCEPT ![c][s] =
                  TryReleaseBuffer([@ EXCEPT !.closing = TRUE])]
          /\ UNCHANGED <<file_resources, fixed_files, open_fds>>
  /\ UNCHANGED <<running, clientVars, next_resource_id, taskVars, ringVars>>

Sweepable(slot) == slot.closing /\ slot.in_flight = 0

\* iouringd_sweep_closing_resources, over all clients in one step.
SweepClosingResources ==
  /\ running
  /\ \E c \in Clients :
       \/ \E s \in FileSlots : Sweepable(file_resources[c][s])
       \/ \E s \in BufferSlots : Sweepable(buffer_resources[c][s])
  /\ file_resources' =
       [c \in Clients |-> [s \in FileSlots |->
          IF Sweepable(file_resources[c][s])
          THEN TryReleaseFile(file_resources[c][s])
          ELSE file_resources[c][s]]]
  /\ buffer_resources' =
       [c \in Clients |-> [s \in BufferSlots |->
          IF Sweepable(buffer_resources[c][s])
          THEN TryReleaseBuffer(buffer_resources[c][s])
          ELSE buffer_resources[c][s]]]
  /\ fixed_files' =
       [i \in DOMAIN fixed_files |->
          IF \E c \in Clients, s \in FileSlots :
               /\ i = GlobalFileIndex(c, s)
               /\ file_resources[c][s].registered
               /\ Sweepable(file_resources[c][s])
          THEN NoFd ELSE fixed_files[i]]
  /\ open_fds' =
       open_fds \ {fd \in open_fds :
                     \E c \in Clients, s \in FileSlots :
                       /\ Sweepable(file_resources[c][s])
                       /\ file_resources[c][s].daemon_fd = fd}
  /\ UNCHANGED <<running, clientVars, next_resource_id, taskVars, ringVars>>

-----------------------------------------------------------------------------
(***************************************************************************)
(* iouringd_ring_queue_sqe: the SQE is written and published, then         *)
(* io_uring_enter asks the kernel to take one entry, the oldest.  When     *)
(* enter fails the published entry stays in the queue.                     *)
(***************************************************************************)
NewSqe(kind, fd) ==
  [pos |-> sq_tail, task_id |-> next_task_id, kind |-> kind, fd |-> fd]

SqeTaken(sqe) ==
  /\ Len(sq) < RingCapacity
  /\ sq_tail' = sq_tail + 1
  /\ in_kernel' = in_kernel \cup {Head(Append(sq, sqe))}
  /\ sq' = Tail(Append(sq, sqe))
  /\ UNCHANGED <<cq, enter_faults>>

SqeRefused(sqe) ==
  \/ /\ Len(sq) >= RingCapacity
     /\ UNCHANGED ringVars
  \/ /\ Len(sq) < RingCapacity
     /\ enter_faults < MaxEnterFaults
     /\ sq_tail' = sq_tail + 1
     /\ sq' = Append(sq, sqe)
     /\ enter_faults' = enter_faults + 1
     /\ UNCHANGED <<in_kernel, cq>>

(***************************************************************************)
(* Admission, common to all task kinds.  Only CANCEL uses no credit.  Its  *)
(* target does not matter here: KernelCompletes lets any operation end at  *)
(* any time.                                                               *)
(***************************************************************************)
UsesCredit(kind) == kind # "cancel"

\* Mutant: a client may go one credit over its limit.
AdmitsOneMore(c, kind) ==
  /\ CanRequest(c, kind)
  /\ UsesCredit(kind) => /\ outstanding_credit_tasks < TaskCapacity
                         /\ client_credit_tasks[c] <= PerClientCreditLimit
  /\ ~UsesCredit(kind) => outstanding_tasks < RingCapacity
  /\ next_task_id < TaskIdReservedMin

AdmitsTask(c, kind) ==
  /\ CanRequest(c, kind)
  /\ UsesCredit(kind) => /\ outstanding_credit_tasks < TaskCapacity
                         /\ client_credit_tasks[c] < PerClientCreditLimit
  /\ ~UsesCredit(kind) => outstanding_tasks < RingCapacity
  /\ next_task_id < TaskIdReservedMin

\* f, b and r are the slots the task holds, id the id of the slot r it will
\* fill, fd the descriptor it will close.
NewTask(c, kind, f, b, r, id, fd) ==
  [active |-> TRUE, consumes_credit |-> UsesCredit(kind),
   task_id |-> next_task_id, task_kind |-> kind, client_index |-> c,
   client_generation |-> generation[c], file_slot_index |-> f,
   buffer_slot_index |-> b, result_file_slot_index |-> r,
   result_resource_id |-> id, close_fd |-> fd]

Credit(task) == IF task.consumes_credit THEN 1 ELSE 0

\* The bookkeeping that follows a successful ring submission.
StartTask(c, t, task) ==
  /\ tasks' = [tasks EXCEPT ![t] = task]
  /\ next_task_id' = next_task_id + 1
  /\ outstanding_tasks' = outstanding_tasks + 1
  /\ outstanding_credit_tasks' = outstanding_credit_tasks + Credit(task)
  /\ client_tasks' = [client_tasks EXCEPT ![c] = @ + 1]
  /\ client_credit_tasks' =
       [client_credit_tasks EXCEPT ![c] = @ + Credit(task)]
  /\ accepted_submits' = accepted_submits + 1
  /\ UNCHANGED completions

\* NOP, TIMEOUT and CANCEL touch no resource.
SubmitPlain(c, kind) ==
  /\ AdmitsTask(c, kind)
  /\ \E t \in TaskSlots :
       /\ FirstOf(t, FreeTaskSlots)
       /\ \/ /\ SqeTaken(NewSqe(kind, NoFd))
             /\ StartTask(c, t, NewTask(c, kind, NoSlot, NoSlot, NoSlot,
                                        ResourceIdInvalid, NoFd))
          \/ /\ SqeRefused(NewSqe(kind, NoFd))
             /\ UNCHANGED taskVars
  /\ UNCHANGED <<running, clientVars, resourceVars>>

ReservedSlot(id) ==
  [resource_id |-> id, daemon_fd |-> NoFd, in_flight |-> 1,
   registered |-> FALSE, closing |-> FALSE]

(***************************************************************************)
(* An OPENAT takes a file slot and an id before it looks for a task slot:  *)
(* without one it is refused and the id stays consumed.                    *)
(***************************************************************************)
SubmitOpenatFails(c) ==
  /\ AdmitsTask(c, "openat")
  /\ FreeFileSlots(c) # {}
  /\ \/ /\ UsableAttempts(c) = {}
        /\ next_resource_id' =
             [next_resource_id EXCEPT ![c] = IdAfterAllAttempts(c)]
     \/ \E k \in Attempts :
          /\ FirstOf(k, UsableAttempts(c))
          /\ FreeTaskSlots = {}
          /\ next_resource_id' =
               [next_resource_id EXCEPT ![c] = IdAfterAttempt(c, k)]
  /\ UNCHANGED <<running, clientVars, file_resources, buffer_resources,
                 fixed_files, open_fds, taskVars, ringVars>>

SubmitOpenat(c) ==
  /\ AdmitsTask(c, "openat")
  /\ \E t \in TaskSlots, r \in FileSlots, k \in Attempts :
       /\ FirstOf(r, FreeFileSlots(c))
       /\ FirstOf(k, UsableAttempts(c))
       /\ FirstOf(t, FreeTaskSlots)
       /\ \/ /\ SqeTaken(NewSqe("openat", NoFd))
             /\ StartTask(c, t, NewTask(c, "openat", NoSlot, NoSlot, r,
                                        Candidate(c, k), NoFd))
             /\ file_resources' = [file_resources EXCEPT
                                     ![c][r] = ReservedSlot(Candidate(c, k))]
             /\ next_resource_id' =
                  [next_resource_id EXCEPT ![c] = IdAfterAttempt(c, k)]
          \/ /\ SqeRefused(NewSqe("openat", NoFd))
             /\ next_resource_id' =
                  [next_resource_id EXCEPT ![c] = Candidate(c, k)]
             /\ UNCHANGED <<file_resources, taskVars>>
  /\ UNCHANGED <<running, clientVars, buffer_resources, fixed_files, open_fds>>

\* The file slot a request names; a closing slot is answered -ENOENT.
UsableFile(c, f, id) ==
  /\ id # ResourceIdInvalid
  /\ FirstOf(f, FindFileSlot(c, id))
  /\ ~file_resources[c][f].closing

UsableBuffer(c, b, id) ==
  /\ id # ResourceIdInvalid
  /\ FirstOf(b, FindBufferSlot(c, id))
  /\ ~buffer_resources[c][b].closing

\* Mutant: the registered file table keeps the descriptor.
TakeFdFromSlot(c, f) ==
  /\ file_resources' =
       [file_resources EXCEPT ![c][f] =
          [@ EXCEPT !.daemon_fd = NoFd, !.registered = FALSE,
                    !.closing = TRUE, !.in_flight = 1]]
  /\ UNCHANGED fixed_files

\* Mutant: the slot keeps the descriptor.
TakeFdFromTable(c, f) ==
  /\ fixed_files' = [fixed_files EXCEPT ![GlobalFileIndex(c, f)] = NoFd]
  /\ file_resources' =
       [file_resources EXCEPT ![c][f] =
          [@ EXCEPT !.registered = FALSE, !.closing = TRUE, !.in_flight = 1]]

(***************************************************************************)
(* A CLOSE takes the descriptor out of its slot and of the registered file *)
(* table and hands it to the kernel; a refused SQE puts it back.           *)
(***************************************************************************)
TakeFd(c, f) ==
  /\ fixed_files' = [fixed_files EXCEPT ![GlobalFileIndex(c, f)] = NoFd]
  /\ file_resources' =
       [file_resources EXCEPT ![c][f] =
          [@ EXCEPT !.daemon_fd = NoFd, !.registered = FALSE,
                    !.closing = TRUE, !.in_flight = 1]]

\* Mutant: the slot stays emptied.
PutFdAway(c, f) == TakeFd(c, f)

PutFdBack(c, f) == UNCHANGED <<fixed_files, file_resources>>

SubmitClose(c, id) ==
  /\ AdmitsTask(c, "close")
  /\ \E t \in TaskSlots, f \in FileSlots :
       /\ UsableFile(c, f, id)
       /\ file_resources[c][f].in_flight = 0
       /\ file_resources[c][f].daemon_fd >= 0
       /\ FirstOf(t, FreeTaskSlots)
       /\ LET fd == file_resources[c][f].daemon_fd
          IN \/ /\ SqeTaken(NewSqe("close", fd))
                /\ StartTask(c, t, NewTask(c, "close", f, NoSlot, NoSlot,
                                           ResourceIdInvalid, fd))
                /\ TakeFd(c, f)
             \/ /\ SqeRefused(NewSqe("close", fd))
                /\ PutFdBack(c, f)
                /\ UNCHANGED taskVars
  /\ UNCHANGED <<running, clientVars, next_resource_id, buffer_resources,
                 open_fds>>

\* Reads, writes, POLL and CONNECT on a registered file.
SubmitIo(c, id) ==
  /\ AdmitsTask(c, "io")
  /\ \E t \in TaskSlots, f \in FileSlots :
       /\ UsableFile(c, f, id)
       /\ FirstOf(t, FreeTaskSlots)
       /\ \/ /\ SqeTaken(NewSqe("io", NoFd))
             /\ StartTask(c, t, NewTask(c, "io", f, NoSlot, NoSlot,
                                        ResourceIdInvalid, NoFd))
             /\ file_resources' =
                  [file_resources EXCEPT ![c][f].in_flight = @ + 1]
          \/ /\ SqeRefused(NewSqe("io", NoFd))
             /\ UNCHANGED <<file_resources, taskVars>>
  /\ UNCHANGED <<running, clientVars, next_resource_id, buffer_resources,
                 fixed_files, open_fds>>

\* READ_FIXED and WRITE_FIXED also hold a registered buffer.
SubmitFixed(c, kind, id, buffer_id, length) ==
  /\ AdmitsTask(c, kind)
  /\ \E t \in TaskSlots, f \in FileSlots, b \in BufferSlots :
       /\ UsableFile(c, f, id)
       /\ UsableBuffer(c, b, buffer_id)
       /\ kind = "write_fixed" => length <= buffer_resources[c][b].valid_length
       /\ FirstOf(t, FreeTaskSlots)
       /\ \/ /\ SqeTaken(NewSqe(kind, NoFd))
             /\ StartTask(c, t, NewTask(c, kind, f, b, NoSlot,
                                        ResourceIdInvalid, NoFd))
             /\ file_resources' =
                  [file_resources EXCEPT ![c][f].in_flight = @ + 1]
             /\ buffer_resources' =
                  [buffer_resources EXCEPT ![c][b].in_flight = @ + 1]
          \/ /\ SqeRefused(NewSqe(kind, NoFd))
             /\ UNCHANGED <<file_resources, buffer_resources, taskVars>>
  /\ UNCHANGED <<running, clientVars, next_resource_id, fixed_files, open_fds>>

\* An ACCEPT without a usable id is refused; the ids it tried stay consumed.
SubmitAcceptFails(c, id) ==
  /\ AdmitsTask(c, "accept")
  /\ \E f \in FileSlots : /\ UsableFile(c, f, id)
                          /\ file_resources[c][f].daemon_fd >= 0
  /\ FreeTaskSlots # {}
  /\ FreeFileSlots(c) # {}
  /\ UsableAttempts(c) = {}
  /\ next_resource_id' =
       [next_resource_id EXCEPT ![c] = IdAfterAllAttempts(c)]
  /\ UNCHANGED <<running, clientVars, file_resources, buffer_resources,
                 fixed_files, open_fds, taskVars, ringVars>>

\* An ACCEPT holds the listener's slot and reserves one for its result.
SubmitAccept(c, id) ==
  /\ AdmitsTask(c, "accept")
  /\ \E t \in TaskSlots, f \in FileSlots, r \in FileSlots, k \in Attempts :
       /\ UsableFile(c, f, id)
       /\ file_resources[c][f].daemon_fd >= 0
       /\ FirstOf(t, FreeTaskSlots)
       /\ FirstOf(r, FreeFileSlots(c))
       /\ FirstOf(k, UsableAttempts(c))
       /\ \/ /\ SqeTaken(NewSqe("accept", NoFd))
             /\ StartTask(c, t, NewTask(c, "accept", f, NoSlot, r,
                                        Candidate(c, k), NoFd))
             /\ file_resources' =
                  [file_resources EXCEPT
                     ![c][f].in_flight = @ + 1,
                     ![c][r] = ReservedSlot(Candidate(c, k))]
             /\ next_resource_id' =
                  [next_resource_id EXCEPT ![c] = IdAfterAttempt(c, k)]
          \/ /\ SqeRefused(NewSqe("accept", NoFd))
             /\ next_resource_id' =
                  [next_resource_id EXCEPT ![c] = Candidate(c, k)]
             /\ UNCHANGED <<file_resources, taskVars>>
  /\ UNCHANGED <<running, clientVars, buffer_resources, fixed_files, open_fds>>

-----------------------------------------------------------------------------
(***************************************************************************)
(* The kernel ends an operation, in any order.  A result is a descriptor,  *)
(* a byte count, 0 or -1 for an error; the daemon does not tell the other  *)
(* kinds' results apart, so they are 0.                                    *)
(***************************************************************************)
KernelResult(sqe, res) ==
  \/ /\ sqe.kind \in ResultKinds \cup {"close"}
     /\ res = -1
     /\ UNCHANGED open_fds
  \/ /\ sqe.kind \in ResultKinds
     /\ NewFd(res)
     /\ open_fds' = open_fds \cup {res}
  \/ /\ sqe.kind = "close"
     /\ res = 0
     /\ open_fds' = open_fds \ {sqe.fd}
  \/ /\ sqe.kind = "read_fixed"
     /\ res \in -1 .. IoBytesMax
     /\ UNCHANGED open_fds
  \/ /\ sqe.kind \in {"nop", "cancel", "io", "write_fixed"}
     /\ res = 0
     /\ UNCHANGED open_fds

KernelCompletes ==
  /\ running
  /\ \E sqe \in in_kernel, res \in Fds \cup (-1 .. IoBytesMax) :
       /\ KernelResult(sqe, res)
       /\ in_kernel' = in_kernel \ {sqe}
       /\ cq' = Append(cq, [task_id |-> sqe.task_id, res |-> res])
  /\ UNCHANGED <<running, clientVars, next_resource_id, file_resources,
                 buffer_resources, fixed_files, taskVars, sq, sq_tail,
                 enter_faults>>

-----------------------------------------------------------------------------
Decrement(n) == IF n = 0 THEN 0 ELSE n - 1

ClientIsCurrent(task) ==
  /\ phase[task.client_index] # "closed"
  /\ generation[task.client_index] = task.client_generation

ReturnsFd(task, res) == task.task_kind \in ResultKinds /\ res >= 0

\* iouringd_prepare_accept_completion and ..._openat_completion: the ring
\* update may fail, and a peer address may be too long.
MayInstall(task, res) ==
  /\ ReturnsFd(task, res)
  /\ task.result_resource_id \in 1 .. ResultIdMax
  /\ ClientIsCurrent(task)

\* A file slot of the task's client once its result has been put in place.
PreparedSlot(task, installed, res, s) ==
  LET slot == file_resources[task.client_index][s]
  IN IF installed /\ s = task.result_file_slot_index
     THEN [slot EXCEPT !.resource_id = task.result_resource_id,
                       !.daemon_fd = res, !.registered = TRUE,
                       !.closing = FALSE]
     ELSE slot

\* Mutant: the reserved slot of a failed ACCEPT or OPENAT is not released.
ReleasedIfClosing(task, s, slot) == slot.closing

ReleasedOnCompletion(task, s, slot) ==
  slot.closing \/ (s = task.result_file_slot_index /\ ~slot.registered)

FileAfterCompletion(task, s, slot) ==
  LET done == [slot EXCEPT !.in_flight = Decrement(@)]
  IN IF s \in {task.file_slot_index, task.result_file_slot_index}
     THEN IF ReleasedOnCompletion(task, s, done) THEN TryReleaseFile(done)
                                                 ELSE done
     ELSE slot

\* Mutant: a failed operation does not let go of its buffer.
BufferAfterSuccess(task, s, slot, res) ==
  IF s # task.buffer_slot_index \/ res < 0
  THEN slot
  ELSE TryReleaseBuffer([slot EXCEPT !.in_flight = Decrement(@)])

BufferAfterCompletion(task, s, slot, res) ==
  LET length == IF task.task_kind = "read_fixed" /\ res >= 0
                THEN res ELSE slot.valid_length
      done == [slot EXCEPT !.in_flight = Decrement(@),
                           !.valid_length = length]
  IN IF s = task.buffer_slot_index
     THEN IF done.closing THEN TryReleaseBuffer(done) ELSE done
     ELSE slot

\* Mutant: a CANCEL returns a credit it never took.
ReturnCreditAlways(task) ==
  /\ outstanding_credit_tasks' = outstanding_credit_tasks - 1
  /\ client_credit_tasks' =
       [client_credit_tasks EXCEPT ![task.client_index] = Decrement(@)]

ReturnCredit(task) ==
  /\ outstanding_credit_tasks' = outstanding_credit_tasks - Credit(task)
  /\ client_credit_tasks' =
       [client_credit_tasks EXCEPT
          ![task.client_index] = IF task.consumes_credit THEN Decrement(@)
                                                         ELSE @]

\* Mutant: a completion nobody is told of is not counted.
CountDelivered(task) ==
  completions' = IF ClientIsCurrent(task) THEN completions + 1 ELSE completions

CountCompletion(task) == completions' = completions + 1

FinishTask(t, task) ==
  /\ tasks' = [tasks EXCEPT ![t] = ClearedTask]
  /\ outstanding_tasks' = outstanding_tasks - 1
  /\ client_tasks' = [client_tasks EXCEPT ![task.client_index] = Decrement(@)]
  /\ ReturnCredit(task)
  /\ CountCompletion(task)
  /\ UNCHANGED <<next_task_id, accepted_submits>>

\* Mutant: a descriptor for a client that has gone is not closed.
UnwantedFds(task, installed, res) ==
  IF ReturnsFd(task, res) /\ ~installed /\ ClientIsCurrent(task)
  THEN {res} ELSE {}

\* A result descriptor that was not put in place is closed.
RefusedFds(task, installed, res) ==
  IF ReturnsFd(task, res) /\ ~installed THEN {res} ELSE {}

CompleteTask(t, res) ==
  LET task == tasks[t]
      c == task.client_index
  IN \E installed \in BOOLEAN :
       LET Slot(s) == PreparedSlot(task, installed, res, s)
           After(s) == FileAfterCompletion(task, s, Slot(s))
           unregistered == {s \in FileSlots : /\ Slot(s).registered
                                              /\ ~After(s).registered}
           released == {s \in FileSlots : /\ Slot(s).daemon_fd >= 0
                                          /\ After(s).daemon_fd < 0}
       IN /\ installed => MayInstall(task, res)
          /\ file_resources' = [file_resources EXCEPT
                                  ![c] = [s \in FileSlots |-> After(s)]]
          /\ fixed_files' =
               [i \in DOMAIN fixed_files |->
                  IF \E s \in FileSlots : /\ i = GlobalFileIndex(c, s)
                                          /\ s = task.result_file_slot_index
                                          /\ installed
                  THEN res
                  ELSE IF \E s \in unregistered : i = GlobalFileIndex(c, s)
                       THEN NoFd
                       ELSE fixed_files[i]]
          /\ buffer_resources' =
               [buffer_resources EXCEPT ![c] =
                  [s \in BufferSlots |->
                     BufferAfterCompletion(task, s, @[s], res)]]
          /\ open_fds' =
               open_fds \ (RefusedFds(task, installed, res)
                             \cup {Slot(s).daemon_fd : s \in released})
          /\ FinishTask(t, task)

FindTaskSlot(id) == {t \in ActiveTasks : tasks[t].task_id = id}

ReapCompletion ==
  /\ running
  /\ cq # << >>
  /\ \E t \in TaskSlots :
       /\ FirstOf(t, FindTaskSlot(Head(cq).task_id))
       /\ CompleteTask(t, Head(cq).res)
  /\ cq' = Tail(cq)
  /\ UNCHANGED <<running, clientVars, next_resource_id, sq, sq_tail,
                 in_kernel, enter_faults>>

\* A completion nobody waits for ends the event loop with -EPROTO.
ReapUnknownCompletion ==
  /\ running
  /\ cq # << >>
  /\ FindTaskSlot(Head(cq).task_id) = {}
  /\ running' = FALSE
  /\ cq' = Tail(cq)
  /\ UNCHANGED <<clientVars, resourceVars, taskVars, sq, sq_tail, in_kernel,
                 enter_faults>>

(***************************************************************************)
(* iouringd_run returns: on a stop signal, or because a handler failed (a  *)
(* reply did not fit a client's output buffer, the ring did not let go of  *)
(* a registered file).                                                     *)
(***************************************************************************)
EventLoopEnds ==
  /\ running
  /\ running' = FALSE
  /\ UNCHANGED <<clientVars, resourceVars, taskVars, ringVars>>

-----------------------------------------------------------------------------
Lengths == 1 .. IoBytesMax

Request(c) ==
  \/ RegisterFd(c)
  \/ RegisterFdFails(c)
  \/ \E length \in Lengths \cup {0} : RegisterBuffer(c, length)
  \/ \E id \in ResourceIds : ReleaseResource(c, id)
  \/ \E kind \in {"nop", "cancel"} : SubmitPlain(c, kind)
  \/ SubmitOpenat(c)
  \/ SubmitOpenatFails(c)
  \/ \E id \in ResourceIds : SubmitClose(c, id)
  \/ \E id \in ResourceIds : SubmitIo(c, id)
  \/ \E id \in ResourceIds : SubmitAccept(c, id)
  \/ \E id \in ResourceIds : SubmitAcceptFails(c, id)
  \/ \E kind \in FixedKinds, id, buffer_id \in ResourceIds,
       length \in Lengths : SubmitFixed(c, kind, id, buffer_id, length)

Next ==
  \/ OpenClient
  \/ \E c \in Clients : AcceptHandshake(c)
  \/ \E c \in Clients : CloseClient(c)
  \/ \E c \in Clients : Request(c)
  \/ SweepClosingResources
  \/ KernelCompletes
  \/ ReapCompletion
  \/ ReapUnknownCompletion
  \/ EventLoopEnds

Spec == Init /\ [][Next]_vars

-----------------------------------------------------------------------------
FileSlotType ==
  [resource_id : ResourceIds, daemon_fd : Nat \cup {NoFd}, in_flight : Nat,
   registered : BOOLEAN, closing : BOOLEAN]

BufferSlotType ==
  [resource_id : ResourceIds, in_flight : Nat, registered : BOOLEAN,
   closing : BOOLEAN, valid_length : Nat]

TaskType ==
  [active : BOOLEAN, consumes_credit : BOOLEAN, task_id : Nat,
   task_kind : Kinds \cup {"none"}, client_index : Clients,
   client_generation : Nat, file_slot_index : FileSlots \cup {NoSlot},
   buffer_slot_index : BufferSlots \cup {NoSlot},
   result_file_slot_index : FileSlots \cup {NoSlot},
   result_resource_id : ResourceIds, close_fd : Nat \cup {NoFd}]

SqeType == [pos : Nat, task_id : Nat, kind : Kinds, fd : Nat \cup {NoFd}]

CqeType == [task_id : Nat, res : Nat \cup {-1}]

ClientTypeOK ==
  /\ running \in BOOLEAN
  /\ phase \in [Clients -> {"closed", "handshake", "submit"}]
  /\ generation \in [Clients -> Nat]
  /\ next_client_generation \in Nat

ResourceTypeOK ==
  /\ next_resource_id \in [Clients -> ResourceIds]
  /\ file_resources \in [Clients -> [FileSlots -> FileSlotType]]
  /\ buffer_resources \in [Clients -> [BufferSlots -> BufferSlotType]]
  /\ fixed_files \in [0 .. MaxClients * FileSlotLimit - 1 -> Nat \cup {NoFd}]
  /\ open_fds \subseteq Nat

TaskTypeOK ==
  /\ tasks \in [TaskSlots -> TaskType]
  /\ next_task_id \in Nat
  /\ outstanding_tasks \in Nat
  /\ outstanding_credit_tasks \in Nat
  /\ client_tasks \in [Clients -> Nat]
  /\ client_credit_tasks \in [Clients -> Nat]
  /\ accepted_submits \in Nat
  /\ completions \in Nat

RingTypeOK ==
  /\ sq \in Seq(SqeType)
  /\ sq_tail \in Nat
  /\ in_kernel \subseteq SqeType
  /\ cq \in Seq(CqeType)
  /\ enter_faults \in Nat

(***************************************************************************)
(* Every variable keeps its type.  The counters of struct iouringd_runtime *)
(* and struct iouringd_client are unsigned: that they are naturals says    *)
(* that none of them ever wraps below zero.                                *)
(***************************************************************************)
TypeOK == ClientTypeOK /\ ResourceTypeOK /\ TaskTypeOK /\ RingTypeOK

TasksOf(c) == {t \in ActiveTasks : tasks[t].client_index = c}
CreditTasks == {t \in ActiveTasks : tasks[t].consumes_credit}
CreditTasksOf(c) == TasksOf(c) \cap CreditTasks

(***************************************************************************)
(* The four outstanding counters are counts of the task table: nothing     *)
(* that starts, completes or abandons a task, and no client that goes away *)
(* while its tasks run, lets a counter drift.  Admission                   *)
(* (iouringd_dispatch_client_request), the credits a reply reports, the    *)
(* reuse of a client record (iouringd_open_client) and the polling of the  *)
(* ring all trust them.                                                    *)
(***************************************************************************)
CountersMatchTasks ==
  /\ outstanding_tasks = Cardinality(ActiveTasks)
  /\ outstanding_credit_tasks = Cardinality(CreditTasks)
  /\ \A c \in Clients :
       /\ client_tasks[c] = Cardinality(TasksOf(c))
       /\ client_credit_tasks[c] = Cardinality(CreditTasksOf(c))

(***************************************************************************)
(* The statistics agree: what was accepted is completed or outstanding,    *)
(* and every accepted submit took one task id.                             *)
(***************************************************************************)
StatsAddUp ==
  /\ accepted_submits = completions + outstanding_tasks
  /\ next_task_id = accepted_submits + 1

(***************************************************************************)
(* The admission limits hold whatever mix of clients and kinds is          *)
(* submitted: credits are never overdrawn, in all or per client, and the   *)
(* ids given out stay below the reserved range.                            *)
(***************************************************************************)
CreditsNotOverdrawn ==
  /\ outstanding_credit_tasks <= TaskCapacity
  /\ \A c \in Clients : client_credit_tasks[c] <= PerClientCreditLimit
  /\ \A t \in ActiveTasks : tasks[t].task_id \in 1 .. TaskIdReservedMin - 1

JobOf(task) == [id |-> task.task_id, client |-> task.client_index,
                credit |-> task.consumes_credit]

Service == INSTANCE TaskService WITH
             Capacity <- TaskCapacity, CreditLimit <- PerClientCreditLimit,
             IdLimit <- TaskIdReservedMin, serving <- running,
             connected <- {c \in Clients : phase[c] # "closed"},
             jobs <- {JobOf(tasks[t]) : t \in ActiveTasks},
             next_id <- next_task_id

(***************************************************************************)
(* The daemon implements the task service: its slots, counters, client     *)
(* records and the ring together admit, number, attribute and end tasks as *)
(* TaskService does.  No task is lost, ended twice or given an id again,   *)
(* and none outlives its connection's place.                               *)
(***************************************************************************)
ImplementsTaskService == Service!Spec

FileUsers(c, s) == {t \in TasksOf(c) : tasks[t].file_slot_index = s}
ResultUsers(c, s) == {t \in TasksOf(c) : tasks[t].result_file_slot_index = s}
BufferUsers(c, s) == {t \in TasksOf(c) : tasks[t].buffer_slot_index = s}

(***************************************************************************)
(* A slot's in_flight is the number of active tasks that name it.  The     *)
(* daemon releases, closes and reuses a slot on that number alone: a count *)
(* too low frees a descriptor or a buffer under a running operation, one   *)
(* too high retains the client record for ever.                            *)
(***************************************************************************)
InFlightMatchesTasks ==
  \A c \in Clients :
    /\ \A s \in FileSlots :
         file_resources[c][s].in_flight =
           Cardinality(FileUsers(c, s)) + Cardinality(ResultUsers(c, s))
    /\ \A s \in BufferSlots :
         buffer_resources[c][s].in_flight = Cardinality(BufferUsers(c, s))

(***************************************************************************)
(* The life of a file slot: it is free; or registered, with a descriptor,  *)
(* and closing exactly when its client has gone; or reserved by the one    *)
(* ACCEPT or OPENAT that will fill it; or emptied by the one CLOSE that    *)
(* took its descriptor.  A buffer slot has the first two states.           *)
(***************************************************************************)
SlotLifecycle ==
  \A c \in Clients :
    /\ \A s \in FileSlots :
         LET slot == file_resources[c][s]
         IN \/ slot = FreeFileSlot
            \/ /\ slot.registered
               /\ slot.daemon_fd >= 0
               /\ slot.closing <=> phase[c] = "closed"
            \/ /\ slot = ReservedSlot(slot.resource_id)
               /\ \E t \in ResultUsers(c, s) :
                    /\ ResultUsers(c, s) \cup FileUsers(c, s) = {t}
                    /\ tasks[t].task_kind \in ResultKinds
                    /\ tasks[t].result_resource_id = slot.resource_id
            \/ /\ ~slot.registered /\ slot.closing /\ slot.daemon_fd = NoFd
               /\ \E t \in FileUsers(c, s) :
                    /\ ResultUsers(c, s) \cup FileUsers(c, s) = {t}
                    /\ tasks[t].task_kind = "close"
    /\ \A s \in BufferSlots :
         LET slot == buffer_resources[c][s]
         IN \/ slot = FreeBufferSlot
            \/ slot.registered /\ (slot.closing <=> phase[c] = "closed")

(***************************************************************************)
(* A client record is not given to a new connection while a task of the    *)
(* old one runs: an active task has the generation of its client record,   *)
(* whatever the width of the generation counter, so complete_task sends a  *)
(* result to the connection that submitted the task or to nobody.          *)
(***************************************************************************)
TasksBelongToConnection ==
  \A t \in ActiveTasks :
    tasks[t].client_generation = generation[tasks[t].client_index]

(***************************************************************************)
(* The kernel's registered file table holds, at the index a slot's SQEs    *)
(* use, the slot's descriptor when the slot is registered and nothing when *)
(* it is not: no operation reaches another client's file.                  *)
(***************************************************************************)
FixedFilesMatchSlots ==
  \A c \in Clients, s \in FileSlots :
    fixed_files[GlobalFileIndex(c, s)] =
      IF file_resources[c][s].registered
      THEN file_resources[c][s].daemon_fd ELSE NoFd

SlotsInUse(c) ==
  {<<"file", s>> : s \in FileSlots \ FreeFileSlots(c)}
    \cup {<<"buffer", s>> : s \in BufferSlots \ FreeBufferSlots(c)}

IdOf(c, x) == IF x[1] = "file" THEN file_resources[c][x[2]].resource_id
                               ELSE buffer_resources[c][x[2]].resource_id

(***************************************************************************)
(* The resources of a client, the ones being opened or closed included,    *)
(* have distinct ids and none has the invalid id, also after the id        *)
(* counter wrapped (iouringd_allocate_resource_id).                        *)
(***************************************************************************)
ResourceIdsDistinct ==
  \A c \in Clients : \A x, y \in SlotsInUse(c) :
    /\ IdOf(c, x) # ResourceIdInvalid
    /\ IdOf(c, x) = IdOf(c, y) => x = y

CqFds == {i \in DOMAIN cq : \E t \in FindTaskSlot(cq[i].task_id) :
                              ReturnsFd(tasks[t], cq[i].res)}

Owners(fd) ==
  {<<"slot", x>> : x \in {y \in Clients \X FileSlots :
                            file_resources[y[1]][y[2]].daemon_fd = fd}}
    \cup {<<"sqe", e>> : e \in {e \in in_kernel :
                                  e.kind = "close" /\ e.fd = fd}}
    \cup {<<"cqe", i>> : i \in {i \in CqFds : cq[i].res = fd}}

(***************************************************************************)
(* A descriptor has one owner: a file slot, a CLOSE in the kernel or a     *)
(* completion that brings it.  An owned descriptor is open, so no close    *)
(* hits a number that has been given out again.                            *)
(***************************************************************************)
DescriptorsHaveOneOwner ==
  \A fd \in Fds : /\ Cardinality(Owners(fd)) <= 1
                  /\ Owners(fd) # {} => fd \in open_fds

\* The operations of the ring, in whichever queue they are.
RingTaskIds ==
  {sq[i].task_id : i \in DOMAIN sq} \cup {e.task_id : e \in in_kernel}
    \cup {cq[i].task_id : i \in DOMAIN cq}

(***************************************************************************)
(* The ring and the task table agree one to one: an operation the kernel   *)
(* has or has answered belongs to an active task, no task waits for an     *)
(* operation that is not there, and the queues never hold more entries     *)
(* than the ring.  With it iouringd_reap_completions never meets the       *)
(* unknown task id it ends the daemon for.                                 *)
(***************************************************************************)
RingMatchesTasks ==
  /\ RingTaskIds = {tasks[t].task_id : t \in ActiveTasks}
  /\ Cardinality(RingTaskIds) = Len(sq) + Cardinality(in_kernel) + Len(cq)
  /\ Len(sq) + Cardinality(in_kernel) + Len(cq) < RingCapacity

UnownedFds == {fd \in open_fds : Owners(fd) = {}}

(***************************************************************************)
(* No step loses a descriptor except the failure of the CLOSE that holds   *)
(* it: a client that goes away, a completion for a client that has gone, a *)
(* refused registration and a refused submission all close or keep theirs. *)
(***************************************************************************)
OnlyFailedCloseLosesFd ==
  [][\A fd \in UnownedFds' \ UnownedFds :
       \E e \in in_kernel \ in_kernel' : e.kind = "close" /\ e.fd = fd]_vars

(***************************************************************************)
(* What the kernel runs was accepted: an operation it has taken is the one *)
(* the active task with its id asked for.  The tests take a rejected       *)
(* submission to have no task (its task_id is IOURINGD_TASK_ID_INVALID)    *)
(* and a completion to be the one of the task its id names.  When          *)
(* io_uring_enter fails, iouringd_ring_queue_sqe reports the failure and   *)
(* leaves the entry in the queue, for the next submission's enter to take. *)
(***************************************************************************)
KernelRunsAcceptedTasks ==
  \A e \in in_kernel : \E t \in ActiveTasks : /\ tasks[t].task_id = e.task_id
                                              /\ tasks[t].task_kind = e.kind

(***************************************************************************)
(* NOP, TIMEOUT, CANCEL and CLOSE end by themselves.  The other operations *)
(* may wait for a peer for ever, and the daemon does not cancel them when  *)
(* their client goes.                                                      *)
(***************************************************************************)
EndingKinds == {"nop", "cancel", "close"}

KernelEnds ==
  /\ KernelCompletes
  /\ \E e \in in_kernel \ in_kernel' : e.kind \in EndingKinds

(***************************************************************************)
(* The loop reaps completions and sweeps closing resources every time      *)
(* round (iouringd_run), so both are weakly fair.  Nothing is assumed of   *)
(* clients, and of the kernel only that it ends what ends by itself.       *)
(***************************************************************************)
Fairness ==
  /\ WF_vars(ReapCompletion)
  /\ WF_vars(SweepClosingResources)
  /\ WF_vars(KernelEnds)

FairSpec == Spec /\ Fairness

\* A task of client c that may wait for ever is still in the kernel.
AwaitsPeer(c) ==
  \E e \in in_kernel : /\ e.kind \notin EndingKinds
                       /\ \E t \in TasksOf(c) : tasks[t].task_id = e.task_id

(***************************************************************************)
(* A client record whose connection closed becomes usable for a new one    *)
(* once none of its operations waits for a peer: its slots and tasks are   *)
(* all given back, whatever else was in flight, unless the daemon stops or *)
(* io_uring_enter has failed: an entry left in the queue makes every later *)
(* task wait for the next submission.                                      *)
(***************************************************************************)
ClosedClientsAreReclaimed ==
  \A c \in Clients :
    phase[c] = "closed" /\ ~AwaitsPeer(c) ~>
      \/ ~running
      \/ enter_faults > 0
      \/ phase[c] # "closed"
      \/ ~HasRetainedResources(c) /\ client_tasks[c] = 0

=============================================================================
