---------------------------- MODULE DaemonProofs ----------------------------
(***************************************************************************)
(* Proofs about Daemon, for every number of clients, slots, ring entries   *)
(* and credits and every width of the id counters.  The actions of the     *)
(* kernel and of the completion side preserve the invariant, and so, with  *)
(* DaemonRequestProofs, does every step of Next; the theorems follow, and  *)
(* with them that Daemon implements TaskService.                           *)
(***************************************************************************)
EXTENDS DaemonRequestProofs

\* A completion the kernel posts preserves the invariant.
LEMMA KernelCompletesKeeps == IInv /\ KernelCompletes => IInv'
<1> SUFFICES ASSUME IInv, KernelCompletes PROVE IInv'
  OBVIOUS
<1>1. TaskInv'
  BY TasksUntouched DEF IInv, KernelCompletes, clientVars
<1>2. ClientTypeOK'
  BY DEF KernelCompletes, IInv, ClientTypeOK, clientVars
<1>3. PICK sqe \in in_kernel, res \in Fds \cup (-1 .. IoBytesMax) :
        /\ KernelResult(sqe, res)
        /\ in_kernel' = in_kernel \ {sqe}
        /\ cq' = Append(cq, [task_id |-> sqe.task_id, res |-> res])
  BY DEF KernelCompletes
<1>4. res \in Nat \cup {-1}
  BY ConstantsAssumption
<1>5. RingTypeOK'
  <2>1. [task_id |-> sqe.task_id, res |-> res] \in CqeType
    BY <1>4 DEF IInv, RingTypeOK, SqeType, CqeType
  <2>2. cq' \in Seq(CqeType)
    BY <1>3, <2>1, SMTT(30) DEF IInv, RingTypeOK
  <2>3. in_kernel' \subseteq SqeType
    BY <1>3 DEF IInv, RingTypeOK
  <2>4. QED
    BY <2>2, <2>3 DEF KernelCompletes, IInv, RingTypeOK
<1>6. open_fds' \subseteq Nat
  <2>1. \/ open_fds' = open_fds
        \/ open_fds' = open_fds \ {sqe.fd}
        \/ open_fds' = open_fds \cup {res} /\ res \in Fds
    <3>1. NewFd(res) => res \in Fds
      BY DEF NewFd, FirstOf
    <3>2. QED
      BY <1>3, <3>1, Zenon DEF KernelResult
  <2>2. open_fds \subseteq Nat /\ Fds \subseteq Nat
    BY ConstantsAssumption DEF IInv, ResourceTypeOK
  <2>3. QED
    BY <2>1, <2>2, ZenonT(30)
<1>7. ResourceTypeOK'
  BY <1>6 DEF KernelCompletes, IInv, ResourceTypeOK
<1>8. QED
  BY <1>1, <1>2, <1>5, <1>7 DEF IInv

\* iouringd_complete_task leaves a typed file slot.
LEMMA FileAfterCompletionTyped ==
  ASSUME NEW slot \in FileSlotType, NEW task \in TaskType, NEW s \in FileSlots
  PROVE  FileAfterCompletion(task, s, slot) \in FileSlotType
<1> DEFINE done == [slot EXCEPT !.in_flight = Decrement(@)]
<1>1. done \in FileSlotType
  BY DEF FileSlotType, Decrement
<1>2. TryReleaseFile(done) \in FileSlotType
  BY <1>1, ReleaseTyped, Zenon
<1> HIDE DEF done
<1>3. QED
  BY <1>1, <1>2 DEF FileAfterCompletion, done

\* iouringd_complete_task leaves a typed buffer slot.
LEMMA BufferAfterCompletionTyped ==
  ASSUME NEW slot \in BufferSlotType, NEW task \in TaskType,
         NEW s \in BufferSlots, NEW res \in Nat \cup {-1}
  PROVE  BufferAfterCompletion(task, s, slot, res) \in BufferSlotType
<1> DEFINE length == IF task.task_kind = "read_fixed" /\ res >= 0
                     THEN res ELSE slot.valid_length
           done == [slot EXCEPT !.in_flight = Decrement(@),
                                !.valid_length = length]
<1>1. length \in Nat
  BY DEF BufferSlotType
<1> HIDE DEF length
<1>2. done \in BufferSlotType
  <2>1. Decrement(slot.in_flight) \in Nat
    BY DEF BufferSlotType, Decrement
  <2>2. QED
    BY <1>1, <2>1, Zenon DEF BufferSlotType
<1>3. TryReleaseBuffer(done) \in BufferSlotType
  BY <1>2, ReleaseTyped, ZenonT(30)
<1> HIDE DEF done
<1>4. QED
  BY <1>2, <1>3 DEF BufferAfterCompletion, done, length

\* iouringd_complete_task leaves well typed resources.
LEMMA CompleteTaskTyped ==
  ASSUME IInv, NEW t \in ActiveTasks, NEW res \in Nat \cup {-1},
         CompleteTask(t, res), UNCHANGED next_resource_id
  PROVE  ResourceTypeOK'
<1>1. tasks[t] \in TaskType /\ tasks[t].client_index \in Clients
  BY DEF IInv, TaskInv, TaskTypeOK, TaskType, ActiveTasks
<1>2. PICK task \in TaskType, c \in Clients :
        task = tasks[t] /\ c = task.client_index
  BY <1>1
<1>3. PICK installed \in BOOLEAN :
        /\ installed => MayInstall(task, res)
        /\ file_resources' =
             [file_resources EXCEPT ![c] =
                [s \in FileSlots |->
                   FileAfterCompletion(task, s,
                                       PreparedSlot(task, installed, res, s))]]
        /\ \A i \in DOMAIN fixed_files :
             fixed_files'[i] \in {fixed_files[i], NoFd}
               \cup (IF installed THEN {res} ELSE {})
        /\ DOMAIN fixed_files' = DOMAIN fixed_files
        /\ fixed_files' = [i \in DOMAIN fixed_files |-> fixed_files'[i]]
        /\ buffer_resources' =
             [buffer_resources EXCEPT ![c] =
                [s \in BufferSlots |->
                   BufferAfterCompletion(task, s, @[s], res)]]
        /\ open_fds' \subseteq open_fds
  BY <1>2, ZenonT(30) DEF CompleteTask
<1>4. installed => res \in Nat
  BY <1>3 DEF MayInstall, ReturnsFd
<1>5. \A s \in FileSlots : PreparedSlot(task, installed, res, s) \in FileSlotType
  <2>1. ASSUME NEW s \in FileSlots
        PROVE  PreparedSlot(task, installed, res, s) \in FileSlotType
    <3>1. file_resources[c][s] \in FileSlotType
      BY DEF IInv, ResourceTypeOK
    <3>2. task.result_resource_id \in ResourceIds
      BY DEF TaskType
    <3>3. QED
      BY <1>2, <1>4, <3>1, <3>2, ZenonT(30) DEF PreparedSlot, FileSlotType
  <2>2. QED
    BY <2>1
<1>6. file_resources' \in [Clients -> [FileSlots -> FileSlotType]]
  BY <1>3, <1>5, FileAfterCompletionTyped DEF IInv, ResourceTypeOK
<1>7. buffer_resources' \in [Clients -> [BufferSlots -> BufferSlotType]]
  <2>1. \A s \in BufferSlots : buffer_resources[c][s] \in BufferSlotType
    BY SMTT(30) DEF IInv, ResourceTypeOK
  <2>2. QED
    BY <1>3, <2>1, BufferAfterCompletionTyped DEF IInv, ResourceTypeOK
<1>8. fixed_files' \in [0 .. MaxClients * FileSlotLimit - 1 ->
                          Nat \cup {NoFd}]
  BY <1>3, <1>4 DEF IInv, ResourceTypeOK
<1>9. QED
  BY <1>3, <1>6, <1>7, <1>8, SMTT(30) DEF IInv, ResourceTypeOK

\* Taking the first entry off a queue leaves a queue of the same entries.
LEMMA QueueTail ==
  ASSUME NEW S, NEW q \in Seq(S), q # << >>
  PROVE  Head(q) \in S /\ Tail(q) \in Seq(S)
  OBVIOUS

\* Reaping the completion of an active task preserves the invariant.
LEMMA ReapCompletionKeeps == IInv /\ ReapCompletion => IInv'
<1> SUFFICES ASSUME IInv, ReapCompletion PROVE IInv'
  OBVIOUS
<1>1. /\ Head(cq) \in CqeType
      /\ Tail(cq) \in Seq(CqeType)
  <2>1. cq \in Seq(CqeType) /\ cq # << >>
    BY SMTT(30) DEF ReapCompletion, IInv, RingTypeOK
  <2>2. QED
    BY <2>1, QueueTail
<1>2. PICK t \in ActiveTasks, res \in Nat \cup {-1} : CompleteTask(t, res)
  BY <1>1 DEF ReapCompletion, FirstOf, FindTaskSlot, CqeType
<1>3. UNCHANGED <<running, clientVars, next_resource_id>>
  BY DEF ReapCompletion
<1>4. TaskInv'
  <2>1. FinishTask(t, tasks[t])
    BY <1>2, Zenon DEF CompleteTask
  <2>2. QED
    BY <1>3, <2>1, FinishTaskCounted, SMTT(30) DEF IInv, clientVars
<1>5. ResourceTypeOK'
  BY <1>2, <1>3, CompleteTaskTyped
<1>6. ClientTypeOK'
  BY <1>3 DEF IInv, ClientTypeOK, clientVars
<1>7. RingTypeOK'
  BY <1>1 DEF ReapCompletion, IInv, RingTypeOK
<1>8. QED
  BY <1>4, <1>5, <1>6, <1>7 DEF IInv

\* Leaving the event loop preserves the invariant.
LEMMA LoopEndsKeeps ==
  IInv /\ (ReapUnknownCompletion \/ EventLoopEnds) => IInv'
<1> SUFFICES ASSUME IInv, ReapUnknownCompletion \/ EventLoopEnds PROVE IInv'
  OBVIOUS
<1>1. TaskInv'
  BY TasksUntouched, SMTT(30)
     DEF IInv, ReapUnknownCompletion, EventLoopEnds, clientVars
<1>2. ClientTypeOK' /\ ResourceTypeOK'
  BY ZenonT(30)
     DEF ReapUnknownCompletion, EventLoopEnds, IInv, ClientTypeOK, clientVars,
         ResourceTypeOK, resourceVars
<1>3. RingTypeOK'
  <2>1. CASE ReapUnknownCompletion
    <3>1. cq \in Seq(CqeType) /\ cq # << >>
      BY <2>1, ZenonT(30) DEF ReapUnknownCompletion, IInv, RingTypeOK
    <3>2. cq' \in Seq(CqeType)
      BY <2>1, <3>1, QueueTail, ZenonT(30) DEF ReapUnknownCompletion
    <3>3. QED
      BY <2>1, <3>2, Zenon DEF ReapUnknownCompletion, IInv, RingTypeOK
  <2>2. CASE EventLoopEnds
    BY <2>2 DEF EventLoopEnds, IInv, RingTypeOK, ringVars
  <2>3. QED
    BY <2>1, <2>2
<1>4. QED
  BY <1>1, <1>2, <1>3 DEF IInv

\* So does a step that changes nothing.
LEMMA StutterKeeps == IInv /\ UNCHANGED vars => IInv'
<1> SUFFICES ASSUME IInv, UNCHANGED vars PROVE IInv'
  OBVIOUS
<1>1. TaskInv'
  BY TasksUntouched, SMTT(30) DEF IInv, vars, clientVars
<1>2. ClientTypeOK' /\ ResourceTypeOK' /\ RingTypeOK'
  BY DEF IInv, vars, ClientTypeOK, clientVars, ResourceTypeOK, resourceVars,
         RingTypeOK, ringVars
<1>3. QED
  BY <1>1, <1>2 DEF IInv

-----------------------------------------------------------------------------
\* The invariant holds when the daemon starts.
LEMMA InitIInv == Init => IInv
<1> SUFFICES ASSUME Init PROVE IInv
  OBVIOUS
<1>1. ActiveTasks = {} /\ CreditTasks = {}
  BY DEF Init, ActiveTasks, CreditTasks, ClearedTask
<1>2. \A c \in Clients : TasksOf(c) = {} /\ CreditTasksOf(c) = {}
  BY <1>1, SMTT(30) DEF TasksOf, CreditTasksOf
<1>3. CountersMatchTasks
  BY <1>1, <1>2, FS_EmptySet, ZenonT(30) DEF Init, CountersMatchTasks
<1>4. StatsAddUp /\ TasksBelongToConnection
  <2>1. /\ accepted_submits = 0 /\ completions = 0
        /\ outstanding_tasks = 0 /\ next_task_id = 1
    BY DEF Init
  <2>2. QED
    BY <1>1, <2>1 DEF StatsAddUp, TasksBelongToConnection
<1>5. CreditsNotOverdrawn
  <2>1. /\ outstanding_credit_tasks = 0
        /\ \A c \in Clients : client_credit_tasks[c] = 0
    BY DEF Init
  <2>2. 0 <= TaskCapacity /\ 0 <= PerClientCreditLimit
    BY ConstantsAssumption, SMTT(30) DEF TaskCapacity, PerClientCreditLimit
  <2>3. QED
    BY <1>1, <2>1, <2>2, SMTT(30) DEF CreditsNotOverdrawn
<1>6. QED
  BY <1>3, <1>4, <1>5, InitTypeOK, SMTT(30) DEF IInv, TaskInv, TypeOK

\* Every request of a client preserves the invariant.
LEMMA RequestKeeps == \A c \in Clients : IInv /\ Request(c) => IInv'
BY RegisterFdKeeps, RegisterBufferKeeps, ReleaseResourceKeeps, SMTT(30),
   SubmitPlainKeeps, SubmitOpenatKeeps, SubmitOpenatFailsKeeps,
   SubmitCloseKeeps, SubmitIoKeeps, SubmitAcceptKeeps,
   SubmitAcceptFailsKeeps, SubmitFixedKeeps
DEF Request

\* Every step of the daemon preserves the invariant.
LEMMA NextKeeps == IInv /\ [Next]_vars => IInv'
BY OpenClientKeeps, AcceptHandshakeKeeps, CloseClientKeeps, RequestKeeps,
   SweepKeeps, KernelCompletesKeeps, ReapCompletionKeeps, LoopEndsKeeps,
   StutterKeeps, SMTT(30)
DEF Next

(***************************************************************************)
(* IInv is an invariant of the daemon.                                     *)
(***************************************************************************)
THEOREM Invariance == Spec => []IInv
BY InitIInv, NextKeeps, PTL DEF Spec

(***************************************************************************)
(* Every variable of the runtime keeps its type; in particular no          *)
(* outstanding counter and no in_flight count wraps below zero.            *)
(***************************************************************************)
THEOREM TypeCorrect == Spec => []TypeOK
<1>1. IInv => TypeOK
  BY DEF IInv, TaskInv, TypeOK
<1>2. QED
  BY Invariance, <1>1, PTL

(***************************************************************************)
(* The outstanding counters of the runtime and of every client are the     *)
(* counts of the task table, for any clients, kinds and ring failures.     *)
(***************************************************************************)
THEOREM CountersCorrect == Spec => []CountersMatchTasks
<1>1. IInv => CountersMatchTasks
  BY DEF IInv, TaskInv
<1>2. QED
  BY Invariance, <1>1, PTL

(***************************************************************************)
(* accepted_submits = completions + outstanding_tasks, at all times.       *)
(***************************************************************************)
THEOREM StatsCorrect == Spec => []StatsAddUp
<1>1. IInv => StatsAddUp
  BY DEF IInv, TaskInv
<1>2. QED
  BY Invariance, <1>1, PTL

(***************************************************************************)
(* Admission never overdraws the credits of the ring or of a client, and   *)
(* no task id reaches the reserved range.                                  *)
(***************************************************************************)
THEOREM AdmissionBounded == Spec => []CreditsNotOverdrawn
<1>1. IInv => CreditsNotOverdrawn
  BY DEF IInv, TaskInv
<1>2. QED
  BY Invariance, <1>1, PTL

(***************************************************************************)
(* A running task always belongs to the connection its client record       *)
(* holds or last held, even when the generation counter wraps: a result is *)
(* never sent to a later connection that took the record over.             *)
(***************************************************************************)
THEOREM ResultsStayWithConnection == Spec => []TasksBelongToConnection
<1>1. IInv => TasksBelongToConnection
  BY DEF IInv, TaskInv
<1>2. QED
  BY Invariance, <1>1, PTL

(***************************************************************************)
(* Daemon implements TaskService.  A step of the daemon starts one task,   *)
(* ends one task, opens or closes a connection, stops, or is invisible;    *)
(* with the invariant and the distinctness of running task ids each maps   *)
(* to one step of the service or to none.                                  *)
(***************************************************************************)

\* No two running tasks share an id, and the next id is new.
IdsInv ==
  \A t \in ActiveTasks :
    /\ tasks[t].task_id < next_task_id
    /\ \A u \in ActiveTasks : tasks[u].task_id = tasks[t].task_id => u = t

\* What a step of the daemon is to the service.
Starts(c, kind, t) ==
  /\ AdmitsTask(c, kind)
  /\ t \in FreeTaskSlots
  /\ \E f, b, r, id, fd \in Int :
       StartTask(c, t, NewTask(c, kind, f, b, r, id, fd))
  /\ UNCHANGED <<running, phase>>

Ends(t) ==
  /\ t \in ActiveTasks
  /\ running
  /\ FinishTask(t, tasks[t])
  /\ UNCHANGED <<running, phase>>

Stops ==
  /\ running
  /\ running' = FALSE
  /\ UNCHANGED <<phase, taskVars>>

Invisible ==
  /\ UNCHANGED <<running, taskVars>>
  /\ \A c \in Clients : phase'[c] = "closed" <=> phase[c] = "closed"

Closes(c) ==
  /\ running
  /\ phase[c] # "closed"
  /\ phase' = [phase EXCEPT ![c] = "closed"]
  /\ UNCHANGED <<running, taskVars>>

Opens(c) ==
  /\ running
  /\ phase[c] = "closed"
  /\ client_tasks[c] = 0
  /\ phase' = [phase EXCEPT ![c] = "handshake"]
  /\ UNCHANGED <<running, tasks, next_task_id>>

\* A request of a client starts a task or is invisible to the service.
LEMMA RequestSteps ==
  ASSUME IInv, NEW c \in Clients, Request(c)
  PROVE  \/ Invisible
         \/ \E kind \in Kinds, t \in TaskSlots : Starts(c, kind, t)
<1> USE DEF FirstOf
<1>0. /\ NoSlot \in Int /\ ResourceIdInvalid \in Int /\ NoFd \in Int
      /\ FileSlots \subseteq Int /\ BufferSlots \subseteq Int
      /\ \A k \in Attempts : Candidate(c, k) \in Int
  <2>1. \A k \in Attempts : Candidate(c, k) \in ResourceIds
    BY IdsTyped DEF IInv
  <2> QED
    BY <2>1 DEF NoSlot, ResourceIdInvalid, NoFd, FileSlots, BufferSlots,
                ResourceIds
<1>a. \A f \in FileSlots : file_resources[c][f].daemon_fd \in Int
  BY DEF IInv, ResourceTypeOK, FileSlotType, NoFd
<1>1. CASE RegisterFd(c) \/ RegisterFdFails(c)
  BY <1>1, Zenon DEF RegisterFd, RegisterFdFails, Invisible, clientVars
<1>2. ASSUME NEW length \in Lengths \cup {0}, RegisterBuffer(c, length)
      PROVE  Invisible
  BY <1>2, Zenon DEF RegisterBuffer, Invisible, clientVars
<1>3. ASSUME NEW id \in ResourceIds, ReleaseResource(c, id) PROVE Invisible
  BY <1>3, Zenon DEF ReleaseResource, Invisible, clientVars
<1>4. ASSUME NEW kind \in {"nop", "cancel"}, SubmitPlain(c, kind)
      PROVE  Invisible \/ \E t \in TaskSlots : Starts(c, kind, t)
  <2>1. UNCHANGED <<running, phase>> /\ AdmitsTask(c, kind)
    BY <1>4, Zenon DEF SubmitPlain, clientVars
  <2>2. PICK t \in FreeTaskSlots :
          \/ StartTask(c, t, NewTask(c, kind, NoSlot, NoSlot, NoSlot,
                                     ResourceIdInvalid, NoFd))
          \/ UNCHANGED taskVars
    BY <1>4, Zenon DEF SubmitPlain
  <2> QED
    BY <1>0, <2>1, <2>2, Zenon DEF Starts, Invisible, FreeTaskSlots
<1>5. CASE SubmitOpenat(c)
  <2>1. UNCHANGED <<running, phase>> /\ AdmitsTask(c, "openat")
    BY <1>5, Zenon DEF SubmitOpenat, clientVars
  <2>2. PICK t \in FreeTaskSlots, r \in FileSlots, k \in Attempts :
          \/ StartTask(c, t, NewTask(c, "openat", NoSlot, NoSlot, r,
                                     Candidate(c, k), NoFd))
          \/ UNCHANGED taskVars
    BY <1>5, Zenon DEF SubmitOpenat
  <2>3. "openat" \in Kinds
    BY DEF Kinds, ResultKinds
  <2>4. r \in Int /\ Candidate(c, k) \in Int
    BY <1>0
  <2> QED
    BY <1>0, <2>1, <2>2, <2>3, <2>4, Zenon DEF Starts, Invisible, FreeTaskSlots
<1>6. CASE SubmitOpenatFails(c)
  BY <1>6, Zenon DEF SubmitOpenatFails, Invisible, clientVars
<1>7. ASSUME NEW id \in ResourceIds, SubmitClose(c, id)
      PROVE  Invisible \/ \E t \in TaskSlots : Starts(c, "close", t)
  <2>1. UNCHANGED <<running, phase>> /\ AdmitsTask(c, "close")
    BY <1>7, Zenon DEF SubmitClose, clientVars
  <2>2. PICK t \in FreeTaskSlots, f \in FileSlots :
          \/ StartTask(c, t, NewTask(c, "close", f, NoSlot, NoSlot,
                                     ResourceIdInvalid,
                                     file_resources[c][f].daemon_fd))
          \/ UNCHANGED taskVars
    BY <1>7, Zenon DEF SubmitClose
  <2>4. f \in Int /\ file_resources[c][f].daemon_fd \in Int
    BY <1>0, <1>a
  <2> QED
    BY <1>0, <2>1, <2>2, <2>4, Zenon DEF Starts, Invisible, FreeTaskSlots
<1>8. ASSUME NEW id \in ResourceIds, SubmitIo(c, id)
      PROVE  Invisible \/ \E t \in TaskSlots : Starts(c, "io", t)
  <2>1. UNCHANGED <<running, phase>> /\ AdmitsTask(c, "io")
    BY <1>8, Zenon DEF SubmitIo, clientVars
  <2>2. PICK t \in FreeTaskSlots, f \in FileSlots :
          \/ StartTask(c, t, NewTask(c, "io", f, NoSlot, NoSlot,
                                     ResourceIdInvalid, NoFd))
          \/ UNCHANGED taskVars
    BY <1>8, Zenon DEF SubmitIo
  <2>4. f \in Int
    BY <1>0
  <2> QED
    BY <1>0, <2>1, <2>2, <2>4, Zenon DEF Starts, Invisible, FreeTaskSlots
<1>9. ASSUME NEW id \in ResourceIds, SubmitAccept(c, id)
      PROVE  Invisible \/ \E t \in TaskSlots : Starts(c, "accept", t)
  <2>1. UNCHANGED <<running, phase>> /\ AdmitsTask(c, "accept")
    BY <1>9, Zenon DEF SubmitAccept, clientVars
  <2>2. PICK t \in FreeTaskSlots, f \in FileSlots, r \in FileSlots,
             k \in Attempts :
          \/ StartTask(c, t, NewTask(c, "accept", f, NoSlot, r,
                                     Candidate(c, k), NoFd))
          \/ UNCHANGED taskVars
    BY <1>9, ZenonT(40) DEF SubmitAccept
  <2>4. f \in Int /\ r \in Int /\ Candidate(c, k) \in Int
    BY <1>0
  <2> QED
    BY <1>0, <2>1, <2>2, <2>4, Zenon DEF Starts, Invisible, FreeTaskSlots
<1>10. ASSUME NEW id \in ResourceIds, SubmitAcceptFails(c, id) PROVE Invisible
  BY <1>10, Zenon DEF SubmitAcceptFails, Invisible, clientVars
<1>11. ASSUME NEW kind \in FixedKinds, NEW id \in ResourceIds,
              NEW buffer_id \in ResourceIds, NEW length \in Lengths,
              SubmitFixed(c, kind, id, buffer_id, length)
       PROVE  Invisible \/ \E t \in TaskSlots : Starts(c, kind, t)
  <2>1. UNCHANGED <<running, phase>> /\ AdmitsTask(c, kind)
    BY <1>11, Zenon DEF SubmitFixed, clientVars
  <2>2. PICK t \in FreeTaskSlots, f \in FileSlots, b \in BufferSlots :
          \/ StartTask(c, t, NewTask(c, kind, f, b, NoSlot,
                                     ResourceIdInvalid, NoFd))
          \/ UNCHANGED taskVars
    BY <1>11, Zenon DEF SubmitFixed
  <2>4. f \in Int /\ b \in Int
    BY <1>0
  <2> QED
    BY <1>0, <2>1, <2>2, <2>4, Zenon DEF Starts, Invisible, FreeTaskSlots
<1>12. /\ {"nop", "cancel"} \subseteq Kinds /\ FixedKinds \subseteq Kinds
       /\ "close" \in Kinds /\ "io" \in Kinds /\ "accept" \in Kinds
  BY DEF Kinds, ResultKinds
<1> QED
  BY <1>1, <1>2, <1>3, <1>4, <1>5, <1>6, <1>7, <1>8, <1>9, <1>10, <1>11,
     <1>12, ZenonT(40) DEF Request

\* Every step of the daemon is one of these for the service.
LEMMA StepKinds ==
  ASSUME IInv, [Next]_vars
  PROVE  \/ Invisible
         \/ \E c \in Clients, kind \in Kinds, t \in TaskSlots :
              Starts(c, kind, t)
         \/ \E t \in TaskSlots : Ends(t)
         \/ \E c \in Clients : Opens(c) \/ Closes(c)
         \/ Stops
<1>1. CASE OpenClient
  BY <1>1, Zenon DEF OpenClient, Opens, RecordIsFree, FirstOf
<1>2. ASSUME NEW c \in Clients, AcceptHandshake(c) PROVE Invisible
  <2>1. /\ phase \in [Clients -> {"closed", "handshake", "submit"}]
        /\ phase[c] = "handshake" /\ phase' = [phase EXCEPT ![c] = "submit"]
    BY <1>2, Zenon DEF AcceptHandshake, IInv, ClientTypeOK
  <2>2. UNCHANGED <<running, taskVars>>
    BY <1>2, Zenon DEF AcceptHandshake
  <2> QED
    BY <2>1, <2>2 DEF Invisible
<1>3. ASSUME NEW c \in Clients, CloseClient(c) PROVE Closes(c)
  BY <1>3, Zenon DEF CloseClient, Closes
<1>4. CASE SweepClosingResources
  BY <1>4, Zenon DEF SweepClosingResources, Invisible, clientVars
<1>5. CASE KernelCompletes
  BY <1>5, Zenon DEF KernelCompletes, Invisible, clientVars
<1>6. CASE ReapCompletion
  <2>1. PICK t \in ActiveTasks : CompleteTask(t, Head(cq).res)
    BY <1>6, Zenon DEF ReapCompletion, FirstOf, FindTaskSlot
  <2>2. FinishTask(t, tasks[t])
    BY <2>1, Zenon DEF CompleteTask
  <2> QED
    BY <1>6, <2>2, Zenon DEF ReapCompletion, Ends, ActiveTasks, clientVars
<1>7. CASE ReapUnknownCompletion \/ EventLoopEnds
  BY <1>7, Zenon DEF ReapUnknownCompletion, EventLoopEnds, Stops, clientVars
<1>8. CASE UNCHANGED vars
  BY <1>8, Zenon DEF vars, Invisible, clientVars
<1> QED
  BY <1>1, <1>2, <1>3, <1>4, <1>5, <1>6, <1>7, <1>8, RequestSteps, ZenonT(40)
  DEF Next

\* What a task that starts does to the task table.
LEMMA StartsFacts ==
  ASSUME IInv, NEW c \in Clients, NEW kind \in Kinds, NEW t \in TaskSlots,
         Starts(c, kind, t)
  PROVE  /\ ~tasks[t].active /\ next_task_id \in Nat
         /\ next_task_id' = next_task_id + 1
         /\ tasks'[t].task_id = next_task_id
         /\ ActiveTasks' = ActiveTasks \cup {t} /\ t \notin ActiveTasks
         /\ \A u \in ActiveTasks : tasks'[u] = tasks[u]
         /\ JobOf(tasks'[t]) = [id |-> next_task_id, client |-> c,
                                credit |-> UsesCredit(kind)]
<1>1. PICK f \in Int, b \in Int, r \in Int, id \in Int, fd \in Int :
        StartTask(c, t, NewTask(c, kind, f, b, r, id, fd))
  BY Zenon DEF Starts
<1> DEFINE task == NewTask(c, kind, f, b, r, id, fd)
<1>2. /\ task.active /\ task.task_id = next_task_id
      /\ task.client_index = c /\ task.consumes_credit = UsesCredit(kind)
  BY DEF NewTask
<1> HIDE DEF task
<1>3. /\ tasks' = [tasks EXCEPT ![t] = task]
      /\ next_task_id' = next_task_id + 1
  BY <1>1, SMTT(30) DEF StartTask, task
<1>4. tasks \in [TaskSlots -> TaskType] /\ next_task_id \in Nat
  BY DEF IInv, TaskInv, TaskTypeOK
<1>5. ~tasks[t].active
  BY DEF Starts, FreeTaskSlots
<1>6. tasks'[t] = task /\ \A u \in TaskSlots \ {t} : tasks'[u] = tasks[u]
  BY <1>3, <1>4
<1>7. ActiveTasks' = ActiveTasks \cup {t} /\ t \notin ActiveTasks
  BY <1>2, <1>5, <1>6, ZenonT(40) DEF ActiveTasks
<1>8. \A u \in ActiveTasks : tasks'[u] = tasks[u]
  BY <1>6, <1>7, SMTT(30) DEF ActiveTasks
<1>9. JobOf(tasks'[t]) = [id |-> next_task_id, client |-> c,
                          credit |-> UsesCredit(kind)]
  BY <1>2, <1>6, SMTT(30) DEF JobOf
<1> QED
  BY <1>2, <1>3, <1>4, <1>5, <1>6, <1>7, <1>8, <1>9, SMTT(30)

\* What a task that ends does to the task table.
LEMMA EndsFacts ==
  ASSUME IInv, NEW t \in TaskSlots, Ends(t)
  PROVE  /\ ActiveTasks' = ActiveTasks \ {t} /\ t \in ActiveTasks
         /\ \A u \in ActiveTasks' : tasks'[u] = tasks[u]
         /\ next_task_id' = next_task_id
<1>1. /\ tasks' = [tasks EXCEPT ![t] = ClearedTask]
      /\ next_task_id' = next_task_id
  BY SMTT(30) DEF Ends, FinishTask
<1>2. tasks \in [TaskSlots -> TaskType] /\ ~ClearedTask.active
  BY DEF IInv, TaskInv, TaskTypeOK, ClearedTask
<1>3. ~tasks'[t].active /\ \A u \in TaskSlots \ {t} : tasks'[u] = tasks[u]
  BY <1>1, <1>2
<1>4. ActiveTasks' = ActiveTasks \ {t}
  BY <1>3 DEF ActiveTasks
<1> QED
  BY <1>1, <1>3, <1>4, SMTT(30) DEF Ends, ActiveTasks

-----------------------------------------------------------------------------
(***************************************************************************)
(* The ids of running tasks are distinct and below next_task_id, whatever  *)
(* was refused, completed or failed in between.                            *)
(***************************************************************************)
THEOREM TaskIdsDistinct == Spec => []IdsInv
<1>1. Init => IdsInv
  BY DEF Init, IdsInv, ActiveTasks, ClearedTask
<1>2. IInv /\ IdsInv /\ [Next]_vars => IdsInv'
  <2> SUFFICES ASSUME IInv, IdsInv, [Next]_vars PROVE IdsInv'
    OBVIOUS
  <2>1. ASSUME UNCHANGED <<tasks, next_task_id>> PROVE IdsInv'
    BY <2>1 DEF IdsInv, ActiveTasks
  <2>2. ASSUME NEW c \in Clients, NEW kind \in Kinds, NEW t \in TaskSlots,
               Starts(c, kind, t)
        PROVE  IdsInv'
    <3>1. /\ next_task_id \in Nat /\ next_task_id' = next_task_id + 1
          /\ ActiveTasks' = ActiveTasks \cup {t} /\ t \notin ActiveTasks
          /\ \A u \in ActiveTasks : tasks'[u] = tasks[u]
          /\ tasks'[t].task_id = next_task_id
      BY <2>2, StartsFacts, Zenon
    <3>2. \A u \in ActiveTasks : tasks[u].task_id \in Nat
      BY DEF IInv, TaskInv, TaskTypeOK, TaskType, ActiveTasks
    <3> QED
      BY <3>1, <3>2 DEF IdsInv
  <2>3. ASSUME NEW t \in TaskSlots, Ends(t) PROVE IdsInv'
    BY <2>3, EndsFacts DEF IdsInv
  <2> QED
    BY <2>1, <2>2, <2>3, StepKinds, Zenon
    DEF Invisible, Opens, Closes, Stops, taskVars
<1> QED
  BY <1>1, <1>2, Invariance, PTL DEF Spec

-----------------------------------------------------------------------------
\* Jobs are as many as the tasks they stand for.
LEMMA JobsCount ==
  ASSUME IInv, IdsInv, NEW S \in SUBSET ActiveTasks
  PROVE  Cardinality({JobOf(tasks[t]) : t \in S}) = Cardinality(S)
<1> DEFINE T == {JobOf(tasks[t]) : t \in S}
           f == [t \in S |-> JobOf(tasks[t])]
<1>1. f \in [S -> T] /\ \A j \in T : \E t \in S : f[t] = j
  OBVIOUS
<1>2. \A t, u \in S : f[t] = f[u] => t = u
  BY DEF JobOf, IdsInv
<1>3. f \in Bijection(S, T)
  BY <1>1, <1>2, Zenon DEF Bijection, Injection, Surjection, IsInjective
<1>4. IsFiniteSet(S)
  BY TaskSetsFinite DEF ActiveTasks
<1> QED
  BY <1>3, <1>4, FS_Bijection DEF ExistsBijection

\* Both modules count with the same operator.
LEMMA SameCardinality == \A S : Service!Cardinality(S) = Cardinality(S)
  BY Zenon DEF Service!Cardinality, Cardinality

\* A started task is an accepted job: admission checked what the service asks.
LEMMA StartIsAccept ==
  ASSUME IInv, IdsInv, NEW c \in Clients, NEW kind \in Kinds,
         NEW t \in TaskSlots, Starts(c, kind, t)
  PROVE  Service!Accept(c, UsesCredit(kind))
<1> DEFINE J == {JobOf(tasks[u]) : u \in ActiveTasks}
<1>1. AdmitsTask(c, kind) /\ UNCHANGED <<running, phase>>
  BY DEF Starts
<1>2. /\ next_task_id < TaskIdReservedMin /\ phase[c] = "submit"
      /\ UsesCredit(kind) => client_credit_tasks[c] < PerClientCreditLimit
  BY <1>1 DEF AdmitsTask, CanRequest
<1>3. Cardinality(J) < TaskCapacity
  <2>1. Cardinality(J) = Cardinality(ActiveTasks)
    BY JobsCount
  <2>2. IsFiniteSet(TaskSlots) /\ Cardinality(TaskSlots) = TaskCapacity
    BY TaskSetsFinite, FS_Interval, ConstantsAssumption, SMTT(30)
    DEF TaskSlots, TaskCapacity
  <2>3. ActiveTasks \subseteq TaskSlots /\ ActiveTasks # TaskSlots
    BY StartsFacts, Zenon DEF ActiveTasks
  <2>4. Cardinality(ActiveTasks) \in Nat /\ TaskCapacity \in Nat
    BY <2>2, TaskSetsFinite, ConstantsAssumption, SMTT(30)
    DEF ActiveTasks, TaskCapacity
  <2> QED
    BY <2>1, <2>2, <2>3, <2>4, FS_Subset, SMTT(30)
<1>4. {j \in J : j.client = c /\ j.credit} =
        {JobOf(tasks[u]) : u \in CreditTasksOf(c)}
  BY SMTT(30) DEF JobOf, CreditTasksOf, TasksOf, CreditTasks
<1>5. Cardinality({j \in J : j.client = c /\ j.credit}) = client_credit_tasks[c]
  <2>1. CreditTasksOf(c) \in SUBSET ActiveTasks
    BY SMTT(30) DEF CreditTasksOf, TasksOf
  <2>2. client_credit_tasks[c] = Cardinality(CreditTasksOf(c))
    BY DEF IInv, TaskInv, CountersMatchTasks
  <2> QED
    BY <1>4, <2>1, <2>2, JobsCount, SMTT(30)
<1>6. {JobOf(tasks[u]) : u \in ActiveTasks}' =
        J \cup {[id |-> next_task_id, client |-> c,
                 credit |-> UsesCredit(kind)]}
  <2>1. {JobOf(tasks[u]) : u \in ActiveTasks}' =
          {JobOf(tasks'[u]) : u \in ActiveTasks \cup {t}}
    BY StartsFacts, Zenon DEF JobOf
  <2>2. {JobOf(tasks'[u]) : u \in ActiveTasks \cup {t}} =
          {JobOf(tasks'[u]) : u \in ActiveTasks} \cup {JobOf(tasks'[t])}
    OBVIOUS
  <2>3. {JobOf(tasks'[u]) : u \in ActiveTasks} = J
    BY StartsFacts, Zenon
  <2> QED
    BY <2>1, <2>2, <2>3, StartsFacts, Zenon
<1>7. next_task_id' = next_task_id + 1
  BY StartsFacts, Zenon
<1>8. /\ c \in {d \in Clients : phase[d] # "closed"}
      /\ {d \in Clients : phase[d] # "closed"}' =
           {d \in Clients : phase[d] # "closed"}
  BY <1>1, <1>2
<1>9. UsesCredit(kind) => Cardinality({j \in J : j.client = c /\ j.credit})
                            < PerClientCreditLimit
  BY <1>2, <1>5, Zenon
<1> QED
  BY <1>1, <1>2, <1>3, <1>6, <1>7, <1>8, <1>9, SameCardinality, ZenonT(40)
  DEF Service!Accept, Service!CreditJobsOf

\* A task that ends is one job that finishes.
LEMMA EndIsFinish ==
  ASSUME IInv, IdsInv, NEW t \in TaskSlots, Ends(t)
  PROVE  Service!Finish(JobOf(tasks[t]))
<1>1. /\ ActiveTasks' = ActiveTasks \ {t} /\ t \in ActiveTasks
      /\ \A u \in ActiveTasks' : tasks'[u] = tasks[u]
      /\ next_task_id' = next_task_id
  BY EndsFacts, SMTT(30)
<1>2. \A u \in ActiveTasks : JobOf(tasks[u]) = JobOf(tasks[t]) => u = t
  BY <1>1, SMTT(30) DEF IdsInv, JobOf
<1>3. {JobOf(tasks[u]) : u \in ActiveTasks}' =
        {JobOf(tasks[u]) : u \in ActiveTasks \ {t}}
  <2>1. {JobOf(tasks[u]) : u \in ActiveTasks}' =
          {JobOf(tasks'[u]) : u \in ActiveTasks'}
    BY DEF JobOf
  <2> QED
    BY <1>1, <2>1, SMTT(30)
<1>4. {JobOf(tasks[u]) : u \in ActiveTasks \ {t}} =
        {JobOf(tasks[u]) : u \in ActiveTasks} \ {JobOf(tasks[t])}
  BY <1>1, <1>2
<1>5. UNCHANGED <<running, phase>>
  BY DEF Ends
<1> QED
  BY <1>1, <1>3, <1>4, <1>5, SMTT(30) DEF Service!Finish

(***************************************************************************)
(* The daemon implements the task service: for any number of clients,      *)
(* slots, credits and ring entries, with failing submissions and clients   *)
(* that come and go, tasks are admitted, numbered, attributed and ended as *)
(* TaskService says.                                                       *)
(***************************************************************************)
THEOREM DaemonImplementsService == Spec => ImplementsTaskService
<1> DEFINE sv == <<running, {c \in Clients : phase[c] # "closed"},
                   {JobOf(tasks[t]) : t \in ActiveTasks}, next_task_id>>
<1>1. Init => Service!Init
  <2> SUFFICES ASSUME Init PROVE Service!Init
    OBVIOUS
  <2>1. ActiveTasks = {} /\ {c \in Clients : phase[c] # "closed"} = {}
    BY DEF Init, ActiveTasks, ClearedTask
  <2> QED
    BY <2>1, SMTT(30) DEF Init, Service!Init
<1>2. IInv /\ IdsInv /\ [Next]_vars => [Service!Next]_sv
  <2> SUFFICES ASSUME IInv, IdsInv, [Next]_vars PROVE [Service!Next]_sv
    OBVIOUS
  <2>0. phase \in [Clients -> {"closed", "handshake", "submit"}]
    BY DEF IInv, ClientTypeOK
  <2>a. UNCHANGED tasks => UNCHANGED {JobOf(tasks[t]) : t \in ActiveTasks}
    BY DEF ActiveTasks, JobOf
  <2>1. CASE Invisible
    <3>1. UNCHANGED {c \in Clients : phase[c] # "closed"}
      BY <2>1 DEF Invisible
    <3> QED
      BY <2>1, <2>a, <3>1 DEF Invisible, taskVars
  <2>2. ASSUME NEW c \in Clients, NEW kind \in Kinds, NEW t \in TaskSlots,
               Starts(c, kind, t)
        PROVE  Service!Next
    <3>1. running /\ UsesCredit(kind) \in BOOLEAN
      BY <2>2, SMTT(30) DEF Starts, AdmitsTask, CanRequest, UsesCredit
    <3> QED
      BY <2>2, <3>1, StartIsAccept, SMTT(30) DEF Service!Next
  <2>3. ASSUME NEW t \in TaskSlots, Ends(t) PROVE Service!Next
    BY <2>3, EndIsFinish, SMTT(30) DEF Ends, Service!Next
  <2>4. ASSUME NEW c \in Clients, Opens(c) PROVE Service!Next
    <3>1. \A t \in ActiveTasks : JobOf(tasks[t]).client # c
      <4>1. Cardinality(TasksOf(c)) = 0
        BY <2>4 DEF Opens, IInv, TaskInv, CountersMatchTasks
      <4>2. TasksOf(c) = {}
        BY <4>1, TaskSetsFinite, FS_EmptySet, SMTT(30)
        DEF TasksOf, ActiveTasks
      <4> QED
        BY <4>2, SMTT(30) DEF TasksOf, JobOf
    <3>2. /\ c \notin {d \in Clients : phase[d] # "closed"}
          /\ {d \in Clients : phase[d] # "closed"}' =
               {d \in Clients : phase[d] # "closed"} \cup {c}
      BY <2>0, <2>4, SMTT(30) DEF Opens
    <3>3. Service!Connect(c)
      BY <2>4, <2>a, <3>1, <3>2, SMTT(30) DEF Opens, Service!Connect
    <3> QED
      BY <2>4, <3>3 DEF Opens, Service!Next
  <2>5. ASSUME NEW c \in Clients, Closes(c) PROVE Service!Next
    <3>1. /\ c \in {d \in Clients : phase[d] # "closed"}
          /\ {d \in Clients : phase[d] # "closed"}' =
               {d \in Clients : phase[d] # "closed"} \ {c}
      BY <2>0, <2>5, SMTT(30) DEF Closes
    <3>2. Service!Disconnect(c)
      BY <2>5, <2>a, <3>1, SMTT(30) DEF Closes, taskVars, Service!Disconnect
    <3> QED
      BY <2>5, <3>2 DEF Closes, Service!Next
  <2>6. CASE Stops
    <3>1. UNCHANGED {c \in Clients : phase[c] # "closed"}
      BY <2>6 DEF Stops
    <3>2. Service!Stop
      BY <2>6, <2>a, <3>1 DEF Stops, taskVars, Service!Stop
    <3> QED
      BY <2>6, <3>2 DEF Stops, Service!Next
  <2> QED
    BY <2>1, <2>2, <2>3, <2>4, <2>5, <2>6, StepKinds, Zenon
<1> QED
  BY <1>1, <1>2, Invariance, TaskIdsDistinct, PTL
  DEF Spec, ImplementsTaskService, Service!Spec

=============================================================================
