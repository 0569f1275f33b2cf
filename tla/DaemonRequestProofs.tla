------------------------ MODULE DaemonRequestProofs -------------------------
(***************************************************************************)
(* Every connection event and every request of a client preserves the      *)
(* inductive invariant of Daemon: one lemma per action.                    *)
(***************************************************************************)
EXTENDS DaemonTaskProofs

\* iouringd_open_client preserves the invariant.
LEMMA OpenClientKeeps == IInv /\ OpenClient => IInv'
<1> SUFFICES ASSUME IInv, OpenClient PROVE IInv'
  OBVIOUS
<1>1. TaskInv'
  BY OpenClientCounted DEF IInv
<1>2. ClientTypeOK'
  <2>1. (next_client_generation + 1) % GenerationModulus \in Nat
    BY ConstantsAssumption DEF IInv, ClientTypeOK
  <2>2. QED
    BY <2>1 DEF OpenClient, IInv, ClientTypeOK
<1>3. ResourceTypeOK'
  <2>1. 1 \in ResourceIds
    BY ConstantsAssumption DEF ResourceIds
  <2>2. QED
    BY <2>1, SlotsTyped DEF OpenClient, IInv, ResourceTypeOK
<1>4. RingTypeOK'
  BY DEF OpenClient, IInv, RingTypeOK, ringVars
<1>5. QED
  BY <1>1, <1>2, <1>3, <1>4 DEF IInv

\* The accepted handshake preserves the invariant.
LEMMA AcceptHandshakeKeeps ==
  \A c \in Clients : IInv /\ AcceptHandshake(c) => IInv'
<1> SUFFICES ASSUME NEW c \in Clients, IInv, AcceptHandshake(c) PROVE IInv'
  OBVIOUS
<1>1. TaskInv'
  BY TasksUntouched DEF IInv, AcceptHandshake
<1>2. ClientTypeOK'
  BY DEF AcceptHandshake, IInv, ClientTypeOK
<1>3. ResourceTypeOK' /\ RingTypeOK'
  BY DEF AcceptHandshake, IInv, ResourceTypeOK, resourceVars, RingTypeOK,
         ringVars
<1>4. QED
  BY <1>1, <1>2, <1>3 DEF IInv

\* iouringd_close_client preserves the invariant: its tasks stay counted.
LEMMA CloseClientKeeps ==
  \A c \in Clients : IInv /\ CloseClient(c) => IInv'
<1> SUFFICES ASSUME NEW c \in Clients, IInv, CloseClient(c) PROVE IInv'
  OBVIOUS
<1>1. TaskInv'
  BY TasksUntouched DEF IInv, CloseClient
<1>2. ClientTypeOK'
  BY DEF CloseClient, IInv, ClientTypeOK
<1>3. ResourceTypeOK'
  <2>1. /\ \A s \in FileSlots : file_resources[c][s] \in FileSlotType
        /\ \A s \in BufferSlots : buffer_resources[c][s] \in BufferSlotType
    BY DEF IInv, ResourceTypeOK
  <2>2. \A slot \in FileSlotType :
          [slot EXCEPT !.closing = TRUE] \in FileSlotType
    BY Zenon DEF FileSlotType
  <2>3. \A slot \in BufferSlotType :
          [slot EXCEPT !.closing = TRUE] \in BufferSlotType
    BY Zenon DEF BufferSlotType
  <2>4. file_resources' \in [Clients -> [FileSlots -> FileSlotType]]
    BY <2>1, <2>2 DEF CloseClient, IInv, ResourceTypeOK
  <2>5. buffer_resources' \in [Clients -> [BufferSlots -> BufferSlotType]]
    BY <2>1, <2>3 DEF CloseClient, IInv, ResourceTypeOK
  <2>6. QED
    BY <2>4, <2>5 DEF CloseClient, IInv, ResourceTypeOK
<1>4. RingTypeOK'
  BY DEF CloseClient, IInv, RingTypeOK, ringVars
<1>5. QED
  BY <1>1, <1>2, <1>3, <1>4 DEF IInv

\* REGISTER_FD preserves the invariant, granted or refused.
LEMMA RegisterFdKeeps ==
  \A c \in Clients : IInv /\ (RegisterFd(c) \/ RegisterFdFails(c)) => IInv'
<1> SUFFICES ASSUME NEW c \in Clients, IInv,
                    RegisterFd(c) \/ RegisterFdFails(c)
             PROVE  IInv'
  OBVIOUS
<1>1. TaskInv'
  BY TasksUntouched DEF IInv, RegisterFd, RegisterFdFails, clientVars
<1>2. ClientTypeOK' /\ RingTypeOK'
  BY DEF RegisterFd, RegisterFdFails, IInv, ClientTypeOK, clientVars,
         RingTypeOK, ringVars
<1>3. ResourceTypeOK'
  <2>1. CASE RegisterFd(c)
    <3>1. PICK fd \in Fds, s \in FileSlots, k \in Attempts :
            /\ next_resource_id' =
                 [next_resource_id EXCEPT ![c] = IdAfterAttempt(c, k)]
            /\ fixed_files' =
                 [fixed_files EXCEPT ![GlobalFileIndex(c, s)] = fd]
            /\ file_resources' =
                 [file_resources EXCEPT ![c][s] =
                    [resource_id |-> Candidate(c, k), daemon_fd |-> fd,
                     in_flight |-> 0, registered |-> TRUE, closing |-> FALSE]]
            /\ open_fds' = open_fds \cup {fd}
      BY <2>1, ZenonT(30) DEF RegisterFd
    <3>2. fd \in Nat
      BY ConstantsAssumption
    <3>3. [resource_id |-> Candidate(c, k), daemon_fd |-> fd,
           in_flight |-> 0, registered |-> TRUE, closing |-> FALSE]
            \in FileSlotType
      BY <3>2, IdsTyped DEF IInv, FileSlotType
    <3>4. QED
      BY <2>1, <3>1, <3>2, <3>3, IdsTyped, ZenonT(30)
         DEF RegisterFd, IInv, ResourceTypeOK
  <2>2. CASE RegisterFdFails(c)
    <3>1. 0 \in Attempts
      BY ConstantsAssumption DEF Attempts
    <3>2. PICK id \in ResourceIds :
            next_resource_id' = [next_resource_id EXCEPT ![c] = id]
      BY <2>2, <3>1, IdsTyped DEF RegisterFdFails, IInv
    <3>3. QED
      BY <2>2, <3>2 DEF RegisterFdFails, IInv, ResourceTypeOK
  <2>3. QED
    BY <2>1, <2>2, SMTT(30)
<1>4. QED
  BY <1>1, <1>2, <1>3 DEF IInv

\* REGISTER_BUFFER preserves the invariant, granted or refused.
LEMMA RegisterBufferKeeps ==
  \A c \in Clients, length \in Lengths \cup {0} :
    IInv /\ RegisterBuffer(c, length) => IInv'
<1> SUFFICES ASSUME NEW c \in Clients, NEW length \in Lengths \cup {0}, IInv,
                    RegisterBuffer(c, length)
             PROVE  IInv'
  OBVIOUS
<1>1. TaskInv'
  BY TasksUntouched, SMTT(30) DEF IInv, RegisterBuffer, clientVars
<1>2. ClientTypeOK' /\ RingTypeOK'
  BY SMTT(30)
     DEF RegisterBuffer, IInv, ClientTypeOK, clientVars, RingTypeOK, ringVars
<1>3. ResourceTypeOK'
  <2>1. 0 \in Attempts /\ length \in Nat
    BY ConstantsAssumption DEF Attempts, Lengths
  <2>2. PICK id \in ResourceIds :
          next_resource_id' = [next_resource_id EXCEPT ![c] = id]
    BY <2>1, IdsTyped DEF RegisterBuffer, IInv
  <2>3. buffer_resources' \in [Clients -> [BufferSlots -> BufferSlotType]]
    <3>1. CASE UNCHANGED buffer_resources
      BY <3>1 DEF IInv, ResourceTypeOK
    <3>2. ASSUME NEW s \in BufferSlots, NEW k \in Attempts,
                 buffer_resources' =
                   [buffer_resources EXCEPT ![c][s] =
                      [resource_id |-> Candidate(c, k), in_flight |-> 0,
                       registered |-> TRUE, closing |-> FALSE,
                       valid_length |-> length]]
          PROVE  buffer_resources' \in [Clients -> [BufferSlots -> BufferSlotType]]
      <4>1. [resource_id |-> Candidate(c, k), in_flight |-> 0,
             registered |-> TRUE, closing |-> FALSE,
             valid_length |-> length] \in BufferSlotType
        BY <2>1, IdsTyped DEF IInv, BufferSlotType
      <4>2. QED
        BY <3>2, <4>1 DEF IInv, ResourceTypeOK
    <3>3. QED
      BY <3>1, <3>2 DEF RegisterBuffer
  <2>4. QED
    BY <2>2, <2>3, Zenon DEF RegisterBuffer, IInv, ResourceTypeOK
<1>4. QED
  BY <1>1, <1>2, <1>3 DEF IInv

\* Marking a slot closing and trying to release it leaves a typed slot.
LEMMA ReleaseTyped ==
  /\ \A slot \in FileSlotType :
       /\ TryReleaseFile(slot) \in FileSlotType
       /\ TryReleaseFile([slot EXCEPT !.closing = TRUE]) \in FileSlotType
  /\ \A slot \in BufferSlotType :
       /\ TryReleaseBuffer(slot) \in BufferSlotType
       /\ TryReleaseBuffer([slot EXCEPT !.closing = TRUE]) \in BufferSlotType
<1>1. /\ \A slot \in FileSlotType :
           [slot EXCEPT !.closing = TRUE] \in FileSlotType
      /\ \A slot \in BufferSlotType :
           [slot EXCEPT !.closing = TRUE] \in BufferSlotType
  BY Zenon DEF FileSlotType, BufferSlotType
<1>2. QED
  BY <1>1, SlotsTyped DEF TryReleaseFile, TryReleaseBuffer

\* RELEASE_RESOURCE preserves the invariant.
LEMMA ReleaseResourceKeeps ==
  \A c \in Clients, id \in ResourceIds :
    IInv /\ ReleaseResource(c, id) => IInv'
<1> SUFFICES ASSUME NEW c \in Clients, NEW id \in ResourceIds, IInv,
                    ReleaseResource(c, id)
             PROVE  IInv'
  OBVIOUS
<1>1. TaskInv'
  BY TasksUntouched DEF IInv, ReleaseResource, clientVars
<1>2. ClientTypeOK' /\ RingTypeOK'
  BY DEF ReleaseResource, IInv, ClientTypeOK, clientVars, RingTypeOK, ringVars
<1>3. file_resources' \in [Clients -> [FileSlots -> FileSlotType]]
  <2>1. ASSUME NEW s \in FileSlots,
               file_resources' =
                 [file_resources EXCEPT ![c][s] =
                    TryReleaseFile([@ EXCEPT !.closing = TRUE])]
        PROVE  file_resources' \in [Clients -> [FileSlots -> FileSlotType]]
    <3>1. file_resources[c][s] \in FileSlotType
      BY DEF IInv, ResourceTypeOK
    <3>2. QED
      BY <2>1, <3>1, ReleaseTyped DEF IInv, ResourceTypeOK
  <2>2. QED
    BY <2>1, Zenon DEF ReleaseResource, IInv, ResourceTypeOK
<1>4. buffer_resources' \in [Clients -> [BufferSlots -> BufferSlotType]]
  <2>1. ASSUME NEW s \in BufferSlots,
               buffer_resources' =
                 [buffer_resources EXCEPT ![c][s] =
                    TryReleaseBuffer([@ EXCEPT !.closing = TRUE])]
        PROVE  buffer_resources' \in [Clients -> [BufferSlots -> BufferSlotType]]
    <3>1. buffer_resources[c][s] \in BufferSlotType
      BY DEF IInv, ResourceTypeOK
    <3>2. QED
      BY <2>1, <3>1, ReleaseTyped DEF IInv, ResourceTypeOK
  <2>2. QED
    BY <2>1, Zenon DEF ReleaseResource, IInv, ResourceTypeOK
<1>5. ResourceTypeOK'
  BY <1>3, <1>4, ZenonT(30) DEF ReleaseResource, IInv, ResourceTypeOK
<1>6. QED
  BY <1>1, <1>2, <1>5 DEF IInv

\* iouringd_sweep_closing_resources preserves the invariant.
LEMMA SweepKeeps == IInv /\ SweepClosingResources => IInv'
<1> SUFFICES ASSUME IInv, SweepClosingResources PROVE IInv'
  OBVIOUS
<1>1. TaskInv'
  BY TasksUntouched, SMTT(30) DEF IInv, SweepClosingResources, clientVars
<1>2. ClientTypeOK' /\ RingTypeOK'
  BY ZenonT(30)
     DEF SweepClosingResources, IInv, ClientTypeOK, clientVars, RingTypeOK,
         ringVars
<1>3. file_resources' \in [Clients -> [FileSlots -> FileSlotType]]
  <2>1. \A c \in Clients, s \in FileSlots :
          file_resources[c][s] \in FileSlotType
    BY DEF IInv, ResourceTypeOK
  <2>2. \A c \in Clients, s \in FileSlots :
          TryReleaseFile(file_resources[c][s]) \in FileSlotType
    BY <2>1, ReleaseTyped, Zenon
  <2>3. QED
    BY <2>1, <2>2 DEF SweepClosingResources
<1>4. buffer_resources' \in [Clients -> [BufferSlots -> BufferSlotType]]
  <2>1. \A c \in Clients, s \in BufferSlots :
          buffer_resources[c][s] \in BufferSlotType
    BY DEF IInv, ResourceTypeOK
  <2>2. \A c \in Clients, s \in BufferSlots :
          TryReleaseBuffer(buffer_resources[c][s]) \in BufferSlotType
    BY <2>1, ReleaseTyped, Zenon
  <2>3. QED
    BY <2>1, <2>2, Zenon DEF SweepClosingResources
<1>5. /\ fixed_files' \in [0 .. MaxClients * FileSlotLimit - 1 ->
                             Nat \cup {NoFd}]
      /\ open_fds' \subseteq Nat
      /\ next_resource_id' \in [Clients -> ResourceIds]
  BY ZenonT(30) DEF SweepClosingResources, IInv, ResourceTypeOK
<1>6. QED
  BY <1>1, <1>2, <1>3, <1>4, <1>5, SMTT(30) DEF IInv, ResourceTypeOK

\* A NOP, TIMEOUT or CANCEL submission preserves the invariant.
LEMMA SubmitPlainKeeps ==
  \A c \in Clients, kind \in {"nop", "cancel"} :
    IInv /\ SubmitPlain(c, kind) => IInv'
<1> SUFFICES ASSUME NEW c \in Clients, NEW kind \in {"nop", "cancel"}, IInv,
                    SubmitPlain(c, kind)
             PROVE  IInv'
  OBVIOUS
<1>1. kind \in Kinds
  BY DEF Kinds
<1>2. ClientTypeOK' /\ ResourceTypeOK'
  BY DEF SubmitPlain, IInv, ClientTypeOK, clientVars, ResourceTypeOK,
         resourceVars
<1>3. RingTypeOK'
  BY <1>1, NewSqeTyped, SqeTyped, ZenonT(30) DEF SubmitPlain, IInv, TaskInv
<1>4. TaskInv'
  <2>1. UNCHANGED generation /\ AdmitsTask(c, kind)
    BY DEF SubmitPlain, clientVars
  <2>2. CASE UNCHANGED taskVars
    BY <2>1, <2>2, TasksUntouched DEF IInv
  <2>3. ASSUME NEW t \in FreeTaskSlots,
               StartTask(c, t, NewTask(c, kind, NoSlot, NoSlot, NoSlot,
                                       ResourceIdInvalid, NoFd))
        PROVE  TaskInv'
    BY <1>1, <2>1, <2>3, InvalidIdTyped, SubmitCounted, ZenonT(30) DEF IInv
  <2>4. QED
    BY <2>2, <2>3 DEF SubmitPlain, FirstOf
<1>5. QED
  BY <1>2, <1>3, <1>4 DEF IInv

\* An OPENAT refused for want of an id or a task slot preserves the
\* invariant.
LEMMA SubmitOpenatFailsKeeps ==
  \A c \in Clients : IInv /\ SubmitOpenatFails(c) => IInv'
<1> SUFFICES ASSUME NEW c \in Clients, IInv, SubmitOpenatFails(c) PROVE IInv'
  OBVIOUS
<1>1. TaskInv'
  BY TasksUntouched DEF IInv, SubmitOpenatFails, clientVars
<1>2. ClientTypeOK' /\ RingTypeOK'
  BY DEF SubmitOpenatFails, IInv, ClientTypeOK, clientVars, RingTypeOK,
         ringVars
<1>3. PICK id \in ResourceIds :
        next_resource_id' = [next_resource_id EXCEPT ![c] = id]
  <2>1. 0 \in Attempts
    BY ConstantsAssumption DEF Attempts
  <2>2. QED
    BY <2>1, IdsTyped DEF SubmitOpenatFails, IInv
<1>4. ResourceTypeOK'
  BY <1>3, SMTT(30) DEF SubmitOpenatFails, IInv, ResourceTypeOK
<1>5. QED
  BY <1>1, <1>2, <1>4 DEF IInv

\* An ACCEPT refused for want of an id preserves the invariant.
LEMMA SubmitAcceptFailsKeeps ==
  \A c \in Clients, id \in ResourceIds :
    IInv /\ SubmitAcceptFails(c, id) => IInv'
<1> SUFFICES ASSUME NEW c \in Clients, NEW id \in ResourceIds, IInv,
                    SubmitAcceptFails(c, id)
             PROVE  IInv'
  OBVIOUS
<1>1. TaskInv'
  BY TasksUntouched, ZenonT(30) DEF IInv, SubmitAcceptFails, clientVars
<1>2. ClientTypeOK' /\ RingTypeOK'
  BY Zenon DEF SubmitAcceptFails, IInv, ClientTypeOK, clientVars, RingTypeOK,
         ringVars
<1>3. IdAfterAllAttempts(c) \in ResourceIds
  <2>1. 0 \in Attempts
    BY ConstantsAssumption DEF Attempts
  <2>2. QED
    BY <2>1, IdsTyped DEF IInv
<1>4. ResourceTypeOK'
  BY <1>3 DEF SubmitAcceptFails, IInv, ResourceTypeOK
<1>5. QED
  BY <1>1, <1>2, <1>4 DEF IInv

\* An OPENAT that reaches the ring preserves the invariant.
LEMMA SubmitOpenatKeeps ==
  \A c \in Clients : IInv /\ SubmitOpenat(c) => IInv'
<1> SUFFICES ASSUME NEW c \in Clients, IInv, SubmitOpenat(c) PROVE IInv'
  OBVIOUS
<1>1. "openat" \in Kinds
  BY DEF Kinds, ResultKinds
<1>2. ClientTypeOK' /\ UNCHANGED generation /\ AdmitsTask(c, "openat")
  BY DEF SubmitOpenat, IInv, ClientTypeOK, clientVars
<1>3. RingTypeOK'
  BY <1>1, NewSqeTyped, SqeTyped, SMTT(30) DEF SubmitOpenat, IInv, TaskInv
<1>4. PICK t \in FreeTaskSlots, r \in FileSlots, k \in Attempts :
        \/ /\ StartTask(c, t, NewTask(c, "openat", NoSlot, NoSlot, r,
                                      Candidate(c, k), NoFd))
           /\ file_resources' = [file_resources EXCEPT
                                   ![c][r] = ReservedSlot(Candidate(c, k))]
           /\ next_resource_id' =
                [next_resource_id EXCEPT ![c] = IdAfterAttempt(c, k)]
        \/ /\ next_resource_id' =
                [next_resource_id EXCEPT ![c] = Candidate(c, k)]
           /\ UNCHANGED <<file_resources, taskVars>>
  BY DEF SubmitOpenat, FirstOf
<1>5. PICK id \in ResourceIds : id = Candidate(c, k)
  BY IdsTyped, SMTT(30) DEF IInv
<1>6. ResourceTypeOK'
  <2>1. ReservedSlot(id) \in FileSlotType /\ IdAfterAttempt(c, k) \in ResourceIds
    BY SlotsTyped, IdsTyped DEF IInv
  <2>2. file_resources' \in [Clients -> [FileSlots -> FileSlotType]]
    <3>1. CASE file_resources' =
                 [file_resources EXCEPT ![c][r] = ReservedSlot(id)]
      BY <2>1, <3>1 DEF IInv, ResourceTypeOK
    <3>2. CASE file_resources' = file_resources
      BY <3>2 DEF IInv, ResourceTypeOK
    <3>3. QED
      BY <1>4, <1>5, <3>1, <3>2, SMTT(30)
  <2>3. next_resource_id' \in [Clients -> ResourceIds]
    BY <1>4, <1>5, <2>1, SMTT(30) DEF IInv, ResourceTypeOK
  <2>4. QED
    BY <2>2, <2>3 DEF SubmitOpenat, IInv, ResourceTypeOK
<1>7. TaskInv'
  <2>1. CASE StartTask(c, t, NewTask(c, "openat", NoSlot, NoSlot, r, id, NoFd))
    BY <1>1, <1>2, <2>1, SubmitCounted, ZenonT(30) DEF IInv
  <2>2. CASE UNCHANGED taskVars
    BY <1>2, <2>2, TasksUntouched DEF IInv
  <2>3. QED
    BY <1>4, <1>5, <2>1, <2>2
<1>8. QED
  BY <1>2, <1>3, <1>6, <1>7 DEF IInv

\* A CLOSE that reaches the ring preserves the invariant.
LEMMA SubmitCloseKeeps ==
  \A c \in Clients, id \in ResourceIds : IInv /\ SubmitClose(c, id) => IInv'
<1> SUFFICES ASSUME NEW c \in Clients, NEW id \in ResourceIds, IInv,
                    SubmitClose(c, id)
             PROVE  IInv'
  OBVIOUS
<1>1. "close" \in Kinds
  BY DEF Kinds
<1>2. ClientTypeOK' /\ UNCHANGED generation /\ AdmitsTask(c, "close")
  BY ZenonT(30) DEF SubmitClose, IInv, ClientTypeOK, clientVars
<1>3. PICK t \in FreeTaskSlots, f \in FileSlots, fd \in Nat \cup {NoFd} :
        /\ SqeTaken(NewSqe("close", fd)) \/ SqeRefused(NewSqe("close", fd))
        /\ \/ /\ StartTask(c, t, NewTask(c, "close", f, NoSlot, NoSlot,
                                         ResourceIdInvalid, fd))
              /\ fixed_files' =
                   [fixed_files EXCEPT ![GlobalFileIndex(c, f)] = NoFd]
              /\ file_resources' =
                   [file_resources EXCEPT ![c][f] =
                      [@ EXCEPT !.daemon_fd = NoFd, !.registered = FALSE,
                                !.closing = TRUE, !.in_flight = 1]]
           \/ UNCHANGED <<fixed_files, file_resources, taskVars>>
  <2>1. \A f \in FileSlots : file_resources[c][f].daemon_fd \in Nat \cup {NoFd}
    BY DEF IInv, ResourceTypeOK, FileSlotType
  <2>2. QED
    BY <2>1, ZenonT(30) DEF SubmitClose, TakeFd, PutFdBack, FirstOf
<1>4. RingTypeOK'
  BY <1>1, <1>3, NewSqeTyped, SqeTyped, SMTT(30) DEF IInv, TaskInv
<1>5. ResourceTypeOK'
  <2>1. [file_resources[c][f] EXCEPT !.daemon_fd = NoFd, !.registered = FALSE,
                                     !.closing = TRUE, !.in_flight = 1]
          \in FileSlotType
    <3>1. file_resources[c][f] \in FileSlotType
      BY DEF IInv, ResourceTypeOK
    <3>2. QED
      BY <3>1, Zenon DEF FileSlotType
  <2>2. file_resources' \in [Clients -> [FileSlots -> FileSlotType]]
    <3>1. CASE file_resources' =
                 [file_resources EXCEPT ![c][f] =
                    [@ EXCEPT !.daemon_fd = NoFd, !.registered = FALSE,
                              !.closing = TRUE, !.in_flight = 1]]
      BY <2>1, <3>1 DEF IInv, ResourceTypeOK
    <3>2. CASE file_resources' = file_resources
      BY <3>2 DEF IInv, ResourceTypeOK
    <3>3. QED
      BY <1>3, <3>1, <3>2
  <2>3. fixed_files' \in [0 .. MaxClients * FileSlotLimit - 1 ->
                            Nat \cup {NoFd}]
    BY <1>3, SMTT(30) DEF IInv, ResourceTypeOK
  <2>4. QED
    BY <2>2, <2>3 DEF SubmitClose, IInv, ResourceTypeOK
<1>6. TaskInv'
  <2>1. CASE StartTask(c, t, NewTask(c, "close", f, NoSlot, NoSlot,
                                     ResourceIdInvalid, fd))
    BY <1>1, <1>2, <2>1, InvalidIdTyped, SubmitCounted, SMTT(30) DEF IInv
  <2>2. CASE UNCHANGED taskVars
    BY <1>2, <2>2, TasksUntouched DEF IInv
  <2>3. QED
    BY <1>3, <2>1, <2>2
<1>7. QED
  BY <1>2, <1>4, <1>5, <1>6 DEF IInv

\* A task more in flight on a slot.
LEMMA HeldSlotTyped ==
  ASSUME ResourceTypeOK, NEW c \in Clients
  PROVE  /\ \A f \in FileSlots :
              [file_resources EXCEPT ![c][f].in_flight = @ + 1]
                \in [Clients -> [FileSlots -> FileSlotType]]
         /\ \A b \in BufferSlots :
              [buffer_resources EXCEPT ![c][b].in_flight = @ + 1]
                \in [Clients -> [BufferSlots -> BufferSlotType]]
<1>1. /\ \A slot \in FileSlotType :
           [slot EXCEPT !.in_flight = @ + 1] \in FileSlotType
      /\ \A slot \in BufferSlotType :
           [slot EXCEPT !.in_flight = @ + 1] \in BufferSlotType
  BY DEF FileSlotType, BufferSlotType
<1>2. /\ \A f \in FileSlots : file_resources[c][f] \in FileSlotType
      /\ \A b \in BufferSlots : buffer_resources[c][b] \in BufferSlotType
  BY DEF ResourceTypeOK
<1>3. ASSUME NEW f \in FileSlots
      PROVE  [file_resources EXCEPT ![c][f].in_flight = @ + 1]
               \in [Clients -> [FileSlots -> FileSlotType]]
  BY <1>1, <1>2 DEF ResourceTypeOK
<1>4. ASSUME NEW b \in BufferSlots
      PROVE  [buffer_resources EXCEPT ![c][b].in_flight = @ + 1]
               \in [Clients -> [BufferSlots -> BufferSlotType]]
  BY <1>1, <1>2 DEF ResourceTypeOK
<1>5. QED
  BY <1>3, <1>4

\* A read, write, POLL or CONNECT preserves the invariant.
LEMMA SubmitIoKeeps ==
  \A c \in Clients, id \in ResourceIds : IInv /\ SubmitIo(c, id) => IInv'
<1> SUFFICES ASSUME NEW c \in Clients, NEW id \in ResourceIds, IInv,
                    SubmitIo(c, id)
             PROVE  IInv'
  OBVIOUS
<1>1. "io" \in Kinds
  BY DEF Kinds
<1>2. ClientTypeOK' /\ UNCHANGED generation /\ AdmitsTask(c, "io")
  BY DEF SubmitIo, IInv, ClientTypeOK, clientVars
<1>3. RingTypeOK'
  BY <1>1, NewSqeTyped, SqeTyped DEF SubmitIo, IInv, TaskInv
<1>4. PICK t \in FreeTaskSlots, f \in FileSlots :
        \/ /\ StartTask(c, t, NewTask(c, "io", f, NoSlot, NoSlot,
                                      ResourceIdInvalid, NoFd))
           /\ file_resources' =
                [file_resources EXCEPT ![c][f].in_flight = @ + 1]
        \/ UNCHANGED <<file_resources, taskVars>>
  BY DEF SubmitIo, FirstOf
<1>5. ResourceTypeOK'
  <2>1. file_resources' \in [Clients -> [FileSlots -> FileSlotType]]
    <3>1. CASE file_resources' =
                 [file_resources EXCEPT ![c][f].in_flight = @ + 1]
      BY <3>1, HeldSlotTyped DEF IInv
    <3>2. CASE file_resources' = file_resources
      BY <3>2 DEF IInv, ResourceTypeOK
    <3>3. QED
      BY <1>4, <3>1, <3>2
  <2>2. QED
    BY <2>1 DEF SubmitIo, IInv, ResourceTypeOK
<1>6. TaskInv'
  <2>1. CASE StartTask(c, t, NewTask(c, "io", f, NoSlot, NoSlot,
                                     ResourceIdInvalid, NoFd))
    BY <1>1, <1>2, <2>1, InvalidIdTyped, SubmitCounted, ZenonT(30) DEF IInv
  <2>2. CASE UNCHANGED taskVars
    BY <1>2, <2>2, TasksUntouched, SMTT(30) DEF IInv
  <2>3. QED
    BY <1>4, <2>1, <2>2
<1>7. QED
  BY <1>2, <1>3, <1>5, <1>6 DEF IInv

\* A READ_FIXED or WRITE_FIXED preserves the invariant.
LEMMA SubmitFixedKeeps ==
  \A c \in Clients, kind \in FixedKinds, id, buffer_id \in ResourceIds,
     length \in Lengths :
    IInv /\ SubmitFixed(c, kind, id, buffer_id, length) => IInv'
<1> SUFFICES ASSUME NEW c \in Clients, NEW kind \in FixedKinds,
                    NEW id \in ResourceIds, NEW buffer_id \in ResourceIds,
                    NEW length \in Lengths, IInv,
                    SubmitFixed(c, kind, id, buffer_id, length)
             PROVE  IInv'
  OBVIOUS
<1>1. kind \in Kinds
  BY DEF Kinds
<1>2. ClientTypeOK' /\ UNCHANGED generation /\ AdmitsTask(c, kind)
  BY DEF SubmitFixed, IInv, ClientTypeOK, clientVars
<1>3. RingTypeOK'
  BY <1>1, NewSqeTyped, SqeTyped, SMTT(30) DEF SubmitFixed, IInv, TaskInv
<1>4. PICK t \in FreeTaskSlots, f \in FileSlots, b \in BufferSlots :
        \/ /\ StartTask(c, t, NewTask(c, kind, f, b, NoSlot,
                                      ResourceIdInvalid, NoFd))
           /\ file_resources' =
                [file_resources EXCEPT ![c][f].in_flight = @ + 1]
           /\ buffer_resources' =
                [buffer_resources EXCEPT ![c][b].in_flight = @ + 1]
        \/ UNCHANGED <<file_resources, buffer_resources, taskVars>>
  BY DEF SubmitFixed, FirstOf
<1>5. ResourceTypeOK'
  <2>1. /\ file_resources' \in [Clients -> [FileSlots -> FileSlotType]]
        /\ buffer_resources' \in [Clients -> [BufferSlots -> BufferSlotType]]
    <3>1. CASE /\ file_resources' =
                    [file_resources EXCEPT ![c][f].in_flight = @ + 1]
               /\ buffer_resources' =
                    [buffer_resources EXCEPT ![c][b].in_flight = @ + 1]
      BY <3>1, HeldSlotTyped DEF IInv
    <3>2. CASE UNCHANGED <<file_resources, buffer_resources>>
      BY <3>2 DEF IInv, ResourceTypeOK
    <3>3. QED
      BY <1>4, <3>1, <3>2, SMTT(30)
  <2>2. QED
    BY <2>1 DEF SubmitFixed, IInv, ResourceTypeOK
<1>6. TaskInv'
  <2>1. CASE StartTask(c, t, NewTask(c, kind, f, b, NoSlot,
                                     ResourceIdInvalid, NoFd))
    BY <1>1, <1>2, <2>1, InvalidIdTyped, SubmitCounted, ZenonT(30) DEF IInv
  <2>2. CASE UNCHANGED taskVars
    BY <1>2, <2>2, TasksUntouched DEF IInv
  <2>3. QED
    BY <1>4, <2>1, <2>2, SMTT(30)
<1>7. QED
  BY <1>2, <1>3, <1>5, <1>6 DEF IInv

\* An ACCEPT that reaches the ring preserves the invariant.
LEMMA SubmitAcceptKeeps ==
  \A c \in Clients, id \in ResourceIds : IInv /\ SubmitAccept(c, id) => IInv'
<1> SUFFICES ASSUME NEW c \in Clients, NEW id \in ResourceIds, IInv,
                    SubmitAccept(c, id)
             PROVE  IInv'
  OBVIOUS
<1>1. "accept" \in Kinds
  BY DEF Kinds, ResultKinds
<1>2. ClientTypeOK' /\ UNCHANGED generation /\ AdmitsTask(c, "accept")
  BY DEF SubmitAccept, IInv, ClientTypeOK, clientVars
<1>3. RingTypeOK'
  BY <1>1, NewSqeTyped, SqeTyped DEF SubmitAccept, IInv, TaskInv
<1>4. PICK t \in FreeTaskSlots, f \in FileSlots, r \in FileSlots,
           k \in Attempts :
        \/ /\ StartTask(c, t, NewTask(c, "accept", f, NoSlot, r,
                                      Candidate(c, k), NoFd))
           /\ file_resources' =
                [file_resources EXCEPT
                   ![c][f].in_flight = @ + 1,
                   ![c][r] = ReservedSlot(Candidate(c, k))]
           /\ next_resource_id' =
                [next_resource_id EXCEPT ![c] = IdAfterAttempt(c, k)]
        \/ /\ next_resource_id' =
                [next_resource_id EXCEPT ![c] = Candidate(c, k)]
           /\ UNCHANGED <<file_resources, taskVars>>
  BY ZenonT(30) DEF SubmitAccept, FirstOf
<1>5. PICK new \in ResourceIds : new = Candidate(c, k)
  BY IdsTyped DEF IInv
<1>6. ResourceTypeOK'
  <2>1. ReservedSlot(new) \in FileSlotType /\ IdAfterAttempt(c, k) \in ResourceIds
    BY SlotsTyped, IdsTyped DEF IInv
  <2>2. file_resources' \in [Clients -> [FileSlots -> FileSlotType]]
    <3>1. CASE file_resources' =
                 [file_resources EXCEPT ![c][f].in_flight = @ + 1,
                                        ![c][r] = ReservedSlot(new)]
      <4>1. PICK held \in [Clients -> [FileSlots -> FileSlotType]] :
              held = [file_resources EXCEPT ![c][f].in_flight = @ + 1]
        BY HeldSlotTyped, Zenon DEF IInv
      <4>2. file_resources' = [held EXCEPT ![c][r] = ReservedSlot(new)]
        BY <3>1, <4>1
      <4>3. QED
        BY <2>1, <4>2
    <3>2. CASE file_resources' = file_resources
      BY <3>2 DEF IInv, ResourceTypeOK
    <3>3. QED
      BY <1>4, <1>5, <3>1, <3>2
  <2>3. next_resource_id' \in [Clients -> ResourceIds]
    BY <1>4, <1>5, <2>1, ZenonT(30) DEF IInv, ResourceTypeOK
  <2>4. QED
    BY <2>2, <2>3 DEF SubmitAccept, IInv, ResourceTypeOK
<1>7. TaskInv'
  <2>1. CASE StartTask(c, t, NewTask(c, "accept", f, NoSlot, r, new, NoFd))
    BY <1>1, <1>2, <2>1, SubmitCounted, ZenonT(30) DEF IInv
  <2>2. CASE UNCHANGED taskVars
    BY <1>2, <2>2, TasksUntouched DEF IInv
  <2>3. QED
    BY <1>4, <1>5, <2>1, <2>2
<1>8. QED
  BY <1>2, <1>3, <1>6, <1>7 DEF IInv

=============================================================================
