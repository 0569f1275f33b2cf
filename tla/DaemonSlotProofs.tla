-------------------------- MODULE DaemonSlotProofs --------------------------
(***************************************************************************)
(* The resource slots of Daemon, for every value of the constants: the     *)
(* kernel's registered file table mirrors the file slots, and a slot's     *)
(* in_flight counts the tasks that name it.                                *)
(***************************************************************************)
EXTENDS DaemonProofs

\* What the registered file table holds for a slot.
TableEntry(slot) == IF slot.registered THEN slot.daemon_fd ELSE NoFd

\* A client's slots have their own entries of the registered file table.
LEMMA IndexFacts ==
  ASSUME NEW c \in Clients, NEW s \in FileSlots
  PROVE  /\ GlobalFileIndex(c, s) \in 0 .. MaxClients * FileSlotLimit - 1
         /\ \A d \in Clients, u \in FileSlots :
              GlobalFileIndex(c, s) = GlobalFileIndex(d, u) => c = d /\ s = u
<1>1. MaxClients \in Nat /\ FileSlotLimit \in Nat \ {0}
  BY ConstantsAssumption
<1>2. /\ c \in Nat /\ c + 1 <= MaxClients
      /\ s \in Nat /\ s < FileSlotLimit
  BY <1>1 DEF Clients, FileSlots
<1>3. ASSUME NEW m \in Nat, NEW n \in Nat, m + 1 <= n
      PROVE  m * FileSlotLimit + FileSlotLimit <= n * FileSlotLimit
  <2>1. PICK k \in Nat : n = m + 1 + k
    <3>1. n - (m + 1) \in Nat /\ n = m + 1 + (n - (m + 1))
      BY <1>3
    <3> QED
      BY <3>1
  <2>2. n * FileSlotLimit = m * FileSlotLimit + FileSlotLimit
                              + k * FileSlotLimit
    BY <1>1, <2>1
  <2>3. k * FileSlotLimit \in Nat /\ m * FileSlotLimit \in Nat
    BY <1>1
  <2> QED
    BY <1>1, <2>2, <2>3
<1>4. c * FileSlotLimit \in Nat /\ MaxClients * FileSlotLimit \in Nat
  BY <1>1, <1>2
<1>5. GlobalFileIndex(c, s) \in 0 .. MaxClients * FileSlotLimit - 1
  <2>1. c * FileSlotLimit + FileSlotLimit <= MaxClients * FileSlotLimit
    BY <1>1, <1>2, <1>3
  <2> QED
    BY <1>1, <1>2, <1>4, <2>1 DEF GlobalFileIndex
<1>6. ASSUME NEW d \in Clients, NEW u \in FileSlots,
             GlobalFileIndex(c, s) = GlobalFileIndex(d, u)
      PROVE  c = d /\ s = u
  <2>1. d \in Nat /\ u \in Nat /\ u < FileSlotLimit /\ d * FileSlotLimit \in Nat
    BY <1>1 DEF Clients, FileSlots
  <2>2. c * FileSlotLimit + s = d * FileSlotLimit + u
    BY <1>6 DEF GlobalFileIndex
  <2>3. c < d => c * FileSlotLimit + FileSlotLimit <= d * FileSlotLimit
    BY <1>2, <1>3, <2>1
  <2>4. d < c => d * FileSlotLimit + FileSlotLimit <= c * FileSlotLimit
    BY <1>2, <1>3, <2>1
  <2>5. c = d
    BY <1>1, <1>2, <1>4, <2>1, <2>2, <2>3, <2>4, SMTT(30)
  <2> QED
    BY <1>2, <1>4, <2>1, <2>2, <2>5
<1> QED
  BY <1>5, <1>6

-----------------------------------------------------------------------------
\* A step that writes one slot and its entry of the table, or that leaves an
\* entry alone which already fits the slot.
LEMMA SlotWritten ==
  ASSUME ResourceTypeOK, FixedFilesMatchSlots,
         NEW c \in Clients, NEW s \in FileSlots, NEW slot,
         file_resources' = [file_resources EXCEPT ![c][s] = slot],
         \/ fixed_files' = [fixed_files EXCEPT
                              ![GlobalFileIndex(c, s)] = TableEntry(slot)]
         \/ /\ UNCHANGED fixed_files
            /\ TableEntry(file_resources[c][s]) = TableEntry(slot)
  PROVE  FixedFilesMatchSlots'
<1> SUFFICES ASSUME NEW d \in Clients, NEW u \in FileSlots
             PROVE  fixed_files'[GlobalFileIndex(d, u)] =
                      TableEntry(file_resources'[d][u])
  BY DEF FixedFilesMatchSlots, TableEntry
<1>1. GlobalFileIndex(d, u) \in DOMAIN fixed_files
  BY IndexFacts DEF ResourceTypeOK
<1>2. fixed_files[GlobalFileIndex(d, u)] = TableEntry(file_resources[d][u])
  BY DEF FixedFilesMatchSlots, TableEntry
<1>3. CASE d = c /\ u = s
  <2>1. file_resources'[d][u] = slot
    BY <1>3 DEF ResourceTypeOK
  <2> QED
    BY <1>1, <1>2, <1>3, <2>1
<1>4. CASE ~(d = c /\ u = s)
  <2>1. file_resources'[d][u] = file_resources[d][u]
    BY <1>4 DEF ResourceTypeOK
  <2>2. GlobalFileIndex(d, u) # GlobalFileIndex(c, s)
    BY <1>4, IndexFacts
  <2> QED
    BY <1>1, <1>2, <2>1, <2>2
<1> QED
  BY <1>3, <1>4

\* A step after which every slot has the table entry it had.
LEMMA EntriesKept ==
  ASSUME FixedFilesMatchSlots, UNCHANGED fixed_files,
         \A c \in Clients, s \in FileSlots :
           TableEntry(file_resources'[c][s]) = TableEntry(file_resources[c][s])
  PROVE  FixedFilesMatchSlots'
BY DEF FixedFilesMatchSlots, TableEntry, GlobalFileIndex

\* A free slot has no entry; a slot that is given back becomes a free one.
LEMMA FreeSlotEntry ==
  /\ \A slot : ~slot.registered => TableEntry(slot) = NoFd
  /\ ~FreeFileSlot.registered /\ FreeFileSlot.in_flight = 0
  /\ \A id : ~ReservedSlot(id).registered /\ ReservedSlot(id).in_flight = 1
BY DEF TableEntry, FreeFileSlot, ReservedSlot

\* The registered file table fits the slots after every request.
LEMMA RequestKeepsTable ==
  ASSUME IInv, FixedFilesMatchSlots, NEW c \in Clients, Request(c)
  PROVE  FixedFilesMatchSlots'
<1>0. /\ ResourceTypeOK
      /\ file_resources \in [Clients -> [FileSlots -> FileSlotType]]
  BY DEF IInv, ResourceTypeOK
<1>a. ASSUME UNCHANGED <<fixed_files, file_resources>>
      PROVE  FixedFilesMatchSlots'
  BY <1>a DEF FixedFilesMatchSlots, GlobalFileIndex
<1>1. CASE RegisterFd(c)
  <2>1. PICK fd \in Fds, s \in FileSlots, k \in Attempts :
          /\ fixed_files' = [fixed_files EXCEPT ![GlobalFileIndex(c, s)] = fd]
          /\ file_resources' =
               [file_resources EXCEPT ![c][s] =
                  [resource_id |-> Candidate(c, k), daemon_fd |-> fd,
                   in_flight |-> 0, registered |-> TRUE, closing |-> FALSE]]
    BY <1>1, Zenon DEF RegisterFd
  <2> DEFINE slot == [resource_id |-> Candidate(c, k), daemon_fd |-> fd,
                      in_flight |-> 0, registered |-> TRUE, closing |-> FALSE]
  <2>2. TableEntry(slot) = fd
    BY DEF TableEntry
  <2>3. file_resources' = [file_resources EXCEPT ![c][s] = slot]
    BY <2>1
  <2>4. fixed_files' = [fixed_files EXCEPT
                          ![GlobalFileIndex(c, s)] = TableEntry(slot)]
    BY <2>1, <2>2, Zenon
  <2> HIDE DEF slot
  <2> QED
    BY <1>0, <2>3, <2>4, SlotWritten, Zenon
<1>2. CASE RegisterFdFails(c) \/ SubmitOpenatFails(c)
  BY <1>2, <1>a, Zenon DEF RegisterFdFails, SubmitOpenatFails
<1>3. ASSUME NEW length \in Lengths \cup {0}, RegisterBuffer(c, length)
      PROVE  FixedFilesMatchSlots'
  BY <1>3, <1>a, Zenon DEF RegisterBuffer
<1>4. ASSUME NEW id \in ResourceIds, ReleaseResource(c, id)
      PROVE  FixedFilesMatchSlots'
  <2>1. CASE UNCHANGED <<fixed_files, file_resources>>
    BY <2>1, <1>a
  <2>2. ASSUME NEW s \in FileSlots, file_resources[c][s].in_flight = 0,
               file_resources' =
                 [file_resources EXCEPT ![c][s] =
                    TryReleaseFile([@ EXCEPT !.closing = TRUE])],
               fixed_files' =
                 [fixed_files EXCEPT ![GlobalFileIndex(c, s)] = NoFd]
        PROVE  FixedFilesMatchSlots'
    <3>1. file_resources[c][s] \in FileSlotType
      BY <1>0
    <3>2. TryReleaseFile([file_resources[c][s] EXCEPT !.closing = TRUE]) =
            FreeFileSlot
      BY <2>2, <3>1 DEF TryReleaseFile, Releases, FileSlotType
    <3>3. file_resources' = [file_resources EXCEPT ![c][s] = FreeFileSlot]
      BY <1>0, <2>2, <3>2, Zenon
    <3>4. TableEntry(FreeFileSlot) = NoFd
      BY FreeSlotEntry
    <3>5. fixed_files' = [fixed_files EXCEPT ![GlobalFileIndex(c, s)] =
                                               TableEntry(FreeFileSlot)]
      BY <2>2, <3>4
    <3> QED
      BY <1>0, <3>3, <3>5, SlotWritten, Zenon
  <2> QED
    BY <1>4, <2>1, <2>2, Zenon DEF ReleaseResource
<1>5. ASSUME NEW kind \in {"nop", "cancel"}, SubmitPlain(c, kind)
      PROVE  FixedFilesMatchSlots'
  BY <1>5, <1>a, Zenon DEF SubmitPlain, resourceVars
<1>6. ASSUME NEW s \in FileSlots, s \in FreeFileSlots(c), NEW id,
             file_resources' = [file_resources EXCEPT
                                  ![c][s] = ReservedSlot(id)],
             UNCHANGED fixed_files
      PROVE  FixedFilesMatchSlots'
  <2>1. ~file_resources[c][s].registered
    BY <1>6 DEF FreeFileSlots, SlotIsFree
  <2> QED
    BY <1>0, <1>6, <2>1, FreeSlotEntry, SlotWritten, Zenon
<1>7. CASE SubmitOpenat(c)
  <2>1. PICK r \in FileSlots, k \in Attempts :
          /\ r \in FreeFileSlots(c)
          /\ \/ file_resources' = [file_resources EXCEPT
                                     ![c][r] = ReservedSlot(Candidate(c, k))]
             \/ UNCHANGED file_resources
    BY <1>7, Zenon DEF SubmitOpenat, FirstOf
  <2>2. UNCHANGED fixed_files
    BY <1>7, Zenon DEF SubmitOpenat
  <2> QED
    BY <1>6, <1>a, <2>1, <2>2
<1>8. ASSUME NEW id \in ResourceIds, SubmitClose(c, id)
      PROVE  FixedFilesMatchSlots'
  <2>1. PICK f \in FileSlots : TakeFd(c, f) \/ PutFdBack(c, f)
    BY <1>8, Zenon DEF SubmitClose
  <2>2. CASE TakeFd(c, f)
    <3> DEFINE slot == [file_resources[c][f] EXCEPT
                          !.daemon_fd = NoFd, !.registered = FALSE,
                          !.closing = TRUE, !.in_flight = 1]
    <3>1. file_resources[c][f] \in FileSlotType
      BY <1>0
    <3>2. ~slot.registered
      BY <3>1 DEF FileSlotType
    <3>3. file_resources' = [file_resources EXCEPT ![c][f] = slot]
      BY <1>0, <2>2, Zenon DEF TakeFd
    <3>4. fixed_files' = [fixed_files EXCEPT ![GlobalFileIndex(c, f)] = NoFd]
      BY <2>2 DEF TakeFd
    <3> HIDE DEF slot
    <3> QED
      BY <1>0, <3>2, <3>3, <3>4, FreeSlotEntry, SlotWritten, Zenon
  <2> QED
    BY <2>1, <2>2, <1>a DEF PutFdBack
<1>9. ASSUME NEW f \in FileSlots, UNCHANGED fixed_files,
             file_resources' =
               [file_resources EXCEPT ![c][f].in_flight = @ + 1]
      PROVE  FixedFilesMatchSlots'
  <2>1. ASSUME NEW d \in Clients, NEW s \in FileSlots
        PROVE  /\ file_resources'[d][s].registered =
                    file_resources[d][s].registered
               /\ file_resources'[d][s].daemon_fd =
                    file_resources[d][s].daemon_fd
    BY <1>0, <1>9 DEF FileSlotType
  <2> QED
    BY <1>9, <2>1, EntriesKept DEF TableEntry
<1>10. ASSUME NEW id \in ResourceIds, SubmitIo(c, id)
       PROVE  FixedFilesMatchSlots'
  BY <1>10, <1>9, <1>a, Zenon DEF SubmitIo
<1>11. ASSUME NEW id \in ResourceIds, SubmitAcceptFails(c, id)
       PROVE  FixedFilesMatchSlots'
  BY <1>11, <1>a, Zenon DEF SubmitAcceptFails
<1>12. ASSUME NEW id \in ResourceIds, SubmitAccept(c, id)
       PROVE  FixedFilesMatchSlots'
  <2>1. UNCHANGED fixed_files
    BY <1>12, Zenon DEF SubmitAccept
  <2>2. PICK f \in FileSlots, r \in FreeFileSlots(c), k \in Attempts :
          \/ file_resources' =
               [file_resources EXCEPT
                  ![c][f].in_flight = @ + 1,
                  ![c][r] = ReservedSlot(Candidate(c, k))]
          \/ UNCHANGED file_resources
    BY <1>12, ZenonT(40) DEF SubmitAccept, FirstOf
  <2>3. CASE UNCHANGED file_resources
    BY <2>1, <2>3, <1>a
  <2>4. ASSUME NEW slot, ~slot.registered,
               file_resources' = [file_resources EXCEPT
                                    ![c][f].in_flight = @ + 1, ![c][r] = slot],
               NEW d \in Clients, NEW s \in FileSlots
        PROVE  TableEntry(file_resources'[d][s]) =
                 TableEntry(file_resources[d][s])
    <3>1. r \in FileSlots /\ ~file_resources[c][r].registered
      BY DEF FreeFileSlots, SlotIsFree
    <3>2. CASE d = c /\ s = r
      <4>1. file_resources'[d][s] = slot
        BY <1>0, <2>4, <3>1, <3>2, SMTT(30)
      <4> QED
        BY <2>4, <3>1, <3>2, <4>1 DEF TableEntry
    <3>3. CASE ~(d = c /\ s = r)
      <4>1. /\ file_resources'[d][s].registered =
                 file_resources[d][s].registered
            /\ file_resources'[d][s].daemon_fd =
                 file_resources[d][s].daemon_fd
        <5>1. file_resources[d][s] \in FileSlotType
          BY <1>0, SMTT(30)
        <5>2. \/ file_resources'[d][s] = file_resources[d][s]
              \/ file_resources'[d][s] =
                   [file_resources[d][s] EXCEPT !.in_flight = @ + 1]
          BY <1>0, <2>4, <3>1, <3>3, SMTT(30)
        <5> QED
          BY <5>1, <5>2 DEF FileSlotType
      <4> QED
        BY <4>1 DEF TableEntry
    <3> QED
      BY <3>2, <3>3
  <2> QED
    BY <2>1, <2>2, <2>3, <2>4, EntriesKept, FreeSlotEntry, SMTT(30)
<1>13. ASSUME NEW kind \in FixedKinds, NEW id \in ResourceIds,
              NEW buffer_id \in ResourceIds, NEW length \in Lengths,
              SubmitFixed(c, kind, id, buffer_id, length)
       PROVE  FixedFilesMatchSlots'
  BY <1>13, <1>9, <1>a, Zenon DEF SubmitFixed
<1> QED
  BY <1>1, <1>2, <1>3, <1>4, <1>5, <1>7, <1>8, <1>10, <1>11, <1>12, <1>13,
     Zenon DEF Request

\* Giving a client record to a connection empties slots that have no entry.
LEMMA OpenKeepsTable ==
  ASSUME IInv, FixedFilesMatchSlots, OpenClient
  PROVE  FixedFilesMatchSlots'
<1>1. PICK c \in Clients :
        /\ ~HasRetainedResources(c)
        /\ file_resources' = [file_resources EXCEPT
                                ![c] = [s \in FileSlots |-> FreeFileSlot]]
  BY Zenon DEF OpenClient, FirstOf, RecordIsFree
<1>2. \A s \in FileSlots : ~file_resources[c][s].registered
  BY <1>1 DEF HasRetainedResources, SlotIsFree
<1>3. ASSUME NEW d \in Clients, NEW s \in FileSlots
      PROVE  TableEntry(file_resources'[d][s]) =
               TableEntry(file_resources[d][s])
  <2>1. file_resources \in [Clients -> [FileSlots -> FileSlotType]]
    BY DEF IInv, ResourceTypeOK
  <2>2. CASE d = c
    <3>1. file_resources'[d][s] = FreeFileSlot
      BY <1>1, <2>1, <2>2
    <3> QED
      BY <1>2, <2>2, <3>1, FreeSlotEntry DEF TableEntry
  <2>3. CASE d # c
    BY <1>1, <2>1, <2>3
  <2> QED
    BY <2>2, <2>3
<1>4. UNCHANGED fixed_files
  BY Zenon DEF OpenClient
<1> QED
  BY <1>3, <1>4, EntriesKept

\* Marking the slots of a client closing keeps their entries.
LEMMA CloseKeepsTable ==
  ASSUME IInv, FixedFilesMatchSlots, NEW c \in Clients, CloseClient(c)
  PROVE  FixedFilesMatchSlots'
<1>1. /\ UNCHANGED fixed_files
      /\ file_resources' =
           [file_resources EXCEPT ![c] =
              [s \in FileSlots |-> IF @[s].registered
                                   THEN [@[s] EXCEPT !.closing = TRUE]
                                   ELSE @[s]]]
  BY Zenon DEF CloseClient
<1>2. ASSUME NEW d \in Clients, NEW s \in FileSlots
      PROVE  TableEntry(file_resources'[d][s]) =
               TableEntry(file_resources[d][s])
  <2>1. /\ file_resources \in [Clients -> [FileSlots -> FileSlotType]]
        /\ file_resources[d][s] \in FileSlotType
    BY DEF IInv, ResourceTypeOK
  <2>2. \/ file_resources'[d][s] = file_resources[d][s]
        \/ file_resources'[d][s] =
             [file_resources[d][s] EXCEPT !.closing = TRUE]
    BY <1>1, <2>1, Zenon
  <2> QED
    BY <2>1, <2>2 DEF TableEntry, FileSlotType
<1> QED
  BY <1>1, <1>2, EntriesKept

\* The sweep empties slots and their entries together.
LEMMA SweepKeepsTable ==
  ASSUME IInv, FixedFilesMatchSlots, SweepClosingResources
  PROVE  FixedFilesMatchSlots'
<1> SUFFICES ASSUME NEW d \in Clients, NEW u \in FileSlots
             PROVE  fixed_files'[GlobalFileIndex(d, u)] =
                      TableEntry(file_resources'[d][u])
  BY DEF FixedFilesMatchSlots, TableEntry
<1> DEFINE slot == file_resources[d][u]
<1>1. slot \in FileSlotType /\ GlobalFileIndex(d, u) \in DOMAIN fixed_files
  BY IndexFacts DEF IInv, ResourceTypeOK
<1>2. fixed_files[GlobalFileIndex(d, u)] = TableEntry(slot)
  BY DEF FixedFilesMatchSlots, TableEntry
<1>3. file_resources'[d][u] =
        IF Sweepable(slot) THEN TryReleaseFile(slot) ELSE slot
  BY DEF SweepClosingResources
<1>4. Sweepable(slot) => TryReleaseFile(slot) = FreeFileSlot
  BY DEF Sweepable, TryReleaseFile, Releases
<1>5. fixed_files'[GlobalFileIndex(d, u)] =
        IF slot.registered /\ Sweepable(slot)
        THEN NoFd ELSE fixed_files[GlobalFileIndex(d, u)]
  <2>1. fixed_files'[GlobalFileIndex(d, u)] =
          IF \E c \in Clients, s \in FileSlots :
               /\ GlobalFileIndex(d, u) = GlobalFileIndex(c, s)
               /\ file_resources[c][s].registered
               /\ Sweepable(file_resources[c][s])
          THEN NoFd ELSE fixed_files[GlobalFileIndex(d, u)]
    BY <1>1, Zenon DEF SweepClosingResources
  <2>2. \A c \in Clients, s \in FileSlots :
          GlobalFileIndex(d, u) = GlobalFileIndex(c, s) => d = c /\ u = s
    BY IndexFacts
  <2> QED
    BY <2>1, <2>2
<1> HIDE DEF slot
<1> QED
  BY <1>2, <1>3, <1>4, <1>5, FreeSlotEntry, SMTT(30) DEF TableEntry

\* A file slot of the task's client, as the completion of the task leaves it.
LEMMA CompletedSlot ==
  ASSUME NEW slot \in FileSlotType, NEW task \in TaskType, NEW s \in FileSlots
  PROVE  LET after == FileAfterCompletion(task, s, slot)
         IN \/ /\ after.registered = slot.registered
               /\ after.daemon_fd = slot.daemon_fd
               /\ after.closing = slot.closing
               /\ after.resource_id = slot.resource_id
            \/ /\ after = FreeFileSlot
               /\ slot.registered => slot.closing
<1> DEFINE done == [slot EXCEPT !.in_flight = Decrement(@)]
<1>1. /\ done.registered = slot.registered /\ done.daemon_fd = slot.daemon_fd
      /\ done.closing = slot.closing /\ done.resource_id = slot.resource_id
  BY DEF FileSlotType
<1>2. FileAfterCompletion(task, s, slot) \in {slot, done, TryReleaseFile(done)}
  BY Zenon DEF FileAfterCompletion
<1> HIDE DEF done
<1>3. \/ TryReleaseFile(done) = done
      \/ /\ TryReleaseFile(done) = FreeFileSlot
         /\ done.registered => done.closing
  BY DEF TryReleaseFile, Releases
<1> QED
  BY <1>1, <1>2, <1>3

\* A completion fills, keeps or empties a slot and its entry together.
LEMMA CompleteKeepsTable ==
  ASSUME IInv, FixedFilesMatchSlots, NEW t \in ActiveTasks,
         NEW res \in Nat \cup {-1}, CompleteTask(t, res)
  PROVE  FixedFilesMatchSlots'
<1> DEFINE task == tasks[t]
           c == task.client_index
<1>1. task \in TaskType /\ c \in Clients
  BY DEF IInv, TaskInv, TaskTypeOK, TaskType, ActiveTasks
<1>2. PICK installed \in BOOLEAN :
        /\ installed => MayInstall(task, res)
        /\ file_resources' =
             [file_resources EXCEPT ![c] =
                [s \in FileSlots |->
                   FileAfterCompletion(task, s,
                                       PreparedSlot(task, installed, res, s))]]
        /\ fixed_files' =
             [i \in DOMAIN fixed_files |->
                IF \E s \in FileSlots : /\ i = GlobalFileIndex(c, s)
                                        /\ s = task.result_file_slot_index
                                        /\ installed
                THEN res
                ELSE IF \E s \in {s \in FileSlots :
                             /\ PreparedSlot(task, installed, res, s).registered
                             /\ ~FileAfterCompletion(task, s,
                                   PreparedSlot(task, installed, res, s))
                                     .registered} : i = GlobalFileIndex(c, s)
                     THEN NoFd
                     ELSE fixed_files[i]]
  BY Zenon DEF CompleteTask
<1> SUFFICES ASSUME NEW d \in Clients, NEW u \in FileSlots
             PROVE  fixed_files'[GlobalFileIndex(d, u)] =
                      TableEntry(file_resources'[d][u])
  BY DEF FixedFilesMatchSlots, TableEntry
<1> DEFINE slot == file_resources[d][u]
           prepared == PreparedSlot(task, installed, res, u)
           after == FileAfterCompletion(task, u, prepared)
<1>3. /\ file_resources \in [Clients -> [FileSlots -> FileSlotType]]
      /\ slot \in FileSlotType
      /\ GlobalFileIndex(d, u) \in DOMAIN fixed_files
  BY IndexFacts DEF IInv, ResourceTypeOK
<1>4. fixed_files[GlobalFileIndex(d, u)] = TableEntry(slot)
  BY DEF FixedFilesMatchSlots, TableEntry
<1>5. \A s \in FileSlots :
        GlobalFileIndex(d, u) = GlobalFileIndex(c, s) => d = c /\ u = s
  BY <1>1, IndexFacts, Zenon
<1>6. CASE d # c
  <2>1. file_resources'[d][u] = slot
    BY <1>2, <1>3, <1>6, SMTT(30)
  <2>2. fixed_files'[GlobalFileIndex(d, u)] = fixed_files[GlobalFileIndex(d, u)]
    BY <1>2, <1>3, <1>5, <1>6, ZenonT(40)
  <2> QED
    BY <1>4, <2>1, <2>2, SMTT(30)
<1>7. CASE d = c
  <2>1. file_resources'[d][u] = after
    BY <1>2, <1>3, <1>7, SMTT(30)
  <2>2. fixed_files'[GlobalFileIndex(d, u)] =
          IF u = task.result_file_slot_index /\ installed THEN res
          ELSE IF prepared.registered /\ ~after.registered THEN NoFd
               ELSE TableEntry(slot)
    <3> HIDE DEF prepared, after
    <3> QED
      BY <1>2, <1>3, <1>4, <1>5, <1>7, ZenonT(30) DEF prepared, after
  <2>3. /\ prepared \in FileSlotType
        /\ IF u = task.result_file_slot_index /\ installed
           THEN prepared.registered /\ prepared.daemon_fd = res
                  /\ ~prepared.closing
           ELSE prepared = slot
    <3>1. installed => res \in Nat
      BY <1>2 DEF MayInstall, ReturnsFd
    <3> QED
      BY <1>1, <1>3, <1>7, <3>1, Zenon DEF PreparedSlot, FileSlotType, TaskType
  <2>4. \/ /\ after.registered = prepared.registered
           /\ after.daemon_fd = prepared.daemon_fd
        \/ /\ after = FreeFileSlot
           /\ prepared.registered => prepared.closing
    <3> HIDE DEF task, prepared
    <3> QED
      BY <1>1, <2>3, CompletedSlot
  <2> HIDE DEF prepared, after, slot
  <2> QED
    BY <2>1, <2>2, <2>3, <2>4, FreeSlotEntry, SMTT(30) DEF TableEntry
<1> QED
  BY <1>6, <1>7

(***************************************************************************)
(* The registered file table mirrors the file slots in every state of      *)
(* every behaviour, for any number of clients and slots.                   *)
(***************************************************************************)
THEOREM TableMatchesSlots == Spec => []FixedFilesMatchSlots
<1>1. Init => FixedFilesMatchSlots
  <2> SUFFICES ASSUME Init, NEW c \in Clients, NEW s \in FileSlots
               PROVE  fixed_files[GlobalFileIndex(c, s)] =
                        TableEntry(file_resources[c][s])
    BY DEF FixedFilesMatchSlots, TableEntry
  <2>1. file_resources[c][s] = FreeFileSlot
    BY DEF Init
  <2>2. GlobalFileIndex(c, s) \in 0 .. MaxClients * FileSlotLimit - 1
    BY IndexFacts
  <2>3. fixed_files[GlobalFileIndex(c, s)] = NoFd
    BY <2>2, Zenon DEF Init
  <2> QED
    BY <2>1, <2>3, FreeSlotEntry, SMTT(30)
<1>2. IInv /\ FixedFilesMatchSlots /\ [Next]_vars => FixedFilesMatchSlots'
  <2> SUFFICES ASSUME IInv, FixedFilesMatchSlots, [Next]_vars
               PROVE  FixedFilesMatchSlots'
    OBVIOUS
  <2>1. ASSUME UNCHANGED <<fixed_files, file_resources>>
        PROVE  FixedFilesMatchSlots'
    BY <2>1 DEF FixedFilesMatchSlots, GlobalFileIndex
  <2>2. ASSUME NEW c \in Clients, AcceptHandshake(c)
        PROVE  FixedFilesMatchSlots'
    BY <2>1, <2>2, Zenon DEF AcceptHandshake, resourceVars
  <2>3. CASE KernelCompletes
    BY <2>1, <2>3, Zenon DEF KernelCompletes
  <2>4. CASE ReapUnknownCompletion \/ EventLoopEnds
    BY <2>1, <2>4, Zenon DEF ReapUnknownCompletion, EventLoopEnds, resourceVars
  <2>5. CASE ReapCompletion
    <3>1. cq \in Seq(CqeType) /\ cq # << >>
      BY <2>5, SMTT(30) DEF ReapCompletion, IInv, RingTypeOK
    <3>2. Head(cq) \in CqeType
      BY <3>1, QueueTail
    <3>3. PICK t \in ActiveTasks, res \in Nat \cup {-1} : CompleteTask(t, res)
      BY <2>5, <3>2 DEF ReapCompletion, FirstOf, FindTaskSlot, CqeType
    <3> QED
      BY <3>3, CompleteKeepsTable
  <2>6. CASE UNCHANGED vars
    BY <2>1, <2>6, Zenon DEF vars, resourceVars
  <2> QED
    BY <2>2, <2>3, <2>4, <2>5, <2>6, OpenKeepsTable, CloseKeepsTable,
       SweepKeepsTable, RequestKeepsTable, ZenonT(40) DEF Next
<1> QED
  BY <1>1, <1>2, Invariance, PTL DEF Spec

-----------------------------------------------------------------------------
(***************************************************************************)
(* The in_flight counts.  No task names one slot both as the file it works *)
(* on and as the slot of its result, so a task holds a slot at most once.  *)
(***************************************************************************)
SlotsHeldOnce ==
  \A t \in ActiveTasks :
    \/ tasks[t].file_slot_index # tasks[t].result_file_slot_index
    \/ tasks[t].file_slot_index = NoSlot

SlotInv == InFlightMatchesTasks /\ SlotsHeldOnce

\* How often a task holds a slot of a client.
FileHolds(task, c, s) ==
  IF task.client_index = c /\ task.file_slot_index = s THEN 1 ELSE 0
ResultHolds(task, c, s) ==
  IF task.client_index = c /\ task.result_file_slot_index = s THEN 1 ELSE 0
BufferHolds(task, c, s) ==
  IF task.client_index = c /\ task.buffer_slot_index = s THEN 1 ELSE 0

\* A step that changes no task and no count.
CountsKept ==
  /\ UNCHANGED tasks
  /\ \A c \in Clients :
       /\ \A s \in FileSlots : file_resources'[c][s].in_flight =
                                 file_resources[c][s].in_flight
       /\ \A s \in BufferSlots : buffer_resources'[c][s].in_flight =
                                   buffer_resources[c][s].in_flight

\* A step that starts a task and counts it at the slots it names.
CountedIn(t, task) ==
  /\ tasks' = [tasks EXCEPT ![t] = task]
  /\ \A c \in Clients :
       /\ \A s \in FileSlots :
            file_resources'[c][s].in_flight =
              file_resources[c][s].in_flight + FileHolds(task, c, s)
                                             + ResultHolds(task, c, s)
       /\ \A s \in BufferSlots :
            buffer_resources'[c][s].in_flight =
              buffer_resources[c][s].in_flight + BufferHolds(task, c, s)

\* One more at the file slots f and r, and at the buffer slot b, of client c.
FilesHeld(c, f, r) ==
  \A d \in Clients, s \in FileSlots :
    file_resources'[d][s].in_flight =
      file_resources[d][s].in_flight + (IF d = c /\ s = f THEN 1 ELSE 0)
                                     + (IF d = c /\ s = r THEN 1 ELSE 0)
BufferHeld(c, b) ==
  \A d \in Clients, s \in BufferSlots :
    buffer_resources'[d][s].in_flight =
      buffer_resources[d][s].in_flight + (IF d = c /\ s = b THEN 1 ELSE 0)

\* A step that ends a task and takes it off the counts.
CountedOut(t, task) ==
  /\ tasks' = [tasks EXCEPT ![t] = ClearedTask]
  /\ \A c \in Clients :
       /\ \A s \in FileSlots :
            file_resources'[c][s].in_flight =
              file_resources[c][s].in_flight - FileHolds(task, c, s)
                                             - ResultHolds(task, c, s)
       /\ \A s \in BufferSlots :
            buffer_resources'[c][s].in_flight =
              buffer_resources[c][s].in_flight - BufferHolds(task, c, s)

\* The sizes of a set of task slots with one more or one fewer.
LEMMA OneMoreOrFewer ==
  ASSUME NEW S \in SUBSET TaskSlots, NEW t \in TaskSlots
  PROVE  /\ Cardinality(S) \in Nat
         /\ t \notin S => Cardinality(S \cup {t}) = Cardinality(S) + 1
         /\ t \in S => Cardinality(S \ {t}) = Cardinality(S) - 1
<1>1. IsFiniteSet(S) /\ Cardinality(S) \in Nat
  BY TaskSetsFinite, SMTT(30)
<1> QED
  BY <1>1, FS_AddElement, FS_RemoveElement, Zenon

\* A slot's users after a task has started.
LEMMA UsersOfStarted ==
  ASSUME TaskTypeOK, NEW t \in FreeTaskSlots, NEW task, task.active,
         tasks' = [tasks EXCEPT ![t] = task], NEW c, NEW s
  PROVE  /\ Cardinality(FileUsers(c, s)') =
              Cardinality(FileUsers(c, s)) + FileHolds(task, c, s)
         /\ Cardinality(ResultUsers(c, s)') =
              Cardinality(ResultUsers(c, s)) + ResultHolds(task, c, s)
         /\ Cardinality(BufferUsers(c, s)') =
              Cardinality(BufferUsers(c, s)) + BufferHolds(task, c, s)
         /\ Cardinality(FileUsers(c, s)) \in Nat
         /\ Cardinality(ResultUsers(c, s)) \in Nat
         /\ Cardinality(BufferUsers(c, s)) \in Nat
<1>1. t \in TaskSlots /\ ~tasks[t].active
  BY DEF FreeTaskSlots
<1>2. /\ tasks'[t] = task
      /\ \A u \in TaskSlots \ {t} : tasks'[u] = tasks[u]
  BY <1>1 DEF TaskTypeOK
<1>3. /\ FileUsers(c, s) \in SUBSET TaskSlots /\ t \notin FileUsers(c, s)
      /\ ResultUsers(c, s) \in SUBSET TaskSlots /\ t \notin ResultUsers(c, s)
      /\ BufferUsers(c, s) \in SUBSET TaskSlots /\ t \notin BufferUsers(c, s)
  BY <1>1 DEF FileUsers, ResultUsers, BufferUsers, TasksOf, ActiveTasks
<1>4. FileUsers(c, s)' = IF task.client_index = c /\ task.file_slot_index = s
                         THEN FileUsers(c, s) \cup {t} ELSE FileUsers(c, s)
  BY <1>1, <1>2, SMTT(30) DEF FileUsers, TasksOf, ActiveTasks
<1>5. ResultUsers(c, s)' =
        IF task.client_index = c /\ task.result_file_slot_index = s
        THEN ResultUsers(c, s) \cup {t} ELSE ResultUsers(c, s)
  BY <1>1, <1>2 DEF ResultUsers, TasksOf, ActiveTasks
<1>6. BufferUsers(c, s)' =
        IF task.client_index = c /\ task.buffer_slot_index = s
        THEN BufferUsers(c, s) \cup {t} ELSE BufferUsers(c, s)
  BY <1>1, <1>2 DEF BufferUsers, TasksOf, ActiveTasks
<1>7. /\ Cardinality(FileUsers(c, s)) \in Nat
      /\ Cardinality(FileUsers(c, s) \cup {t}) =
           Cardinality(FileUsers(c, s)) + 1
  BY <1>1, <1>3, OneMoreOrFewer, SMTT(30)
<1>8. /\ Cardinality(ResultUsers(c, s)) \in Nat
      /\ Cardinality(ResultUsers(c, s) \cup {t}) =
           Cardinality(ResultUsers(c, s)) + 1
  BY <1>1, <1>3, OneMoreOrFewer
<1>9. /\ Cardinality(BufferUsers(c, s)) \in Nat
      /\ Cardinality(BufferUsers(c, s) \cup {t}) =
           Cardinality(BufferUsers(c, s)) + 1
  BY <1>1, <1>3, OneMoreOrFewer, Zenon
<1> QED
  BY <1>4, <1>5, <1>6, <1>7, <1>8, <1>9, SMTT(30)
  DEF FileHolds, ResultHolds, BufferHolds

\* A slot's users after a task has ended.
LEMMA UsersOfEnded ==
  ASSUME TaskTypeOK, NEW t \in ActiveTasks,
         tasks' = [tasks EXCEPT ![t] = ClearedTask], NEW c, NEW s
  PROVE  /\ Cardinality(FileUsers(c, s)') =
              Cardinality(FileUsers(c, s)) - FileHolds(tasks[t], c, s)
         /\ Cardinality(ResultUsers(c, s)') =
              Cardinality(ResultUsers(c, s)) - ResultHolds(tasks[t], c, s)
         /\ Cardinality(BufferUsers(c, s)') =
              Cardinality(BufferUsers(c, s)) - BufferHolds(tasks[t], c, s)
         /\ Cardinality(FileUsers(c, s)) \in Nat
         /\ Cardinality(ResultUsers(c, s)) \in Nat
         /\ Cardinality(BufferUsers(c, s)) \in Nat
<1>1. t \in TaskSlots /\ tasks[t].active /\ ~ClearedTask.active
  BY DEF ActiveTasks, ClearedTask
<1>2. /\ ~tasks'[t].active
      /\ \A u \in TaskSlots \ {t} : tasks'[u] = tasks[u]
  BY <1>1 DEF TaskTypeOK
<1>3. /\ FileUsers(c, s) \in SUBSET TaskSlots
      /\ ResultUsers(c, s) \in SUBSET TaskSlots
      /\ BufferUsers(c, s) \in SUBSET TaskSlots
  BY DEF FileUsers, ResultUsers, BufferUsers, TasksOf, ActiveTasks
<1>4. /\ FileUsers(c, s)' = FileUsers(c, s) \ {t}
      /\ FileHolds(tasks[t], c, s) = IF t \in FileUsers(c, s) THEN 1 ELSE 0
  BY <1>1, <1>2, SMTT(30) DEF FileUsers, TasksOf, ActiveTasks, FileHolds
<1>5. /\ ResultUsers(c, s)' = ResultUsers(c, s) \ {t}
      /\ ResultHolds(tasks[t], c, s) =
           IF t \in ResultUsers(c, s) THEN 1 ELSE 0
  BY <1>1, <1>2, SMTT(30) DEF ResultUsers, TasksOf, ActiveTasks, ResultHolds
<1>6. /\ BufferUsers(c, s)' = BufferUsers(c, s) \ {t}
      /\ BufferHolds(tasks[t], c, s) =
           IF t \in BufferUsers(c, s) THEN 1 ELSE 0
  BY <1>1, <1>2 DEF BufferUsers, TasksOf, ActiveTasks, BufferHolds
<1>7. ASSUME NEW S \in SUBSET TaskSlots
      PROVE  /\ Cardinality(S) \in Nat
             /\ Cardinality(S \ {t}) =
                  Cardinality(S) - (IF t \in S THEN 1 ELSE 0)
  <2>1. CASE t \in S
    BY <1>1, <2>1, OneMoreOrFewer, Zenon
  <2>2. CASE t \notin S
    <3>1. S \ {t} = S
      BY <2>2
    <3>2. Cardinality(S) \in Nat
      BY <1>1, OneMoreOrFewer, Zenon
    <3>3. Cardinality(S \ {t}) = Cardinality(S)
      BY <3>1, Zenon
    <3> QED
      BY <2>2, <3>2, <3>3
  <2> QED
    BY <2>1, <2>2
<1> QED
  BY <1>3, <1>4, <1>5, <1>6, <1>7, SMTT(30)

\* A step that changes neither tasks nor counts keeps the counts right.
LEMMA CountsKeptKeeps ==
  ASSUME SlotInv, CountsKept
  PROVE  SlotInv'
<1>1. /\ \A c, s : /\ FileUsers(c, s)' = FileUsers(c, s)
                   /\ ResultUsers(c, s)' = ResultUsers(c, s)
                   /\ BufferUsers(c, s)' = BufferUsers(c, s)
      /\ SlotsHeldOnce'
  BY DEF CountsKept, SlotInv, SlotsHeldOnce, FileUsers, ResultUsers,
         BufferUsers, TasksOf, ActiveTasks
<1> QED
  BY <1>1 DEF CountsKept, SlotInv, InFlightMatchesTasks

\* So does one that counts a task in where it starts ...
LEMMA CountedInKeeps ==
  ASSUME IInv, SlotInv, NEW t \in FreeTaskSlots, NEW task, task.active,
         task.file_slot_index # task.result_file_slot_index
           \/ task.file_slot_index = NoSlot,
         CountedIn(t, task)
  PROVE  SlotInv'
<1>0. TaskTypeOK /\ tasks' = [tasks EXCEPT ![t] = task]
  BY DEF IInv, TaskInv, CountedIn
<1>1. SlotsHeldOnce'
  <2>1. t \in TaskSlots /\ tasks \in [TaskSlots -> TaskType]
    BY <1>0 DEF FreeTaskSlots, TaskTypeOK
  <2>2. tasks'[t] = task /\ \A u \in TaskSlots \ {t} : tasks'[u] = tasks[u]
    BY <1>0, <2>1, SMTT(30)
  <2> QED
    BY <2>2 DEF SlotInv, SlotsHeldOnce, ActiveTasks
<1>2. ASSUME NEW c \in Clients, NEW s \in FileSlots
      PROVE  file_resources'[c][s].in_flight =
               Cardinality(FileUsers(c, s)') + Cardinality(ResultUsers(c, s)')
  <2>1. /\ Cardinality(FileUsers(c, s)') =
             Cardinality(FileUsers(c, s)) + FileHolds(task, c, s)
        /\ Cardinality(ResultUsers(c, s)') =
             Cardinality(ResultUsers(c, s)) + ResultHolds(task, c, s)
        /\ Cardinality(FileUsers(c, s)) \in Nat
        /\ Cardinality(ResultUsers(c, s)) \in Nat
    BY <1>0, UsersOfStarted, ZenonT(40)
  <2>2. /\ file_resources'[c][s].in_flight =
             file_resources[c][s].in_flight + FileHolds(task, c, s)
                                            + ResultHolds(task, c, s)
        /\ file_resources[c][s].in_flight =
             Cardinality(FileUsers(c, s)) + Cardinality(ResultUsers(c, s))
    BY DEF CountedIn, SlotInv, InFlightMatchesTasks
  <2>3. FileHolds(task, c, s) \in Nat /\ ResultHolds(task, c, s) \in Nat
    BY SMTT(30) DEF FileHolds, ResultHolds
  <2> QED
    BY <2>1, <2>2, <2>3
<1>3. ASSUME NEW c \in Clients, NEW s \in BufferSlots
      PROVE  buffer_resources'[c][s].in_flight = Cardinality(BufferUsers(c, s)')
  <2>1. Cardinality(BufferUsers(c, s)') =
          Cardinality(BufferUsers(c, s)) + BufferHolds(task, c, s)
    BY <1>0, UsersOfStarted, ZenonT(40)
  <2> QED
    BY <2>1 DEF CountedIn, SlotInv, InFlightMatchesTasks
<1> QED
  BY <1>1, <1>2, <1>3, SMTT(30) DEF SlotInv, InFlightMatchesTasks

\* ... and one that counts it out where it ends.
LEMMA CountedOutKeeps ==
  ASSUME IInv, SlotInv, NEW t \in ActiveTasks, CountedOut(t, tasks[t])
  PROVE  SlotInv'
<1>0. TaskTypeOK /\ tasks' = [tasks EXCEPT ![t] = ClearedTask]
  BY DEF IInv, TaskInv, CountedOut
<1>1. SlotsHeldOnce'
  <2>1. t \in TaskSlots /\ tasks \in [TaskSlots -> TaskType]
    BY <1>0, SMTT(30) DEF ActiveTasks, TaskTypeOK
  <2>2. /\ ~tasks'[t].active
        /\ \A u \in TaskSlots \ {t} : tasks'[u] = tasks[u]
    BY <1>0, <2>1, SMTT(30) DEF ClearedTask
  <2> QED
    BY <2>2 DEF SlotInv, SlotsHeldOnce, ActiveTasks
<1>2. ASSUME NEW c \in Clients, NEW s \in FileSlots
      PROVE  file_resources'[c][s].in_flight =
               Cardinality(FileUsers(c, s)') + Cardinality(ResultUsers(c, s)')
  <2>1. /\ Cardinality(FileUsers(c, s)') =
             Cardinality(FileUsers(c, s)) - FileHolds(tasks[t], c, s)
        /\ Cardinality(ResultUsers(c, s)') =
             Cardinality(ResultUsers(c, s)) - ResultHolds(tasks[t], c, s)
        /\ Cardinality(FileUsers(c, s)) \in Nat
        /\ Cardinality(ResultUsers(c, s)) \in Nat
    BY <1>0, UsersOfEnded, ZenonT(40)
  <2>2. /\ file_resources'[c][s].in_flight =
             file_resources[c][s].in_flight - FileHolds(tasks[t], c, s)
                                            - ResultHolds(tasks[t], c, s)
        /\ file_resources[c][s].in_flight =
             Cardinality(FileUsers(c, s)) + Cardinality(ResultUsers(c, s))
    BY DEF CountedOut, SlotInv, InFlightMatchesTasks
  <2>3. /\ FileHolds(tasks[t], c, s) \in Nat
        /\ ResultHolds(tasks[t], c, s) \in Nat
    BY SMTT(30) DEF FileHolds, ResultHolds
  <2> QED
    BY <2>1, <2>2, <2>3
<1>3. ASSUME NEW c \in Clients, NEW s \in BufferSlots
      PROVE  buffer_resources'[c][s].in_flight = Cardinality(BufferUsers(c, s)')
  <2>1. Cardinality(BufferUsers(c, s)') =
          Cardinality(BufferUsers(c, s)) - BufferHolds(tasks[t], c, s)
    BY <1>0, UsersOfEnded, Zenon
  <2> QED
    BY <2>1 DEF CountedOut, SlotInv, InFlightMatchesTasks
<1> QED
  BY <1>1, <1>2, <1>3, SMTT(30) DEF SlotInv, InFlightMatchesTasks

-----------------------------------------------------------------------------
\* A request of a client counts a new task in or leaves the counts alone.
LEMMA RequestKeepsCounts ==
  ASSUME IInv, SlotInv, NEW c \in Clients, Request(c)
  PROVE  SlotInv'
<1>0. /\ file_resources \in [Clients -> [FileSlots -> FileSlotType]]
      /\ buffer_resources \in [Clients -> [BufferSlots -> BufferSlotType]]
      /\ \A f \in FileSlots : f # NoSlot
      /\ \A b \in BufferSlots : b # NoSlot
  BY DEF IInv, ResourceTypeOK, FileSlots, BufferSlots, NoSlot
<1>a. ASSUME UNCHANGED <<tasks, file_resources, buffer_resources>>
      PROVE  SlotInv'
  BY <1>a, CountsKeptKeeps, SMTT(30) DEF CountsKept
<1>b. ASSUME UNCHANGED <<tasks, buffer_resources>>,
             NEW s \in FileSlots, NEW slot,
             slot.in_flight = 0, file_resources[c][s].in_flight = 0,
             file_resources' = [file_resources EXCEPT ![c][s] = slot]
      PROVE  SlotInv'
  <2>1. \A d \in Clients, u \in FileSlots :
          file_resources'[d][u].in_flight = file_resources[d][u].in_flight
    BY <1>0, <1>b, SMTT(30)
  <2> QED
    BY <1>b, <2>1, CountsKeptKeeps, SMTT(30) DEF CountsKept
<1>c. ASSUME UNCHANGED <<tasks, file_resources>>,
             NEW s \in BufferSlots, NEW slot,
             slot.in_flight = 0, buffer_resources[c][s].in_flight = 0,
             buffer_resources' = [buffer_resources EXCEPT ![c][s] = slot]
      PROVE  SlotInv'
  <2>1. \A d \in Clients, u \in BufferSlots :
          buffer_resources'[d][u].in_flight = buffer_resources[d][u].in_flight
    BY <1>0, <1>c, SMTT(30)
  <2> QED
    BY <1>c, <2>1, CountsKeptKeeps, SMTT(30) DEF CountsKept
<1>1. CASE RegisterFd(c)
  <2>1. PICK fd \in Fds, s \in FreeFileSlots(c), k \in Attempts :
          file_resources' =
               [file_resources EXCEPT ![c][s] =
                  [resource_id |-> Candidate(c, k), daemon_fd |-> fd,
                   in_flight |-> 0, registered |-> TRUE, closing |-> FALSE]]
    BY <1>1, Zenon DEF RegisterFd, FirstOf
  <2> DEFINE slot == [resource_id |-> Candidate(c, k), daemon_fd |-> fd,
                      in_flight |-> 0, registered |-> TRUE, closing |-> FALSE]
  <2>2. slot.in_flight = 0 /\ s \in FileSlots
        /\ file_resources[c][s].in_flight = 0
    BY DEF FreeFileSlots, SlotIsFree
  <2>3. file_resources' = [file_resources EXCEPT ![c][s] = slot]
    BY <2>1
  <2>4. UNCHANGED <<tasks, buffer_resources>>
    BY <1>1, Zenon DEF RegisterFd, taskVars
  <2> HIDE DEF slot
  <2> QED
    BY <1>b, <2>2, <2>3, <2>4, Zenon
<1>2. CASE RegisterFdFails(c) \/ SubmitOpenatFails(c)
  BY <1>2, <1>a, Zenon DEF RegisterFdFails, SubmitOpenatFails, taskVars
<1>3. ASSUME NEW length \in Lengths \cup {0}, RegisterBuffer(c, length)
      PROVE  SlotInv'
  <2>1. UNCHANGED <<tasks, file_resources>>
    BY <1>3, Zenon DEF RegisterBuffer, taskVars
  <2>2. CASE UNCHANGED buffer_resources
    BY <1>a, <2>1, <2>2, SMTT(30)
  <2>3. ASSUME NEW s \in FreeBufferSlots(c), NEW k \in Attempts,
               buffer_resources' =
                 [buffer_resources EXCEPT ![c][s] =
                    [resource_id |-> Candidate(c, k), in_flight |-> 0,
                     registered |-> TRUE, closing |-> FALSE,
                     valid_length |-> length]]
        PROVE  SlotInv'
    <3> DEFINE slot == [resource_id |-> Candidate(c, k), in_flight |-> 0,
                        registered |-> TRUE, closing |-> FALSE,
                        valid_length |-> length]
    <3>1. slot.in_flight = 0 /\ s \in BufferSlots
          /\ buffer_resources[c][s].in_flight = 0
      BY DEF FreeBufferSlots, SlotIsFree
    <3>2. buffer_resources' = [buffer_resources EXCEPT ![c][s] = slot]
      BY <2>3
    <3> HIDE DEF slot
    <3> QED
      BY <1>c, <2>1, <3>1, <3>2, Zenon
  <2> QED
    BY <1>3, <2>2, <2>3, Zenon DEF RegisterBuffer, FirstOf
<1>4. ASSUME NEW id \in ResourceIds, ReleaseResource(c, id)
      PROVE  SlotInv'
  <2>1. UNCHANGED tasks
    BY <1>4, Zenon DEF ReleaseResource, taskVars
  <2>2. ASSUME NEW s \in FileSlots, file_resources[c][s].in_flight = 0,
               file_resources' =
                 [file_resources EXCEPT ![c][s] =
                    TryReleaseFile([@ EXCEPT !.closing = TRUE])],
               UNCHANGED buffer_resources
        PROVE  SlotInv'
    <3> DEFINE slot ==
          TryReleaseFile([file_resources[c][s] EXCEPT !.closing = TRUE])
    <3>1. file_resources[c][s] \in FileSlotType
      BY <1>0, SMTT(30)
    <3>2. slot.in_flight = 0
      BY <2>2, <3>1, SMTT(30)
      DEF TryReleaseFile, Releases, FileSlotType, FreeFileSlot
    <3>3. file_resources' = [file_resources EXCEPT ![c][s] = slot]
      BY <1>0, <2>2, Zenon
    <3> HIDE DEF slot
    <3> QED
      BY <1>b, <2>1, <2>2, <3>2, <3>3, Zenon
  <2>3. ASSUME NEW s \in BufferSlots, buffer_resources[c][s].in_flight = 0,
               buffer_resources' =
                 [buffer_resources EXCEPT ![c][s] =
                    TryReleaseBuffer([@ EXCEPT !.closing = TRUE])],
               UNCHANGED file_resources
        PROVE  SlotInv'
    <3> DEFINE slot ==
          TryReleaseBuffer([buffer_resources[c][s] EXCEPT !.closing = TRUE])
    <3>1. buffer_resources[c][s] \in BufferSlotType
      BY <1>0
    <3>2. slot.in_flight = 0
      BY <2>3, <3>1
      DEF TryReleaseBuffer, Releases, BufferSlotType, FreeBufferSlot
    <3>3. buffer_resources' = [buffer_resources EXCEPT ![c][s] = slot]
      BY <1>0, <2>3, ZenonT(40)
    <3> HIDE DEF slot
    <3> QED
      BY <1>c, <2>1, <2>3, <3>2, <3>3, Zenon
  <2> QED
    BY <1>4, <2>2, <2>3, Zenon DEF ReleaseResource
<1>5. ASSUME NEW kind, NEW t \in FreeTaskSlots, NEW f, NEW b, NEW r, NEW id,
             NEW fd, f # r \/ f = NoSlot,
             CountedIn(t, NewTask(c, kind, f, b, r, id, fd))
      PROVE  SlotInv'
  <2> DEFINE task == NewTask(c, kind, f, b, r, id, fd)
  <2>1. task.active /\ task.file_slot_index = f
        /\ task.result_file_slot_index = r
    BY SMTT(30) DEF NewTask
  <2> HIDE DEF task
  <2> QED
    BY <1>5, <2>1, CountedInKeeps, SMTT(30) DEF task
<1>6. ASSUME NEW kind, NEW f, NEW b, NEW r, NEW id, NEW fd,
             NEW d, NEW s
      PROVE  LET task == NewTask(c, kind, f, b, r, id, fd)
             IN /\ FileHolds(task, d, s) = IF d = c /\ s = f THEN 1 ELSE 0
                /\ ResultHolds(task, d, s) = IF d = c /\ s = r THEN 1 ELSE 0
                /\ BufferHolds(task, d, s) = IF d = c /\ s = b THEN 1 ELSE 0
  BY DEF NewTask, FileHolds, ResultHolds, BufferHolds
<1>7. ASSUME NEW t \in FreeTaskSlots, NEW kind, NEW f, NEW b, NEW r, NEW id,
             NEW fd, f # r \/ f = NoSlot,
             StartTask(c, t, NewTask(c, kind, f, b, r, id, fd)),
             FilesHeld(c, f, r), BufferHeld(c, b)
      PROVE  SlotInv'
  <2> DEFINE task == NewTask(c, kind, f, b, r, id, fd)
  <2>1. tasks' = [tasks EXCEPT ![t] = task]
    BY <1>7, SMTT(30) DEF StartTask
  <2>2. \A d, s : /\ FileHolds(task, d, s) = IF d = c /\ s = f THEN 1 ELSE 0
                  /\ ResultHolds(task, d, s) = IF d = c /\ s = r THEN 1 ELSE 0
                  /\ BufferHolds(task, d, s) = IF d = c /\ s = b THEN 1 ELSE 0
    BY <1>6, SMTT(30)
  <2> HIDE DEF task
  <2>3. CountedIn(t, task)
    BY <1>7, <2>1, <2>2, SMTT(30) DEF CountedIn, FilesHeld, BufferHeld
  <2> QED
    BY <1>5, <1>7, <2>3, SMTT(30) DEF task
<1>8. ASSUME UNCHANGED file_resources PROVE FilesHeld(c, NoSlot, NoSlot)
  BY <1>0, <1>8, SMTT(30) DEF FilesHeld, FileSlotType
<1>9. ASSUME UNCHANGED buffer_resources PROVE BufferHeld(c, NoSlot)
  BY <1>0, <1>9, SMTT(30) DEF BufferHeld, BufferSlotType
<1>10. ASSUME NEW kind \in {"nop", "cancel"}, SubmitPlain(c, kind)
       PROVE  SlotInv'
  <2>1. UNCHANGED <<file_resources, buffer_resources>>
    BY <1>10, Zenon DEF SubmitPlain, resourceVars
  <2>2. PICK t \in FreeTaskSlots :
          \/ StartTask(c, t, NewTask(c, kind, NoSlot, NoSlot, NoSlot,
                                     ResourceIdInvalid, NoFd))
          \/ UNCHANGED taskVars
    BY <1>10, Zenon DEF SubmitPlain, FirstOf
  <2>3. CASE UNCHANGED taskVars
    BY <1>a, <2>1, <2>3, SMTT(30) DEF taskVars
  <2>4. CASE StartTask(c, t, NewTask(c, kind, NoSlot, NoSlot, NoSlot,
                                     ResourceIdInvalid, NoFd))
    BY <1>7, <1>8, <1>9, <2>1, <2>4, ZenonT(40)
  <2> QED
    BY <2>2, <2>3, <2>4, SMTT(30)
<1>11. CASE SubmitOpenat(c)
  <2>1. UNCHANGED buffer_resources
    BY <1>11, Zenon DEF SubmitOpenat
  <2>2. PICK t \in FreeTaskSlots, r \in FreeFileSlots(c), k \in Attempts :
          \/ /\ StartTask(c, t, NewTask(c, "openat", NoSlot, NoSlot, r,
                                        Candidate(c, k), NoFd))
             /\ file_resources' = [file_resources EXCEPT
                                     ![c][r] = ReservedSlot(Candidate(c, k))]
          \/ UNCHANGED <<file_resources, taskVars>>
    BY <1>11, Zenon DEF SubmitOpenat, FirstOf
  <2>3. CASE UNCHANGED <<file_resources, taskVars>>
    BY <1>a, <2>1, <2>3, SMTT(30) DEF taskVars
  <2>4. ASSUME StartTask(c, t, NewTask(c, "openat", NoSlot, NoSlot, r,
                                       Candidate(c, k), NoFd)),
               NEW slot, slot.in_flight = 1,
               file_resources' = [file_resources EXCEPT ![c][r] = slot]
        PROVE  SlotInv'
    <3>1. r \in FileSlots /\ file_resources[c][r].in_flight = 0 /\ r # NoSlot
      BY <1>0, SMTT(30) DEF FreeFileSlots, SlotIsFree
    <3>2. ASSUME NEW d \in Clients, NEW s \in FileSlots
          PROVE  file_resources'[d][s].in_flight =
                   file_resources[d][s].in_flight
                     + (IF d = c /\ s = NoSlot THEN 1 ELSE 0)
                     + (IF d = c /\ s = r THEN 1 ELSE 0)
      <4>1. s # NoSlot /\ file_resources[d][s].in_flight \in Nat
        BY <1>0, SMTT(30) DEF FileSlotType
      <4>2. CASE d = c /\ s = r
        BY <1>0, <2>4, <3>1, <4>1, <4>2, SMTT(30)
      <4>3. CASE ~(d = c /\ s = r)
        <5>1. file_resources'[d][s] = file_resources[d][s]
          BY <1>0, <2>4, <3>1, <4>3, SMTT(30)
        <5> QED
          BY <4>1, <4>3, <5>1, SMTT(30)
      <4> QED
        BY <4>2, <4>3, SMTT(30)
    <3>3. FilesHeld(c, NoSlot, r)
      BY <3>2 DEF FilesHeld
    <3> QED
      BY <1>7, <1>9, <2>1, <2>4, <3>3, ZenonT(40)
  <2> QED
    BY <2>2, <2>3, <2>4, FreeSlotEntry, ZenonT(40)
<1>12. ASSUME NEW id \in ResourceIds, SubmitClose(c, id)
       PROVE  SlotInv'
  <2>1. UNCHANGED buffer_resources
    BY <1>12, Zenon DEF SubmitClose
  <2>2. PICK t \in FreeTaskSlots, f \in FileSlots :
          /\ file_resources[c][f].in_flight = 0
          /\ \/ /\ StartTask(c, t, NewTask(c, "close", f, NoSlot, NoSlot,
                                           ResourceIdInvalid,
                                           file_resources[c][f].daemon_fd))
                /\ TakeFd(c, f)
             \/ PutFdBack(c, f) /\ UNCHANGED taskVars
    BY <1>12, Zenon DEF SubmitClose, FirstOf
  <2>3. CASE PutFdBack(c, f) /\ UNCHANGED taskVars
    BY <1>a, <2>1, <2>3, SMTT(30) DEF PutFdBack, taskVars
  <2>4. ASSUME StartTask(c, t, NewTask(c, "close", f, NoSlot, NoSlot,
                                       ResourceIdInvalid,
                                       file_resources[c][f].daemon_fd)),
               TakeFd(c, f)
        PROVE  SlotInv'
    <3>1. ASSUME NEW d \in Clients, NEW s \in FileSlots
          PROVE  file_resources'[d][s].in_flight =
                   file_resources[d][s].in_flight
                     + (IF d = c /\ s = f THEN 1 ELSE 0)
                     + (IF d = c /\ s = NoSlot THEN 1 ELSE 0)
      <4>1. /\ s # NoSlot /\ file_resources[d][s] \in FileSlotType
            /\ file_resources[d][s].in_flight \in Nat
        BY <1>0 DEF FileSlotType
      <4> DEFINE slot == [file_resources[c][f] EXCEPT
                            !.daemon_fd = NoFd, !.registered = FALSE,
                            !.closing = TRUE, !.in_flight = 1]
      <4>2. file_resources' = [file_resources EXCEPT ![c][f] = slot]
        BY <1>0, <2>4, Zenon DEF TakeFd
      <4>3. slot.in_flight = 1
        BY <1>0, SMTT(30) DEF FileSlotType
      <4> HIDE DEF slot
      <4>4. CASE d = c /\ s = f
        BY <1>0, <2>2, <4>1, <4>2, <4>3, <4>4, SMTT(30)
      <4>5. CASE ~(d = c /\ s = f)
        <5>1. file_resources'[d][s] = file_resources[d][s]
          BY <1>0, <4>2, <4>5, SMTT(30)
        <5> QED
          BY <4>1, <4>5, <5>1, SMTT(30)
      <4> QED
        BY <4>4, <4>5, SMTT(30)
    <3>2. FilesHeld(c, f, NoSlot) /\ f # NoSlot
      BY <1>0, <3>1, SMTT(30) DEF FilesHeld
    <3> QED
      BY <1>7, <1>9, <2>1, <2>4, <3>2, ZenonT(40)
  <2> QED
    BY <2>2, <2>3, <2>4, Zenon
<1>13. ASSUME NEW f \in FileSlots,
              file_resources' =
                [file_resources EXCEPT ![c][f].in_flight = @ + 1]
       PROVE  FilesHeld(c, f, NoSlot) /\ f # NoSlot
  <2>1. ASSUME NEW d \in Clients, NEW s \in FileSlots
        PROVE  file_resources'[d][s].in_flight =
                 file_resources[d][s].in_flight
                   + (IF d = c /\ s = f THEN 1 ELSE 0)
                   + (IF d = c /\ s = NoSlot THEN 1 ELSE 0)
    <3>1. /\ s # NoSlot /\ file_resources[d][s] \in FileSlotType
          /\ file_resources[d][s].in_flight \in Nat
      BY <1>0 DEF FileSlotType
    <3>2. file_resources'[d][s] =
            IF d = c /\ s = f
            THEN [file_resources[d][s] EXCEPT !.in_flight = @ + 1]
            ELSE file_resources[d][s]
      BY <1>0, <1>13
    <3> QED
      BY <3>1, <3>2, SMTT(30) DEF FileSlotType
  <2> QED
    BY <1>0, <2>1, SMTT(30) DEF FilesHeld
<1>14. ASSUME NEW id \in ResourceIds, SubmitIo(c, id)
       PROVE  SlotInv'
  <2>1. UNCHANGED buffer_resources
    BY <1>14, Zenon DEF SubmitIo
  <2>2. PICK t \in FreeTaskSlots, f \in FileSlots :
          \/ /\ StartTask(c, t, NewTask(c, "io", f, NoSlot, NoSlot,
                                        ResourceIdInvalid, NoFd))
             /\ file_resources' =
                  [file_resources EXCEPT ![c][f].in_flight = @ + 1]
          \/ UNCHANGED <<file_resources, taskVars>>
    BY <1>14, Zenon DEF SubmitIo, FirstOf
  <2>3. CASE UNCHANGED <<file_resources, taskVars>>
    BY <1>a, <2>1, <2>3, SMTT(30) DEF taskVars
  <2> QED
    BY <1>7, <1>9, <1>13, <2>1, <2>2, <2>3, Zenon
<1>15. ASSUME NEW id \in ResourceIds, SubmitAcceptFails(c, id)
       PROVE  SlotInv'
  BY <1>15, <1>a, Zenon DEF SubmitAcceptFails, taskVars
<1>16. ASSUME NEW id \in ResourceIds, SubmitAccept(c, id)
       PROVE  SlotInv'
  <2>1. UNCHANGED buffer_resources
    BY <1>16, Zenon DEF SubmitAccept
  <2> DEFINE Started(t, f, r, k) ==
               /\ StartTask(c, t, NewTask(c, "accept", f, NoSlot, r,
                                          Candidate(c, k), NoFd))
               /\ file_resources' =
                    [file_resources EXCEPT
                       ![c][f].in_flight = @ + 1,
                       ![c][r] = ReservedSlot(Candidate(c, k))]
  <2>2. PICK t \in TaskSlots, f \in FileSlots, r \in FileSlots,
             k \in Attempts :
          /\ UsableFile(c, f, id)
          /\ FirstOf(t, FreeTaskSlots)
          /\ FirstOf(r, FreeFileSlots(c))
          /\ \/ Started(t, f, r, k)
             \/ UNCHANGED <<file_resources, taskVars>>
    <3>1. PICK t \in TaskSlots, f \in FileSlots, r \in FileSlots,
               k \in Attempts :
            /\ UsableFile(c, f, id)
            /\ FirstOf(t, FreeTaskSlots)
            /\ FirstOf(r, FreeFileSlots(c))
            /\ \/ /\ SqeTaken(NewSqe("accept", NoFd))
                  /\ StartTask(c, t, NewTask(c, "accept", f, NoSlot, r,
                                             Candidate(c, k), NoFd))
                  /\ file_resources' =
                       [file_resources EXCEPT
                          ![c][f].in_flight = @ + 1,
                          ![c][r] = ReservedSlot(Candidate(c, k))]
                  /\ next_resource_id' =
                       [next_resource_id EXCEPT ![c] = IdAfterAttempt(c, k)]
               \/ /\ SqeRefused(NewSqe("accept", NoFd))
                  /\ next_resource_id' =
                       [next_resource_id EXCEPT ![c] = Candidate(c, k)]
                  /\ UNCHANGED <<file_resources, taskVars>>
      BY <1>16, ZenonT(40) DEF SubmitAccept
    <3>2. Started(t, f, r, k) \/ UNCHANGED <<file_resources, taskVars>>
      BY <3>1, Zenon
    <3> HIDE DEF Started
    <3> QED
      BY <3>1, <3>2, Zenon
  <2>3. CASE UNCHANGED <<file_resources, taskVars>>
    BY <1>a, <2>1, <2>3, SMTT(30) DEF taskVars
  <2>4. /\ file_resources[c][r].in_flight = 0
        /\ f # r /\ t \in FreeTaskSlots
    BY <2>2 DEF FreeFileSlots, SlotIsFree, UsableFile, FirstOf, FindFileSlot
  <2>5. ASSUME StartTask(c, t, NewTask(c, "accept", f, NoSlot, r,
                                       Candidate(c, k), NoFd)),
               NEW slot, slot.in_flight = 1,
               file_resources' =
                 [file_resources EXCEPT ![c][f].in_flight = @ + 1,
                                        ![c][r] = slot]
        PROVE  SlotInv'
    <3>1. ASSUME NEW d \in Clients, NEW s \in FileSlots
          PROVE  file_resources'[d][s].in_flight =
                   file_resources[d][s].in_flight
                     + (IF d = c /\ s = f THEN 1 ELSE 0)
                     + (IF d = c /\ s = r THEN 1 ELSE 0)
      <4>1. /\ file_resources[d][s] \in FileSlotType
            /\ file_resources[d][s].in_flight \in Nat
        BY <1>0, SMTT(30) DEF FileSlotType
      <4>2. CASE d = c /\ s = r
        <5>1. file_resources'[d][s] = slot
          BY <1>0, <2>4, <2>5, <4>2, SMTT(30)
        <5> QED
          BY <2>4, <2>5, <4>2, <5>1, SMTT(30)
      <4>3. CASE d = c /\ s = f
        <5>1. file_resources'[d][s] =
                [file_resources[d][s] EXCEPT !.in_flight = @ + 1]
          BY <1>0, <2>4, <2>5, <4>3, SMTT(30)
        <5> QED
          BY <2>4, <4>1, <4>3, <5>1, SMTT(30) DEF FileSlotType
      <4>4. CASE ~(d = c /\ s \in {f, r})
        <5>1. file_resources'[d][s] = file_resources[d][s]
          BY <1>0, <2>4, <2>5, <4>4, SMTT(30)
        <5> QED
          BY <4>1, <4>4, <5>1, SMTT(30)
      <4> QED
        BY <4>2, <4>3, <4>4, SMTT(30)
    <3>2. FilesHeld(c, f, r)
      BY <3>1 DEF FilesHeld
    <3> QED
      BY <1>7, <1>9, <2>1, <2>4, <2>5, <3>2, ZenonT(40)
  <2> QED
    BY <2>2, <2>3, <2>5, FreeSlotEntry, Zenon
<1>17. ASSUME NEW kind \in FixedKinds, NEW id \in ResourceIds,
              NEW buffer_id \in ResourceIds, NEW length \in Lengths,
              SubmitFixed(c, kind, id, buffer_id, length)
       PROVE  SlotInv'
  <2>1. PICK t \in FreeTaskSlots, f \in FileSlots, b \in BufferSlots :
          \/ /\ StartTask(c, t, NewTask(c, kind, f, b, NoSlot,
                                        ResourceIdInvalid, NoFd))
             /\ file_resources' =
                  [file_resources EXCEPT ![c][f].in_flight = @ + 1]
             /\ buffer_resources' =
                  [buffer_resources EXCEPT ![c][b].in_flight = @ + 1]
          \/ UNCHANGED <<file_resources, buffer_resources, taskVars>>
    BY <1>17, ZenonT(40) DEF SubmitFixed, FirstOf
  <2>2. CASE UNCHANGED <<file_resources, buffer_resources, taskVars>>
    BY <1>a, <2>2 DEF taskVars
  <2>3. ASSUME buffer_resources' =
                 [buffer_resources EXCEPT ![c][b].in_flight = @ + 1]
        PROVE  BufferHeld(c, b)
    <3>1. ASSUME NEW d \in Clients, NEW s \in BufferSlots
          PROVE  buffer_resources'[d][s].in_flight =
                   buffer_resources[d][s].in_flight
                     + (IF d = c /\ s = b THEN 1 ELSE 0)
      <4>1. /\ buffer_resources[d][s] \in BufferSlotType
            /\ buffer_resources[d][s].in_flight \in Nat
        BY <1>0 DEF BufferSlotType
      <4>2. buffer_resources'[d][s] =
              IF d = c /\ s = b
              THEN [buffer_resources[d][s] EXCEPT !.in_flight = @ + 1]
              ELSE buffer_resources[d][s]
        BY <1>0, <2>3, SMTT(30)
      <4> QED
        BY <4>1, <4>2 DEF BufferSlotType
    <3> QED
      BY <3>1 DEF BufferHeld
  <2> QED
    BY <1>7, <1>13, <2>1, <2>2, <2>3, Zenon
<1> QED
  BY <1>1, <1>2, <1>3, <1>4, <1>10, <1>11, <1>12, <1>14, <1>15, <1>16, <1>17,
     Zenon DEF Request

\* A connection gets a record all of whose slots are out of use.
LEMMA OpenKeepsCounts ==
  ASSUME IInv, SlotInv, OpenClient
  PROVE  SlotInv'
<1>1. PICK c \in Clients :
        /\ ~HasRetainedResources(c)
        /\ file_resources' = [file_resources EXCEPT
                                ![c] = [s \in FileSlots |-> FreeFileSlot]]
        /\ buffer_resources' = [buffer_resources EXCEPT
                                  ![c] = [s \in BufferSlots |-> FreeBufferSlot]]
  BY Zenon DEF OpenClient, FirstOf, RecordIsFree
<1>2. /\ \A s \in FileSlots : file_resources[c][s].in_flight = 0
      /\ \A s \in BufferSlots : buffer_resources[c][s].in_flight = 0
  BY <1>1, SMTT(30) DEF HasRetainedResources, SlotIsFree
<1>3. FreeFileSlot.in_flight = 0 /\ FreeBufferSlot.in_flight = 0
  BY DEF FreeFileSlot, FreeBufferSlot
<1>4. /\ file_resources \in [Clients -> [FileSlots -> FileSlotType]]
      /\ buffer_resources \in [Clients -> [BufferSlots -> BufferSlotType]]
  BY DEF IInv, ResourceTypeOK
<1>5. \A d \in Clients, s \in FileSlots :
        file_resources'[d][s].in_flight = file_resources[d][s].in_flight
  BY <1>1, <1>2, <1>3, <1>4, SMTT(30)
<1>6. \A d \in Clients, s \in BufferSlots :
        buffer_resources'[d][s].in_flight = buffer_resources[d][s].in_flight
  BY <1>1, <1>2, <1>3, <1>4, SMTT(30)
<1>7. UNCHANGED tasks
  BY Zenon DEF OpenClient
<1> QED
  BY <1>5, <1>6, <1>7, CountsKeptKeeps, SMTT(30) DEF CountsKept

\* A client that goes away changes no count.
LEMMA CloseKeepsCounts ==
  ASSUME IInv, SlotInv, NEW c \in Clients, CloseClient(c)
  PROVE  SlotInv'
<1>1. /\ file_resources \in [Clients -> [FileSlots -> FileSlotType]]
      /\ buffer_resources \in [Clients -> [BufferSlots -> BufferSlotType]]
  BY DEF IInv, ResourceTypeOK
<1>2. ASSUME NEW d \in Clients, NEW s \in FileSlots
      PROVE  file_resources'[d][s].in_flight = file_resources[d][s].in_flight
  <2>1. \/ file_resources'[d][s] = file_resources[d][s]
        \/ file_resources'[d][s] =
             [file_resources[d][s] EXCEPT !.closing = TRUE]
    BY <1>1, Zenon DEF CloseClient
  <2> QED
    BY <1>1, <2>1 DEF FileSlotType
<1>3. ASSUME NEW d \in Clients, NEW s \in BufferSlots
      PROVE  buffer_resources'[d][s].in_flight =
               buffer_resources[d][s].in_flight
  <2>1. \/ buffer_resources'[d][s] = buffer_resources[d][s]
        \/ buffer_resources'[d][s] =
             [buffer_resources[d][s] EXCEPT !.closing = TRUE]
    BY <1>1, Zenon DEF CloseClient
  <2> QED
    BY <1>1, <2>1 DEF BufferSlotType
<1>4. UNCHANGED tasks
  BY Zenon DEF CloseClient, taskVars
<1> QED
  BY <1>2, <1>3, <1>4, CountsKeptKeeps, SMTT(30) DEF CountsKept

\* The sweep empties only slots nothing is in flight on.
LEMMA SweepKeepsCounts ==
  ASSUME IInv, SlotInv, SweepClosingResources
  PROVE  SlotInv'
<1>1. ASSUME NEW d \in Clients, NEW s \in FileSlots
      PROVE  file_resources'[d][s].in_flight = file_resources[d][s].in_flight
  <2>1. file_resources'[d][s] =
          IF Sweepable(file_resources[d][s])
          THEN TryReleaseFile(file_resources[d][s])
          ELSE file_resources[d][s]
    BY SMTT(30) DEF SweepClosingResources
  <2> QED
    BY <2>1, SMTT(30) DEF Sweepable, TryReleaseFile, FreeFileSlot
<1>2. ASSUME NEW d \in Clients, NEW s \in BufferSlots
      PROVE  buffer_resources'[d][s].in_flight =
               buffer_resources[d][s].in_flight
  <2>1. buffer_resources'[d][s] =
          IF Sweepable(buffer_resources[d][s])
          THEN TryReleaseBuffer(buffer_resources[d][s])
          ELSE buffer_resources[d][s]
    BY DEF SweepClosingResources
  <2> QED
    BY <2>1, SMTT(30) DEF Sweepable, TryReleaseBuffer, FreeBufferSlot
<1>3. UNCHANGED tasks
  BY Zenon DEF SweepClosingResources, taskVars
<1> QED
  BY <1>1, <1>2, <1>3, CountsKeptKeeps, SMTT(30) DEF CountsKept

\* A completed task is taken off the count of each slot it holds, once; a
\* slot that is given back has nothing in flight.
LEMMA CompleteKeepsCounts ==
  ASSUME IInv, SlotInv, NEW t \in ActiveTasks, NEW res \in Nat \cup {-1},
         CompleteTask(t, res)
  PROVE  SlotInv'
<1> DEFINE task == tasks[t]
           c == task.client_index
<1>1. task \in TaskType /\ c \in Clients /\ TaskTypeOK
  BY DEF IInv, TaskInv, TaskTypeOK, TaskType, ActiveTasks
<1>2. PICK installed \in BOOLEAN :
        /\ file_resources' =
             [file_resources EXCEPT ![c] =
                [s \in FileSlots |->
                   FileAfterCompletion(task, s,
                                       PreparedSlot(task, installed, res, s))]]
        /\ buffer_resources' =
             [buffer_resources EXCEPT ![c] =
                [s \in BufferSlots |->
                   BufferAfterCompletion(task, s, @[s], res)]]
        /\ FinishTask(t, task)
  BY Zenon DEF CompleteTask
<1>3. tasks' = [tasks EXCEPT ![t] = ClearedTask]
  BY <1>2, Zenon DEF FinishTask
<1>4. /\ file_resources \in [Clients -> [FileSlots -> FileSlotType]]
      /\ buffer_resources \in [Clients -> [BufferSlots -> BufferSlotType]]
      /\ \A f \in FileSlots : f # NoSlot
  BY DEF IInv, ResourceTypeOK, FileSlots, NoSlot
<1>5. \/ task.file_slot_index # task.result_file_slot_index
      \/ task.file_slot_index = NoSlot
  BY SMTT(30) DEF SlotInv, SlotsHeldOnce
<1>6. ASSUME NEW d \in Clients, NEW s \in FileSlots
      PROVE  file_resources'[d][s].in_flight =
               file_resources[d][s].in_flight - FileHolds(task, d, s)
                                              - ResultHolds(task, d, s)
  <2> DEFINE slot == file_resources[d][s]
             holds == FileHolds(task, d, s) + ResultHolds(task, d, s)
             prepared == PreparedSlot(task, installed, res, s)
             done == [prepared EXCEPT !.in_flight = Decrement(@)]
  <2>1. /\ slot \in FileSlotType /\ slot.in_flight \in Nat
        /\ slot = file_resources[d][s]
    BY <1>4, SMTT(30) DEF FileSlotType
  <2>2. /\ FileHolds(task, d, s) \in {0, 1} /\ ResultHolds(task, d, s) \in {0, 1}
        /\ holds = IF d = c /\ s \in {task.file_slot_index,
                                      task.result_file_slot_index}
                   THEN 1 ELSE 0
    BY <1>4, <1>5, SMTT(30) DEF FileHolds, ResultHolds
  <2>3. slot.in_flight - holds \in Nat
    <3>1. /\ Cardinality(FileUsers(d, s)') =
               Cardinality(FileUsers(d, s)) - FileHolds(task, d, s)
          /\ Cardinality(ResultUsers(d, s)') =
               Cardinality(ResultUsers(d, s)) - ResultHolds(task, d, s)
          /\ Cardinality(FileUsers(d, s)) \in Nat
          /\ Cardinality(ResultUsers(d, s)) \in Nat
      BY <1>1, <1>3, UsersOfEnded, ZenonT(40)
    <3>2. /\ FileUsers(d, s)' \in SUBSET TaskSlots
          /\ ResultUsers(d, s)' \in SUBSET TaskSlots
      BY DEF FileUsers, ResultUsers, TasksOf, ActiveTasks
    <3>3. /\ Cardinality(FileUsers(d, s)') \in Nat
          /\ Cardinality(ResultUsers(d, s)') \in Nat
      BY <3>2, TaskSetsFinite, Zenon
    <3>4. slot.in_flight =
            Cardinality(FileUsers(d, s)) + Cardinality(ResultUsers(d, s))
      BY SMTT(30) DEF SlotInv, InFlightMatchesTasks
    <3> HIDE DEF slot
    <3> QED
      BY <2>2, <3>1, <3>3, <3>4, SMTT(30)
  <2>4. CASE d # c
    <3>1. file_resources'[d][s] = slot
      BY <1>2, <1>4, <2>4, SMTT(30)
    <3> HIDE DEF slot
    <3> QED
      BY <2>1, <2>2, <2>4, <3>1, SMTT(30)
  <2>5. CASE d = c
    <3>1. file_resources'[d][s] = FileAfterCompletion(task, s, prepared)
      BY <1>1, <1>2, <1>4, <2>5, SMTT(30)
    <3>2. /\ prepared.in_flight = slot.in_flight
          /\ "in_flight" \in DOMAIN prepared
      <4>1. prepared \in
              {slot, [slot EXCEPT !.resource_id = task.result_resource_id,
                                  !.daemon_fd = res, !.registered = TRUE,
                                  !.closing = FALSE]}
        BY <2>5, Zenon DEF PreparedSlot
      <4> HIDE DEF slot, prepared
      <4> QED
        BY <2>1, <4>1, ZenonT(40) DEF FileSlotType
    <3>3. done.in_flight = Decrement(slot.in_flight)
      <4> HIDE DEF prepared
      <4> QED
        BY <3>2, SMTT(30)
    <3> HIDE DEF slot, prepared
    <3>4. CASE s \in {task.file_slot_index, task.result_file_slot_index}
      <4>1. done.in_flight = slot.in_flight - 1
        BY <2>1, <2>2, <2>3, <2>5, <3>3, <3>4, SMTT(30) DEF Decrement
      <4> HIDE DEF done
      <4>2. file_resources'[d][s] \in {done, TryReleaseFile(done)}
        BY <3>1, <3>4, Zenon DEF FileAfterCompletion, done
      <4>3. TryReleaseFile(done).in_flight = done.in_flight
        BY SMTT(30) DEF TryReleaseFile, Releases, FreeFileSlot
      <4>4. holds = 1
        BY <2>2, <2>5, <3>4, SMTT(30)
      <4> QED
        BY <2>1, <2>2, <4>1, <4>2, <4>3, <4>4, SMTT(30)
    <3>5. CASE s \notin {task.file_slot_index, task.result_file_slot_index}
      <4>1. file_resources'[d][s] = prepared
        BY <3>1, <3>5, Zenon DEF FileAfterCompletion
      <4>2. holds = 0
        BY <2>2, <3>5, SMTT(30)
      <4> QED
        BY <2>1, <2>2, <3>2, <4>1, <4>2, SMTT(30)
    <3> QED
      BY <3>4, <3>5, SMTT(30)
  <2> QED
    BY <2>4, <2>5, SMTT(30)
<1>7. ASSUME NEW d \in Clients, NEW s \in BufferSlots
      PROVE  buffer_resources'[d][s].in_flight =
               buffer_resources[d][s].in_flight - BufferHolds(task, d, s)
  <2> DEFINE slot == buffer_resources[d][s]
             length == IF task.task_kind = "read_fixed" /\ res >= 0
                       THEN res ELSE slot.valid_length
             done == [slot EXCEPT !.in_flight = Decrement(@),
                                  !.valid_length = length]
  <2>1. /\ slot \in BufferSlotType /\ slot.in_flight \in Nat
        /\ slot = buffer_resources[d][s]
    BY <1>4 DEF BufferSlotType
  <2>2. BufferHolds(task, d, s) =
          IF d = c /\ s = task.buffer_slot_index THEN 1 ELSE 0
    BY SMTT(30) DEF BufferHolds
  <2>3. slot.in_flight - BufferHolds(task, d, s) \in Nat
    <3>1. Cardinality(BufferUsers(d, s)') =
            Cardinality(BufferUsers(d, s)) - BufferHolds(task, d, s)
      BY <1>1, <1>3, UsersOfEnded, Zenon
    <3>2. BufferUsers(d, s)' \in SUBSET TaskSlots
      BY DEF BufferUsers, TasksOf, ActiveTasks
    <3>3. Cardinality(BufferUsers(d, s)') \in Nat
      BY <3>2, TaskSetsFinite, ZenonT(40)
    <3>4. slot.in_flight = Cardinality(BufferUsers(d, s))
      BY SMTT(30) DEF SlotInv, InFlightMatchesTasks
    <3> QED
      BY <3>1, <3>3, <3>4, SMTT(30)
  <2>4. CASE d # c
    <3>1. buffer_resources'[d][s] = slot
      BY <1>2, <1>4, <2>4, SMTT(30)
    <3> HIDE DEF slot
    <3> QED
      BY <2>1, <2>2, <2>4, <3>1, SMTT(30)
  <2>5. CASE d = c
    <3>1. buffer_resources'[d][s] = BufferAfterCompletion(task, s, slot, res)
      BY <1>1, <1>2, <1>4, <2>5, SMTT(30)
    <3> HIDE DEF slot, length
    <3>2. done.in_flight = Decrement(slot.in_flight)
      BY <2>1, SMTT(30) DEF BufferSlotType
    <3>3. CASE s = task.buffer_slot_index
      <4>1. done.in_flight = slot.in_flight - 1
        BY <2>1, <2>2, <2>3, <2>5, <3>2, <3>3, SMTT(30) DEF Decrement
      <4> HIDE DEF done
      <4>2. buffer_resources'[d][s] \in {done, TryReleaseBuffer(done)}
        BY <3>1, <3>3, Zenon DEF BufferAfterCompletion, done, length
      <4>3. TryReleaseBuffer(done).in_flight = done.in_flight
        BY SMTT(30) DEF TryReleaseBuffer, Releases, FreeBufferSlot
      <4> QED
        BY <2>1, <2>2, <2>5, <3>3, <4>1, <4>2, <4>3, ZenonT(40)
    <3>4. CASE s # task.buffer_slot_index
      <4>1. buffer_resources'[d][s] = slot
        BY <3>1, <3>4, Zenon DEF BufferAfterCompletion
      <4> QED
        BY <2>1, <2>2, <3>4, <4>1, SMTT(30)
    <3> QED
      BY <3>3, <3>4, SMTT(30)
  <2> QED
    BY <2>4, <2>5, SMTT(30)
<1>8. CountedOut(t, task)
  BY <1>3, <1>6, <1>7, Zenon DEF CountedOut
<1> QED
  BY <1>8, CountedOutKeeps, SMTT(30)

(***************************************************************************)
(* In every state of every behaviour a slot's in_flight is the number of   *)
(* active tasks that name it: no refusal, failure, disconnection or order  *)
(* of completions lets the count drift, for any number of clients, slots,  *)
(* tasks and failures of io_uring_enter.                                   *)
(***************************************************************************)
THEOREM InFlightCorrect == Spec => []InFlightMatchesTasks
<1>1. Init => SlotInv
  <2> SUFFICES ASSUME Init PROVE SlotInv
    BY SMTT(30)
  <2>1. ActiveTasks = {}
    BY DEF Init, ActiveTasks, ClearedTask
  <2>2. \A c, s : FileUsers(c, s) = {} /\ ResultUsers(c, s) = {}
                  /\ BufferUsers(c, s) = {}
    BY <2>1 DEF FileUsers, ResultUsers, BufferUsers, TasksOf
  <2>3. Cardinality({}) = 0
    BY FS_EmptySet, SMTT(30)
  <2>4. /\ \A c \in Clients, s \in FileSlots :
             file_resources[c][s].in_flight = 0
        /\ \A c \in Clients, s \in BufferSlots :
             buffer_resources[c][s].in_flight = 0
    BY DEF Init, FreeFileSlot, FreeBufferSlot
  <2>a. \A c, s : /\ Cardinality(FileUsers(c, s)) = 0
                  /\ Cardinality(ResultUsers(c, s)) = 0
                  /\ Cardinality(BufferUsers(c, s)) = 0
    BY <2>2, <2>3, ZenonT(40)
  <2>5. InFlightMatchesTasks
    BY <2>4, <2>a, SMTT(30) DEF InFlightMatchesTasks
  <2> QED
    BY <2>1, <2>5 DEF SlotInv, SlotsHeldOnce
<1>2. IInv /\ SlotInv /\ [Next]_vars => SlotInv'
  <2> SUFFICES ASSUME IInv, SlotInv, [Next]_vars PROVE SlotInv'
    OBVIOUS
  <2>1. ASSUME UNCHANGED <<tasks, file_resources, buffer_resources>>
        PROVE  SlotInv'
    BY <2>1, CountsKeptKeeps DEF CountsKept
  <2>2. ASSUME NEW c \in Clients, AcceptHandshake(c) PROVE SlotInv'
    BY <2>1, <2>2, Zenon DEF AcceptHandshake, resourceVars, taskVars
  <2>3. CASE KernelCompletes
    BY <2>1, <2>3, Zenon DEF KernelCompletes, taskVars
  <2>4. CASE ReapUnknownCompletion \/ EventLoopEnds
    BY <2>1, <2>4, Zenon
    DEF ReapUnknownCompletion, EventLoopEnds, resourceVars, taskVars
  <2>5. CASE ReapCompletion
    <3>1. cq \in Seq(CqeType) /\ cq # << >>
      BY <2>5, SMTT(30) DEF ReapCompletion, IInv, RingTypeOK
    <3>2. Head(cq) \in CqeType
      BY <3>1, QueueTail, SMTT(30)
    <3>3. PICK t \in ActiveTasks, res \in Nat \cup {-1} : CompleteTask(t, res)
      BY <2>5, <3>2 DEF ReapCompletion, FirstOf, FindTaskSlot, CqeType
    <3> QED
      BY <3>3, CompleteKeepsCounts, SMTT(30)
  <2>6. CASE UNCHANGED vars
    BY <2>1, <2>6, Zenon DEF vars, resourceVars, taskVars
  <2> QED
    BY <2>2, <2>3, <2>4, <2>5, <2>6, OpenKeepsCounts, CloseKeepsCounts,
       SweepKeepsCounts, RequestKeepsCounts, ZenonT(40) DEF Next
<1>3. SlotInv => InFlightMatchesTasks
  BY DEF SlotInv
<1> QED
  BY <1>1, <1>2, <1>3, Invariance, PTL DEF Spec
=============================================================================
