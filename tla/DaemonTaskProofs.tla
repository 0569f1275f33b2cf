-------------------------- MODULE DaemonTaskProofs --------------------------
(***************************************************************************)
(* The inductive invariant of Daemon, and the lemmas about the task table: *)
(* starting and finishing one task keeps every counter the count it is     *)
(* meant to be.  DaemonRequestProofs and DaemonProofs use them.            *)
(***************************************************************************)
EXTENDS Daemon, FiniteSetTheorems, TLAPS

(***************************************************************************)
(* The task table and its counters: what the counters count, what          *)
(* admission bounds, and whose tasks they are.                             *)
(***************************************************************************)
TaskInv ==
  /\ TaskTypeOK
  /\ CountersMatchTasks
  /\ StatsAddUp
  /\ CreditsNotOverdrawn
  /\ TasksBelongToConnection

(***************************************************************************)
(* The inductive invariant.  The parts of TaskInv need each other: that a  *)
(* counter stays a natural needs that it is a count, and that a client     *)
(* record changes generation only without tasks needs that client_tasks is *)
(* one.                                                                    *)
(***************************************************************************)
IInv == ClientTypeOK /\ ResourceTypeOK /\ RingTypeOK /\ TaskInv

(***************************************************************************)
(* The sets of tasks that the counters count are finite.                   *)
(***************************************************************************)
LEMMA TaskSetsFinite ==
  /\ IsFiniteSet(TaskSlots)
  /\ \A S \in SUBSET TaskSlots : IsFiniteSet(S) /\ Cardinality(S) \in Nat
<1>1. 0 \in Int /\ TaskCapacity - 1 \in Int
  BY ConstantsAssumption DEF TaskCapacity
<1>2. IsFiniteSet(TaskSlots)
  BY <1>1, FS_Interval DEF TaskSlots
<1>3. QED
  BY <1>2, FS_Subset, FS_CardinalityType

\* A resource id taken modulo its width is a resource id.
LEMMA ModInRange ==
  ASSUME NEW n \in Nat
  PROVE  n % ResourceIdModulus \in ResourceIds
BY ConstantsAssumption DEF ResourceIds

\* The invalid id (0) is among the values of a resource id.
LEMMA InvalidIdTyped == ResourceIdInvalid \in ResourceIds
BY ConstantsAssumption DEF ResourceIdInvalid, ResourceIds

\* The runtime that iouringd_runtime_init leaves is well typed.
LEMMA InitTypeOK == Init => TypeOK
<1>1. FreeFileSlot \in FileSlotType /\ FreeBufferSlot \in BufferSlotType
  BY ConstantsAssumption
  DEF FreeFileSlot, FreeBufferSlot, FileSlotType, BufferSlotType,
      ResourceIdInvalid, ResourceIds, NoFd
<1>2. ClearedTask \in TaskType
  BY ConstantsAssumption
  DEF ClearedTask, TaskType, ResourceIdInvalid, ResourceIds, NoFd, NoSlot,
      Clients
<1>3. 1 \in ResourceIds
  BY ConstantsAssumption DEF ResourceIds
<1> SUFFICES ASSUME Init PROVE TypeOK
  OBVIOUS
<1>4. ClientTypeOK
  BY DEF Init, ClientTypeOK
<1>5. ResourceTypeOK
  BY <1>1, <1>3 DEF Init, ResourceTypeOK
<1>6. TaskTypeOK
  BY <1>2 DEF Init, TaskTypeOK
<1>7. RingTypeOK
  BY DEF Init, RingTypeOK
<1>8. QED
  BY <1>4, <1>5, <1>6, <1>7 DEF TypeOK

(***************************************************************************)
(* A task slot that is filled and counted as StartTask does it.            *)
(***************************************************************************)
LEMMA StartTaskCounted ==
  ASSUME TaskInv, NEW c \in Clients, NEW t \in FreeTaskSlots,
         NEW task \in TaskType, StartTask(c, t, task),
         task.active, task.client_index = c, task.task_id = next_task_id,
         task.client_generation = generation[c],
         task.consumes_credit =>
           /\ outstanding_credit_tasks < TaskCapacity
           /\ client_credit_tasks[c] < PerClientCreditLimit,
         next_task_id < TaskIdReservedMin,
         UNCHANGED generation
  PROVE  TaskInv'
<1> USE DEF TaskInv
<1>1. t \in TaskSlots /\ ~tasks[t].active
  BY DEF FreeTaskSlots
<1>2. tasks' = [tasks EXCEPT ![t] = task] /\ tasks' \in [TaskSlots -> TaskType]
  BY <1>1 DEF StartTask, TaskTypeOK
<1>3. Credit(task) \in {0, 1} /\ (Credit(task) = 1 <=> task.consumes_credit)
  BY DEF Credit
<1>4. TaskTypeOK'
  BY <1>2, <1>3 DEF StartTask, TaskTypeOK
<1>5. ActiveTasks' = ActiveTasks \cup {t} /\ t \notin ActiveTasks
  BY <1>1, <1>2 DEF ActiveTasks, TaskTypeOK
<1>6. CreditTasks' = IF task.consumes_credit THEN CreditTasks \cup {t}
                                             ELSE CreditTasks
  BY <1>1, <1>2, <1>5 DEF CreditTasks, TaskTypeOK, ActiveTasks
<1>7. TasksOf(c)' = TasksOf(c) \cup {t}
  BY <1>1, <1>2, <1>5 DEF TasksOf, TaskTypeOK, ActiveTasks
<1>8. ASSUME NEW d \in Clients, d # c PROVE TasksOf(d)' = TasksOf(d)
  BY <1>1, <1>2, <1>5, <1>8 DEF TasksOf, TaskTypeOK, ActiveTasks
<1>9. /\ t \notin CreditTasks
      /\ \A d \in Clients : t \notin TasksOf(d)
  BY <1>5 DEF CreditTasks, TasksOf
<1>10. /\ IsFiniteSet(ActiveTasks)
       /\ IsFiniteSet(CreditTasks)
       /\ IsFiniteSet(TasksOf(c))
       /\ IsFiniteSet(CreditTasksOf(c))
  BY TaskSetsFinite DEF ActiveTasks, CreditTasks, TasksOf, CreditTasksOf
<1>11. /\ outstanding_tasks' = Cardinality(ActiveTasks')
       /\ outstanding_credit_tasks' = Cardinality(CreditTasks')
  <2>1. Cardinality(ActiveTasks') = Cardinality(ActiveTasks) + 1
    BY <1>5, <1>10, FS_AddElement, Zenon
  <2>2. Cardinality(CreditTasks') = Cardinality(CreditTasks) + Credit(task)
    <3>1. CASE task.consumes_credit
      BY <1>6, <1>9, <1>10, FS_AddElement, <3>1, Zenon DEF Credit
    <3>2. CASE ~task.consumes_credit
      <4>1. Cardinality(CreditTasks) \in Nat
        BY <1>10, FS_CardinalityType
      <4>2. QED
        BY <1>6, <3>2, <4>1 DEF Credit
    <3>3. QED
      BY <3>1, <3>2
  <2>3. QED
    BY <2>1, <2>2 DEF CountersMatchTasks, StartTask
<1>12. ASSUME NEW d \in Clients
       PROVE  /\ client_tasks'[d] = Cardinality(TasksOf(d)')
              /\ client_credit_tasks'[d] = Cardinality(CreditTasksOf(d)')
  <2>1. CASE d = c
    <3>1. Cardinality(TasksOf(c)') = Cardinality(TasksOf(c)) + 1
      BY <1>7, <1>9, <1>10, FS_AddElement, ZenonT(30)
    <3>2. Cardinality(CreditTasksOf(c)') =
            Cardinality(CreditTasksOf(c)) + Credit(task)
      <4>1. CASE task.consumes_credit
        <5>1. CreditTasksOf(c)' = CreditTasksOf(c) \cup {t}
          BY <1>6, <1>7, <4>1 DEF CreditTasksOf
        <5>2. t \notin CreditTasksOf(c)
          BY <1>9 DEF CreditTasksOf
        <5>3. Cardinality(CreditTasksOf(c) \cup {t}) =
                Cardinality(CreditTasksOf(c)) + 1
          BY <5>2, <1>10, FS_AddElement, Zenon
        <5>4. QED
          BY <5>1, <5>3, <4>1 DEF Credit
      <4>2. CASE ~task.consumes_credit
        <5>1. CreditTasksOf(c)' = CreditTasksOf(c)
          BY <1>6, <1>7, <1>9, <4>2, SMTT(30) DEF CreditTasksOf
        <5>2. Cardinality(CreditTasksOf(c)) \in Nat
          BY <1>10, FS_CardinalityType
        <5>3. Credit(task) = 0
          BY <4>2 DEF Credit
        <5>4. QED
          BY <5>1, <5>2, <5>3, SMTT(30)
      <4>3. QED
        BY <4>1, <4>2
    <3>3. QED
      BY <2>1, <3>1, <3>2 DEF CountersMatchTasks, StartTask, TaskTypeOK
  <2>2. CASE d # c
    <3>1. CreditTasksOf(d)' = CreditTasksOf(d)
      BY <1>6, <1>8, <1>9, <2>2, SMTT(30) DEF CreditTasksOf
    <3>2. QED
      BY <1>8, <2>2, <3>1, SMTT(30)
      DEF CountersMatchTasks, StartTask, TaskTypeOK
  <2>3. QED
    BY <2>1, <2>2
<1>13. CountersMatchTasks'
  BY <1>11, <1>12, SMTT(30) DEF CountersMatchTasks
<1>14. StatsAddUp'
  BY DEF StatsAddUp, StartTask, TaskTypeOK
<1>15. CreditsNotOverdrawn'
  <2>1. /\ outstanding_credit_tasks' <= TaskCapacity
        /\ \A d \in Clients : client_credit_tasks'[d] <= PerClientCreditLimit
    BY <1>3, ConstantsAssumption, SMTT(30)
    DEF CreditsNotOverdrawn, StartTask, TaskTypeOK, TaskCapacity,
        PerClientCreditLimit
  <2>2. \A u \in ActiveTasks' : tasks'[u].task_id \in 1 .. TaskIdReservedMin - 1
    <3>1. next_task_id \in 1 .. TaskIdReservedMin - 1
      BY ConstantsAssumption DEF StatsAddUp, TaskTypeOK
    <3>2. QED
      BY <3>1, <1>1, <1>2, <1>5, SMTT(30)
      DEF CreditsNotOverdrawn, TaskTypeOK, ActiveTasks
  <2>3. QED
    BY <2>1, <2>2, SMTT(30) DEF CreditsNotOverdrawn
<1>16. TasksBelongToConnection'
  BY <1>1, <1>2, <1>5 DEF TasksBelongToConnection, TaskTypeOK, ActiveTasks
<1>17. QED
  BY <1>4, <1>13, <1>14, <1>15, <1>16, SMTT(30)

(***************************************************************************)
(* A task slot that is cleared and discounted as FinishTask does it.  The  *)
(* guarded decrements of the client's counters never meet zero.            *)
(***************************************************************************)
LEMMA FinishTaskCounted ==
  ASSUME TaskInv, NEW t \in ActiveTasks, FinishTask(t, tasks[t]),
         UNCHANGED generation
  PROVE  TaskInv'
<1> USE DEF TaskInv
<1>0. PICK task \in TaskType, c \in Clients :
        task = tasks[t] /\ c = task.client_index
  BY DEF ActiveTasks, TaskTypeOK, TaskType
<1>1. t \in TaskSlots /\ task.active
  BY <1>0 DEF ActiveTasks
<1>2. ClearedTask \in TaskType /\ ~ClearedTask.active
  BY ConstantsAssumption
  DEF ClearedTask, TaskType, ResourceIdInvalid, ResourceIds, NoFd, NoSlot,
      Clients
<1>3. /\ tasks' = [tasks EXCEPT ![t] = ClearedTask]
      /\ tasks' \in [TaskSlots -> TaskType]
  BY <1>1, <1>2 DEF FinishTask, TaskTypeOK
<1>4. ActiveTasks' = ActiveTasks \ {t}
  BY <1>1, <1>2, <1>3, SMTT(30) DEF ActiveTasks, TaskTypeOK
<1>5. CreditTasks' = CreditTasks \ {t}
  BY <1>1, <1>3, <1>4, SMTT(30) DEF CreditTasks, TaskTypeOK, ActiveTasks
<1>6. \A d \in Clients : TasksOf(d)' = TasksOf(d) \ {t}
  BY <1>1, <1>3, <1>4, SMTT(30) DEF TasksOf, TaskTypeOK, ActiveTasks
<1>7. /\ t \in CreditTasks <=> task.consumes_credit
      /\ \A d \in Clients : t \in TasksOf(d) <=> d = c
  BY <1>0, <1>1 DEF CreditTasks, TasksOf
<1>8. /\ IsFiniteSet(ActiveTasks)
      /\ IsFiniteSet(CreditTasks)
      /\ \A d \in Clients : /\ IsFiniteSet(TasksOf(d))
                            /\ IsFiniteSet(CreditTasksOf(d))
  BY TaskSetsFinite, SMTT(30)
  DEF ActiveTasks, CreditTasks, TasksOf, CreditTasksOf
<1>9. /\ Cardinality(ActiveTasks') = Cardinality(ActiveTasks) - 1
      /\ Cardinality(ActiveTasks') \in Nat
  BY <1>4, <1>8, FS_RemoveElement, FS_CardinalityType, SMTT(30)
<1>10. /\ Cardinality(CreditTasks') = Cardinality(CreditTasks) - Credit(task)
       /\ Cardinality(CreditTasks') \in Nat
  <2>1. CASE task.consumes_credit
    BY <1>5, <1>7, <1>8, FS_RemoveElement, FS_CardinalityType, <2>1, SMTT(30)
    DEF Credit
  <2>2. CASE ~task.consumes_credit
    <3>1. CreditTasks' = CreditTasks /\ Credit(task) = 0
      BY <1>5, <1>7, <2>2, SMTT(30) DEF Credit
    <3>2. QED
      BY <3>1, <1>8, FS_CardinalityType
  <2>3. QED
    BY <2>1, <2>2, SMTT(30)
<1>11. /\ Cardinality(TasksOf(c)') = Cardinality(TasksOf(c)) - 1
       /\ Cardinality(TasksOf(c)') \in Nat
  BY <1>1, <1>6, <1>7, <1>8, FS_RemoveElement, FS_CardinalityType, SMTT(30)
<1>12. /\ Cardinality(CreditTasksOf(c)') =
            Cardinality(CreditTasksOf(c)) - Credit(task)
       /\ Cardinality(CreditTasksOf(c)') \in Nat
  <2>1. CreditTasksOf(c)' = CreditTasksOf(c) \ {t}
    BY <1>5, <1>6 DEF CreditTasksOf
  <2>2. CASE task.consumes_credit
    <3>1. t \in CreditTasksOf(c)
      BY <1>7, <2>2 DEF CreditTasksOf
    <3>2. QED
      BY <2>1, <2>2, <3>1, <1>8, FS_RemoveElement, FS_CardinalityType,
         SMTT(30)
      DEF Credit
  <2>3. CASE ~task.consumes_credit
    <3>1. CreditTasksOf(c)' = CreditTasksOf(c) /\ Credit(task) = 0
      BY <1>7, <2>1, <2>3 DEF CreditTasksOf, Credit
    <3>2. QED
      BY <3>1, <1>8, FS_CardinalityType
  <2>4. QED
    BY <2>2, <2>3
<1>13. \A d \in Clients : d # c =>
         /\ TasksOf(d)' = TasksOf(d)
         /\ CreditTasksOf(d)' = CreditTasksOf(d)
  BY <1>5, <1>6, <1>7, SMTT(30) DEF CreditTasksOf
<1>14. /\ outstanding_tasks' = Cardinality(ActiveTasks')
       /\ outstanding_credit_tasks' = Cardinality(CreditTasks')
  BY <1>0, <1>9, <1>10, SMTT(30)
  DEF FinishTask, ReturnCredit, CountersMatchTasks
<1>15. /\ client_tasks' = [client_tasks EXCEPT ![c] = Decrement(@)]
       /\ client_credit_tasks' =
            [client_credit_tasks EXCEPT
               ![c] = IF task.consumes_credit THEN Decrement(@) ELSE @]
  BY <1>0, SMTT(30) DEF FinishTask, ReturnCredit
<1>16. ASSUME NEW d \in Clients
       PROVE  /\ client_tasks'[d] = Cardinality(TasksOf(d)')
              /\ client_credit_tasks'[d] = Cardinality(CreditTasksOf(d)')
  <2>1. /\ client_tasks[d] \in Nat /\ client_credit_tasks[d] \in Nat
        /\ d \in DOMAIN client_tasks /\ d \in DOMAIN client_credit_tasks
    BY DEF TaskTypeOK
  <2>2. /\ client_tasks[d] = Cardinality(TasksOf(d))
        /\ client_credit_tasks[d] = Cardinality(CreditTasksOf(d))
    BY DEF CountersMatchTasks
  <2>3. CASE d = c
    <3>1. client_tasks'[d] = Decrement(client_tasks[d])
      BY <1>15, <2>1, <2>3, SMTT(30)
    <3>2. client_tasks'[d] = Cardinality(TasksOf(d)')
      BY <3>1, <2>1, <2>2, <2>3, <1>11, SMTT(30) DEF Decrement
    <3>3. client_credit_tasks'[d] = client_credit_tasks[d] - Credit(task)
      BY <1>12, <1>15, <2>1, <2>2, <2>3, SMTT(30) DEF Decrement, Credit
    <3>4. client_credit_tasks'[d] = Cardinality(CreditTasksOf(d)')
      BY <3>3, <2>2, <2>3, <1>12, SMTT(30)
    <3>5. QED
      BY <3>2, <3>4
  <2>4. CASE d # c
    <3>1. /\ client_tasks'[d] = client_tasks[d]
          /\ client_credit_tasks'[d] = client_credit_tasks[d]
      BY <1>15, <2>1, <2>4, SMTT(30)
    <3>2. QED
      BY <3>1, <1>13, <2>2, <2>4, SMTT(30)
  <2>5. QED
    BY <2>3, <2>4
<1>17. CountersMatchTasks'
  BY <1>14, <1>16, SMTT(30) DEF CountersMatchTasks
<1>18. TaskTypeOK'
  <2>1. outstanding_tasks' \in Nat /\ outstanding_credit_tasks' \in Nat
    BY <1>9, <1>10, <1>14
  <2>2. client_tasks' \in [Clients -> Nat]
    BY <1>15 DEF TaskTypeOK, Decrement
  <2>3. client_credit_tasks' \in [Clients -> Nat]
    BY <1>15 DEF TaskTypeOK, Decrement
  <2>4. QED
    BY <1>3, <2>1, <2>2, <2>3, SMTT(30)
    DEF FinishTask, CountCompletion, TaskTypeOK
<1>19. StatsAddUp'
  BY <1>9, <1>14, SMTT(30)
  DEF StatsAddUp, CountersMatchTasks, FinishTask, CountCompletion, TaskTypeOK
<1>20. CreditsNotOverdrawn'
  <2>1. outstanding_credit_tasks' <= outstanding_credit_tasks
    BY <1>0, <1>18 DEF FinishTask, ReturnCredit, Credit, TaskTypeOK
  <2>2. \A d \in Clients : client_credit_tasks'[d] <= client_credit_tasks[d]
    BY <1>15 DEF TaskTypeOK, Decrement
  <2>3. TaskCapacity \in Int /\ PerClientCreditLimit \in Int
    BY ConstantsAssumption DEF TaskCapacity, PerClientCreditLimit
  <2>4. /\ outstanding_credit_tasks' <= TaskCapacity
        /\ \A d \in Clients : client_credit_tasks'[d] <= PerClientCreditLimit
    BY <2>1, <2>2, <2>3, <1>18, SMTT(30) DEF CreditsNotOverdrawn, TaskTypeOK
  <2>5. \A u \in ActiveTasks' : tasks'[u].task_id \in 1 .. TaskIdReservedMin - 1
    BY <1>1, <1>3, <1>4, SMTT(30)
    DEF CreditsNotOverdrawn, TaskTypeOK, ActiveTasks
  <2>6. QED
    BY <2>4, <2>5, SMTT(30) DEF CreditsNotOverdrawn
<1>21. TasksBelongToConnection'
  BY <1>1, <1>3, <1>4 DEF TasksBelongToConnection, TaskTypeOK, ActiveTasks
<1>22. QED
  BY <1>17, <1>18, <1>19, <1>20, <1>21, SMTT(30)

\* A handler that leaves the task table, its counters and the generations
\* alone preserves everything said about tasks.
LEMMA TasksUntouched ==
  ASSUME TaskInv, UNCHANGED taskVars, UNCHANGED generation
  PROVE  TaskInv'
<1>1. /\ ActiveTasks' = ActiveTasks
      /\ CreditTasks' = CreditTasks
      /\ \A c \in Clients : /\ TasksOf(c)' = TasksOf(c)
                            /\ CreditTasksOf(c)' = CreditTasksOf(c)
  BY DEF taskVars, ActiveTasks, CreditTasks, TasksOf, CreditTasksOf
<1>2. TaskTypeOK'
  BY DEF TaskInv, TaskTypeOK, taskVars
<1>3. CountersMatchTasks'
  BY <1>1, SMTT(30) DEF TaskInv, CountersMatchTasks, taskVars
<1>4. StatsAddUp' /\ CreditsNotOverdrawn' /\ TasksBelongToConnection'
  BY <1>1
  DEF TaskInv, StatsAddUp, CreditsNotOverdrawn, TasksBelongToConnection,
      taskVars
<1>5. QED
  BY <1>2, <1>3, <1>4, SMTT(30) DEF TaskInv

(***************************************************************************)
(* A record is reused only when it has no task: resetting its counters and *)
(* changing its generation disturbs nothing.                               *)
(***************************************************************************)
LEMMA OpenClientCounted ==
  ASSUME TaskInv, ClientTypeOK, OpenClient
  PROVE  TaskInv'
<1>1. PICK c \in Clients :
        /\ client_tasks[c] = 0
        /\ client_tasks' = [client_tasks EXCEPT ![c] = 0]
        /\ client_credit_tasks' = [client_credit_tasks EXCEPT ![c] = 0]
        /\ generation' = [generation EXCEPT ![c] = next_client_generation']
  BY Zenon DEF OpenClient, RecordIsFree, FirstOf
<1>2. /\ ActiveTasks' = ActiveTasks
      /\ CreditTasks' = CreditTasks
      /\ \A d \in Clients : /\ TasksOf(d)' = TasksOf(d)
                            /\ CreditTasksOf(d)' = CreditTasksOf(d)
  BY DEF OpenClient, ActiveTasks, CreditTasks, TasksOf, CreditTasksOf
<1>3. TasksOf(c) = {}
  <2>1. IsFiniteSet(TasksOf(c)) /\ Cardinality(TasksOf(c)) = 0
    BY <1>1, TaskSetsFinite
    DEF TasksOf, ActiveTasks, TaskInv, CountersMatchTasks
  <2>2. QED
    BY <2>1, FS_EmptySet, SMTT(30)
<1>4. CreditTasksOf(c) = {} /\ Cardinality({}) = 0
  BY <1>3, FS_EmptySet, SMTT(30) DEF CreditTasksOf
<1>5. TaskTypeOK'
  BY <1>1 DEF OpenClient, TaskInv, TaskTypeOK
<1>6. CountersMatchTasks'
  <2>1. ASSUME NEW d \in Clients
        PROVE  /\ client_tasks'[d] = Cardinality(TasksOf(d)')
               /\ client_credit_tasks'[d] = Cardinality(CreditTasksOf(d)')
    <3>1. CASE d = c
      BY <1>1, <1>2, <1>3, <1>4, <3>1, Zenon DEF TaskInv, TaskTypeOK
    <3>2. CASE d # c
      BY <1>1, <1>2, <3>2, SMTT(30)
      DEF TaskInv, CountersMatchTasks, TaskTypeOK
    <3>3. QED
      BY <3>1, <3>2
  <2>2. QED
    BY <1>2, <2>1, SMTT(30) DEF OpenClient, TaskInv, CountersMatchTasks
<1>7. StatsAddUp'
  BY SMTT(30) DEF OpenClient, TaskInv, StatsAddUp
<1>8. CreditsNotOverdrawn'
  <2>1. PerClientCreditLimit \in Nat
    BY ConstantsAssumption DEF PerClientCreditLimit, TaskCapacity
  <2>2. \A d \in Clients : client_credit_tasks'[d] <= PerClientCreditLimit
    BY <1>1, <2>1 DEF TaskInv, CreditsNotOverdrawn, TaskTypeOK
  <2>3. QED
    BY <1>2, <2>2 DEF OpenClient, TaskInv, CreditsNotOverdrawn
<1>9. TasksBelongToConnection'
  <2>1. ASSUME NEW t \in ActiveTasks'
        PROVE  tasks'[t].client_generation =
                 generation'[tasks'[t].client_index]
    <3>1. /\ t \in ActiveTasks /\ tasks' = tasks
          /\ tasks[t].client_index \in Clients
      BY <1>2 DEF OpenClient, TaskInv, TaskTypeOK, TaskType, ActiveTasks
    <3>2. tasks[t].client_index # c
      BY <1>3, <3>1, SMTT(30) DEF TasksOf
    <3>3. QED
      BY <1>1, <3>1, <3>2, SMTT(30)
      DEF TaskInv, TasksBelongToConnection, ClientTypeOK
  <2>2. QED
    BY <2>1 DEF TasksBelongToConnection
<1>10. QED
  BY <1>5, <1>6, <1>7, <1>8, <1>9, SMTT(30) DEF TaskInv

(***************************************************************************)
(* An admitted task, as every Submit action builds it.                     *)
(***************************************************************************)
LEMMA SubmitCounted ==
  ASSUME ClientTypeOK, TaskInv, NEW c \in Clients, NEW kind \in Kinds,
         AdmitsTask(c, kind), NEW t \in FreeTaskSlots,
         NEW f \in FileSlots \cup {NoSlot}, NEW b \in BufferSlots \cup {NoSlot},
         NEW r \in FileSlots \cup {NoSlot}, NEW id \in ResourceIds,
         NEW fd \in Nat \cup {NoFd},
         StartTask(c, t, NewTask(c, kind, f, b, r, id, fd)),
         UNCHANGED generation
  PROVE  TaskInv'
<1>1. generation[c] \in Nat /\ next_task_id \in Nat
  BY DEF ClientTypeOK, TaskInv, TaskTypeOK
<1>2. UsesCredit(kind) \in BOOLEAN
  BY SMTT(30) DEF UsesCredit
<1>3. NewTask(c, kind, f, b, r, id, fd) \in TaskType
  BY <1>1, <1>2 DEF NewTask, TaskType
<1>4. PICK task \in TaskType : task = NewTask(c, kind, f, b, r, id, fd)
  BY <1>3, SMTT(30)
<1>5. /\ task.active /\ task.client_index = c
      /\ task.task_id = next_task_id
      /\ task.client_generation = generation[c]
      /\ task.consumes_credit = UsesCredit(kind)
  BY <1>4, SMTT(30) DEF NewTask
<1>6. /\ task.consumes_credit =>
           /\ outstanding_credit_tasks < TaskCapacity
           /\ client_credit_tasks[c] < PerClientCreditLimit
      /\ next_task_id < TaskIdReservedMin
  BY <1>5, Zenon DEF AdmitsTask
<1>7. StartTask(c, t, task)
  BY <1>4
<1>8. QED
  BY <1>5, <1>6, <1>7, StartTaskCounted, SMTT(30)

\* iouringd_ring_queue_sqe, whether or not io_uring_enter fails, leaves
\* well typed queues.
LEMMA SqeTyped ==
  ASSUME RingTypeOK, NEW sqe \in SqeType, SqeTaken(sqe) \/ SqeRefused(sqe)
  PROVE  RingTypeOK'
<1>1. CASE SqeTaken(sqe)
  <2>1. /\ Append(sq, sqe) \in Seq(SqeType)
        /\ Append(sq, sqe) # << >>
    BY DEF RingTypeOK
  <2>2. /\ Head(Append(sq, sqe)) \in SqeType
        /\ Tail(Append(sq, sqe)) \in Seq(SqeType)
    BY <2>1
  <2>3. QED
    BY <1>1, <2>2 DEF SqeTaken, RingTypeOK
<1>2. CASE SqeRefused(sqe)
  <2>1. Append(sq, sqe) \in Seq(SqeType)
    BY DEF RingTypeOK
  <2>2. CASE UNCHANGED ringVars
    BY <2>2 DEF RingTypeOK, ringVars
  <2>3. CASE /\ sq_tail' = sq_tail + 1
             /\ sq' = Append(sq, sqe)
             /\ enter_faults' = enter_faults + 1
             /\ UNCHANGED <<in_kernel, cq>>
    BY <2>1, <2>3, SMTT(30) DEF RingTypeOK
  <2>4. QED
    BY <1>2, <2>2, <2>3 DEF SqeRefused
<1>3. QED
  BY <1>1, <1>2

\* The SQE a submission writes is well typed.
LEMMA NewSqeTyped ==
  ASSUME RingTypeOK, TaskTypeOK, NEW kind \in Kinds, NEW fd \in Nat \cup {NoFd}
  PROVE  NewSqe(kind, fd) \in SqeType
BY DEF RingTypeOK, TaskTypeOK, NewSqe, SqeType

\* iouringd_allocate_resource_id yields and leaves resource ids.
LEMMA IdsTyped ==
  ASSUME ResourceTypeOK, NEW c \in Clients, NEW k \in Attempts
  PROVE  /\ Candidate(c, k) \in ResourceIds
         /\ IdAfterAttempt(c, k) \in ResourceIds
         /\ IdAfterAllAttempts(c) \in ResourceIds
<1>1. next_resource_id[c] \in Nat /\ k \in Nat
  BY DEF ResourceTypeOK, ResourceIds, Attempts
<1>2. /\ next_resource_id[c] + k \in Nat
      /\ next_resource_id[c] + k + 1 \in Nat
      /\ next_resource_id[c] + FileSlotLimit + BufferSlotLimit \in Nat
  BY <1>1, ConstantsAssumption
<1>3. QED
  BY <1>2, ModInRange DEF Candidate, IdAfterAttempt, IdAfterAllAttempts

\* Free, registered and reserved slots are well typed.
LEMMA SlotsTyped ==
  /\ FreeFileSlot \in FileSlotType
  /\ FreeBufferSlot \in BufferSlotType
  /\ \A id \in ResourceIds : ReservedSlot(id) \in FileSlotType
<1>1. FreeFileSlot \in FileSlotType
  BY InvalidIdTyped, SMTT(30) DEF FreeFileSlot, FileSlotType, NoFd
<1>2. FreeBufferSlot \in BufferSlotType
  BY InvalidIdTyped DEF FreeBufferSlot, BufferSlotType
<1>3. \A id \in ResourceIds : ReservedSlot(id) \in FileSlotType
  BY DEF ReservedSlot, FileSlotType, NoFd
<1>4. QED
  BY <1>1, <1>2, <1>3, SMTT(30)

=============================================================================
