---------------------------- MODULE TaskService -----------------------------
(***************************************************************************)
(* What iouringd promises about tasks, without slots, counters, rings or   *)
(* generations: a running job has an id no other job ever had, belongs to  *)
(* the connection that submitted it, and ends once.  A place for a         *)
(* connection is given away again when no job of the old one runs.         *)
(***************************************************************************)
EXTENDS Integers, FiniteSets

CONSTANTS
  Clients,     \* the places for connections
  Capacity,    \* how many jobs run at a time
  CreditLimit, \* how many of them one connection may pay for with credits
  IdLimit      \* the first id that is not given out

VARIABLES
  serving,   \* the service runs
  connected, \* the places that have a connection
  jobs,      \* the running jobs
  next_id    \* the id of the next job

CreditJobsOf(c) == {j \in jobs : j.client = c /\ j.credit}

Init ==
  /\ serving = TRUE
  /\ connected = {}
  /\ jobs = {}
  /\ next_id = 1

Connect(c) ==
  /\ c \notin connected
  /\ \A j \in jobs : j.client # c
  /\ connected' = connected \cup {c}
  /\ UNCHANGED <<serving, jobs, next_id>>

\* The jobs of a connection that goes away run on.
Disconnect(c) ==
  /\ c \in connected
  /\ connected' = connected \ {c}
  /\ UNCHANGED <<serving, jobs, next_id>>

Accept(c, credit) ==
  /\ c \in connected
  /\ next_id < IdLimit
  /\ Cardinality(jobs) < Capacity
  /\ credit => Cardinality(CreditJobsOf(c)) < CreditLimit
  /\ jobs' = jobs \cup {[id |-> next_id, client |-> c, credit |-> credit]}
  /\ next_id' = next_id + 1
  /\ UNCHANGED <<serving, connected>>

Finish(j) ==
  /\ jobs' = jobs \ {j}
  /\ UNCHANGED <<serving, connected, next_id>>

Stop ==
  /\ serving' = FALSE
  /\ UNCHANGED <<connected, jobs, next_id>>

Next ==
  /\ serving
  /\ \/ \E c \in Clients : \/ Connect(c)
                           \/ Disconnect(c)
                           \/ \E credit \in BOOLEAN : Accept(c, credit)
     \/ \E j \in jobs : Finish(j)
     \/ Stop

Spec == Init /\ [][Next]_<<serving, connected, jobs, next_id>>

=============================================================================
