----------------------------- MODULE TraceRing ------------------------------
(***************************************************************************)
(* The trace of iouringd (src/daemon/main.c): a ring of the last           *)
(* TraceCapacity events, read by clients with GET_TRACE, and a client that *)
(* follows the trace with the last sequence number it has seen.  emitted   *)
(* is a history variable: all events, the overwritten ones included.       *)
(***************************************************************************)
EXTENDS Integers, Sequences

CONSTANTS
  TraceCapacity, \* IOURINGD_TRACE_CAPACITY
  Contents,      \* what an event says, apart from its sequence number
  Cursors,       \* what clients send as after_sequence
  MaxEvents      \* bound: the events of a behaviour

ASSUME TraceAssumption ==
  /\ TraceCapacity \in Nat \ {0}
  /\ Cursors \subseteq Nat
  /\ MaxEvents \in Nat
  /\ 0 .. MaxEvents \subseteq Cursors

VARIABLES
  trace_events,        \* runtime->trace_events
  next_trace_sequence, \* runtime->next_trace_sequence
  trace_count,         \* runtime->trace_count
  reply,               \* the last trace result and the events behind it
  seen,                \* the follower's last sequence number
  emitted              \* history: the contents of all events

vars == <<trace_events, next_trace_sequence, trace_count, reply, seen, emitted>>

-----------------------------------------------------------------------------
Slots == 0 .. TraceCapacity - 1

Slot(sequence) == (sequence - 1) % TraceCapacity

ZeroedEvents == [i \in Slots |-> [sequence |-> 0, content |-> "none"]]

NoReply == [oldest |-> 0, latest |-> 0, events |-> << >>]

Init ==
  /\ trace_events = ZeroedEvents
  /\ next_trace_sequence = 1
  /\ trace_count = 0
  /\ reply = NoReply
  /\ seen = 0
  /\ emitted = << >>

CountAfterEmit ==
  IF trace_count < TraceCapacity THEN trace_count + 1 ELSE trace_count

Emit(content) ==
  /\ Len(emitted) < MaxEvents
  /\ trace_events' =
       [trace_events EXCEPT ![Slot(next_trace_sequence)] =
          [sequence |-> next_trace_sequence, content |-> content]]
  /\ next_trace_sequence' = next_trace_sequence + 1
  /\ trace_count' = CountAfterEmit
  /\ emitted' = Append(emitted, content)
  /\ UNCHANGED <<reply, seen>>

-----------------------------------------------------------------------------
\* Mutant: one event too early.
OldestOverwritten ==
  IF trace_count = 0 THEN 0 ELSE next_trace_sequence - trace_count - 1

\* iouringd_trace_oldest_sequence and iouringd_queue_trace_result.
OldestSequence ==
  IF trace_count = 0 THEN 0 ELSE next_trace_sequence - trace_count

LatestSequence == next_trace_sequence - 1

\* Mutant: the newest event is held back.
AnyWantedBefore(after, max) ==
  max # 0 /\ trace_count # 0 /\ after + 1 < LatestSequence

AnyWanted(after, max) ==
  max # 0 /\ trace_count # 0 /\ after < LatestSequence

\* Mutant: one event is skipped.
FirstWantedAfter(after) ==
  IF after + 1 < OldestSequence THEN OldestSequence ELSE after + 2

FirstWanted(after) ==
  IF after + 1 < OldestSequence THEN OldestSequence ELSE after + 1

\* Where the loop over the sequence numbers stops.
CountWanted(after, max) ==
  LET rest == LatestSequence - FirstWanted(after) + 1
  IN IF ~AnyWanted(after, max) THEN 0 ELSE IF rest < max THEN rest ELSE max

EventsFrom(first, count) ==
  [i \in 1 .. count |-> trace_events[Slot(first + i - 1)]]

Reply(after, max) ==
  [oldest |-> OldestSequence, latest |-> LatestSequence,
   events |-> EventsFrom(FirstWanted(after), CountWanted(after, max))]

\* Any client asks for any part of the trace.
GetTrace(after, max) ==
  /\ reply' = Reply(after, max)
  /\ UNCHANGED <<trace_events, next_trace_sequence, trace_count, seen, emitted>>

\* A follower asks for what comes after the last event it has.
Follow(max) ==
  /\ reply' = Reply(seen, max)
  /\ seen' = IF reply'.events = << >> THEN seen
             ELSE reply'.events[Len(reply'.events)].sequence
  /\ UNCHANGED <<trace_events, next_trace_sequence, trace_count, emitted>>

\* The daemon closes a client that asks for more than the ring holds.
Asked == 0 .. TraceCapacity

Next ==
  \/ \E content \in Contents : Emit(content)
  \/ \E after \in Cursors, max \in Asked : GetTrace(after, max)
  \/ \E max \in Asked : Follow(max)

Spec == Init /\ [][Next]_vars

\* A follower keeps asking, for something.
FairSpec == Spec /\ WF_vars(\E max \in Asked \ {0} : Follow(max))

-----------------------------------------------------------------------------
Log == INSTANCE TraceLog WITH
         Retention <- TraceCapacity, log <- emitted, answer <- reply

(***************************************************************************)
(* The ring implements the log: every answer of                            *)
(* iouringd_queue_trace_result is a run of consecutive events of the whole *)
(* history, with their own numbers and contents, however often the ring    *)
(* was overwritten, and leaves out only what more than TraceCapacity later *)
(* events have replaced.                                                   *)
(***************************************************************************)
ImplementsLog == Log!Spec

(***************************************************************************)
(* A follower misses nothing it could have had: its cursor jumps past an   *)
(* event only when the ring no longer holds that event, and oldest in the  *)
(* reply tells it so.                                                      *)
(***************************************************************************)
FollowerKnowsItsGaps ==
  [][seen' # seen =>
       LET got == {reply'.events[i].sequence : i \in DOMAIN reply'.events}
       IN \A s \in seen + 1 .. seen' : s \in got \/ s < reply'.oldest]_vars

(***************************************************************************)
(* A follower that keeps asking gets past every event, the newest          *)
(* included: no event waits in the ring for a later one to be emitted.     *)
(***************************************************************************)
FollowerCatchesUp ==
  \A n \in 1 .. MaxEvents : Len(emitted) >= n ~> seen >= n

=============================================================================
