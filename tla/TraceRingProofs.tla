-------------------------- MODULE TraceRingProofs ---------------------------
(***************************************************************************)
(* For every capacity of the ring, every set of cursors and every number   *)
(* of events: the trace ring implements the trace log.  The inductive      *)
(* invariant says that the ring holds the last trace_count events of the   *)
(* history, each in the slot its sequence number selects.                  *)
(***************************************************************************)
EXTENDS TraceRing, SequenceTheorems, TLAPS

(***************************************************************************)
(* The ring holds the events iouringd_queue_trace_result reads: those from *)
(* OldestSequence to LatestSequence, with their own numbers and contents.  *)
(***************************************************************************)
RingHoldsTail ==
  \A s \in Nat :
    s >= 1 /\ s >= next_trace_sequence - trace_count /\ s < next_trace_sequence
      => trace_events[Slot(s)] = [sequence |-> s, content |-> emitted[s]]

RingInv ==
  /\ emitted \in Seq(Contents)
  /\ next_trace_sequence = Len(emitted) + 1
  /\ trace_count = IF Len(emitted) < TraceCapacity THEN Len(emitted)
                                                   ELSE TraceCapacity
  /\ DOMAIN trace_events = Slots
  /\ seen \in 0 .. MaxEvents
  /\ Len(emitted) <= MaxEvents
  /\ RingHoldsTail

-----------------------------------------------------------------------------
(***************************************************************************)
(* The slot iouringd_emit_trace_event and iouringd_queue_trace_result      *)
(* compute is one of the ring's.                                           *)
(***************************************************************************)
LEMMA SlotInRing == \A s \in Nat \ {0} : Slot(s) \in Slots
  BY TraceAssumption DEF Slot, Slots

(***************************************************************************)
(* Two events less than TraceCapacity apart never share a slot, so that an *)
(* event overwrites only the oldest one.                                   *)
(***************************************************************************)
LEMMA SlotsDistinct ==
  ASSUME NEW a \in Nat \ {0}, NEW b \in Nat \ {0}, a < b, b < a + TraceCapacity
  PROVE  Slot(a) # Slot(b)
<1> DEFINE q(x) == (x - 1) \div TraceCapacity
           r(x) == (x - 1) % TraceCapacity
<1>1. /\ q(a) \in Int /\ r(a) \in Int /\ a - 1 = TraceCapacity * q(a) + r(a)
      /\ q(b) \in Int /\ r(b) \in Int /\ b - 1 = TraceCapacity * q(b) + r(b)
  BY TraceAssumption
<1>2. SUFFICES ASSUME r(a) = r(b) PROVE FALSE
  BY DEF Slot
<1> HIDE DEF q, r
<1>3. b - a = TraceCapacity * (q(b) - q(a))
  BY <1>1, <1>2, TraceAssumption
<1>4. q(b) - q(a) \in Int
  BY <1>1
<1>5. CASE q(b) - q(a) <= 0
  BY <1>3, <1>4, <1>5, TraceAssumption
<1>6. CASE q(b) - q(a) >= 1
  BY <1>3, <1>4, <1>6, TraceAssumption
<1> QED
  BY <1>4, <1>5, <1>6

-----------------------------------------------------------------------------
(***************************************************************************)
(* iouringd_emit_trace_event keeps the ring equal to the end of the        *)
(* history.                                                                *)
(***************************************************************************)
LEMMA EmitKeepsRing ==
  ASSUME RingInv, NEW content \in Contents, Emit(content)
  PROVE  RingInv'
<1> USE TraceAssumption
<1> DEFINE n == next_trace_sequence
<1>1. /\ n \in Nat \ {0} /\ n = Len(emitted) + 1 /\ trace_count \in Nat
      /\ trace_count <= Len(emitted)
  BY DEF RingInv
<1>2. /\ emitted' \in Seq(Contents) /\ Len(emitted') = n
      /\ emitted'[n] = content
      /\ \A s \in 1 .. Len(emitted) : emitted'[s] = emitted[s]
  BY <1>1 DEF Emit, RingInv
<1>3. DOMAIN trace_events' = Slots
  BY DEF Emit, RingInv
<1>4. trace_count' = IF Len(emitted') < TraceCapacity THEN Len(emitted')
                                                       ELSE TraceCapacity
  BY <1>1, <1>2 DEF Emit, CountAfterEmit, RingInv
<1>5. RingHoldsTail'
  <2> SUFFICES ASSUME NEW s \in Nat, s >= 1, s >= n' - trace_count', s < n'
               PROVE  trace_events'[Slot(s)] =
                        [sequence |-> s, content |-> emitted'[s]]
    BY DEF RingHoldsTail, Slot
  <2>1. n' = n + 1
    BY DEF Emit
  <2>2. CASE s = n
    BY <1>1, <1>2, <2>2, SlotInRing DEF Emit, RingInv
  <2>3. CASE s # n
    <3>1. /\ s < n /\ s >= n - trace_count /\ n < s + TraceCapacity
          /\ s \in 1 .. Len(emitted)
      BY <1>1, <1>2, <1>4, <2>1, <2>3 DEF RingInv
    <3>2. Slot(s) # Slot(n)
      BY <1>1, <3>1, SlotsDistinct
    <3>3. trace_events'[Slot(s)] = trace_events[Slot(s)]
      BY <3>1, <3>2, <1>1, SlotInRing DEF Emit, RingInv
    <3>4. trace_events[Slot(s)] = [sequence |-> s, content |-> emitted[s]]
      BY <3>1 DEF RingInv, RingHoldsTail
    <3> QED
      BY <3>1, <3>3, <3>4, <1>2
  <2> QED
    BY <2>2, <2>3
<1>6. seen' = seen /\ n' = n + 1 /\ Len(emitted) < MaxEvents
  BY DEF Emit
<1> QED
  BY <1>1, <1>2, <1>3, <1>4, <1>5, <1>6 DEF RingInv

-----------------------------------------------------------------------------
(***************************************************************************)
(* What iouringd_queue_trace_result reads from the ring is what the log    *)
(* says, for every request.                                                *)
(***************************************************************************)
LEMMA ReplyIsFromLog ==
  ASSUME RingInv, NEW after \in Nat, NEW max \in Asked
  PROVE  Reply(after, max) =
           [oldest |-> Log!Oldest, latest |-> Len(emitted),
            events |-> Log!Extract(Log!First(after), Log!Count(after, max))]
<1> USE TraceAssumption
<1>1. /\ Len(emitted) \in Nat /\ next_trace_sequence = Len(emitted) + 1
      /\ trace_count \in Nat /\ trace_count <= Len(emitted)
  BY DEF RingInv
<1> DEFINE n == Len(emitted)
<1>a. trace_count = IF n < TraceCapacity THEN n ELSE TraceCapacity
  BY DEF RingInv
<1>2. OldestSequence = Log!Oldest /\ LatestSequence = Len(emitted)
  <2> HIDE DEF n
  <2>1. OldestSequence = IF trace_count = 0 THEN 0 ELSE n + 1 - trace_count
    BY <1>1 DEF OldestSequence, n
  <2>2. Log!Oldest = IF n <= TraceCapacity THEN IF n = 0 THEN 0 ELSE 1
                                           ELSE n - TraceCapacity + 1
    BY DEF Log!Oldest, n
  <2>3. n \in Nat
    BY <1>1 DEF n
  <2>4. OldestSequence = Log!Oldest
    BY <1>a, <2>1, <2>2, <2>3
  <2> QED
    BY <1>1, <2>4 DEF LatestSequence
<1>3. FirstWanted(after) = Log!First(after)
  BY <1>2 DEF FirstWanted, Log!First
<1>4. /\ FirstWanted(after) \in Nat \ {0}
      /\ FirstWanted(after) >= OldestSequence
      /\ OldestSequence \in Nat
  BY <1>1 DEF FirstWanted, OldestSequence
<1>5. CountWanted(after, max) = Log!Count(after, max)
  <2> DEFINE first == FirstWanted(after)
             rest == n - first + 1
  <2>1. /\ n \in Nat /\ rest \in Int /\ max \in Nat
        /\ max # 0 /\ trace_count # 0 /\ after < n <=> max # 0 /\ rest > 0
    <3> HIDE DEF n
    <3>1. n \in Nat /\ max \in Nat
      BY <1>1 DEF Asked, n
    <3>2. OldestSequence = IF trace_count = 0 THEN 0 ELSE n + 1 - trace_count
      BY <1>1 DEF OldestSequence, n
    <3>3. first = IF after + 1 < OldestSequence THEN OldestSequence ELSE after + 1
      BY DEF FirstWanted
    <3> HIDE DEF first
    <3> QED
      BY <1>a, <1>1, <1>4, <3>1, <3>2, <3>3
  <2>2. CountWanted(after, max) = IF ~(max # 0 /\ rest > 0) THEN 0
                                  ELSE IF rest < max THEN rest ELSE max
    BY <1>2, <2>1 DEF CountWanted, AnyWanted
  <2>3. Log!Count(after, max) = IF rest <= 0 THEN 0
                                ELSE IF rest < max THEN rest ELSE max
    BY <1>3 DEF Log!Count
  <2> HIDE DEF rest
  <2> QED
    BY <2>1, <2>2, <2>3
<1>6. ASSUME NEW i \in 1 .. CountWanted(after, max)
      PROVE  trace_events[Slot(FirstWanted(after) + i - 1)] =
               [sequence |-> FirstWanted(after) + i - 1,
                content |-> emitted[FirstWanted(after) + i - 1]]
  <2> DEFINE s == FirstWanted(after) + i - 1
  <2>1. /\ s \in Nat /\ s >= 1 /\ s >= OldestSequence /\ s <= LatestSequence
        /\ trace_count # 0
    BY <1>1, <1>2, <1>4, SMTT(30) DEF CountWanted, AnyWanted, Asked
  <2>2. s >= next_trace_sequence - trace_count /\ s < next_trace_sequence
    BY <2>1, <1>1, <1>2 DEF OldestSequence
  <2> HIDE DEF s
  <2>3. trace_events[Slot(s)] = [sequence |-> s, content |-> emitted[s]]
    BY <2>1, <2>2 DEF RingInv, RingHoldsTail
  <2> QED
    BY <2>3 DEF s
<1>7. EventsFrom(FirstWanted(after), CountWanted(after, max)) =
        Log!Extract(Log!First(after), Log!Count(after, max))
  BY <1>3, <1>5, <1>6 DEF EventsFrom, Log!Extract
<1> QED
  BY <1>2, <1>7 DEF Reply

(***************************************************************************)
(* The number of the last event in a reply is the follower's next cursor,  *)
(* and is a number some event has.                                         *)
(***************************************************************************)
LEMMA FollowKeepsRing ==
  ASSUME RingInv, NEW max \in Asked, Follow(max)
  PROVE  RingInv'
<1> USE TraceAssumption
<1>1. seen \in Nat
  BY DEF RingInv
<1>2. reply' = [oldest |-> Log!Oldest, latest |-> Len(emitted),
                events |-> Log!Extract(Log!First(seen), Log!Count(seen, max))]
  BY <1>1, ReplyIsFromLog DEF Follow
<1> DEFINE k == Log!Count(seen, max)
           f == Log!First(seen)
<1>3. /\ Len(emitted) \in Nat /\ k \in Nat /\ f \in Nat \ {0}
      /\ k > 0 => f + k - 1 <= Len(emitted)
  <2>1. Len(emitted) \in Nat /\ max \in Nat
    BY DEF RingInv, Asked
  <2>2. Log!Oldest \in Nat
    BY <2>1 DEF Log!Oldest
  <2>3. f \in Nat \ {0}
    BY <1>1, <2>2 DEF Log!First
  <2>4. k = LET rest == Len(emitted) - f + 1
            IN IF rest <= 0 THEN 0 ELSE IF rest < max THEN rest ELSE max
    BY DEF Log!Count
  <2> HIDE DEF k, f
  <2> QED
    BY <2>1, <2>3, <2>4
<1>4. reply'.events = [i \in 1 .. k |-> [sequence |-> f + i - 1,
                                         content |-> emitted[f + i - 1]]]
  BY <1>2 DEF Log!Extract
<1> HIDE DEF k, f
<1>5. CASE k = 0
  <2>1. reply'.events = << >>
    BY <1>4, <1>5
  <2> QED
    BY <2>1 DEF Follow, RingInv, RingHoldsTail
<1>6. CASE k > 0
  <2>1. Len(reply'.events) = k /\ reply'.events # << >>
    <3>1. reply'.events \in Seq({reply'.events[i] : i \in 1 .. k})
      <4> DEFINE S == {reply'.events[i] : i \in 1 .. k}
      <4>1. reply'.events \in [1 .. k -> S]
        BY <1>4
      <4> HIDE DEF S
      <4>2. reply'.events \in Seq(S)
        BY <1>3, <4>1
      <4> QED
        BY <4>2 DEF S
    <3>2. DOMAIN reply'.events = 1 .. k
      BY <1>4
    <3> QED
      BY <3>1, <3>2, <1>3, <1>6, LenProperties
  <2>2. reply'.events[k].sequence = f + k - 1
    BY <1>3, <1>4, <1>6
  <2>3. seen' = f + k - 1
    BY <2>1, <2>2 DEF Follow
  <2>4. seen' \in 0 .. MaxEvents
    BY <2>3, <1>3, <1>6 DEF RingInv
  <2> QED
    BY <2>4 DEF Follow, RingInv, RingHoldsTail
<1> QED
  BY <1>3, <1>5, <1>6

-----------------------------------------------------------------------------
(***************************************************************************)
(* In every reachable state the ring holds the end of the history.         *)
(***************************************************************************)
THEOREM RingIsTail == Spec => []RingInv
<1>1. Init => RingInv
  BY TraceAssumption
     DEF Init, RingInv, RingHoldsTail, ZeroedEvents
<1>2. RingInv /\ [Next]_vars => RingInv'
  <2> SUFFICES ASSUME RingInv, [Next]_vars PROVE RingInv'
    OBVIOUS
  <2>1. ASSUME NEW content \in Contents, Emit(content) PROVE RingInv'
    BY <2>1, EmitKeepsRing
  <2>2. ASSUME NEW after \in Cursors, NEW max \in Asked, GetTrace(after, max)
        PROVE  RingInv'
    BY <2>2 DEF GetTrace, RingInv, RingHoldsTail
  <2>3. ASSUME NEW max \in Asked, Follow(max) PROVE RingInv'
    BY <2>3, FollowKeepsRing
  <2>4. CASE UNCHANGED vars
    BY <2>4 DEF vars, RingInv, RingHoldsTail
  <2> QED
    BY <2>1, <2>2, <2>3, <2>4 DEF Next
<1> QED
  BY <1>1, <1>2, PTL DEF Spec

(***************************************************************************)
(* The trace ring of iouringd implements the trace log: whatever was       *)
(* overwritten, GET_TRACE returns consecutive events of the real history   *)
(* and loses only those that more than TraceCapacity later ones replaced.  *)
(***************************************************************************)
THEOREM RingImplementsLog == Spec => ImplementsLog
<1>1. Init => Log!Init
  BY DEF Init, Log!Init, NoReply, Log!NoAnswer
<1>2. RingInv /\ [Next]_vars => [Log!Next]_<<emitted, reply>>
  <2> SUFFICES ASSUME RingInv, [Next]_vars
               PROVE  [Log!Next]_<<emitted, reply>>
    OBVIOUS
  <2>1. ASSUME NEW content \in Contents, Emit(content) PROVE Log!Next
    BY <2>1 DEF Emit, Log!Next, Log!Record
  <2>2. ASSUME NEW after \in Cursors, NEW max \in Asked, GetTrace(after, max)
        PROVE  Log!Next
    <3>1. Log!Tell(after, max)
      BY <2>2, ReplyIsFromLog, TraceAssumption DEF GetTrace, Log!Tell
    <3> QED
      BY <3>1 DEF Log!Next, Asked
  <2>3. ASSUME NEW max \in Asked, Follow(max) PROVE Log!Next
    <3>1. seen \in Nat /\ seen \in Cursors
      BY TraceAssumption DEF RingInv
    <3>2. Log!Tell(seen, max)
      BY <2>3, <3>1, ReplyIsFromLog DEF Follow, Log!Tell
    <3> QED
      BY <3>1, <3>2 DEF Log!Next, Asked
  <2>4. CASE UNCHANGED vars
    BY <2>4 DEF vars
  <2> QED
    BY <2>1, <2>2, <2>3, <2>4 DEF Next
<1> QED
  BY <1>1, <1>2, RingIsTail, PTL DEF Spec, ImplementsLog, Log!Spec

=============================================================================
