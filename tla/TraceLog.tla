------------------------------ MODULE TraceLog ------------------------------
(***************************************************************************)
(* What iouringd promises of its trace: events are numbered from 1 in the  *)
(* order they happen, and a GET_TRACE is answered with consecutive events  *)
(* of the log, at most as many as asked for.  The first is the one after   *)
(* the event the client names or, when that one is no longer kept, the     *)
(* oldest there is; the last Retention events are always kept.             *)
(***************************************************************************)
EXTENDS Integers, Sequences

CONSTANTS
  Contents,  \* what an event says
  Retention, \* how many events are kept
  Cursors    \* the sequence numbers clients name

VARIABLES
  log,    \* every event so far
  answer  \* the last answer to a GET_TRACE

Oldest ==
  IF Len(log) <= Retention THEN IF Len(log) = 0 THEN 0 ELSE 1
                           ELSE Len(log) - Retention + 1

First(after) == IF after + 1 < Oldest THEN Oldest ELSE after + 1

Count(after, max) ==
  LET rest == Len(log) - First(after) + 1
  IN IF rest <= 0 THEN 0 ELSE IF rest < max THEN rest ELSE max

Extract(first, count) ==
  [i \in 1 .. count |-> [sequence |-> first + i - 1,
                         content |-> log[first + i - 1]]]

NoAnswer == [oldest |-> 0, latest |-> 0, events |-> << >>]

Init ==
  /\ log = << >>
  /\ answer = NoAnswer

Record(content) ==
  /\ log' = Append(log, content)
  /\ UNCHANGED answer

Tell(after, max) ==
  /\ answer' = [oldest |-> Oldest, latest |-> Len(log),
                events |-> Extract(First(after), Count(after, max))]
  /\ UNCHANGED log

Next ==
  \/ \E content \in Contents : Record(content)
  \/ \E after \in Cursors, max \in 0 .. Retention : Tell(after, max)

Spec == Init /\ [][Next]_<<log, answer>>

=============================================================================
