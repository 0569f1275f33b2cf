---------------------------- MODULE IntakeProofs ----------------------------
(***************************************************************************)
(* Proofs about Intake, for any sizes, limits and numbers of messages.     *)
(* The argument is about the stream of units from the input buffer through *)
(* the socket to what the peer has yet to write: it starts with the        *)
(* message the daemon expects, and goes on in order.  The steps of the     *)
(* peer come first, with closing the connection, then the steps of the     *)
(* daemon, and what follows from the invariant.                            *)
(***************************************************************************)
EXTENDS Intake, TLAPS


-----------------------------------------------------------------------------
(***************************************************************************)
(* What a client sends, on its way in.                                     *)
(***************************************************************************)
Messages == Requests \cup {Hello(TRUE), Hello(FALSE)}
Unit == [message : Messages, id : Nat, at : Nat, fd : Nat]

Stream == (input \o wire) \o rest

\* What comes d units after u, as far as u tells.
Apart(u, v, d) ==
  /\ u.at + d <= Size(u.message) =>
       v.message = u.message /\ v.id = u.id /\ v.at = u.at + d
  /\ u.at + d = Size(u.message) + 1 => v.at = 1 /\ v.id = u.id + 1

InOrder(s) ==
  \A i \in 1 .. Len(s), d \in Nat :
    i + d <= Len(s) => Apart(s[i], s[i + d], d)

Starts(s, id) == Len(s) > 0 => s[1].at = 1 /\ s[1].id = id

Ends(s, before, id) ==
  IF Len(s) = 0 THEN before = id
  ELSE s[Len(s)].at = Size(s[Len(s)].message) /\ s[Len(s)].id = id

\* The stream after the messages up to l were taken, of which m were begun;
\* while the peer is there it ends with a whole message.
GoodStream(s, l, m, open) ==
  /\ InOrder(s)
  /\ Starts(s, l + 1)
  /\ open => Ends(s, l, m)

\* What a rejected client sent may have been taken in part.
Whole == phase # "closing" => GoodStream(Stream, last, messages, peer_open)

StreamInv ==
  /\ input \in Seq(Unit) /\ wire \in Seq(Unit) /\ rest \in Seq(Unit)
  /\ last \in Nat /\ messages \in Nat /\ greeting \in Nat
  /\ Whole

\* The daemon never asks for more than the message it is reading.
InputInv ==
  /\ phase \in {"closed", "handshake", "submit", "rejected", "closing"}
  /\ expected_input \in Nat /\ Base <= expected_input
  /\ Len(input) <= expected_input
  /\ expected_input <= InputCapacity
  /\ Len(input) = 0 => expected_input = Base
  /\ Len(input) > 0 => expected_input <= Size(input[1].message)
  /\ phase \in {"handshake", "rejected"} => expected_input = Base
  /\ ready # NoRequest =>
       /\ Len(input) = 0
       /\ ready.units = Size(ready.message) /\ ready.id = last
  /\ phase \in {"closed", "closing"} => Len(input) = 0 /\ ready = NoRequest

\* A descriptor is in the socket or has arrived, once.
FdInv ==
  /\ sent_with \in [Fds -> Nat]
  /\ received_fd \in Fds \cup {0}
  /\ arrived \subseteq Fds /\ bundled \subseteq Fds
  /\ DescriptorsAreKept
  /\ \A f \in arrived \cup bundled : sent_with[f] # 0
  /\ \A i \in 1 .. Len(rest) : rest[i].fd = 0 /\ rest[i].id # 0
  /\ \A i \in 1 .. Len(wire) :
       wire[i].fd # 0 =>
         /\ wire[i].fd \in Fds \ arrived
         /\ sent_with[wire[i].fd] = wire[i].id /\ wire[i].id # 0
  /\ \A i, j \in 1 .. Len(wire) :
       wire[i].fd = wire[j].fd /\ wire[i].fd # 0 => i = j

\* Which message the waiting descriptor came with.
OwnInv ==
  /\ phase = "handshake" => greeting = last + 1
  /\ phase = "closed" => received_fd = 0
  /\ received_fd # 0 =>
       \/ /\ ready = NoRequest /\ Len(input) > 0
          /\ sent_with[received_fd] = last + 1
       \/ /\ ready = NoRequest /\ phase # "handshake"
          /\ sent_with[received_fd] = greeting /\ last = greeting
       \/ ready # NoRequest /\ OwnDescriptor
       \/ ready = NoRequest /\ phase = "closing"

\* The handshake is as long as a header.
Short(s) == \A i \in 1 .. Len(s) : s[i].id = greeting => Size(s[i].message) = Base

GreetInv ==
  /\ greeting <= messages
  /\ Short(input) /\ Short(wire) /\ Short(rest)

IntakeInv == StreamInv /\ InputInv /\ FdInv /\ OwnInv /\ GreetInv

-----------------------------------------------------------------------------
\* A message is as long as its header, its body and its payload.
LEMMA SizeFacts ==
  \A m \in Messages :
    /\ m.kind \in Kinds \cup {"hello"} /\ m.length \in Nat
    /\ BodyUnits(m.kind) \in {0, 1, 2}
    /\ Size(m) \in Nat /\ Base + BodyUnits(m.kind) <= Size(m)
    /\ m.length > 0 => HasPayload(m.kind)
    /\ Base \in Nat \ {0} /\ IoBytesMax \in Nat \ {0}
<1>1. Base \in Nat \ {0} /\ IoBytesMax \in Nat \ {0} /\ MaxLength \in Nat
  BY IntakeAssumption
<1>2. ASSUME NEW m \in Messages
      PROVE  /\ m.kind \in Kinds \cup {"hello"} /\ m.length \in Nat
             /\ m.length > 0 => HasPayload(m.kind)
  BY <1>1 DEF Messages, Requests, Hello
<1>3. \A kind : BodyUnits(kind) \in {0, 1, 2}
  BY DEF BodyUnits
<1> QED
  BY <1>1, <1>2, <1>3 DEF Size

\* A stream whose units are the same but for their descriptors.
LEMMA SameStream ==
  ASSUME NEW s \in Seq(Unit), NEW t \in Seq(Unit), NEW l, NEW m,
         NEW open, GoodStream(s, l, m, open), Len(t) = Len(s),
         \A i \in 1 .. Len(s) :
           t[i].message = s[i].message /\ t[i].id = s[i].id /\ t[i].at = s[i].at
  PROVE  GoodStream(t, l, m, open)
<1>1. InOrder(t)
  <2> SUFFICES ASSUME NEW i \in 1 .. Len(s), NEW d \in Nat, i + d <= Len(s)
               PROVE  Apart(t[i], t[i + d], d)
    BY DEF InOrder
  <2>1. Apart(s[i], s[i + d], d)
    BY DEF GoodStream, InOrder
  <2>2. i + d \in 1 .. Len(s)
    OBVIOUS
  <2> QED
    BY <2>1, <2>2 DEF Apart
<1>2. Starts(t, l + 1)
  BY DEF GoodStream, Starts
<1>3. open => Ends(t, l, m)
  BY DEF GoodStream, Ends
<1> QED
  BY <1>1, <1>2, <1>3 DEF GoodStream

\* The first units of a stream, when the peer has gone.
LEMMA CutStream ==
  ASSUME NEW s \in Seq(Unit), NEW t \in Seq(Unit), NEW l, NEW m,
         NEW open, GoodStream(s, l, m, open), Len(t) <= Len(s),
         \A i \in 1 .. Len(t) : t[i] = s[i]
  PROVE  GoodStream(t, l, m, FALSE)
<1>1. InOrder(t)
  BY DEF GoodStream, InOrder
<1>2. Starts(t, l + 1)
  BY DEF GoodStream, Starts
<1> QED
  BY <1>1, <1>2 DEF GoodStream

\* What is left when the first message is taken whole.
LEMMA TakeMessage ==
  ASSUME NEW s \in Seq(Unit), NEW t \in Seq(Unit), NEW l \in Nat, NEW m \in Nat,
         NEW open, GoodStream(s, l, m, open),
         NEW k \in 1 .. Len(s), k = Size(s[1].message),
         Len(t) = Len(s) - k, \A i \in 1 .. Len(t) : t[i] = s[i + k]
  PROVE  GoodStream(t, l + 1, m, open)
<1>1. InOrder(t)
  <2> SUFFICES ASSUME NEW i \in 1 .. Len(t), NEW d \in Nat, i + d <= Len(t)
               PROVE  Apart(t[i], t[i + d], d)
    BY Zenon DEF InOrder
  <2>1. i + k \in 1 .. Len(s) /\ (i + k) + d <= Len(s)
    BY SMTT(30)
  <2>2. Apart(s[i + k], s[(i + k) + d], d)
    BY <2>1, Zenon DEF GoodStream, InOrder
  <2>3. t[i] = s[i + k] /\ t[i + d] = s[(i + d) + k] /\ (i + d) + k = (i + k) + d
    BY SMTT(30)
  <2> QED
    BY <2>2, <2>3
<1>2. s[1].at = 1 /\ s[1].id = l + 1
  BY DEF GoodStream, Starts
<1>3. Starts(t, (l + 1) + 1)
  <2> SUFFICES ASSUME Len(t) > 0 PROVE t[1].at = 1 /\ t[1].id = (l + 1) + 1
    BY DEF Starts
  <2>0. 1 \in 1 .. Len(s) /\ k \in Nat /\ 1 + k <= Len(s)
    OBVIOUS
  <2>1. Apart(s[1], s[1 + k], k)
    BY <2>0 DEF GoodStream, InOrder
  <2>2. t[1] = s[1 + k] /\ s[1].at + k = Size(s[1].message) + 1
    BY <1>2
  <2> QED
    BY <1>2, <2>1, <2>2 DEF Apart
<1>4. ASSUME open PROVE Ends(t, l + 1, m)
  <2>1. s[Len(s)].at = Size(s[Len(s)].message) /\ s[Len(s)].id = m
    BY <1>4 DEF GoodStream, Ends
  <2>2. CASE Len(t) > 0
    BY <2>1, <2>2, SMTT(30) DEF Ends
  <2>3. CASE Len(t) = 0
    <3>1. Len(s) = 1 + (k - 1) /\ k - 1 \in Nat
      BY <2>3
    <3>2. Apart(s[1], s[1 + (k - 1)], k - 1)
      BY <3>1 DEF GoodStream, InOrder
    <3> QED
      BY <1>2, <2>1, <2>3, <3>1, <3>2, SMTT(30) DEF Apart, Ends
  <2> QED
    BY <2>2, <2>3
<1> QED
  BY <1>1, <1>3, <1>4 DEF GoodStream

\* What is known of a buffer, element by element.
LEMMA ElementIn ==
  ASSUME NEW S, NEW q \in Seq(S), NEW i \in 1 .. Len(q)
  PROVE  q[i] \in S
  OBVIOUS

\* Units put behind those that are there already.
LEMMA Joined ==
  ASSUME NEW S, NEW q \in Seq(S), NEW r \in Seq(S)
  PROVE  /\ q \o r \in Seq(S)
         /\ Len(q \o r) = Len(q) + Len(r)
         /\ \A i \in 1 .. Len(q) + Len(r) :
              (q \o r)[i] = IF i <= Len(q) THEN q[i] ELSE r[i - Len(q)]
  OBVIOUS

\* An empty buffer before or after others changes nothing.
LEMMA JoinedToNothing ==
  ASSUME NEW S, NEW q \in Seq(S)
  PROVE  q \o << >> = q /\ << >> \o q = q
  OBVIOUS

\* The units from one place of a buffer to another.
LEMMA CutOut ==
  ASSUME NEW S, NEW q, NEW a \in Int, NEW b \in Int,
         \A i \in a .. b : q[i] \in S
  PROVE  /\ SubSeq(q, a, b) \in Seq(S)
         /\ Len(SubSeq(q, a, b)) = IF a <= b THEN b - a + 1 ELSE 0
         /\ \A i \in 1 .. b - a + 1 : SubSeq(q, a, b)[i] = q[a + i - 1]
  OBVIOUS

\* The units of a message.
LEMMA UnitsFacts ==
  ASSUME NEW m \in Messages, NEW id \in Nat
  PROVE  /\ UnitsOf(m, id) \in Seq(Unit) /\ Len(UnitsOf(m, id)) = Size(m)
         /\ \A i \in 1 .. Size(m) :
              UnitsOf(m, id)[i] =
                [message |-> m, id |-> id, at |-> i, fd |-> 0]
<1>1. Size(m) \in Nat
  BY SizeFacts
<1>2. \A i \in 1 .. Size(m) :
        [message |-> m, id |-> id, at |-> i, fd |-> 0] \in Unit
  BY <1>1 DEF Unit
<1>3. UnitsOf(m, id) \in Seq(Unit)
  BY <1>1, <1>2 DEF UnitsOf
<1> QED
  BY <1>1, <1>3 DEF UnitsOf

\* A whole message more.
LEMMA AddMessage ==
  ASSUME NEW s \in Seq(Unit), NEW l \in Nat, NEW m \in Nat,
         GoodStream(s, l, m, TRUE), NEW msg \in Messages
  PROVE  GoodStream(s \o UnitsOf(msg, m + 1), l, m + 1, TRUE)
<1> DEFINE u == UnitsOf(msg, m + 1)
           t == s \o u
           L == Len(s)
<1>1. u \in Seq(Unit) /\ Len(u) = Size(msg) /\ Size(msg) \in Nat \ {0}
  <2>1. m + 1 \in Nat
    OBVIOUS
  <2>2. u \in Seq(Unit) /\ Len(u) = Size(msg)
    BY <2>1, UnitsFacts, Zenon
  <2>3. Size(msg) \in Nat \ {0}
    <3>1. /\ BodyUnits(msg.kind) \in {0, 1, 2} /\ Base \in Nat \ {0}
          /\ Size(msg) \in Nat /\ Base + BodyUnits(msg.kind) <= Size(msg)
      BY SizeFacts, Zenon
    <3> QED
      BY <3>1
  <2> QED
    BY <2>2, <2>3
<1>2. \A i \in 1 .. Len(u) :
        u[i].message = msg /\ u[i].id = m + 1 /\ u[i].at = i
  <2>1. m + 1 \in Nat
    OBVIOUS
  <2>2. \A i \in 1 .. Size(msg) :
          u[i] = [message |-> msg, id |-> m + 1, at |-> i, fd |-> 0]
    BY <2>1, UnitsFacts, Zenon
  <2> HIDE DEF u
  <2> QED
    BY <1>1, <2>2
<1> HIDE DEF u
<1>3. /\ t \in Seq(Unit) /\ Len(t) = L + Len(u)
      /\ \A i \in 1 .. L : t[i] = s[i]
      /\ \A i \in 1 .. Len(u) : t[L + i] = u[i]
  <2>1. /\ t \in Seq(Unit) /\ Len(t) = L + Len(u)
        /\ \A i \in 1 .. L + Len(u) :
             t[i] = IF i <= L THEN s[i] ELSE u[i - L]
    BY <1>1, Joined, Zenon
  <2> QED
    BY <1>1, <2>1
<1> HIDE DEF t
<1>4. L \in Nat
  OBVIOUS
<1>5. L > 0 => s[L].at = Size(s[L].message) /\ s[L].id = m
  BY DEF GoodStream, Ends
<1>6. \A i \in 1 .. L : s[i] \in Unit /\ Size(s[i].message) \in Nat
  <2>1. \A i \in 1 .. L : s[i] \in Unit
    BY ElementIn
  <2>2. \A x \in Unit : x.message \in Messages
    BY DEF Unit
  <2>3. \A x \in Messages : Size(x) \in Nat
    BY SizeFacts, Zenon
  <2> QED
    BY <2>1, <2>2, <2>3, Zenon
<1> HIDE DEF L
<1>7. InOrder(t)
  <2> SUFFICES ASSUME NEW i \in 1 .. L + Len(u), NEW d \in Nat,
                      i + d <= L + Len(u)
               PROVE  Apart(t[i], t[i + d], d)
    BY <1>3 DEF InOrder
  <2>1. CASE i + d <= L
    <3>1. Apart(s[i], s[i + d], d)
      BY <2>1, <1>4 DEF GoodStream, InOrder, L
    <3>2. t[i] = s[i] /\ t[i + d] = s[i + d]
      BY <2>1, <1>3, <1>4
    <3> QED
      BY <3>1, <3>2
  <2>2. CASE i <= L /\ i + d > L
    <3> DEFINE e == L - i
               j == i + d - L
    <3>1. e \in Nat /\ i + e = L /\ j \in 1 .. Len(u) /\ i + d = L + j
          /\ d = e + j /\ i \in 1 .. L
      BY <2>2, <1>1, <1>4
    <3> HIDE DEF e, j
    <3>2. Apart(s[i], s[L], e)
      <4>1. Apart(s[i], s[i + e], e)
        BY <3>1, <1>4, SMTT(30) DEF GoodStream, InOrder, L
      <4> QED
        BY <4>1, <3>1
    <3>3. /\ t[i] = s[i] /\ t[i + d] = u[j]
          /\ u[j].message = msg /\ u[j].id = m + 1 /\ u[j].at = j
      BY <3>1, <1>2, <1>3, Zenon
    <3>4. s[L].at = Size(s[L].message) /\ s[L].id = m
      BY <2>2, <1>4, <1>5
    <3>5. s[i].at \in Nat /\ Size(s[i].message) \in Nat
      BY <3>1, <1>6, SMTT(30) DEF Unit
    <3>6. CASE s[i].at + e <= Size(s[i].message)
      <4>1. s[i].at + e = Size(s[i].message) /\ s[i].id = m
        BY <3>2, <3>4, <3>5, <3>6, SMTT(30) DEF Apart
      <4>2. /\ ~(s[i].at + d <= Size(s[i].message))
            /\ s[i].at + d = Size(s[i].message) + 1 => j = 1
        <5>1. s[i].at + d = Size(s[i].message) + j /\ j \in Nat \ {0}
          BY <3>1, <3>5, <4>1, <1>1, SMTT(30)
        <5> QED
          BY <3>5, <5>1
      <4> QED
        BY <3>3, <4>1, <4>2 DEF Apart
    <3>7. CASE s[i].at + e > Size(s[i].message)
      <4>1. /\ ~(s[i].at + d <= Size(s[i].message))
            /\ s[i].at + d # Size(s[i].message) + 1
        BY <3>1, <3>5, <3>7, <1>1, SMTT(30)
      <4> QED
        BY <3>3, <4>1 DEF Apart
    <3> QED
      BY <3>1, <3>5, <3>6, <3>7, SMTT(30)
  <2>3. CASE i > L
    <3> DEFINE j == i - L
    <3>1. j \in 1 .. Len(u) /\ j + d \in 1 .. Len(u) /\ i = L + j
          /\ i + d = L + (j + d)
      BY <2>3, <1>1, <1>4
    <3> HIDE DEF j
    <3>2. t[i] = u[j] /\ t[i + d] = u[j + d]
      BY <3>1, <1>3
    <3>3. /\ u[j].message = msg /\ u[j].id = m + 1 /\ u[j].at = j
          /\ u[j + d].message = msg /\ u[j + d].id = m + 1
          /\ u[j + d].at = j + d
      BY <3>1, <1>2
    <3> QED
      BY <1>1, <3>1, <3>2, <3>3 DEF Apart
  <2> QED
    BY <1>1, <1>4, <2>1, <2>2, <2>3
<1>8. Starts(t, l + 1)
  <2>1. CASE L > 0
    BY <2>1, <1>1, <1>3, <1>4, SMTT(30) DEF GoodStream, Starts, L
  <2>2. CASE L = 0
    <3>1. l = m
      BY <2>2 DEF GoodStream, Ends, L
    <3>2. 1 \in 1 .. Len(u) /\ L + 1 = 1
      BY <1>1, <2>2
    <3>3. t[1] = u[1]
      BY <1>3, <3>2
    <3> QED
      BY <1>2, <3>1, <3>2, <3>3 DEF Starts
  <2> QED
    BY <1>4, <2>1, <2>2
<1>9. Ends(t, l, m + 1)
  <2>1. Len(u) \in 1 .. Len(u) /\ Len(t) = L + Len(u) /\ Len(t) # 0
    BY <1>1, <1>3, <1>4
  <2>2. t[Len(t)] = u[Len(u)]
    BY <1>3, <2>1
  <2> QED
    BY <1>1, <1>2, <2>1, <2>2 DEF Ends
<1> QED
  BY <1>7, <1>8, <1>9 DEF GoodStream, t, u

\* The parts of the stream.
LEMMA StreamFacts ==
  ASSUME NEW a \in Seq(Unit), NEW b \in Seq(Unit), NEW c \in Seq(Unit)
  PROVE  /\ (a \o b) \o c \in Seq(Unit)
         /\ Len((a \o b) \o c) = Len(a) + Len(b) + Len(c)
         /\ \A i \in 1 .. Len(a) : ((a \o b) \o c)[i] = a[i]
         /\ \A i \in 1 .. Len(b) : ((a \o b) \o c)[Len(a) + i] = b[i]
         /\ \A i \in 1 .. Len(c) :
              ((a \o b) \o c)[Len(a) + Len(b) + i] = c[i]
<1> DEFINE ab == a \o b
<1>1. /\ ab \in Seq(Unit) /\ Len(ab) = Len(a) + Len(b)
      /\ \A i \in 1 .. Len(a) + Len(b) :
           ab[i] = IF i <= Len(a) THEN a[i] ELSE b[i - Len(a)]
  BY Joined
<1> HIDE DEF ab
<1>2. /\ ab \o c \in Seq(Unit) /\ Len(ab \o c) = Len(ab) + Len(c)
      /\ \A i \in 1 .. Len(ab) + Len(c) :
           (ab \o c)[i] = IF i <= Len(ab) THEN ab[i] ELSE c[i - Len(ab)]
  <2>1. ab \in Seq(Unit)
    BY <1>1
  <2> QED
    BY <2>1, Joined
<1> DEFINE s == ab \o c
<1> HIDE DEF s
<1>3. /\ s \in Seq(Unit) /\ Len(s) = Len(ab) + Len(c)
      /\ \A i \in 1 .. Len(ab) + Len(c) :
           s[i] = IF i <= Len(ab) THEN ab[i] ELSE c[i - Len(ab)]
  BY <1>2 DEF s
<1>4. Len(a) \in Nat /\ Len(b) \in Nat /\ Len(c) \in Nat
  OBVIOUS
<1>5. \A i \in 1 .. Len(a) : s[i] = a[i]
  BY <1>1, <1>3, <1>4
<1>6. \A i \in 1 .. Len(b) : s[Len(a) + i] = b[i]
  BY <1>1, <1>3, <1>4
<1>7. ASSUME NEW i \in 1 .. Len(c) PROVE s[Len(a) + Len(b) + i] = c[i]
  <2> DEFINE j == Len(a) + Len(b) + i
  <2>1. /\ j \in 1 .. Len(ab) + Len(c) /\ ~(j <= Len(ab))
        /\ j - Len(ab) = i
    BY <1>1, <1>4
  <2> HIDE DEF j
  <2>2. s[j] = c[i]
    BY <1>3, <2>1
  <2> QED
    BY <2>2 DEF j
<1> QED
  BY <1>1, <1>3, <1>4, <1>5, <1>6, <1>7 DEF s, ab

\* s consists of a, b and c.
Parts(s, a, b, c) ==
  /\ s \in Seq(Unit)
  /\ Len(s) = Len(a) + Len(b) + Len(c)
  /\ \A i \in 1 .. Len(a) : s[i] = a[i]
  /\ \A i \in 1 .. Len(b) : s[Len(a) + i] = b[i]
  /\ \A i \in 1 .. Len(c) : s[Len(a) + Len(b) + i] = c[i]

\* The parts of the stream, under one name.
LEMMA StreamParts ==
  ASSUME NEW a \in Seq(Unit), NEW b \in Seq(Unit), NEW c \in Seq(Unit)
  PROVE  Parts((a \o b) \o c, a, b, c)
BY StreamFacts DEF Parts

-----------------------------------------------------------------------------
OneMessage ==
  \A i \in 1 .. Len(input) :
    /\ input[i].message = input[1].message
    /\ input[i].at = i /\ input[i].id = last + 1

\* What is in the input buffer is the start of one message.
LEMMA InputIsOneMessage == StreamInv /\ InputInv => OneMessage
<1> SUFFICES ASSUME StreamInv, InputInv, NEW i \in 1 .. Len(input)
             PROVE  /\ input[i].message = input[1].message
                    /\ input[i].at = i /\ input[i].id = last + 1
  BY DEF OneMessage
<1>1. /\ Stream \in Seq(Unit) /\ Len(Stream) >= Len(input)
      /\ \A j \in 1 .. Len(input) : Stream[j] = input[j]
  BY StreamFacts, SMTT(30) DEF StreamInv, Stream
<1> HIDE DEF Stream
<1>2. Len(input) \in Nat /\ Len(Stream) \in Nat
  BY <1>1 DEF StreamInv
<1>3. 1 \in 1 .. Len(input) /\ i - 1 \in Nat /\ 1 + (i - 1) = i
  BY <1>2
<1>4. Stream[1] = input[1] /\ Stream[i] = input[i]
  BY <1>1, <1>3
<1>g. GoodStream(Stream, last, messages, peer_open)
  BY <1>2, <1>3 DEF StreamInv, InputInv, Whole
<1>5. input[1].at = 1 /\ input[1].id = last + 1
  BY <1>1, <1>2, <1>3, <1>4, <1>g DEF GoodStream, Starts
<1>6. Apart(Stream[1], Stream[1 + (i - 1)], i - 1)
  <2>1. 1 \in 1 .. Len(Stream) /\ 1 + (i - 1) <= Len(Stream)
    BY <1>1, <1>2, <1>3
  <2>2. InOrder(Stream)
    BY <1>g DEF GoodStream
  <2> QED
    BY <1>3, <2>1, <2>2 DEF InOrder
<1>7. i <= Size(input[1].message)
  <2>1. input[1] \in Unit
    BY <1>3, ElementIn DEF StreamInv
  <2>2. Size(input[1].message) \in Nat
    BY <2>1, SizeFacts DEF Unit
  <2> QED
    BY <1>2, <1>3, <2>2 DEF InputInv
<1>8. input[1].at + (i - 1) = i
  BY <1>3, <1>5
<1> QED
  BY <1>3, <1>4, <1>5, <1>6, <1>7, <1>8 DEF Apart

\* The stream of an empty record.
LEMMA EmptyStream ==
  ASSUME NEW l, NEW m
  PROVE  /\ << >> \in Seq(Unit) /\ Len(<< >>) = 0
         /\ (<< >> \o << >>) \o << >> = << >>
         /\ GoodStream(<< >>, l, m, FALSE)
<1>1. << >> \in Seq(Unit) /\ Len(<< >>) = 0
  OBVIOUS
<1>2. << >> \o << >> = << >>
  BY <1>1, JoinedToNothing
<1> QED
  BY <1>1, <1>2 DEF GoodStream, InOrder, Starts

\* Steps that leave a part of the state alone.
LEMMA StreamKept ==
  ASSUME StreamInv, UNCHANGED <<phase, input, wire, rest, peer_open, last,
                                messages, greeting>>
  PROVE  StreamInv'
<1>1. Stream' = Stream
  BY Zenon DEF Stream
<1>2. Whole
  BY DEF StreamInv
<1>3. Whole'
  BY <1>1, <1>2, Zenon DEF Whole
<1>4. /\ input' \in Seq(Unit) /\ wire' \in Seq(Unit) /\ rest' \in Seq(Unit)
      /\ last' \in Nat /\ messages' \in Nat /\ greeting' \in Nat
  BY Zenon DEF StreamInv
<1> QED
  BY <1>3, <1>4, Zenon DEF StreamInv

\* The same for the descriptors.
LEMMA FdsKept ==
  ASSUME FdInv, UNCHANGED <<sent_with, bundled, received_fd, fdVars, wire, rest>>
  PROVE  FdInv'
<1>1. UNCHANGED <<sent_with, bundled, received_fd, arrived, registered, closed,
                  wire, rest>>
  BY Zenon DEF fdVars
<1>2. DescriptorsAreKept'
  BY <1>1, Zenon DEF FdInv, DescriptorsAreKept
<1> QED
  BY <1>1, <1>2, Zenon DEF FdInv

\* The same for the messages there are, when input stays or is taken.
LEMMA GreetKept ==
  ASSUME GreetInv, UNCHANGED <<greeting, messages, wire, rest>>,
         input' = input \/ input' = << >>
  PROVE  GreetInv'
<1>1. greeting' <= messages' /\ Short(wire)' /\ Short(rest)'
  BY Zenon DEF GreetInv, Short
<1>2. Short(input)'
  <2>1. CASE input' = input
    BY <2>1, Zenon DEF GreetInv, Short
  <2>2. CASE input' = << >>
    BY <2>2, EmptyStream DEF Short
  <2> QED
    BY <2>1, <2>2
<1> QED
  BY <1>1, <1>2 DEF GreetInv

\* iouringd_close_client, with or without one descriptor more, and with or
\* without some that are forgotten.
LEMMA CloseKeeps ==
  ASSUME IntakeInv, NEW f \in Fds \cup {0}, CloseClient(f),
         f # 0 => f \notin arrived \cup bundled /\ sent_with[f] # 0,
         NEW many \in SUBSET bundled,
         arrived' = (arrived \cup ({f} \ {0})) \cup many,
         UNCHANGED <<greeting, last>>
  PROVE  IntakeInv'
<1>1. /\ input' = << >> /\ wire' = << >> /\ rest' = << >>
      /\ peer_open' = FALSE /\ ready' = NoRequest /\ phase' = "closed"
      /\ received_fd' = 0 /\ expected_input' = Base
      /\ closed' = closed \cup ({received_fd, f} \ {0})
      /\ UNCHANGED <<registered, sent_with, bundled, messages, greeting, last>>
  BY DEF CloseClient
<1>2. StreamInv'
  <2>1. Stream' = << >>
    BY <1>1, EmptyStream DEF Stream
  <2> QED
    BY <1>1, <2>1, EmptyStream, Zenon DEF IntakeInv, StreamInv, Whole
<1>3. InputInv'
  <2>1. Base \in Nat /\ IoBytesMax \in Nat /\ BodyUnits("register_buffer") = 1
    BY IntakeAssumption DEF BodyUnits
  <2> QED
    BY <1>1, <2>1, EmptyStream DEF InputInv, InputCapacity
<1>4. FdInv'
  <2>1. DescriptorsAreKept'
    <3>1. /\ arrived \ bundled = registered \cup closed \cup ({received_fd} \ {0})
          /\ registered \cap closed = {}
          /\ received_fd \notin registered \cup closed
          /\ arrived \subseteq Fds
      BY DEF IntakeInv, FdInv, DescriptorsAreKept
    <3>2. 0 \notin Fds
      BY DEF Fds
    <3>3. arrived' \ bundled' = (arrived \ bundled) \cup ({f} \ {0})
      BY <1>1, SMTT(30)
    <3>4. registered \cap closed' = {} /\ 0 \notin registered \cup closed'
      <4>1. f = 0 \/ f \notin registered
        BY <3>1, SMTT(30)
      <4>2. 0 \notin registered /\ 0 \notin closed
        BY <3>1, <3>2, SMTT(30)
      <4> QED
        BY <1>1, <3>1, <4>1, <4>2, SMTT(30)
    <3>5. arrived' \ bundled' = registered \cup closed'
      BY <1>1, <3>1, <3>3, SMTT(30)
    <3> QED
      BY <1>1, <3>4, <3>5, SMTT(30) DEF DescriptorsAreKept
  <2>2. /\ arrived' \subseteq Fds /\ bundled' \subseteq Fds
        /\ \A g \in arrived' \cup bundled' : sent_with'[g] # 0
        /\ sent_with' \in [Fds -> Nat]
    BY <1>1, SMTT(30) DEF IntakeInv, FdInv
  <2> QED
    BY <1>1, <2>1, <2>2, EmptyStream DEF FdInv
<1>5. OwnInv'
  BY <1>1 DEF OwnInv
<1>6. GreetInv'
  BY <1>1, EmptyStream DEF IntakeInv, GreetInv, Short
<1> QED
  BY <1>2, <1>3, <1>4, <1>5, <1>6 DEF IntakeInv

\* iouringd_close_client when no descriptor came in the same step.
LEMMA PlainCloseKeeps ==
  ASSUME IntakeInv, CloseClient(0), UNCHANGED <<arrived, greeting, last>>
  PROVE  IntakeInv'
<1>1. /\ 0 \in Fds \cup {0} /\ {} \in SUBSET bundled
      /\ arrived' = (arrived \cup ({0} \ {0})) \cup {}
  OBVIOUS
<1> QED
  BY <1>1, CloseKeeps, Zenon

\* A connection begins.
LEMMA ConnectKeeps ==
  ASSUME IntakeInv, NEW good \in BOOLEAN, Connect(good)
  PROVE  IntakeInv'
<1> DEFINE hello == UnitsOf(Hello(good), messages + 1)
<1>1. /\ phase = "closed" /\ messages' = messages + 1 /\ phase' = "handshake"
      /\ peer_open' = TRUE /\ rest' = hello /\ wire' = << >> /\ input' = << >>
      /\ expected_input' = Base /\ ready' = NoRequest /\ received_fd' = 0
      /\ greeting' = messages + 1 /\ last' = messages
      /\ UNCHANGED <<fdVars, sent_with, bundled>>
  BY DEF Connect
<1>2. messages \in Nat /\ Hello(good) \in Messages
  BY Zenon DEF IntakeInv, StreamInv, Messages
<1>3. /\ hello \in Seq(Unit)
      /\ \A i \in 1 .. Len(hello) :
           hello[i].fd = 0 /\ hello[i].id = messages + 1
           /\ Size(hello[i].message) = Base
  <2>1. messages + 1 \in Nat
    BY <1>2
  <2>2. /\ hello \in Seq(Unit) /\ Len(hello) = Size(Hello(good))
        /\ \A i \in 1 .. Size(Hello(good)) :
             hello[i] = [message |-> Hello(good), id |-> messages + 1,
                         at |-> i, fd |-> 0]
    BY <1>2, <2>1, UnitsFacts, Zenon
  <2>3. Size(Hello(good)) = Base
    BY IntakeAssumption DEF Size, Hello, BodyUnits
  <2> HIDE DEF hello
  <2> QED
    BY <2>2, <2>3
<1>4. StreamInv'
  <2>1. GoodStream(<< >>, messages, messages, TRUE)
    BY EmptyStream DEF GoodStream, Ends
  <2>2. GoodStream(<< >> \o hello, messages, messages + 1, TRUE)
    BY <1>2, <2>1, AddMessage, EmptyStream, Zenon
  <2> HIDE DEF hello
  <2>3. << >> \o << >> = << >>
    BY EmptyStream, JoinedToNothing
  <2>4. Stream' = << >> \o hello
    BY <1>1, <2>3, Zenon DEF Stream
  <2>5. GoodStream(Stream', last', messages', peer_open')
    BY <1>1, <2>2, <2>4, Zenon
  <2>6. /\ input' \in Seq(Unit) /\ wire' \in Seq(Unit) /\ rest' \in Seq(Unit)
        /\ last' \in Nat /\ messages' \in Nat /\ greeting' \in Nat
    BY <1>1, <1>2, <1>3, EmptyStream
  <2> QED
    BY <2>5, <2>6 DEF StreamInv, Whole
<1> HIDE DEF hello
<1>5. InputInv'
  <2>1. Base \in Nat /\ IoBytesMax \in Nat /\ BodyUnits("register_buffer") = 1
    BY IntakeAssumption DEF BodyUnits
  <2> QED
    BY <1>1, <2>1, EmptyStream DEF InputInv, InputCapacity
<1>6. FdInv'
  <2>1. DescriptorsAreKept' /\ received_fd = 0
    BY <1>1 DEF IntakeInv, OwnInv, FdInv, DescriptorsAreKept, fdVars
  <2> QED
    BY <1>1, <1>2, <1>3, <2>1, EmptyStream, SMTT(30) DEF IntakeInv, FdInv, fdVars
<1>7. OwnInv'
  BY <1>1 DEF OwnInv
<1>8. GreetInv'
  BY <1>1, <1>2, <1>3, EmptyStream DEF GreetInv, Short
<1> QED
  BY <1>4, <1>5, <1>6, <1>7, <1>8 DEF IntakeInv

\* The peer begins its next message.
LEMMA ComposeKeeps ==
  ASSUME IntakeInv, NEW m \in Requests, Compose(m)
  PROVE  IntakeInv'
<1> DEFINE u == UnitsOf(m, messages + 1)
<1>1. /\ peer_open /\ rest = << >> /\ messages' = messages + 1 /\ rest' = u
      /\ UNCHANGED <<clientVars, fdVars, wire, peer_open, sent_with, bundled,
                     greeting, last>>
  BY DEF Compose
<1>2. messages \in Nat /\ m \in Messages
  BY Zenon DEF IntakeInv, StreamInv, Messages
<1>3. /\ u \in Seq(Unit)
      /\ \A i \in 1 .. Len(u) : u[i].fd = 0 /\ u[i].id = messages + 1
  <2>1. messages + 1 \in Nat
    BY <1>2
  <2>2. /\ u \in Seq(Unit) /\ Len(u) = Size(m)
        /\ \A i \in 1 .. Size(m) :
             u[i] = [message |-> m, id |-> messages + 1, at |-> i, fd |-> 0]
    BY <1>2, <2>1, UnitsFacts, Zenon
  <2> HIDE DEF u
  <2> QED
    BY <2>2
<1>t. /\ input' \in Seq(Unit) /\ wire' \in Seq(Unit) /\ rest' \in Seq(Unit)
      /\ last' \in Nat /\ messages' \in Nat /\ greeting' \in Nat
  <2>1. /\ input' \in Seq(Unit) /\ wire' \in Seq(Unit)
        /\ last' \in Nat /\ greeting' \in Nat
    BY <1>1, Zenon DEF IntakeInv, StreamInv, clientVars
  <2>2. rest' \in Seq(Unit)
    BY <1>1, <1>3, Zenon
  <2>3. messages' \in Nat
    BY <1>1, <1>2
  <2> QED
    BY <2>1, <2>2, <2>3, Zenon
<1>4. StreamInv'
  <2> SUFFICES ASSUME phase # "closing"
               PROVE  GoodStream(Stream', last', messages', peer_open')
    BY <1>1, <1>t, Zenon DEF StreamInv, Whole, clientVars
  <2> DEFINE s == input \o wire
  <2>1. input \in Seq(Unit) /\ wire \in Seq(Unit) /\ last \in Nat
    BY DEF IntakeInv, StreamInv
  <2>2. s \in Seq(Unit)
    BY <2>1, Joined
  <2>3. Stream = s
    BY <1>1, <2>2, JoinedToNothing DEF Stream
  <2>4. GoodStream(s, last, messages, TRUE)
    BY <1>1, <2>3, Zenon DEF IntakeInv, StreamInv, Whole
  <2> HIDE DEF s
  <2>5. GoodStream(s \o u, last, messages + 1, TRUE)
    BY <1>2, <2>1, <2>2, <2>4, AddMessage, Zenon
  <2> HIDE DEF u
  <2>6. Stream' = s \o u
    BY <1>1, Zenon DEF Stream, s, clientVars
  <2> QED
    BY <1>1, <2>5, <2>6, Zenon DEF GoodStream
<1> HIDE DEF u
<1>5. InputInv'
  BY <1>1 DEF IntakeInv, InputInv, clientVars
<1>6. FdInv'
  <2>1. DescriptorsAreKept'
    BY <1>1 DEF IntakeInv, FdInv, DescriptorsAreKept, fdVars, clientVars
  <2> QED
    BY <1>1, <1>2, <1>3, <2>1, SMTT(30) DEF IntakeInv, FdInv, fdVars, clientVars
<1>7. OwnInv'
  BY <1>1 DEF IntakeInv, OwnInv, OwnDescriptor, clientVars
<1>8. GreetInv'
  <2>1. greeting \in Nat /\ greeting <= messages
    BY DEF IntakeInv, StreamInv, GreetInv
  <2>2. Short(rest)'
    BY <1>1, <1>2, <1>3, <2>1, SMTT(30) DEF Short
  <2>3. Short(input)' /\ Short(wire)'
    BY <1>1, Zenon DEF IntakeInv, GreetInv, Short, clientVars
  <2> QED
    BY <1>1, <1>2, <2>1, <2>2, <2>3 DEF GreetInv
<1> QED
  BY <1>4, <1>5, <1>6, <1>7, <1>8 DEF IntakeInv

\* The peer hangs up within a message or after it.
LEMMA HangUpKeeps ==
  ASSUME IntakeInv, HangUp
  PROVE  IntakeInv'
<1>1. /\ peer_open' = FALSE /\ rest' = << >>
      /\ UNCHANGED <<clientVars, fdVars, wire, sent_with, bundled, messages,
                     greeting, last>>
  BY DEF HangUp
<1>2. StreamInv'
  <2> SUFFICES ASSUME phase # "closing"
               PROVE  GoodStream(Stream', last', messages', peer_open')
    BY <1>1, EmptyStream, Zenon DEF IntakeInv, StreamInv, Whole, clientVars
  <2>1. input \in Seq(Unit) /\ wire \in Seq(Unit) /\ rest \in Seq(Unit)
    BY DEF IntakeInv, StreamInv
  <2>2. /\ Stream \in Seq(Unit)
        /\ Len(Stream) = Len(input) + Len(wire) + Len(rest)
        /\ \A i \in 1 .. Len(input) : Stream[i] = input[i]
        /\ \A i \in 1 .. Len(wire) : Stream[Len(input) + i] = wire[i]
    <3>1. Parts(Stream, input, wire, rest)
      BY <2>1, StreamParts, Zenon DEF Stream
    <3> QED
      BY <3>1, Zenon DEF Parts
  <2> DEFINE t == input \o wire
  <2>3. /\ t \in Seq(Unit) /\ Len(t) = Len(input) + Len(wire)
        /\ \A i \in 1 .. Len(input) + Len(wire) :
             t[i] = IF i <= Len(input) THEN input[i] ELSE wire[i - Len(input)]
    BY <2>1, Joined
  <2> HIDE DEF t
  <2>4. Len(input) \in Nat /\ Len(wire) \in Nat /\ Len(rest) \in Nat
    BY <2>1
  <2>5. ASSUME NEW i \in 1 .. Len(t) PROVE t[i] = Stream[i]
    <3>1. CASE i <= Len(input)
      BY <2>2, <2>3, <2>4, <3>1
    <3>2. CASE i > Len(input)
      <4>1. /\ i - Len(input) \in 1 .. Len(wire)
            /\ Len(input) + (i - Len(input)) = i
        BY <2>3, <2>4, <3>2
      <4> QED
        BY <2>2, <2>3, <2>4, <3>2, <4>1, SMTT(30)
    <3> QED
      BY <2>3, <2>4, <3>1, <3>2
  <2>6. GoodStream(t, last, messages, FALSE)
    <3>1. GoodStream(Stream, last, messages, peer_open)
      BY DEF IntakeInv, StreamInv, Whole
    <3>2. Len(t) <= Len(Stream)
      BY <2>2, <2>3, <2>4
    <3> HIDE DEF Stream
    <3> QED
      BY <2>2, <2>3, <2>5, <3>1, <3>2, CutStream, Zenon
  <2>7. Stream' = t
    BY <1>1, <2>3, JoinedToNothing DEF Stream, t, clientVars
  <2> QED
    BY <1>1, <2>6, <2>7, Zenon
<1>3. InputInv'
  BY <1>1 DEF IntakeInv, InputInv, clientVars
<1>4. FdInv'
  <2>1. DescriptorsAreKept'
    BY <1>1 DEF IntakeInv, FdInv, DescriptorsAreKept, fdVars, clientVars
  <2> QED
    BY <1>1, <2>1, EmptyStream, SMTT(30)
    DEF IntakeInv, FdInv, fdVars, clientVars
<1>5. OwnInv'
  BY <1>1 DEF IntakeInv, OwnInv, OwnDescriptor, clientVars
<1>6. GreetInv'
  BY <1>1, EmptyStream DEF IntakeInv, GreetInv, Short, clientVars
<1> QED
  BY <1>2, <1>3, <1>4, <1>5, <1>6 DEF IntakeInv

\* A part of a sequence of units.
LEMMA Part ==
  ASSUME NEW s \in Seq(Unit), NEW a \in Nat \ {0}, NEW b \in Nat,
         b <= Len(s), a <= b + 1
  PROVE  /\ SubSeq(s, a, b) \in Seq(Unit)
         /\ Len(SubSeq(s, a, b)) = (b - a) + 1
         /\ \A i \in 1 .. (b - a) + 1 : SubSeq(s, a, b)[i] = s[(a - 1) + i]
<1>1. \A i \in a .. b : s[i] \in Unit
  OBVIOUS
<1> QED
  BY <1>1, CutOut, SMTT(30)

\* What Write puts into the socket.
LEMMA WriteShape ==
  ASSUME IntakeInv, NEW n \in Nat, NEW f \in Fds \cup {0},
         NEW many \in BOOLEAN, Write(n, f, many)
  PROVE  /\ n \in 1 .. Len(rest) /\ Len(rest) \in Nat /\ Len(wire) \in Nat
         /\ wire' \in Seq(Unit) /\ Len(wire') = Len(wire) + n
         /\ \A i \in 1 .. Len(wire) : wire'[i] = wire[i]
         /\ \A i \in 1 .. n :
              /\ wire'[Len(wire) + i].message = rest[i].message
              /\ wire'[Len(wire) + i].id = rest[i].id
              /\ wire'[Len(wire) + i].at = rest[i].at
              /\ wire'[Len(wire) + i].fd = IF i = 1 THEN f ELSE 0
         /\ rest' \in Seq(Unit) /\ Len(rest') = Len(rest) - n
         /\ \A i \in 1 .. Len(rest) - n : rest'[i] = rest[n + i]
<1> DEFINE w == [i \in 1 .. n |->
                   IF i = 1 THEN [rest[1] EXCEPT !.fd = f] ELSE rest[i]]
<1>1. /\ wire' = wire \o w /\ n \in 1 .. Len(rest)
      /\ rest' = SubSeq(rest, n + 1, Len(rest))
  BY DEF Write
<1>2. wire \in Seq(Unit) /\ rest \in Seq(Unit)
  BY DEF IntakeInv, StreamInv
<1>3. Len(rest) \in Nat /\ Len(wire) \in Nat /\ n \in 1 .. Len(rest)
  BY <1>1, <1>2
<1>4. \A i \in 1 .. n : rest[i] \in Unit /\ rest[i].fd = 0
  <2>1. \A i \in 1 .. n : i \in 1 .. Len(rest)
    BY <1>3
  <2>2. \A i \in 1 .. Len(rest) : rest[i] \in Unit /\ rest[i].fd = 0
    BY <1>2, ElementIn DEF IntakeInv, FdInv
  <2> QED
    BY <2>1, <2>2
<1>5. /\ w \in Seq(Unit) /\ Len(w) = n
      /\ \A i \in 1 .. n :
           /\ w[i].message = rest[i].message /\ w[i].id = rest[i].id
           /\ w[i].at = rest[i].at /\ w[i].fd = IF i = 1 THEN f ELSE 0
  <2>1. f \in Nat
    BY DEF Fds
  <2>2. \A i \in 1 .. n :
          /\ w[i] \in Unit
          /\ w[i].message = rest[i].message /\ w[i].id = rest[i].id
          /\ w[i].at = rest[i].at /\ w[i].fd = IF i = 1 THEN f ELSE 0
    BY <1>4, <2>1 DEF Unit
  <2>3. w \in [1 .. n -> Unit]
    BY <2>2
  <2>4. w \in Seq(Unit) /\ Len(w) = n
    BY <2>3
  <2> QED
    BY <2>2, <2>4
<1> HIDE DEF w
<1>6. /\ wire' \in Seq(Unit) /\ Len(wire') = Len(wire) + n
      /\ \A i \in 1 .. Len(wire) + n :
           wire'[i] = IF i <= Len(wire) THEN wire[i] ELSE w[i - Len(wire)]
  <2>1. /\ wire \o w \in Seq(Unit) /\ Len(wire \o w) = Len(wire) + Len(w)
        /\ \A i \in 1 .. Len(wire) + Len(w) :
             (wire \o w)[i] =
               IF i <= Len(wire) THEN wire[i] ELSE w[i - Len(wire)]
    <3>1. w \in Seq(Unit)
      BY <1>5
    <3> QED
      BY <1>2, <3>1, Joined
  <2> QED
    BY <1>1, <1>5, <2>1, Zenon
<1>7. \A i \in 1 .. Len(wire) : wire'[i] = wire[i]
  BY <1>3, <1>6
<1>8. ASSUME NEW i \in 1 .. n PROVE wire'[Len(wire) + i] = w[i]
  <2>1. /\ Len(wire) + i \in 1 .. Len(wire) + n
        /\ ~(Len(wire) + i <= Len(wire)) /\ (Len(wire) + i) - Len(wire) = i
    BY <1>3
  <2> QED
    BY <1>6, <2>1
<1>9. /\ rest' \in Seq(Unit) /\ Len(rest') = Len(rest) - n
      /\ \A i \in 1 .. Len(rest) - n : rest'[i] = rest[n + i]
  <2> DEFINE r == SubSeq(rest, n + 1, Len(rest))
  <2>1. n + 1 \in Nat \ {0} /\ n + 1 <= Len(rest) + 1
    BY <1>3
  <2>2. /\ r \in Seq(Unit) /\ Len(r) = (Len(rest) - (n + 1)) + 1
        /\ \A i \in 1 .. (Len(rest) - (n + 1)) + 1 :
             r[i] = rest[((n + 1) - 1) + i]
    BY <1>2, <1>3, <2>1, Part
  <2> HIDE DEF r
  <2>3. (Len(rest) - (n + 1)) + 1 = Len(rest) - n /\ (n + 1) - 1 = n
    BY <1>3
  <2>4. rest' = r
    BY <1>1 DEF r
  <2> QED
    BY <2>2, <2>3, <2>4
<1>10. \A i \in 1 .. n :
         /\ wire'[Len(wire) + i].message = rest[i].message
         /\ wire'[Len(wire) + i].id = rest[i].id
         /\ wire'[Len(wire) + i].at = rest[i].at
         /\ wire'[Len(wire) + i].fd = IF i = 1 THEN f ELSE 0
  <2> TAKE i \in 1 .. n
  <2>1. wire'[Len(wire) + i] = w[i]
    BY <1>8
  <2>2. /\ w[i].message = rest[i].message /\ w[i].id = rest[i].id
        /\ w[i].at = rest[i].at /\ w[i].fd = IF i = 1 THEN f ELSE 0
    BY <1>5
  <2> QED
    BY <2>1, <2>2, Zenon
<1> QED
  BY <1>3, <1>6, <1>7, <1>9, <1>10, Zenon

\* A piece of a message goes out.
LEMMA WriteKeeps ==
  ASSUME IntakeInv, NEW n \in Nat, NEW f \in Fds \cup {0},
         NEW many \in BOOLEAN, Write(n, f, many)
  PROVE  IntakeInv'
<1>1. /\ f \in {0} \cup NextFd
      /\ sent_with' = IF f = 0 THEN sent_with
                      ELSE [sent_with EXCEPT ![f] = rest[1].id]
      /\ many => f # 0
      /\ bundled' = IF many THEN bundled \cup {f} ELSE bundled
      /\ UNCHANGED <<clientVars, fdVars, peer_open, messages, greeting, last>>
  BY DEF Write
<1>2. /\ n \in 1 .. Len(rest) /\ Len(rest) \in Nat /\ Len(wire) \in Nat
      /\ wire' \in Seq(Unit) /\ Len(wire') = Len(wire) + n
      /\ \A i \in 1 .. Len(wire) : wire'[i] = wire[i]
      /\ \A i \in 1 .. n :
           /\ wire'[Len(wire) + i].message = rest[i].message
           /\ wire'[Len(wire) + i].id = rest[i].id
           /\ wire'[Len(wire) + i].at = rest[i].at
           /\ wire'[Len(wire) + i].fd = IF i = 1 THEN f ELSE 0
      /\ rest' \in Seq(Unit) /\ Len(rest') = Len(rest) - n
      /\ \A i \in 1 .. Len(rest) - n : rest'[i] = rest[n + i]
  BY WriteShape, Zenon
<1>3. input \in Seq(Unit) /\ wire \in Seq(Unit) /\ rest \in Seq(Unit)
  BY DEF IntakeInv, StreamInv
<1>4. StreamInv'
  <2> SUFFICES ASSUME phase # "closing"
               PROVE  GoodStream(Stream', last', messages', peer_open')
    BY <1>1, <1>2, Zenon DEF IntakeInv, StreamInv, Whole, clientVars
  <2> DEFINE t == (input \o wire') \o rest'
             a == Len(input)
             b == Len(wire)
             c == Len(rest)
  <2>1. /\ Stream \in Seq(Unit) /\ Len(Stream) = a + b + c
        /\ \A i \in 1 .. a : Stream[i] = input[i]
        /\ \A i \in 1 .. b : Stream[a + i] = wire[i]
        /\ \A i \in 1 .. c : Stream[a + b + i] = rest[i]
    <3>1. Parts(Stream, input, wire, rest)
      BY <1>3, StreamParts, Zenon DEF Stream
    <3> QED
      BY <3>1, Zenon DEF Parts
  <2>2. /\ t \in Seq(Unit) /\ Len(t) = a + (b + n) + (c - n)
        /\ \A i \in 1 .. a : t[i] = input[i]
        /\ \A i \in 1 .. b + n : t[a + i] = wire'[i]
        /\ \A i \in 1 .. c - n : t[a + (b + n) + i] = rest'[i]
    <3>1. wire' \in Seq(Unit) /\ rest' \in Seq(Unit)
      BY <1>2
    <3>2. /\ t \in Seq(Unit) /\ Len(t) = a + Len(wire') + Len(rest')
          /\ \A i \in 1 .. a : t[i] = input[i]
          /\ \A i \in 1 .. Len(wire') : t[a + i] = wire'[i]
          /\ \A i \in 1 .. Len(rest') : t[a + Len(wire') + i] = rest'[i]
      <4>1. Parts(t, input, wire', rest')
        BY <1>3, <3>1, StreamParts, Zenon
      <4> QED
        BY <4>1, Zenon DEF Parts
    <3>3. Len(wire') = b + n /\ Len(rest') = c - n
      BY <1>2
    <3> HIDE DEF t, a, b, c
    <3> QED
      BY <3>2, <3>3, SMTT(30)
  <2>3. a \in Nat /\ b \in Nat /\ c \in Nat /\ n \in 1 .. c
    BY <1>2, <1>3
  <2>w. /\ \A i \in 1 .. b : wire'[i] = wire[i]
        /\ \A i \in 1 .. n : /\ wire'[b + i].message = rest[i].message
                             /\ wire'[b + i].id = rest[i].id
                             /\ wire'[b + i].at = rest[i].at
        /\ \A i \in 1 .. c - n : rest'[i] = rest[n + i]
    BY <1>2
  <2> HIDE DEF t, a, b, c, Stream
  <2>4. Len(t) = Len(Stream)
    BY <2>1, <2>2, <2>3
  <2>5. ASSUME NEW j \in 1 .. Len(Stream)
        PROVE  /\ t[j].message = Stream[j].message /\ t[j].id = Stream[j].id
               /\ t[j].at = Stream[j].at
    <3>1. CASE j <= a
      <4>1. j \in 1 .. a
        BY <2>3, <3>1, SMTT(30)
      <4> QED
        BY <2>1, <2>2, <4>1
    <3>2. CASE a < j /\ j <= a + b
      <4> DEFINE k == j - a
      <4>1. k \in 1 .. b /\ k \in 1 .. b + n /\ a + k = j
        BY <2>3, <3>2
      <4> HIDE DEF k
      <4>2. t[j] = wire'[k] /\ Stream[j] = wire[k]
        BY <2>1, <2>2, <4>1, SMTT(30)
      <4> QED
        BY <2>w, <4>1, <4>2, Zenon
    <3>3. CASE a + b < j /\ j <= a + b + n
      <4> DEFINE k == j - (a + b)
      <4>1. k \in 1 .. n /\ k \in 1 .. c /\ b + k \in 1 .. b + n
            /\ a + (b + k) = j /\ a + b + k = j
        BY <2>3, <3>3, SMTT(30)
      <4> HIDE DEF k
      <4>2. t[j] = wire'[b + k] /\ Stream[j] = rest[k]
        BY <2>1, <2>2, <4>1, SMTT(30)
      <4> QED
        BY <2>w, <4>1, <4>2
    <3>4. CASE a + b + n < j
      <4> DEFINE k == j - (a + b + n)
      <4>1. k \in 1 .. c - n /\ n + k \in 1 .. c
            /\ a + (b + n) + k = j /\ a + b + (n + k) = j
        BY <2>1, <2>3, <3>4, SMTT(30)
      <4> HIDE DEF k
      <4>2. t[j] = rest'[k] /\ Stream[j] = rest[n + k]
        BY <2>1, <2>2, <4>1, Zenon
      <4> QED
        BY <2>w, <4>1, <4>2, SMTT(30)
    <3> QED
      BY <2>1, <2>3, <3>1, <3>2, <3>3, <3>4, SMTT(30)
  <2>6. GoodStream(t, last, messages, peer_open)
    <3>1. GoodStream(Stream, last, messages, peer_open)
      BY DEF IntakeInv, StreamInv, Whole
    <3> HIDE DEF Stream
    <3> QED
      BY <2>1, <2>2, <2>4, <2>5, <3>1, SameStream, SMTT(30)
  <2>7. Stream' = t
    BY <1>1, Zenon DEF Stream, t, clientVars
  <2> QED
    BY <1>1, <2>6, <2>7, Zenon
<1>5. InputInv'
  BY <1>1 DEF IntakeInv, InputInv, clientVars
<1>6. f # 0 => f \in Fds \ (arrived \cup bundled) /\ sent_with[f] = 0
  BY <1>1 DEF NextFd, IntakeInv, FdInv
<1>7. \A i \in 1 .. Len(rest) : rest[i].fd = 0 /\ rest[i].id # 0
  BY DEF IntakeInv, FdInv
<1>8. 1 \in 1 .. n /\ 1 \in 1 .. Len(rest) /\ rest[1].id \in Nat \ {0}
  <2>1. 1 \in 1 .. n /\ 1 \in 1 .. Len(rest)
    BY <1>2
  <2>2. rest[1] \in Unit
    BY <1>3, <2>1, ElementIn, SMTT(30)
  <2> QED
    BY <1>7, <2>1, <2>2 DEF Unit
<1>9. FdInv'
  <2>1. sent_with' \in [Fds -> Nat]
    BY <1>1, <1>8, SMTT(30) DEF IntakeInv, FdInv
  <2>2. \A g \in Fds : sent_with[g] # 0 => sent_with'[g] = sent_with[g]
    BY <1>1, <1>6, SMTT(30) DEF IntakeInv, FdInv
  <2>3. \A g \in arrived \cup bundled' : sent_with'[g] # 0
    <3>1. \A g \in arrived \cup bundled : sent_with'[g] # 0
      BY <2>2, SMTT(30) DEF IntakeInv, FdInv
    <3>2. CASE many
      <4>1. f # 0 /\ sent_with'[f] # 0
        BY <1>1, <1>6, <1>8, <3>2, SMTT(30) DEF IntakeInv, FdInv
      <4> QED
        BY <1>1, <3>1, <3>2, <4>1, Zenon
    <3>3. CASE ~many
      BY <1>1, <3>1, <3>3, Zenon
    <3> QED
      BY <3>2, <3>3
  <2>4. DescriptorsAreKept' /\ received_fd' \in Fds \cup {0} /\ arrived' = arrived
        /\ arrived \subseteq Fds /\ bundled' \subseteq Fds
    <3>1. UNCHANGED <<received_fd, arrived, registered, closed>>
      BY <1>1, Zenon DEF fdVars, clientVars
    <3>2. bundled' \subseteq Fds /\ arrived \ bundled' = arrived \ bundled
      BY <1>1, <1>6, SMTT(30) DEF IntakeInv, FdInv
    <3> QED
      BY <3>1, <3>2, Zenon DEF IntakeInv, FdInv, DescriptorsAreKept
  <2>5. \A i \in 1 .. Len(rest') : rest'[i].fd = 0 /\ rest'[i].id # 0
    BY <1>2, <1>7, SMTT(30)
  <2>6. ASSUME NEW i \in 1 .. Len(wire')
        PROVE  \/ i \in 1 .. Len(wire) /\ wire'[i] = wire[i]
               \/ i = Len(wire) + 1 /\ wire'[i].fd = f /\ wire'[i].id = rest[1].id
               \/ wire'[i].fd = 0
    <3>1. CASE i <= Len(wire)
      BY <1>2, <3>1
    <3>2. CASE i > Len(wire)
      <4> DEFINE k == i - Len(wire)
      <4>1. k \in 1 .. n /\ Len(wire) + k = i
        BY <1>2, <3>2
      <4> HIDE DEF k
      <4>2. wire'[i].id = rest[k].id /\ wire'[i].fd = IF k = 1 THEN f ELSE 0
        BY <1>2, <4>1, Zenon
      <4> QED
        BY <4>1, <4>2
    <3> QED
      BY <1>2, <3>1, <3>2
  <2>7. \A i \in 1 .. Len(wire) :
          wire[i].fd # 0 =>
            /\ wire[i].fd \in Fds \ arrived
            /\ sent_with[wire[i].fd] = wire[i].id /\ wire[i].id # 0
    BY DEF IntakeInv, FdInv
  <2>8. ASSUME NEW i \in 1 .. Len(wire'), wire'[i].fd # 0
        PROVE  /\ wire'[i].fd \in Fds \ arrived
               /\ sent_with'[wire'[i].fd] = wire'[i].id /\ wire'[i].id # 0
    <3>1. CASE i \in 1 .. Len(wire) /\ wire'[i] = wire[i]
      BY <2>2, <2>7, <2>8, <3>1
    <3>2. CASE wire'[i].fd = f /\ wire'[i].id = rest[1].id
      <4>1. f # 0 /\ f \in Fds \ arrived /\ rest[1].id # 0
        BY <1>6, <1>8, <2>8, <3>2, SMTT(30)
      <4>2. sent_with'[f] = rest[1].id
        BY <1>1, <4>1, SMTT(30) DEF IntakeInv, FdInv
      <4> QED
        BY <3>2, <4>1, <4>2
    <3> QED
      BY <2>6, <2>8, <3>1, <3>2, SMTT(30)
  <2>9. ASSUME NEW i \in 1 .. Len(wire'), NEW j \in 1 .. Len(wire'),
               wire'[i].fd = wire'[j].fd, wire'[i].fd # 0
        PROVE  i = j
    <3>1. \A k \in 1 .. Len(wire) : wire[k].fd # 0 => wire[k].fd # f
      BY <1>6, <2>7
    <3>2. \A k, l \in 1 .. Len(wire) :
            wire[k].fd = wire[l].fd /\ wire[k].fd # 0 => k = l
      BY DEF IntakeInv, FdInv
    <3> QED
      BY <2>6, <2>9, <3>1, <3>2, SMTT(30)
  <2> HIDE DEF DescriptorsAreKept
  <2> QED
    BY <2>1, <2>3, <2>4, <2>5, <2>8, <2>9, Zenon DEF FdInv
<1>10. OwnInv'
  <2>1. received_fd # 0 => sent_with'[received_fd] = sent_with[received_fd]
    BY <1>1, <1>6, SMTT(30) DEF IntakeInv, FdInv, DescriptorsAreKept
  <2> QED
    BY <1>1, <2>1, SMTT(30) DEF IntakeInv, OwnInv, OwnDescriptor, clientVars
<1>11. GreetInv'
  <2>0. Short(input) /\ Short(wire) /\ Short(rest) /\ greeting <= messages
    BY SMTT(30) DEF IntakeInv, GreetInv
  <2>1. Short(input)'
    BY <1>1, <2>0, SMTT(30) DEF Short, clientVars
  <2>2. Short(wire)'
    <3> SUFFICES ASSUME NEW i \in 1 .. Len(wire'), wire'[i].id = greeting
                 PROVE  Size(wire'[i].message) = Base
      BY <1>1, SMTT(30) DEF Short
    <3>1. CASE i <= Len(wire)
      BY <1>2, <2>0, <3>1, SMTT(30) DEF Short
    <3>2. CASE i > Len(wire)
      <4> DEFINE k == i - Len(wire)
      <4>1. k \in 1 .. n /\ Len(wire) + k = i /\ k \in 1 .. Len(rest)
        BY <1>2, <3>2
      <4> HIDE DEF k
      <4>2. wire'[i].id = rest[k].id /\ wire'[i].message = rest[k].message
        BY <1>2, <4>1
      <4> QED
        BY <2>0, <4>1, <4>2 DEF Short
    <3> QED
      BY <1>2, <3>1, <3>2
  <2>3. Short(rest)'
    <3> SUFFICES ASSUME NEW i \in 1 .. Len(rest')
                 PROVE  rest'[i].id = greeting =>
                          Size(rest'[i].message) = Base
      BY <1>1 DEF Short
    <3>1. rest'[i] = rest[n + i] /\ n + i \in 1 .. Len(rest)
      BY <1>2
    <3> QED
      BY <2>0, <3>1 DEF Short
  <2> QED
    BY <1>1, <2>0, <2>1, <2>2, <2>3 DEF GreetInv
<1> QED
  BY <1>4, <1>5, <1>9, <1>10, <1>11 DEF IntakeInv

-----------------------------------------------------------------------------
(***************************************************************************)
(* The steps of the daemon.                                                *)
(***************************************************************************)

\* Units move from the socket to the input buffer.
LEMMA ReadShape ==
  ASSUME IntakeInv, NEW n \in 1 .. Len(wire),
         input' = input \o SubSeq(wire, 1, n),
         wire' = SubSeq(wire, n + 1, Len(wire))
  PROVE  /\ SubSeq(wire, 1, n) \in Seq(Unit) /\ Len(SubSeq(wire, 1, n)) = n
         /\ \A i \in 1 .. n : SubSeq(wire, 1, n)[i] = wire[i]
         /\ Len(input) \in Nat /\ Len(wire) \in Nat
         /\ input' \in Seq(Unit) /\ Len(input') = Len(input) + n
         /\ \A i \in 1 .. Len(input) : input'[i] = input[i]
         /\ \A i \in 1 .. n : input'[Len(input) + i] = wire[i]
         /\ wire' \in Seq(Unit) /\ Len(wire') = Len(wire) - n
         /\ \A i \in 1 .. Len(wire) - n : wire'[i] = wire[n + i]
<1> DEFINE u == SubSeq(wire, 1, n)
           w == SubSeq(wire, n + 1, Len(wire))
<1>1. input \in Seq(Unit) /\ wire \in Seq(Unit)
  BY DEF IntakeInv, StreamInv
<1>2. /\ Len(input) \in Nat /\ Len(wire) \in Nat /\ n \in Nat /\ n <= Len(wire)
      /\ 1 \in Nat \ {0} /\ 1 <= n + 1 /\ n + 1 \in Nat \ {0}
      /\ n + 1 <= Len(wire) + 1 /\ Len(wire) <= Len(wire)
  BY <1>1
<1>3. /\ u \in Seq(Unit) /\ Len(u) = (n - 1) + 1
      /\ \A i \in 1 .. (n - 1) + 1 : u[i] = wire[(1 - 1) + i]
  BY <1>1, <1>2, Part
<1>4. /\ w \in Seq(Unit) /\ Len(w) = (Len(wire) - (n + 1)) + 1
      /\ \A i \in 1 .. (Len(wire) - (n + 1)) + 1 :
           w[i] = wire[((n + 1) - 1) + i]
  BY <1>1, <1>2, Part
<1> HIDE DEF u, w
<1>5. u \in Seq(Unit) /\ Len(u) = n /\ \A i \in 1 .. n : u[i] = wire[i]
  <2>1. (n - 1) + 1 = n /\ \A i \in 1 .. n : (1 - 1) + i = i
    BY <1>2
  <2> QED
    BY <1>3, <2>1
<1>6. /\ w \in Seq(Unit) /\ Len(w) = Len(wire) - n
      /\ \A i \in 1 .. Len(wire) - n : w[i] = wire[n + i]
  <2>1. (Len(wire) - (n + 1)) + 1 = Len(wire) - n /\ (n + 1) - 1 = n
    BY <1>2
  <2> QED
    BY <1>4, <2>1
<1> DEFINE v == input \o u
<1>7. /\ v \in Seq(Unit) /\ Len(v) = Len(input) + n
      /\ \A i \in 1 .. Len(input) + n :
           v[i] = IF i <= Len(input) THEN input[i] ELSE u[i - Len(input)]
  <2>1. u \in Seq(Unit) /\ Len(u) = n
    BY <1>5
  <2>2. /\ v \in Seq(Unit) /\ Len(v) = Len(input) + Len(u)
        /\ \A i \in 1 .. Len(input) + Len(u) :
             v[i] = IF i <= Len(input) THEN input[i] ELSE u[i - Len(input)]
    BY <1>1, <2>1, Joined, Zenon
  <2> HIDE DEF v
  <2> QED
    BY <2>1, <2>2
<1> HIDE DEF v
<1>8. \A i \in 1 .. Len(input) : v[i] = input[i]
  BY <1>2, <1>7
<1>9. ASSUME NEW i \in 1 .. n PROVE v[Len(input) + i] = wire[i]
  <2>1. /\ Len(input) + i \in 1 .. Len(input) + n
        /\ ~(Len(input) + i <= Len(input))
        /\ (Len(input) + i) - Len(input) = i
    BY <1>2
  <2>2. v[Len(input) + i] = u[i]
    BY <1>7, <2>1
  <2> QED
    BY <1>5, <2>2
<1>10. input' = v /\ wire' = w
  BY DEF u, v, w
<1>11. /\ input' \in Seq(Unit) /\ Len(input') = Len(input) + n
       /\ \A i \in 1 .. Len(input) : input'[i] = input[i]
       /\ \A i \in 1 .. n : input'[Len(input) + i] = wire[i]
  BY <1>7, <1>8, <1>9, <1>10, Zenon
<1>12. /\ wire' \in Seq(Unit) /\ Len(wire') = Len(wire) - n
       /\ \A i \in 1 .. Len(wire) - n : wire'[i] = wire[n + i]
  BY <1>6, <1>10, Zenon
<1> QED
  BY <1>2, <1>5, <1>11, <1>12, Zenon DEF u

\* x and y are the input and the socket after n units were read.
Moved(x, y, n) ==
  /\ Len(x) = Len(input) + n
  /\ \A i \in 1 .. Len(input) : x[i] = input[i]
  /\ \A i \in 1 .. n : x[Len(input) + i] = wire[i]
  /\ Len(y) = Len(wire) - n
  /\ \A i \in 1 .. Len(wire) - n : y[i] = wire[n + i]

\* The stream stays what it was.
LEMMA ReadStream ==
  ASSUME StreamInv, phase # "closing", NEW n \in 1 .. Len(wire),
         NEW x \in Seq(Unit), NEW y \in Seq(Unit), Moved(x, y, n)
  PROVE  GoodStream((x \o y) \o rest, last, messages, peer_open)
<1> DEFINE t == (x \o y) \o rest
           a == Len(input)
           b == Len(wire)
           c == Len(rest)
<1>1. input \in Seq(Unit) /\ wire \in Seq(Unit) /\ rest \in Seq(Unit)
  BY DEF StreamInv
<1>2. /\ Stream \in Seq(Unit) /\ Len(Stream) = a + b + c
      /\ \A i \in 1 .. a : Stream[i] = input[i]
      /\ \A i \in 1 .. b : Stream[a + i] = wire[i]
      /\ \A i \in 1 .. c : Stream[a + b + i] = rest[i]
  <2>1. Parts(Stream, input, wire, rest)
    BY <1>1, StreamParts, Zenon DEF Stream
  <2> QED
    BY <2>1, Zenon DEF Parts
<1>3. /\ \A i \in 1 .. a : x[i] = input[i]
      /\ \A i \in 1 .. n : x[a + i] = wire[i]
      /\ \A i \in 1 .. b - n : y[i] = wire[n + i]
  BY Zenon DEF Moved
<1>4. /\ t \in Seq(Unit) /\ Len(t) = (a + n) + (b - n) + c
      /\ \A i \in 1 .. a + n : t[i] = x[i]
      /\ \A i \in 1 .. b - n : t[(a + n) + i] = y[i]
      /\ \A i \in 1 .. c : t[(a + n) + (b - n) + i] = rest[i]
  <2>1. /\ t \in Seq(Unit) /\ Len(t) = Len(x) + Len(y) + c
        /\ \A i \in 1 .. Len(x) : t[i] = x[i]
        /\ \A i \in 1 .. Len(y) : t[Len(x) + i] = y[i]
        /\ \A i \in 1 .. c : t[Len(x) + Len(y) + i] = rest[i]
    <3>1. Parts(t, x, y, rest)
      BY <1>1, StreamParts, Zenon
    <3> HIDE DEF t
    <3> QED
      BY <3>1, Zenon DEF Parts
  <2>2. Len(x) = a + n /\ Len(y) = b - n
    BY Zenon DEF Moved
  <2> HIDE DEF t, a, b, c
  <2> QED
    BY <2>1, <2>2
<1>5. a \in Nat /\ b \in Nat /\ c \in Nat /\ n \in 1 .. b
  BY <1>1
<1>g. GoodStream(Stream, last, messages, peer_open)
  BY DEF StreamInv, Whole
<1> HIDE DEF t, a, b, c, Stream
<1>6. Len(t) = Len(Stream)
  BY <1>2, <1>4, <1>5
<1>7. ASSUME NEW j \in 1 .. Len(Stream) PROVE t[j] = Stream[j]
  <2>1. CASE j <= a
    <3>1. j \in 1 .. a /\ j \in 1 .. a + n
      BY <1>5, <2>1
    <3> QED
      BY <1>2, <1>3, <1>4, <3>1
  <2>2. CASE a < j /\ j <= a + n
    <3> DEFINE k == j - a
    <3>1. k \in 1 .. n /\ k \in 1 .. b /\ a + k = j /\ j \in 1 .. a + n
      BY <1>5, <2>2
    <3> HIDE DEF k
    <3> QED
      BY <1>2, <1>3, <1>4, <3>1, ZenonT(40)
  <2>3. CASE a + n < j /\ j <= a + b
    <3> DEFINE k == j - (a + n)
    <3>1. k \in 1 .. b - n /\ n + k \in 1 .. b /\ (a + n) + k = j
          /\ a + (n + k) = j
      BY <1>5, <2>3, SMTT(30)
    <3> HIDE DEF k
    <3>2. t[j] = y[k] /\ Stream[j] = wire[n + k]
      BY <1>2, <1>4, <3>1, SMTT(30)
    <3> QED
      BY <1>3, <3>1, <3>2, SMTT(30)
  <2>4. CASE a + b < j
    <3> DEFINE k == j - (a + b)
    <3>1. k \in 1 .. c /\ (a + n) + (b - n) + k = j /\ a + b + k = j
      BY <1>2, <1>5, <2>4, SMTT(30)
    <3> HIDE DEF k
    <3> QED
      BY <1>2, <1>4, <3>1
  <2> QED
    BY <1>2, <1>5, <2>1, <2>2, <2>3, <2>4, SMTT(30)
<1>8. GoodStream(t, last, messages, peer_open)
  BY <1>2, <1>4, <1>6, <1>7, <1>g, SameStream, Zenon
<1> QED
  BY <1>8 DEF t

\* The descriptors of one recvmsg: none, or one that had not arrived.
LEMMA FdsRead ==
  ASSUME IntakeInv, NEW n \in 1 .. Len(wire),
         \A f, g \in FdsIn(SubSeq(wire, 1, n)) : f = g
  PROVE  LET fds == FdsIn(SubSeq(wire, 1, n))
         IN  /\ fds \subseteq Fds \ arrived
             /\ fds = {} \/ \E f \in Fds : fds = {f}
             /\ \A f \in fds : \E i \in 1 .. n : wire[i].fd = f
             /\ \A i \in 1 .. n : wire[i].fd # 0 => wire[i].fd \in fds
<1> DEFINE u == SubSeq(wire, 1, n)
           fds == FdsIn(u)
<1>1. wire \in Seq(Unit) /\ Len(wire) \in Nat
  BY DEF IntakeInv, StreamInv
<1>2. DOMAIN u = 1 .. n /\ \A i \in 1 .. n : u[i] = wire[i]
  <2>1. /\ u \in Seq(Unit) /\ Len(u) = (n - 1) + 1
        /\ \A i \in 1 .. (n - 1) + 1 : u[i] = wire[(1 - 1) + i]
    BY <1>1, Part
  <2> HIDE DEF u
  <2>2. (n - 1) + 1 = n /\ \A i \in 1 .. n : (1 - 1) + i = i
    BY <1>1
  <2> QED
    BY <2>1, <2>2
<1> HIDE DEF u
<1>3. fds = {u[i].fd : i \in 1 .. n} \ {0}
  BY <1>2 DEF FdsIn
<1>4. /\ \A f \in fds : \E i \in 1 .. n : wire[i].fd = f /\ f # 0
      /\ \A i \in 1 .. n : wire[i].fd # 0 => wire[i].fd \in fds
  BY <1>2, <1>3
<1>5. \A f, g \in fds : f = g
  BY DEF u
<1> HIDE DEF fds
<1>6. fds \subseteq Fds \ arrived
  <2>1. \A i \in 1 .. n : i \in 1 .. Len(wire)
    BY <1>1
  <2>2. \A i \in 1 .. Len(wire) : wire[i].fd # 0 => wire[i].fd \in Fds \ arrived
    BY DEF IntakeInv, FdInv
  <2> QED
    BY <1>4, <2>1, <2>2
<1>7. fds = {} \/ \E f \in Fds : fds = {f}
  <2>1. ASSUME fds # {} PROVE \E f \in Fds : fds = {f}
    <3>1. PICK f \in fds : TRUE
      BY <2>1, Zenon
    <3>2. f \in Fds /\ \A g : g \in fds <=> g \in {f}
      BY <1>5, <1>6, <3>1, Zenon
    <3> QED
      BY <3>2
  <2> QED
    BY <2>1, Zenon
<1> QED
  BY <1>4, <1>6, <1>7 DEF fds, u

\* iouringd_read_client_input.
LEMMA ReadKeeps ==
  ASSUME IntakeInv, NEW n \in Nat, ReadInput(n)
  PROVE  IntakeInv'
<1> DEFINE u == SubSeq(wire, 1, n)
           fds == FdsIn(u)
<1>1. /\ Reads /\ n \in 1 .. Len(wire) /\ n <= Wanted
      /\ \A f, g \in fds : f = g
      /\ UNCHANGED <<greeting, last>>
  BY SMTT(30) DEF ReadInput
<1>2. /\ fds \subseteq Fds \ arrived
      /\ fds = {} \/ \E f \in Fds : fds = {f}
      /\ \A f \in fds : \E i \in 1 .. n : wire[i].fd = f
      /\ \A i \in 1 .. n : wire[i].fd # 0 => wire[i].fd \in fds
  BY <1>1, FdsRead
<1>i. \A i \in 1 .. n : i \in 1 .. Len(wire)
  BY <1>1 DEF IntakeInv, StreamInv
<1>w. \A i \in 1 .. Len(wire) :
        wire[i].fd # 0 =>
          /\ wire[i].fd \in Fds \ arrived
          /\ sent_with[wire[i].fd] = wire[i].id /\ wire[i].id # 0
  BY DEF IntakeInv, FdInv
<1>3. ASSUME NEW f \in ExtraFds(fds) \ bundled, arrived' = arrived \cup fds,
             CloseClient(f)
      PROVE  IntakeInv'
  <2>1. f \in fds
    BY <1>3 DEF ExtraFds
  <2>2. fds = {f} /\ f \in Fds \ arrived
    BY <1>2, <2>1
  <2>3. sent_with[f] # 0
    BY <1>2, <1>i, <1>w, <2>1, <2>2 DEF Fds
  <2>4. arrived' = (arrived \cup ({f} \ {0})) \cup {}
    BY <1>3, <2>2 DEF Fds
  <2>5. f \in Fds \cup {0} /\ f \notin arrived \cup bundled
        /\ {} \in SUBSET bundled
    BY <1>3, <2>2, SMTT(30)
  <2> HIDE DEF fds
  <2> QED
    BY <1>1, <1>3, <2>3, <2>4, <2>5, CloseKeeps, Zenon
<1>5. ASSUME NEW installed \in SUBSET (fds \cap bundled),
             arrived' = arrived \cup installed, CloseClient(0)
      PROVE  IntakeInv'
  <2>1. installed \in SUBSET bundled
        /\ arrived' = (arrived \cup ({0} \ {0})) \cup installed
    BY <1>5, SMTT(30)
  <2> HIDE DEF fds
  <2> QED
    BY <1>1, <1>5, <2>1, CloseKeeps, Zenon
<1>4. ASSUME fds \cap bundled = {}, ExtraFds(fds) = {},
             arrived' = arrived \cup fds, input' = input \o u,
             wire' = SubSeq(wire, n + 1, Len(wire)),
             received_fd' = IF fds = {} THEN received_fd
                            ELSE CHOOSE f \in fds : TRUE,
             UNCHANGED <<phase, expected_input, ready, registered, closed,
                         rest, peer_open, sent_with, bundled, messages>>
      PROVE  IntakeInv'
  <2>1. /\ Len(input) \in Nat /\ Len(wire) \in Nat
        /\ input' \in Seq(Unit) /\ Len(input') = Len(input) + n
        /\ \A i \in 1 .. Len(input) : input'[i] = input[i]
        /\ \A i \in 1 .. n : input'[Len(input) + i] = wire[i]
        /\ wire' \in Seq(Unit) /\ Len(wire') = Len(wire) - n
        /\ \A i \in 1 .. Len(wire) - n : wire'[i] = wire[n + i]
    BY <1>1, <1>4, ReadShape, Zenon
  <2>2. StreamInv'
    <3>1. Moved(input', wire', n)
      BY <2>1, Zenon DEF Moved
    <3>2. input' \in Seq(Unit) /\ wire' \in Seq(Unit) /\ StreamInv
      BY <2>1 DEF IntakeInv
    <3>0. phase # "closing"
      BY <1>1, Zenon DEF Reads
    <3>3. GoodStream((input' \o wire') \o rest, last, messages, peer_open)
      BY <1>1, <3>0, <3>1, <3>2, ReadStream, Zenon
    <3>4. Whole'
      <4>1. /\ Stream' = (input' \o wire') \o rest /\ last' = last
            /\ messages' = messages /\ peer_open' = peer_open
        BY <1>1, <1>4, Zenon DEF Stream
      <4> QED
        BY <3>3, <4>1, Zenon DEF Whole
    <3>5. rest' \in Seq(Unit) /\ last' \in Nat /\ messages' \in Nat
          /\ greeting' \in Nat
      BY <1>1, <1>4, SMTT(30) DEF IntakeInv, StreamInv
    <3> QED
      BY <3>2, <3>4, <3>5, Zenon DEF StreamInv
  <2>3. InputInv'
    <3>1. /\ phase \in {"handshake", "submit", "rejected"}
          /\ ready = NoRequest
          /\ n <= expected_input - Len(input) /\ expected_input \in Nat
      BY <1>1 DEF Reads, Wanted, IntakeInv, InputInv
    <3>2. Len(input') > 0 /\ Len(input') <= expected_input
      BY <1>1, <2>1, <3>1, SMTT(30)
    <3>3. expected_input <= Size(input'[1].message)
      <4>1. CASE Len(input) > 0
        <5>1. 1 \in 1 .. Len(input)
          BY <2>1, <4>1
        <5> QED
          BY <2>1, <4>1, <5>1, Zenon DEF IntakeInv, InputInv
      <4>2. CASE Len(input) = 0
        <5>1. 1 \in 1 .. Len(input')
          BY <2>1, <3>2
        <5>2. input'[1] \in Unit
          BY <2>1, <5>1, ElementIn
        <5>3. input'[1].message \in Messages
          BY <5>2 DEF Unit
        <5>4. /\ BodyUnits(input'[1].message.kind) \in {0, 1, 2}
              /\ Size(input'[1].message) \in Nat /\ Base \in Nat
              /\ Base + BodyUnits(input'[1].message.kind)
                   <= Size(input'[1].message)
          BY <5>3, SizeFacts
        <5>5. expected_input = Base
          BY <4>2 DEF IntakeInv, InputInv
        <5> QED
          BY <5>4, <5>5
      <4> QED
        BY <2>1, <4>1, <4>2
    <3> QED
      BY <1>4, <3>1, <3>2, <3>3, SMTT(30) DEF IntakeInv, InputInv
  <2>f. \/ fds = {} /\ received_fd' = received_fd
        \/ \E f \in Fds \ (arrived \cup bundled) :
             fds = {f} /\ received_fd' = f /\ received_fd = 0
    <3>1. ASSUME NEW f \in Fds, fds = {f}
          PROVE  f \notin arrived \cup bundled
      BY <1>2, <1>4, <3>1, Zenon
    <3> QED
      BY <1>2, <1>4, <3>1, Zenon DEF ExtraFds
  <2>4. FdInv'
    <3>1. DescriptorsAreKept'
      BY <1>4, <2>f, 0 \notin Fds, SMTT(30)
      DEF IntakeInv, FdInv, DescriptorsAreKept, Fds
    <3>2. arrived' \subseteq Fds /\ received_fd' \in Fds \cup {0}
          /\ bundled' \subseteq Fds
      BY <1>2, <1>4, <2>f, SMTT(30) DEF IntakeInv, FdInv
    <3>3. \A f \in arrived' \cup bundled' : sent_with[f] # 0
      <4>1. \A f \in fds : sent_with[f] # 0
        BY <1>2, <1>i, <1>w DEF Fds
      <4> QED
        BY <1>4, <4>1, SMTT(30) DEF IntakeInv, FdInv
    <3>4. \A i \in 1 .. Len(wire) - n :
            /\ wire'[i] = wire[n + i] /\ n + i \in 1 .. Len(wire)
            /\ wire[n + i].fd \in fds => wire[n + i].fd = 0
      <4>1. \A i \in 1 .. Len(wire) - n :
              n + i \in 1 .. Len(wire) /\ \A k \in 1 .. n : k # n + i
        BY <1>1, <2>1
      <4>2. \A i, j \in 1 .. Len(wire) :
              wire[i].fd = wire[j].fd /\ wire[i].fd # 0 => i = j
        BY DEF IntakeInv, FdInv
      <4> HIDE DEF fds
      <4> TAKE j \in 1 .. Len(wire) - n
      <4>3. n + j \in 1 .. Len(wire) /\ \A k \in 1 .. n : k # n + j
        BY <4>1
      <4>4. wire[n + j].fd \in fds => wire[n + j].fd = 0
        <5> SUFFICES ASSUME wire[n + j].fd \in fds, wire[n + j].fd # 0
                     PROVE  FALSE
          OBVIOUS
        <5>1. PICK k \in 1 .. n : wire[k].fd = wire[n + j].fd
          BY <1>2, SMTT(30)
        <5> QED
          BY <1>i, <4>2, <4>3, <5>1, Zenon
      <4> QED
        BY <2>1, <4>3, <4>4
    <3>5. \A i \in 1 .. Len(wire') :
            wire'[i].fd # 0 =>
              /\ wire'[i].fd \in Fds \ arrived'
              /\ sent_with[wire'[i].fd] = wire'[i].id /\ wire'[i].id # 0
      <4> HIDE DEF fds
      <4> TAKE i \in 1 .. Len(wire')
      <4>1. /\ i \in 1 .. Len(wire) - n /\ wire'[i] = wire[n + i]
            /\ n + i \in 1 .. Len(wire)
            /\ wire[n + i].fd \in fds => wire[n + i].fd = 0
        BY <2>1, <3>4, SMTT(30)
      <4> QED
        BY <1>4, <1>w, <4>1, SMTT(30)
    <3>6. \A i, j \in 1 .. Len(wire') :
            wire'[i].fd = wire'[j].fd /\ wire'[i].fd # 0 => i = j
      <4>1. \A i, j \in 1 .. Len(wire) - n : n + i = n + j => i = j
        BY <1>1, <2>1, SMTT(30)
      <4>2. \A i, j \in 1 .. Len(wire) :
              wire[i].fd = wire[j].fd /\ wire[i].fd # 0 => i = j
        BY DEF IntakeInv, FdInv
      <4> QED
        BY <2>1, <3>4, <4>1, <4>2, SMTT(30)
    <3> HIDE DEF fds, DescriptorsAreKept
    <3> QED
      BY <1>4, <3>1, <3>2, <3>3, <3>5, <3>6, ZenonT(40) DEF IntakeInv, FdInv
  <2>5. OwnInv'
    <3>1. /\ phase \notin {"closed", "closing"} /\ ready = NoRequest
          /\ Len(input') > 0
      BY <1>1, <2>1, SMTT(30) DEF Reads
    <3>2. CASE fds = {} /\ received_fd' = received_fd
      BY <1>1, <1>4, <3>1, <3>2, SMTT(30) DEF IntakeInv, OwnInv
    <3>3. ASSUME NEW f \in Fds \ arrived, fds = {f}, received_fd' = f
          PROVE  OwnInv'
      <4>1. PICK i \in 1 .. n : wire[i].fd = f
        BY <1>2, <3>3, SMTT(30)
      <4>2. f # 0 /\ sent_with[f] = wire[i].id
        BY <1>i, <1>w, <4>1, SMTT(30) DEF Fds
      <4>3. input'[Len(input) + i] = wire[i]
            /\ Len(input) + i \in 1 .. Len(input')
        BY <1>1, <2>1, <4>1, SMTT(30)
      <4>4. \A j \in 1 .. Len(input') : input'[j].id = last' + 1
        <5>1. StreamInv' /\ InputInv'
          BY <2>2, <2>3
        <5>2. OneMessage'
          BY <5>1, InputIsOneMessage, PTL
        <5> QED
          BY <5>2 DEF OneMessage
      <4>5. sent_with[f] = last + 1
        BY <1>1, <4>2, <4>3, <4>4, SMTT(30)
      <4> QED
        BY <1>1, <1>4, <3>1, <3>3, <4>5, SMTT(30) DEF IntakeInv, OwnInv
    <3> QED
      BY <2>f, <3>2, <3>3, SMTT(30)
  <2>6. GreetInv'
    <3>0. Short(input) /\ Short(wire) /\ Short(rest) /\ greeting <= messages
      BY SMTT(30) DEF IntakeInv, GreetInv
    <3>1. Short(input)'
      <4> SUFFICES ASSUME NEW i \in 1 .. Len(input')
                   PROVE  input'[i].id = greeting =>
                            Size(input'[i].message) = Base
        BY <1>1, SMTT(30) DEF Short
      <4>1. CASE i <= Len(input)
        <5>1. i \in 1 .. Len(input)
          BY <2>1, <4>1, SMTT(30)
        <5> QED
          BY <2>1, <3>0, <5>1, SMTT(30) DEF Short
      <4>2. CASE i > Len(input)
        <5> DEFINE k == i - Len(input)
        <5>1. k \in 1 .. n /\ Len(input) + k = i /\ k \in 1 .. Len(wire)
          BY <1>1, <2>1, <4>2
        <5> HIDE DEF k
        <5>2. input'[i] = wire[k]
          BY <2>1, <5>1, SMTT(30)
        <5> QED
          BY <3>0, <5>1, <5>2, SMTT(30) DEF Short
      <4> QED
        BY <2>1, <4>1, <4>2, SMTT(30)
    <3>2. Short(wire)'
      <4> SUFFICES ASSUME NEW i \in 1 .. Len(wire')
                   PROVE  wire'[i].id = greeting =>
                            Size(wire'[i].message) = Base
        BY <1>1 DEF Short
      <4>1. wire'[i] = wire[n + i] /\ n + i \in 1 .. Len(wire)
        BY <1>1, <2>1, SMTT(30)
      <4> QED
        BY <3>0, <4>1 DEF Short
    <3>3. Short(rest)'
      <4>1. rest' = rest /\ greeting' = greeting
        BY <1>1, <1>4, Zenon
      <4> QED
        BY <3>0, <4>1, Zenon DEF Short
    <3> QED
      BY <1>1, <1>4, <3>0, <3>1, <3>2, <3>3, SMTT(30) DEF GreetInv
  <2> QED
    BY <2>2, <2>3, <2>4, <2>5, <2>6 DEF IntakeInv
<1> QED
  <2>1. \/ /\ fds \cap bundled = {} /\ ExtraFds(fds) = {}
           /\ arrived' = arrived \cup fds
           /\ input' = input \o u
           /\ wire' = SubSeq(wire, n + 1, Len(wire))
           /\ received_fd' = IF fds = {} THEN received_fd
                             ELSE CHOOSE f \in fds : TRUE
           /\ UNCHANGED <<phase, expected_input, ready, registered, closed,
                          rest, peer_open, sent_with, bundled, messages,
                          connections>>
        \/ \E f \in ExtraFds(fds) \ bundled :
             arrived' = arrived \cup fds /\ CloseClient(f)
        \/ \E installed \in SUBSET (fds \cap bundled) :
             arrived' = arrived \cup installed /\ CloseClient(0)
    BY Zenon DEF ReadInput
  <2> HIDE DEF fds, u
  <2> QED
    BY <1>3, <1>4, <1>5, <2>1, Zenon

\* A whole message leaves the input buffer.
LEMMA TakeInput ==
  ASSUME StreamInv, InputInv, Len(input) > 0,
         Len(input) = Size(input[1].message), input' = << >>,
         last' = input[1].id,
         UNCHANGED <<wire, rest, peer_open, messages, greeting>>
  PROVE  StreamInv' /\ last' = last + 1
<1> DEFINE a == Len(input)
           b == Len(wire)
           c == Len(rest)
           t == wire \o rest
<1>1. input \in Seq(Unit) /\ wire \in Seq(Unit) /\ rest \in Seq(Unit)
  BY DEF StreamInv
<1>2. /\ Stream \in Seq(Unit) /\ Len(Stream) = a + b + c
      /\ \A i \in 1 .. a : Stream[i] = input[i]
      /\ \A i \in 1 .. b : Stream[a + i] = wire[i]
      /\ \A i \in 1 .. c : Stream[a + b + i] = rest[i]
  <2>1. Parts(Stream, input, wire, rest)
    BY <1>1, StreamParts, Zenon DEF Stream
  <2> QED
    BY <2>1, Zenon DEF Parts
<1>3. /\ t \in Seq(Unit) /\ Len(t) = b + c
      /\ \A i \in 1 .. b + c : t[i] = IF i <= b THEN wire[i] ELSE rest[i - b]
  BY <1>1, Joined
<1>4. a \in Nat \ {0} /\ b \in Nat /\ c \in Nat
  BY <1>1
<1>5. input[1].id = last + 1
  <2>1. OneMessage /\ 1 \in 1 .. Len(input)
    BY <1>4, InputIsOneMessage
  <2> QED
    BY <2>1 DEF OneMessage
<1>6. GoodStream(Stream, last, messages, peer_open)
  BY <1>4 DEF StreamInv, InputInv, Whole
<1>7. Stream[1] = input[1]
  BY <1>2, <1>4
<1>8. Stream' = t
  <2>1. << >> \o wire = wire
    BY <1>1, JoinedToNothing
  <2> QED
    BY <2>1, Zenon DEF Stream
<1>9. a = Size(input[1].message)
  BY SMTT(30)
<1> HIDE DEF a, b, c, t, Stream
<1>10. ASSUME NEW i \in 1 .. Len(t) PROVE t[i] = Stream[i + a]
  <2>1. CASE i <= b
    <3>1. i \in 1 .. b /\ i \in 1 .. b + c /\ a + i = i + a
      BY <1>3, <1>4, <2>1, SMTT(30)
    <3> QED
      BY <1>2, <1>3, <3>1, SMTT(30)
  <2>2. CASE i > b
    <3> DEFINE k == i - b
    <3>1. k \in 1 .. c /\ i \in 1 .. b + c /\ ~(i <= b) /\ a + b + k = i + a
      BY <1>3, <1>4, <2>2, SMTT(30)
    <3> HIDE DEF k
    <3>2. Stream[i + a] = rest[k]
      BY <1>2, <3>1, SMTT(30)
    <3>3. t[i] = rest[i - b]
      BY <1>3, <3>1, SMTT(30)
    <3> QED
      BY <3>2, <3>3, SMTT(30) DEF k
  <2> QED
    BY <1>3, <1>4, <2>1, <2>2, SMTT(30)
<1>11. GoodStream(t, last + 1, messages, peer_open)
  <2>1. a \in 1 .. Len(Stream) /\ Len(t) = Len(Stream) - a
    BY <1>2, <1>3, <1>4, SMTT(30)
  <2>2. a = Size(Stream[1].message) /\ last \in Nat /\ messages \in Nat
    BY <1>7, <1>9, SMTT(30) DEF StreamInv
  <2> QED
    BY <1>2, <1>3, <1>6, <1>10, <2>1, <2>2, TakeMessage, Zenon
<1>12. last' = last + 1
  BY <1>5
<1>13. Whole'
  BY <1>8, <1>11, <1>12, Zenon DEF Whole
<1> QED
  BY <1>1, <1>12, <1>13, EmptyStream DEF StreamInv

\* What a judged input tells.
LEMMA JudgedFacts ==
  ASSUME IntakeInv, Judged
  PROVE  /\ Len(input) = expected_input /\ Len(input) > 0
         /\ Len(input) \in Nat /\ Message \in Messages
         /\ Message = input[1].message /\ ready = NoRequest
         /\ Len(input) <= Size(Message) /\ Base <= Len(input)
         /\ BodyUnits(Message.kind) \in {0, 1, 2} /\ Size(Message) \in Nat
         /\ Base + BodyUnits(Message.kind) <= Size(Message)
         /\ Base \in Nat \ {0} /\ IoBytesMax \in Nat \ {0}
         /\ Message.length \in Nat
         /\ Message.length > 0 => HasPayload(Message.kind)
<1>1. Base \in Nat \ {0} /\ IoBytesMax \in Nat \ {0}
  BY IntakeAssumption, SMTT(30)
<1>2. input \in Seq(Unit) /\ Len(input) \in Nat /\ expected_input \in Nat
  BY DEF IntakeInv, StreamInv, InputInv
<1>3. Len(input) = expected_input /\ ready = NoRequest
  BY <1>2 DEF Judged, Wanted, Reads
<1>4. Len(input) > 0
  BY <1>1, <1>2, <1>3 DEF IntakeInv, InputInv
<1>5. input[1] \in Unit
  BY <1>2, <1>4, ElementIn, SMTT(30)
<1>6. Message \in Messages
  BY <1>5 DEF Unit, Message
<1> DEFINE m == Message
<1> HIDE DEF m
<1>7. m \in Messages
  BY <1>6 DEF m
<1>8. /\ BodyUnits(m.kind) \in {0, 1, 2} /\ Size(m) \in Nat
      /\ Base + BodyUnits(m.kind) <= Size(m)
      /\ m.length \in Nat
      /\ m.length > 0 => HasPayload(m.kind)
  BY <1>7, SizeFacts
<1>9. Len(input) <= Size(Message) /\ Base <= Len(input)
  BY <1>3, <1>4, SMTT(30) DEF IntakeInv, InputInv, Message
<1> QED
  <2>1. Message = input[1].message
    BY DEF Message
  <2> QED
    BY <1>1, <1>2, <1>3, <1>4, <1>6, <1>8, <1>9, <2>1, Zenon DEF m

\* iouringd_queue_handshake_result.
LEMMA HandshakeKeeps ==
  ASSUME IntakeInv, Handshake
  PROVE  IntakeInv'
<1>1. /\ phase \in {"handshake", "rejected"} /\ Judged
      /\ \/ phase = "handshake" /\ phase' \in {"submit", "rejected", "closing"}
         \/ phase = "rejected" /\ phase' = "closing"
      /\ input' = << >>
      /\ expected_input' = Base /\ last' = input[1].id
      /\ UNCHANGED <<ready, received_fd, fdVars, peerVars, greeting>>
  BY SMTT(30) DEF Handshake
<1>2. /\ Len(input) = expected_input /\ Len(input) > 0
      /\ Message = input[1].message /\ ready = NoRequest
      /\ Base \in Nat \ {0} /\ IoBytesMax \in Nat \ {0}
      /\ Len(input) \in Nat
  BY <1>1, JudgedFacts, SMTT(30)
<1>3. OneMessage /\ 1 \in 1 .. Len(input)
  BY <1>2, InputIsOneMessage, SMTT(30) DEF IntakeInv
<1>6. InputInv'
  <2>1. BodyUnits("register_buffer") = 1
    BY DEF BodyUnits
  <2>2. phase' \in {"submit", "rejected", "closing"}
    BY <1>1, Zenon
  <2> QED
    BY <1>1, <1>2, <2>1, <2>2, EmptyStream, SMTT(30) DEF InputInv, InputCapacity
<1>7. FdInv' /\ GreetInv'
  BY <1>1, FdsKept, GreetKept, SMTT(30) DEF IntakeInv, peerVars
<1>8. CASE phase = "handshake"
  <2>1. input[1].id = last + 1 /\ greeting = last + 1
    BY <1>3, <1>8 DEF OneMessage, IntakeInv, OwnInv
  <2>2. Len(input) = Size(input[1].message)
    BY <1>2, <1>3, <1>8, <2>1, ZenonT(40) DEF IntakeInv, InputInv, GreetInv, Short
  <2>3. StreamInv' /\ last' = last + 1
    BY <1>1, <1>2, <2>2, TakeInput, SMTT(30) DEF IntakeInv, peerVars
  <2>4. phase' \in {"submit", "rejected", "closing"}
    BY <1>1, <1>8, Zenon
  <2>5. OwnInv'
    BY <1>1, <1>2, <1>8, <2>1, <2>3, <2>4 DEF IntakeInv, OwnInv, peerVars
  <2> QED
    BY <1>6, <1>7, <2>3, <2>5, SMTT(30) DEF IntakeInv
<1>9. CASE phase' = "closing"
  <2>1. input[1].id \in Nat
    <3>1. input[1] \in Unit
      BY <1>3, ElementIn, Zenon DEF IntakeInv, StreamInv
    <3> QED
      BY <3>1 DEF Unit
  <2>2. StreamInv'
    BY <1>1, <1>9, <2>1, EmptyStream, SMTT(30)
    DEF IntakeInv, StreamInv, Whole, peerVars
  <2>3. OwnInv'
    BY <1>1, <1>2, <1>9, SMTT(30) DEF OwnInv
  <2> QED
    BY <1>6, <1>7, <2>2, <2>3, SMTT(30) DEF IntakeInv
<1> QED
  BY <1>1, <1>8, <1>9, Zenon

\* iouringd_process_submit_input asks for the rest of a message.
LEMMA MoreKeeps ==
  ASSUME IntakeInv, phase = "submit", Judged, ~IsRefused(Message),
         Len(input) < Needs(Message), expected_input' = Needs(Message),
         UNCHANGED <<phase, input, ready, received_fd, fdVars, peerVars,
                     greeting, last>>
  PROVE  IntakeInv'
<1> DEFINE m == Message
           n == Len(input)
           body == BodyUnits(m.kind)
           size == Size(m)
           needs == Needs(m)
<1>1. /\ n \in Nat /\ n > 0 /\ m = input[1].message /\ ready = NoRequest
      /\ body \in {0, 1, 2} /\ size \in Nat /\ Base + body <= size
      /\ Base \in Nat \ {0} /\ IoBytesMax \in Nat \ {0} /\ m.length \in Nat
      /\ m.length > 0 => HasPayload(m.kind)
  BY JudgedFacts, Zenon
<1>2. needs = IF n < Base + body THEN Base + body ELSE size
  BY Zenon DEF Needs
<1>3. InputCapacity = (Base + 1) + IoBytesMax
  BY DEF InputCapacity, BodyUnits
<1>4. n >= Base + body => BodyIsValid(m)
  BY Zenon DEF IsRefused
<1>5. BodyIsValid(m) /\ HasPayload(m.kind) => size <= InputCapacity
  BY Zenon DEF BodyIsValid, LengthIsValid
<1>6. size = (Base + body) + m.length
  BY Zenon DEF Size
<1>7. expected_input' = needs /\ n < needs
  BY SMTT(30)
<1>8. m.length = 0 \/ HasPayload(m.kind)
  BY <1>1, SMTT(30)
<1> HIDE DEF m, n, body, size, needs
<1>9. needs \in Nat /\ Base <= needs /\ needs <= size
  BY <1>1, <1>2, SMTT(30)
<1>10. needs <= InputCapacity
  <2>1. CASE n < Base + body
    BY <1>1, <1>2, <1>3, <2>1, SMTT(30)
  <2>2. CASE ~(n < Base + body)
    <3>1. needs = size /\ BodyIsValid(m)
      BY <1>1, <1>2, <1>4, <2>2, SMTT(30)
    <3>2. CASE m.length = 0
      BY <1>1, <1>3, <1>6, <3>1, <3>2
    <3>3. CASE HasPayload(m.kind)
      BY <1>5, <3>1, <3>3, SMTT(30)
    <3> QED
      BY <1>8, <3>2, <3>3, SMTT(30)
  <2> QED
    BY <2>1, <2>2, SMTT(30)
<1>11. InputInv'
  <2>1. Len(input') = n /\ Size(input'[1].message) = size
    BY <1>1 DEF n, size
  <2>2. phase' = "submit" /\ ready' = NoRequest
    BY <1>1
  <2>3. InputCapacity' = InputCapacity
    BY DEF InputCapacity
  <2> QED
    BY <1>1, <1>7, <1>9, <1>10, <2>1, <2>2, <2>3, SMTT(30) DEF InputInv
<1>12. StreamInv' /\ GreetInv' /\ FdInv'
  BY StreamKept, GreetKept, FdsKept, SMTT(30) DEF IntakeInv, peerVars
<1>13. OwnInv'
  BY <1>1, Zenon DEF IntakeInv, OwnInv, peerVars
<1> QED
  BY <1>11, <1>12, <1>13 DEF IntakeInv

\* It takes a message that is there.
LEMMA TakeKeeps ==
  ASSUME IntakeInv, phase = "submit", Judged, ~IsRefused(Message),
         Len(input) >= Needs(Message),
         ready' = [message |-> Message, units |-> Len(input),
                   id |-> input[1].id],
         last' = input[1].id, input' = << >>, expected_input' = Base,
         UNCHANGED <<phase, received_fd, fdVars, peerVars, greeting>>
  PROVE  IntakeInv'
<1> DEFINE m == Message
           n == Len(input)
           body == BodyUnits(m.kind)
           size == Size(m)
           needs == Needs(m)
<1>1. /\ n \in Nat /\ n > 0 /\ m = input[1].message /\ ready = NoRequest
      /\ n <= size /\ body \in {0, 1, 2} /\ size \in Nat /\ Base + body <= size
      /\ Base \in Nat \ {0} /\ IoBytesMax \in Nat \ {0}
  BY JudgedFacts, Zenon
<1>2. needs = IF n < Base + body THEN Base + body ELSE size
  BY ZenonT(40) DEF Needs
<1>3. n >= needs
  OBVIOUS
<1>4. n = needs => FdFits(m)
  BY Zenon DEF IsRefused
<1>5. /\ ready'.message = m /\ ready'.units = n /\ ready'.id = last'
      /\ phase' = "submit"
  BY SMTT(30)
<1>6. n = size /\ n = needs
  <2> HIDE DEF m, n, body, size, needs
  <2> QED
    BY <1>1, <1>2, <1>3
<1>7. StreamInv' /\ last' = last + 1
  <2>1. Len(input) > 0 /\ Len(input) = Size(input[1].message)
    BY <1>1, <1>6, Zenon
  <2> QED
    BY <2>1, TakeInput, Zenon DEF IntakeInv, peerVars
<1> HIDE DEF m, n, body, size, needs
<1>8. InputInv'
  <2>1. Len(input') = 0
    BY EmptyStream
  <2>2. InputCapacity' = (Base + 1) + IoBytesMax
    BY DEF InputCapacity, BodyUnits
  <2>3. ready'.units = Size(ready'.message) /\ ready'.id = last'
    BY <1>5, <1>6, Zenon DEF size
  <2>4. /\ phase' = "submit" /\ expected_input' = Base
        /\ Base \in Nat \ {0} /\ IoBytesMax \in Nat \ {0}
    BY <1>1, <1>5, SMTT(30)
  <2> QED
    BY <2>1, <2>2, <2>3, <2>4, SMTT(30) DEF InputInv
<1>9. FdInv' /\ GreetInv'
  BY FdsKept, GreetKept DEF IntakeInv, peerVars
<1>10. UNCHANGED <<received_fd, sent_with, greeting>>
  BY Zenon DEF peerVars
<1>11. OwnInv'
  <2>1. CASE received_fd = 0
    BY <1>5, <1>10, <2>1, ZenonT(40) DEF OwnInv
  <2>2. CASE received_fd # 0
    <3>1. \/ sent_with[received_fd] = last + 1
          \/ sent_with[received_fd] = greeting /\ last = greeting
      BY <1>1, <2>2, Zenon DEF IntakeInv, OwnInv
    <3>2. m.kind = "register_fd"
      BY <1>4, <1>6, <2>2, Zenon DEF FdFits
    <3>3. \/ sent_with'[received_fd'] = ready'.id
          \/ sent_with'[received_fd'] = greeting' /\ ready'.id = greeting' + 1
      BY <1>5, <1>7, <1>10, <3>1, Zenon
    <3>4. OwnDescriptor'
      BY <1>5, <3>2, <3>3, ZenonT(40) DEF OwnDescriptor
    <3>5. ready' # NoRequest
      <4>1. NoRequest.units = 0
        BY DEF NoRequest
      <4> QED
        BY <1>1, <1>5, <4>1, SMTT(30)
    <3> QED
      BY <1>5, <3>4, <3>5 DEF OwnInv
  <2> QED
    BY <2>1, <2>2
<1> QED
  BY <1>7, <1>8, <1>9, <1>11, SMTT(30) DEF IntakeInv

\* iouringd_process_submit_input.
LEMMA ProcessKeeps ==
  ASSUME IntakeInv, ProcessInput
  PROVE  IntakeInv'
<1>1. phase = "submit" /\ Judged
  BY DEF ProcessInput
<1>2. CASE /\ IsRefused(Message)
           /\ CloseClient(0)
           /\ UNCHANGED <<arrived, greeting, last>>
  BY <1>2, PlainCloseKeeps, Zenon
<1>3. CASE /\ ~IsRefused(Message)
           /\ Len(input) < Needs(Message)
           /\ expected_input' = Needs(Message)
           /\ UNCHANGED <<phase, input, ready, received_fd, fdVars, peerVars,
                          greeting, last>>
  BY <1>1, <1>3, MoreKeeps, Zenon
<1>4. CASE /\ ~IsRefused(Message)
           /\ Len(input) >= Needs(Message)
           /\ ready' = [message |-> Message, units |-> Len(input),
                        id |-> input[1].id]
           /\ last' = input[1].id
           /\ input' = << >>
           /\ expected_input' = Base
           /\ UNCHANGED <<phase, received_fd, fdVars, peerVars, greeting>>
  BY <1>1, <1>4, TakeKeeps, Zenon
<1> QED
  BY <1>2, <1>3, <1>4, Zenon DEF ProcessInput

\* The dispatch of a request, and a client that is closed.
LEMMA DispatchKeeps ==
  ASSUME IntakeInv, Dispatch \/ EndOfInput \/ PollHangUp \/ FlushRejected
  PROVE  IntakeInv'
<1>1. CASE Dispatch
  <2>1. /\ ready # NoRequest /\ ready' = NoRequest /\ received_fd' = 0
        /\ UNCHANGED <<phase, input, expected_input, arrived, peerVars,
                       greeting, last>>
        /\ \/ /\ registered' = registered \cup ({received_fd} \ {0})
              /\ closed' = closed
           \/ /\ received_fd # 0 /\ closed' = closed \cup {received_fd}
              /\ registered' = registered
    BY <1>1 DEF Dispatch
  <2>2. StreamInv' /\ GreetInv'
    BY <2>1, StreamKept, GreetKept, SMTT(30) DEF IntakeInv, peerVars
  <2>3. InputInv'
    BY <2>1, Zenon DEF IntakeInv, InputInv, InputCapacity
  <2>4. FdInv'
    <3>1. DescriptorsAreKept'
      <4>1. /\ arrived \ bundled
                 = registered \cup closed \cup ({received_fd} \ {0})
            /\ registered \cap closed = {}
            /\ received_fd \notin registered \cup closed
            /\ arrived \subseteq Fds
        BY DEF IntakeInv, FdInv, DescriptorsAreKept
      <4>2. 0 \notin Fds /\ bundled' = bundled
        BY <2>1 DEF Fds, peerVars
      <4>3. 0 \notin registered /\ 0 \notin closed
        BY <4>1, <4>2, SMTT(30)
      <4> QED
        BY <2>1, <4>1, <4>2, <4>3, SMTT(30) DEF DescriptorsAreKept
    <3> QED
      BY <2>1, <3>1, Zenon DEF IntakeInv, FdInv, peerVars
  <2>5. OwnInv'
    BY <2>1 DEF IntakeInv, OwnInv
  <2> QED
    BY <2>2, <2>3, <2>4, <2>5, SMTT(30) DEF IntakeInv
<1>2. CASE EndOfInput \/ PollHangUp \/ FlushRejected
  <2>1. CloseClient(0) /\ UNCHANGED <<arrived, greeting, last>>
    BY <1>2 DEF EndOfInput, PollHangUp, FlushRejected
  <2> QED
    BY <2>1, PlainCloseKeeps, Zenon
<1> QED
  BY <1>1, <1>2

-----------------------------------------------------------------------------
\* The invariant holds in every state, for messages of any size and any
\* limits.
THEOREM IntakeInvariant == Spec => []IntakeInv
<1>1. Init => IntakeInv
  <2> SUFFICES ASSUME Init PROVE IntakeInv
    OBVIOUS
  <2>1. Stream = << >>
    BY EmptyStream DEF Init, Stream
  <2>2. StreamInv
    BY <2>1, EmptyStream, Zenon DEF Init, StreamInv, Whole
  <2>3. InputInv
    <3>1. /\ Base \in Nat /\ IoBytesMax \in Nat
          /\ BodyUnits("register_buffer") = 1
      BY IntakeAssumption, SMTT(30) DEF BodyUnits
    <3> QED
      BY <3>1, EmptyStream DEF Init, InputInv, InputCapacity
  <2>4. FdInv
    BY EmptyStream, SMTT(30) DEF Init, FdInv, DescriptorsAreKept
  <2>5. OwnInv /\ GreetInv
    BY EmptyStream DEF Init, OwnInv, GreetInv, Short
  <2> QED
    BY <2>2, <2>3, <2>4, <2>5 DEF IntakeInv
<1>2. IntakeInv /\ [Next]_vars => IntakeInv'
  <2> SUFFICES ASSUME IntakeInv, [Next]_vars PROVE IntakeInv'
    OBVIOUS
  <2>0. 1 .. WireCapacity \subseteq Nat
    BY IntakeAssumption
  <2>1. CASE UNCHANGED vars
    <3>1. UNCHANGED <<clientVars, fdVars, peerVars, greeting, last>>
      BY <2>1 DEF vars
    <3>2. StreamInv' /\ GreetInv' /\ FdInv'
      BY <3>1, StreamKept, GreetKept, FdsKept, SMTT(30)
      DEF IntakeInv, clientVars, peerVars
    <3>3. InputInv' /\ OwnInv'
      BY <3>1, Zenon DEF IntakeInv, InputInv, OwnInv, OwnDescriptor, clientVars,
                  peerVars
    <3> QED
      BY <3>2, <3>3 DEF IntakeInv
  <2>2. CASE Service
    BY <2>0, <2>2, ReadKeeps, HandshakeKeeps, ProcessKeeps, DispatchKeeps, SMTT(30)
    DEF Service
  <2>3. CASE \E n \in 1 .. WireCapacity, f \in Fds \cup {0}, many \in BOOLEAN :
               Write(n, f, many)
    BY <2>0, <2>3, WriteKeeps
  <2>4. CASE Dispatch \/ PollHangUp \/ HangUp
    BY <2>4, DispatchKeeps, HangUpKeeps
  <2>5. CASE \/ \E good \in BOOLEAN : Connect(good)
             \/ \E m \in Requests : Compose(m)
    BY <2>5, ConnectKeeps, ComposeKeeps
  <2> QED
    BY <2>1, <2>2, <2>3, <2>4, <2>5 DEF Next
<1> QED
  BY <1>1, <1>2, PTL DEF Spec

(***************************************************************************)
(* A client record never holds more input than it asked for, and a closed  *)
(* one keeps neither input, a request nor a received descriptor.           *)
(***************************************************************************)
THEOREM IntakeTypeCorrect == Spec => []IntakeTypeOK
<1>1. IntakeInv => IntakeTypeOK
  <2> SUFFICES ASSUME IntakeInv PROVE IntakeTypeOK
    OBVIOUS
  <2>1. Len(input) = 0 => input = << >>
    BY SMTT(30) DEF IntakeInv, StreamInv
  <2> QED
    BY <2>1, Zenon DEF IntakeInv, InputInv, FdInv, OwnInv, IntakeTypeOK
<1> QED
  BY <1>1, IntakeInvariant, PTL

(***************************************************************************)
(* What iouringd_process_submit_input asks for never exceeds the input     *)
(* buffer, whatever length a message names.                                *)
(***************************************************************************)
THEOREM InputAlwaysFits == Spec => []InputFits
<1>1. IntakeInv => InputFits
  BY SMTT(30) DEF IntakeInv, InputInv, InputFits
<1> QED
  BY <1>1, IntakeInvariant, PTL

(***************************************************************************)
(* The daemon takes the messages of a connection one by one and whole,     *)
(* however they are cut up on their way.                                   *)
(***************************************************************************)
THEOREM FramingCorrect == Spec => []RequestsAreWhole
<1>1. IntakeInv => RequestsAreWhole
  <2> SUFFICES ASSUME IntakeInv PROVE RequestsAreWhole
    OBVIOUS
  <2>1. OneMessage /\ DOMAIN input = 1 .. Len(input)
    BY InputIsOneMessage, SMTT(30) DEF IntakeInv, StreamInv
  <2> QED
    BY <2>1 DEF OneMessage, RequestsAreWhole, IntakeInv, InputInv
<1> QED
  BY <1>1, IntakeInvariant, PTL

\* A request is dispatched only with a descriptor that was sent for it.
THEOREM DescriptorsMatch == Spec => []OwnDescriptor
<1>1. IntakeInv => OwnDescriptor
  BY SMTT(30) DEF IntakeInv, OwnInv, OwnDescriptor
<1> QED
  BY <1>1, IntakeInvariant, PTL

(***************************************************************************)
(* A descriptor that was the only one of its control message waits, is in  *)
(* a slot or is closed, and never two of these, however its connection     *)
(* ends: such a one never leaks and is never closed twice.  What           *)
(* iouringd_read_client_input installs of a control message with several   *)
(* is neither kept nor closed, and the theorem says nothing of it.         *)
(***************************************************************************)
THEOREM LoneDescriptorsNeverLeak == Spec => []DescriptorsAreKept
<1>1. IntakeInv => DescriptorsAreKept
  BY DEF IntakeInv, FdInv
<1> QED
  BY <1>1, IntakeInvariant, PTL

=============================================================================
