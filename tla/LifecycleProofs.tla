-------------------------- MODULE LifecycleProofs ---------------------------
(***************************************************************************)
(* What the process holds at each step of main, and why it leaves nothing  *)
(* behind: for any set of stop signals and any number of starts.           *)
(***************************************************************************)
EXTENDS Lifecycle, TLAPS

RingSteps == {"map_sq", "map_cq", "map_sqes", "map_probe", "probe"}
ServerSteps == {"flags", "length", "unlink", "bind", "listen", "run"}
Steps == {"down", "parse", "install_handlers", "ring_setup", "capacity",
          "storage", "files", "iovecs", "buffers", "socket", "publish",
          "close_server", "unpublish", "release", "finish", "raise"}
           \cup RingSteps \cup ServerSteps

SetUpSteps ==
  Steps \ {"down", "close_server", "unpublish", "release", "finish", "raise"}

Rings == {"ring_fd", "sq_map", "sqes_map"}

\* What the process holds at least, and at most, before a step.
Needed(p) ==
  CASE p = "map_sq" -> {"ring_fd"}
    [] p \in {"map_cq", "map_sqes"} -> {"ring_fd", "sq_map"}
    [] p \in {"map_probe", "capacity", "storage"} -> Rings
    [] p = "probe" -> Rings \cup {"probe"}
    [] p \in {"files", "iovecs", "socket", "flags", "length", "unlink",
              "bind"} -> Rings \cup {"storage"}
    [] p = "publish" -> Rings \cup {"storage", "socket"}
    [] p = "buffers" -> Rings \cup {"storage", "iovecs"}
    [] p \in {"listen", "run"} -> Rings \cup {"storage", "path"}
    [] OTHER -> {}

Allowed(p) ==
  CASE p = "map_sq" -> {"ring_fd"}
    [] p = "map_cq" -> {"ring_fd", "sq_map"}
    [] p = "map_sqes" -> {"ring_fd", "sq_map", "cq_map"}
    [] p \in {"map_probe", "capacity", "storage"} -> RingParts
    [] p = "probe" -> RingParts \cup {"probe"}
    [] p \in {"files", "iovecs", "socket"} -> RingParts \cup {"storage"}
    [] p = "buffers" -> RingParts \cup {"storage", "iovecs"}
    [] p \in {"publish", "flags", "length", "unlink", "bind"} ->
         RingParts \cup {"storage", "socket"}
    [] p \in {"listen", "run", "close_server"} ->
         RingParts \cup {"storage", "socket", "path"}
    [] p \in {"unpublish", "release"} -> RingParts \cup {"storage", "path"}
    [] OTHER -> {}

\* What is held fits the step.
HeldInv ==
  /\ pc \in Steps
  /\ Needed(pc) \subseteq held
  /\ held \subseteq Allowed(pc)

\* The handler's view of the socket, and the file at the path.
SocketInv ==
  /\ published \in BOOLEAN /\ stop_requested \in BOOLEAN
  /\ pc \in ServerSteps =>
       published /\ ("socket" \in held \/ stop_requested)
  /\ pc \in Steps \ (ServerSteps \cup {"down", "close_server", "unpublish"})
       => ~published
  /\ "socket" \in held => published \/ pc = "publish"
  /\ "path" \in held => path
  /\ pc = "bind" => ~path

\* The signals, and how the process ends.
SignalInv ==
  /\ stop_signal \in StopSignals \cup {"none"}
  /\ sent \subseteq StopSignals
  /\ stop_requested <=> stop_signal # "none"
  /\ stop_requested => stop_signal \in sent
  /\ status \in {"none", "1", "2", "stopped"}
  /\ status = "stopped" => stop_requested
  /\ pc \in SetUpSteps => status = "none"
  /\ pc \in {"finish", "raise"} => status = "stopped"
  /\ pc = "raise" => signo \in sent
  /\ outcome # "0"
  /\ pc = "down" /\ status = "stopped" => outcome \in sent \cup {"crash"}

LInv == HeldInv /\ SocketInv /\ SignalInv

\* A step that goes on keeps the invariant when what it acquires is what
\* the next step needs and may hold.
LEMMA SucceedsKeeps ==
  ASSUME LInv, NEW step, NEW gains, NEW next, Succeeds(step, gains, next),
         step \in SetUpSteps \ {"publish"}, next \in SetUpSteps \ {"bind"},
         Needed(next) \subseteq Needed(step) \cup gains,
         Allowed(step) \cup gains \subseteq Allowed(next),
         "path" \notin gains,
         "socket" \in gains => next = "publish",
         step \in ServerSteps <=> next \in ServerSteps
  PROVE  LInv'
<1>1. /\ pc = step /\ pc' = next /\ held' = held \cup gains
      /\ UNCHANGED <<path, published, signalVars, signo, status, outcome>>
  BY DEF Succeeds
<1>2. HeldInv'
  BY <1>1 DEF LInv, HeldInv, SetUpSteps
<1>3. SocketInv'
  BY <1>1 DEF LInv, HeldInv, SocketInv, signalVars, SetUpSteps
<1>4. SignalInv'
  BY <1>1 DEF LInv, SignalInv, signalVars, SetUpSteps
<1> QED
  BY <1>2, <1>3, <1>4 DEF LInv

\* A step that returns from main has given back all that may be held.
LEMMA ReturnsKeeps ==
  ASSUME LInv, NEW step, NEW losses, NEW code \in {"1", "2"},
         Returns(step, losses, code), Allowed(step) \subseteq losses,
         step \in SetUpSteps \ ServerSteps
  PROVE  LInv'
<1>1. /\ pc = step /\ pc' = "down" /\ held' = held \ losses
      /\ outcome' = code
      /\ UNCHANGED <<path, published, signalVars, signo, status>>
  BY DEF Returns
<1>2. held' = {}
  BY <1>1 DEF LInv, HeldInv
<1>3. HeldInv'
  BY <1>1, <1>2 DEF HeldInv, Steps, Needed, Allowed, RingSteps, ServerSteps
<1>4. SocketInv'
  BY <1>1, <1>2 DEF LInv, SocketInv, signalVars, ServerSteps
<1>5. SignalInv'
  BY <1>1 DEF LInv, SignalInv, signalVars, SetUpSteps
<1> QED
  BY <1>3, <1>4, <1>5 DEF LInv

\* A step that goes to iouringd_cleanup_runtime leaves it all that may be
\* held there.
LEMMA CleansUpKeeps ==
  ASSUME LInv, NEW step, NEW losses, NEW code \in {"1", "2", "stopped"},
         CleansUp(step, losses, code),
         code = "stopped" => stop_requested,
         Allowed(step) \ losses \subseteq Allowed("close_server"),
         step \notin {"down", "publish", "unpublish"}
  PROVE  LInv'
<1>1. /\ pc = step /\ pc' = "close_server" /\ held' = held \ losses
      /\ status' = code
      /\ UNCHANGED <<path, published, signalVars, signo, outcome>>
  BY DEF CleansUp
<1>2. HeldInv'
  BY <1>1 DEF LInv, HeldInv, Steps, Needed
<1>3. SocketInv'
  BY <1>1 DEF LInv, SocketInv, signalVars, ServerSteps
<1>4. SignalInv'
  BY <1>1 DEF LInv, SignalInv, signalVars, SetUpSteps
<1> QED
  BY <1>2, <1>3, <1>4 DEF LInv

\* iouringd_ring_init, up to its probe, keeps the invariant.
LEMMA RingSetUpKeeps ==
  ASSUME LInv,
         \/ ParseArgs \/ InstallHandlers \/ RingSetup \/ MapSq \/ MapCq
         \/ MapSqes \/ MapProbe
  PROVE  LInv'
<1> USE DEF Needed, Allowed, Steps, SetUpSteps, RingSteps, ServerSteps, Rings,
            RingParts
<1>1. CASE ParseArgs
  BY <1>1, SucceedsKeeps, ReturnsKeeps DEF ParseArgs
<1>2. CASE InstallHandlers
  BY <1>2, SucceedsKeeps, ReturnsKeeps DEF InstallHandlers
<1>3. CASE RingSetup
  BY <1>3, SucceedsKeeps, ReturnsKeeps DEF RingSetup
<1>4. CASE MapSq
  BY <1>4, SucceedsKeeps, ReturnsKeeps DEF MapSq
<1>5. CASE MapCq
  BY <1>5, SucceedsKeeps, ReturnsKeeps DEF MapCq
<1>6. CASE MapSqes
  BY <1>6, SucceedsKeeps, ReturnsKeeps DEF MapSqes
<1>7. CASE MapProbe
  BY <1>7, SucceedsKeeps, ReturnsKeeps DEF MapProbe, RingCleanup
<1> QED
  BY <1>1, <1>2, <1>3, <1>4, <1>5, <1>6, <1>7

\* So does the rest of the set-up.
LEMMA ServerSetUpKeeps ==
  ASSUME LInv,
         \/ Probe \/ Capacity \/ Storage \/ RegisterFiles \/ Iovecs
         \/ RegisterBuffers \/ Socket \/ Publish \/ SetFlags
         \/ CheckPathLength \/ Unlink \/ Bind \/ Listen
  PROVE  LInv'
<1> USE DEF Needed, Allowed, Steps, SetUpSteps, RingSteps, ServerSteps, Rings,
            RingParts
<1>1. CASE Probe
  <2>1. CASE UnmapProbe("capacity")
    <3>1. /\ pc = "probe" /\ pc' = "capacity" /\ held' = held \ {"probe"}
          /\ UNCHANGED <<path, published, signalVars, signo, status, outcome>>
      BY <2>1 DEF UnmapProbe
    <3>2. HeldInv'
      BY <3>1 DEF LInv, HeldInv
    <3>3. SocketInv' /\ SignalInv'
      BY <3>1 DEF LInv, SocketInv, SignalInv, signalVars
    <3> QED
      BY <3>2, <3>3 DEF LInv
  <2>2. CASE Returns("probe", RingParts \cup {"probe"}, "1")
    <3>1. Allowed("probe") \subseteq RingParts \cup {"probe"}
      OBVIOUS
    <3> HIDE DEF Allowed, RingParts
    <3> QED
      BY <2>2, <3>1, ReturnsKeeps
  <2> QED
    BY <1>1, <2>1, <2>2, Zenon DEF Probe, RingCleanup
<1>2. CASE Capacity
  BY <1>2, SucceedsKeeps, CleansUpKeeps DEF Capacity
<1>3. CASE Storage
  BY <1>3, SucceedsKeeps, CleansUpKeeps DEF Storage
<1>4. CASE RegisterFiles
  BY <1>4, SucceedsKeeps, CleansUpKeeps DEF RegisterFiles
<1>5. CASE Iovecs
  BY <1>5, SucceedsKeeps, CleansUpKeeps DEF Iovecs
<1>6. CASE RegisterBuffers
  <2>1. CASE CleansUp("buffers", {"iovecs"}, "1")
    BY <2>1, CleansUpKeeps
  <2>2. CASE ~CleansUp("buffers", {"iovecs"}, "1")
    <3>1. /\ pc = "buffers" /\ pc' = "socket" /\ held' = held \ {"iovecs"}
          /\ UNCHANGED <<path, published, signalVars, signo, status, outcome>>
      BY <1>6, <2>2 DEF RegisterBuffers
    <3>2. HeldInv'
      BY <3>1 DEF LInv, HeldInv
    <3>3. SocketInv' /\ SignalInv'
      BY <3>1 DEF LInv, SocketInv, SignalInv, signalVars
    <3> QED
      BY <3>2, <3>3 DEF LInv
  <2> QED
    BY <2>1, <2>2
<1>7. CASE Socket
  BY <1>7, SucceedsKeeps, CleansUpKeeps DEF Socket
<1>8. CASE Publish
  <2>1. HeldInv'
    BY <1>8 DEF Publish, LInv, HeldInv
  <2>2. SocketInv'
    BY <1>8 DEF Publish, LInv, HeldInv, SocketInv, signalVars
  <2>3. SignalInv'
    BY <1>8 DEF Publish, LInv, SignalInv, signalVars
  <2> QED
    BY <2>1, <2>2, <2>3 DEF LInv
<1>9. CASE SetFlags
  BY <1>9, SucceedsKeeps, CleansUpKeeps DEF SetFlags
<1>10. CASE CheckPathLength
  BY <1>10, SucceedsKeeps, CleansUpKeeps DEF CheckPathLength
<1>11. CASE Unlink
  <2>1. HeldInv'
    BY <1>11 DEF Unlink, LInv, HeldInv
  <2>2. SocketInv'
    BY <1>11 DEF Unlink, LInv, HeldInv, SocketInv, signalVars
  <2>3. SignalInv'
    BY <1>11 DEF Unlink, LInv, SignalInv, signalVars
  <2> QED
    BY <2>1, <2>2, <2>3 DEF LInv
<1>12. CASE Bind
  <2>1. CASE CleansUp("bind", {}, "1")
    BY <2>1, CleansUpKeeps
  <2>2. CASE ~CleansUp("bind", {}, "1")
    <3>1. /\ pc = "bind" /\ pc' = "listen" /\ path' = TRUE
          /\ held' = held \cup {"path"} /\ "socket" \in held
          /\ UNCHANGED <<published, signalVars, signo, status, outcome>>
      BY <1>12, <2>2 DEF Bind
    <3>2. HeldInv'
      BY <3>1 DEF LInv, HeldInv
    <3>3. SocketInv'
      BY <3>1 DEF LInv, SocketInv, signalVars
    <3>4. SignalInv'
      BY <3>1 DEF LInv, SignalInv, signalVars
    <3> QED
      BY <3>2, <3>3, <3>4 DEF LInv
  <2> QED
    BY <2>1, <2>2
<1>13. CASE Listen
  BY <1>13, SucceedsKeeps, CleansUpKeeps DEF Listen
<1> QED
  BY <1>1, <1>2, <1>3, <1>4, <1>5, <1>6, <1>7, <1>8, <1>9, <1>10, <1>11,
     <1>12, <1>13

\* The end of the loop and the clean-up keep the invariant.
LEMMA EndKeeps ==
  ASSUME LInv, RunEnds \/ RunFails \/ WindDown
  PROVE  LInv'
<1> USE DEF Needed, Allowed, Steps, SetUpSteps, RingSteps, ServerSteps, Rings,
            RingParts
<1>1. CASE RunEnds \/ RunFails
  BY <1>1, CleansUpKeeps DEF RunEnds, RunFails
<1>2. CASE CloseServer
  <2>1. HeldInv'
    BY <1>2 DEF CloseServer, LInv, HeldInv
  <2>2. SocketInv' /\ SignalInv'
    BY <1>2 DEF CloseServer, LInv, SocketInv, SignalInv, signalVars
  <2> QED
    BY <2>1, <2>2 DEF LInv
<1>3. CASE Unpublish
  <2>1. HeldInv'
    BY <1>3 DEF Unpublish, LInv, HeldInv
  <2>2. SocketInv' /\ SignalInv'
    BY <1>3, Zenon DEF Unpublish, LInv, HeldInv, SocketInv, SignalInv, signalVars
  <2> QED
    BY <2>1, <2>2 DEF LInv
<1>4. CASE Release
  <2>1. held' = {}
    BY <1>4 DEF Release, LInv, HeldInv, RingCleanup
  <2>2. HeldInv'
    BY <1>4, <2>1 DEF Release, LInv, HeldInv
  <2>3. SocketInv' /\ SignalInv'
    BY <1>4, <2>1 DEF Release, LInv, SocketInv, SignalInv, signalVars
  <2> QED
    BY <2>2, <2>3 DEF LInv
<1>5. CASE Finish
  <2>1. HeldInv'
    BY <1>5 DEF Finish, LInv, HeldInv
  <2>2. SocketInv' /\ SignalInv'
    BY <1>5 DEF Finish, LInv, HeldInv, SocketInv, SignalInv, signalVars
  <2> QED
    BY <2>1, <2>2 DEF LInv
<1>6. CASE Raise
  <2>1. HeldInv'
    BY <1>6 DEF Raise, LInv, HeldInv
  <2>2. SocketInv' /\ SignalInv'
    BY <1>6, LifecycleAssumption
    DEF Raise, LInv, HeldInv, SocketInv, SignalInv, signalVars
  <2> QED
    BY <2>1, <2>2 DEF LInv
<1> QED
  BY <1>1, <1>2, <1>3, <1>4, <1>5, <1>6 DEF WindDown

\* So do the signals, a kill and a new start.
LEMMA OutsideKeeps ==
  ASSUME LInv,
         Start \/ Crash \/ \E s \in StopSignals : StopSignal(s)
  PROVE  LInv'
<1> USE DEF Needed, Allowed, Steps, SetUpSteps, RingSteps, ServerSteps, Rings,
            RingParts
<1>1. CASE Start
  <2>1. HeldInv'
    BY <1>1 DEF Start, HeldInv
  <2>2. SocketInv' /\ SignalInv'
    BY <1>1, Zenon DEF Start, SocketInv, SignalInv
  <2> QED
    BY <2>1, <2>2 DEF LInv
<1>2. CASE Crash
  <2>1. HeldInv'
    BY <1>2 DEF Crash, HeldInv
  <2>2. SocketInv' /\ SignalInv'
    BY <1>2 DEF Crash, LInv, SocketInv, SignalInv, signalVars
  <2> QED
    BY <2>1, <2>2 DEF LInv
<1>3. ASSUME NEW s \in StopSignals, StopSignal(s) PROVE LInv'
  <2>0. s \notin {"none", "crash", "0", "1", "2"}
    BY LifecycleAssumption
  <2>1. CASE Unhandled(s)
    <3>1. /\ pc' = "down" /\ held' = {} /\ outcome' = s
          /\ sent' = sent \cup {s}
          /\ UNCHANGED <<stop_requested, stop_signal, path, published, signo,
                         status>>
      BY <1>3, <2>1 DEF StopSignal
    <3>2. HeldInv'
      BY <3>1 DEF HeldInv
    <3>3. SocketInv' /\ SignalInv'
      BY <2>0, <3>1 DEF LInv, SocketInv, SignalInv
    <3> QED
      BY <3>2, <3>3 DEF LInv
  <2>2. CASE ~Unhandled(s)
    <3>1. /\ stop_requested' = TRUE /\ stop_signal' = s
          /\ sent' = sent \cup {s} /\ pc # "down"
          /\ held' = IF published THEN held \ {"socket"} ELSE held
          /\ UNCHANGED <<pc, outcome, path, published, signo, status>>
      BY <1>3, <2>2 DEF StopSignal, Notes
    <3>2. HeldInv'
      BY <3>1 DEF LInv, HeldInv, SocketInv
    <3>3. SocketInv' /\ SignalInv'
      BY <2>0, <3>1 DEF LInv, SocketInv, SignalInv
    <3> QED
      BY <3>2, <3>3 DEF LInv
  <2> QED
    BY <2>1, <2>2
<1> QED
  BY <1>1, <1>2, <1>3

-----------------------------------------------------------------------------
\* The invariant holds in every state, for any stop signals and any number
\* of starts and failures of main's steps.
THEOREM LifecycleInvariant == Spec => []LInv
<1>1. Init => LInv
  <2> SUFFICES ASSUME Init PROVE LInv
    OBVIOUS
  <2>1. HeldInv
    BY DEF Init, HeldInv, Needed, Allowed, Steps
  <2>2. SocketInv /\ SignalInv
    BY Zenon DEF Init, SocketInv, SignalInv, ServerSteps, SetUpSteps
  <2> QED
    BY <2>1, <2>2 DEF LInv
<1>2. LInv /\ [Next]_vars => LInv'
  <2> SUFFICES ASSUME LInv, [Next]_vars PROVE LInv'
    OBVIOUS
  <2>1. CASE UNCHANGED vars
    BY <2>1
    DEF vars, signalVars, LInv, HeldInv, SocketInv, SignalInv
  <2> QED
    BY <2>1, RingSetUpKeeps, ServerSetUpKeeps, EndKeeps, OutsideKeeps
    DEF Next, SetUp
<1> QED
  BY <1>1, <1>2, PTL DEF Spec

(***************************************************************************)
(* A process that ends by itself holds nothing any more, whichever step of *)
(* main or iouringd_ring_init failed.                                      *)
(***************************************************************************)
THEOREM NothingLeftBehind == Spec => []ReturnsReleaseAll
<1>1. LInv => ReturnsReleaseAll
  BY DEF LInv, HeldInv, Allowed, ReturnsReleaseAll
<1> QED
  BY <1>1, LifecycleInvariant, PTL

\* The event loop starts on a complete set-up and on nothing temporary.
THEOREM LoopSetUp == Spec => []LoopFindsSetUp
<1>1. LInv => LoopFindsSetUp
  BY DEF LInv, HeldInv, SocketInv, Needed, Allowed, Rings, RingParts,
         ServerSteps, LoopFindsSetUp
<1> QED
  BY <1>1, LifecycleInvariant, PTL

\* A daemon that was asked to stop ends by a signal it was sent.
THEOREM EndsBySignal == Spec => []EndsByStopSignal
<1>1. LInv => EndsByStopSignal
  BY DEF LInv, SignalInv, EndsByStopSignal
<1> QED
  BY <1>1, LifecycleInvariant, PTL
=============================================================================
