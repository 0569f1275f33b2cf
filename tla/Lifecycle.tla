----------------------------- MODULE Lifecycle ------------------------------
(***************************************************************************)
(* The life of an iouringd process (main, the stop signals and the ring's  *)
(* set-up in src/daemon/main.c and submit.c): it acquires one thing after  *)
(* another, any of which may fail, runs the event loop, cleans up and      *)
(* ends.  Stop signals arrive at any moment, the process may be killed at  *)
(* any moment, and it is started again on the same socket path, one        *)
(* process at a time.                                                      *)
(***************************************************************************)
EXTENDS Integers, FiniteSets

CONSTANTS
  StopSignals, \* the signals the daemon handles
  MaxStarts    \* bound: how often the daemon is started

ASSUME LifecycleAssumption ==
  /\ MaxStarts \in Nat
  /\ StopSignals \cap {"none", "crash", "0", "1", "2"} = {}

VARIABLES
  pc,             \* what main does next; "down" when there is no process
  held,           \* what the process holds
  path,           \* whether there is a file at the socket path
  published,      \* iouringd_server_fd >= 0
  stop_requested, \* iouringd_stop_requested
  stop_signal,    \* iouringd_stop_signal
  sent,           \* the signals this process was sent
  signo,          \* what iouringd_finish_stop_signal raises
  status,         \* what main is going to return, or "stopped"
  outcome,        \* how the last process ended
  starts          \* how many processes there have been

signalVars == <<stop_requested, stop_signal, sent>>
vars == <<pc, held, path, published, signalVars, signo, status, outcome,
          starts>>

-----------------------------------------------------------------------------
RingParts == {"ring_fd", "sq_map", "cq_map", "sqes_map"}

Init ==
  /\ pc = "down"
  /\ held = {}
  /\ path = FALSE
  /\ published = FALSE
  /\ stop_requested = FALSE
  /\ stop_signal = "none"
  /\ sent = {}
  /\ signo = "none"
  /\ status = "none"
  /\ outcome = "none"
  /\ starts = 0

\* main has checked argc and called iouringd_init_runtime.
Start ==
  /\ pc = "down"
  /\ starts < MaxStarts
  /\ starts' = starts + 1
  /\ pc' = "parse"
  /\ held' = {}
  /\ published' = FALSE
  /\ stop_requested' = FALSE
  /\ stop_signal' = "none"
  /\ sent' = {}
  /\ signo' = "none"
  /\ status' = "none"
  /\ outcome' = "none"
  /\ UNCHANGED path

-----------------------------------------------------------------------------
(***************************************************************************)
(* Steps of main.  One succeeds and goes on, or fails and either returns   *)
(* at once or goes through iouringd_cleanup_runtime.                       *)
(***************************************************************************)
Succeeds(step, gains, next) ==
  /\ pc = step
  /\ pc' = next
  /\ held' = held \cup gains
  /\ UNCHANGED <<path, published, signalVars, signo, status, outcome, starts>>

Returns(step, losses, code) ==
  /\ pc = step
  /\ pc' = "down"
  /\ held' = held \ losses
  /\ outcome' = code
  /\ UNCHANGED <<path, published, signalVars, signo, status, starts>>

CleansUp(step, losses, code) ==
  /\ pc = step
  /\ pc' = "close_server"
  /\ held' = held \ losses
  /\ status' = code
  /\ UNCHANGED <<path, published, signalVars, signo, outcome, starts>>

\* iouringd_parse_args refuses unknown options and limits out of range.
ParseArgs ==
  \/ Succeeds("parse", {}, "install_handlers")
  \/ Returns("parse", {}, "2")

InstallHandlers ==
  \/ Succeeds("install_handlers", {}, "ring_setup")
  \/ Returns("install_handlers", {}, "1")

(***************************************************************************)
(* iouringd_ring_init undoes its own steps when one fails.                 *)
(***************************************************************************)
RingSetup ==
  \/ Succeeds("ring_setup", {"ring_fd"}, "map_sq")
  \/ Returns("ring_setup", {}, "1")

\* With IORING_FEAT_SINGLE_MMAP the completion queue is in the same mapping.
MapSq ==
  \/ Succeeds("map_sq", {"sq_map"}, "map_cq")
  \/ Succeeds("map_sq", {"sq_map"}, "map_sqes")
  \/ Returns("map_sq", {"ring_fd"}, "1")

MapCq ==
  \/ Succeeds("map_cq", {"cq_map"}, "map_sqes")
  \/ Returns("map_cq", {"sq_map", "ring_fd"}, "1")

\* Mutant: a completion queue mapped on its own is forgotten.
MapSqesOneRing ==
  \/ Succeeds("map_sqes", {"sqes_map"}, "map_probe")
  \/ Returns("map_sqes", {"sq_map", "ring_fd"}, "1")

MapSqes ==
  \/ Succeeds("map_sqes", {"sqes_map"}, "map_probe")
  \/ Returns("map_sqes", {"cq_map", "sq_map", "ring_fd"}, "1")

\* iouringd_ring_cleanup.
RingCleanup == RingParts

MapProbe ==
  \/ Succeeds("map_probe", {"probe"}, "probe")
  \/ Returns("map_probe", RingCleanup, "1")

\* The probe is unmapped before its result is used.
UnmapProbe(next) ==
  /\ pc = "probe"
  /\ pc' = next
  /\ held' = held \ {"probe"}
  /\ UNCHANGED <<path, published, signalVars, signo, status, outcome, starts>>

\* Mutant: a failed probe is taken for an empty one.
ProbeAlways ==
  \/ UnmapProbe("capacity")
  \/ /\ pc = "probe"
     /\ pc' = "capacity"
     /\ held' = held \ (RingCleanup \cup {"probe"})
     /\ UNCHANGED <<path, published, signalVars, signo, status, outcome,
                    starts>>

Probe ==
  \/ UnmapProbe("capacity")
  \/ Returns("probe", RingCleanup \cup {"probe"}, "1")

(***************************************************************************)
(* The rest of the set-up, with iouringd_cleanup_runtime behind a failure. *)
(***************************************************************************)
Capacity ==
  \/ Succeeds("capacity", {}, "storage")
  \/ CleansUp("capacity", {}, "1")

Storage ==
  \/ Succeeds("storage", {"storage"}, "files")
  \/ CleansUp("storage", {}, "1")

RegisterFiles ==
  \/ Succeeds("files", {}, "iovecs")
  \/ CleansUp("files", {}, "1")

Iovecs ==
  \/ Succeeds("iovecs", {"iovecs"}, "buffers")
  \/ CleansUp("iovecs", {}, "1")

\* The iovecs are freed in either case.
RegisterBuffers ==
  \/ /\ pc = "buffers"
     /\ pc' = "socket"
     /\ held' = held \ {"iovecs"}
     /\ UNCHANGED <<path, published, signalVars, signo, status, outcome,
                    starts>>
  \/ CleansUp("buffers", {"iovecs"}, "1")

Socket ==
  \/ Succeeds("socket", {"socket"}, "publish")
  \/ CleansUp("socket", {}, "1")

\* From here on the signal handler closes the socket.
Publish ==
  /\ pc = "publish"
  /\ pc' = "flags"
  /\ published' = TRUE
  /\ UNCHANGED <<held, path, signalVars, signo, status, outcome, starts>>

\* iouringd_set_cloexec and iouringd_set_nonblocking, for which a socket
\* that the handler closed is a bad descriptor.
SetFlags ==
  \/ "socket" \in held /\ Succeeds("flags", {}, "length")
  \/ CleansUp("flags", {}, "1")

CheckPathLength ==
  \/ Succeeds("length", {}, "unlink")
  \/ CleansUp("length", {}, "2")

Unlink ==
  /\ pc = "unlink"
  /\ pc' = "bind"
  /\ path' = FALSE
  /\ UNCHANGED <<held, published, signalVars, signo, status, outcome, starts>>

\* bind creates the file, and fails where there is one.
Bind ==
  \/ /\ pc = "bind"
     /\ "socket" \in held /\ ~path
     /\ pc' = "listen"
     /\ path' = TRUE
     /\ held' = held \cup {"path"}
     /\ UNCHANGED <<published, signalVars, signo, status, outcome, starts>>
  \/ CleansUp("bind", {}, "1")

Listen ==
  \/ "socket" \in held /\ Succeeds("listen", {}, "run")
  \/ CleansUp("listen", {}, "1")

SetUp ==
  \/ ParseArgs
  \/ InstallHandlers
  \/ RingSetup
  \/ MapSq
  \/ MapCq
  \/ MapSqes
  \/ MapProbe
  \/ Probe
  \/ Capacity
  \/ Storage
  \/ RegisterFiles
  \/ Iovecs
  \/ RegisterBuffers
  \/ Socket
  \/ Publish
  \/ SetFlags
  \/ CheckPathLength
  \/ Unlink
  \/ Bind
  \/ Listen

-----------------------------------------------------------------------------
(***************************************************************************)
(* The event loop, seen from main, and the end of the process.             *)
(***************************************************************************)

\* Mutant: the loop does not wake up for a stop once its socket is closed.
RunEndsServing ==
  stop_requested /\ "socket" \in held /\ CleansUp("run", {}, "stopped")

\* iouringd_run returns 0 only when a stop was requested.
RunEnds == stop_requested /\ CleansUp("run", {}, "stopped")

RunFails == CleansUp("run", {}, "1")

\* iouringd_cleanup_runtime, which signals may interrupt.
CloseServer ==
  /\ pc = "close_server"
  /\ pc' = "unpublish"
  /\ held' = held \ {"socket"}
  /\ UNCHANGED <<path, published, signalVars, signo, status, outcome, starts>>

Unpublish ==
  /\ pc = "unpublish"
  /\ pc' = "release"
  /\ published' = FALSE
  /\ UNCHANGED <<held, path, signalVars, signo, status, outcome, starts>>

\* The path is unlinked whether or not this process has bound it.
Release ==
  /\ pc = "release"
  /\ path' = FALSE
  /\ held' = held \ (RingCleanup \cup {"path", "storage"})
  /\ \/ /\ status = "stopped"
        /\ pc' = "finish"
        /\ UNCHANGED outcome
     \/ /\ status # "stopped"
        /\ pc' = "down"
        /\ outcome' = status
  /\ UNCHANGED <<published, signalVars, signo, status, starts>>

\* iouringd_finish_stop_signal takes the signal and resets its action ...
Finish ==
  /\ pc = "finish"
  /\ signo' = stop_signal
  /\ pc' = IF stop_signal = "none" THEN "down" ELSE "raise"
  /\ outcome' = IF stop_signal = "none" THEN "0" ELSE outcome
  /\ UNCHANGED <<held, path, published, signalVars, status, starts>>

\* ... and raises it.
Raise ==
  /\ pc = "raise"
  /\ pc' = "down"
  /\ outcome' = signo
  /\ UNCHANGED <<held, path, published, signalVars, signo, status, starts>>

WindDown ==
  \/ CloseServer
  \/ Unpublish
  \/ Release
  \/ Finish
  \/ Raise

-----------------------------------------------------------------------------
\* Whether a signal still, or already, has its default action.
Unhandled(s) ==
  \/ pc \in {"parse", "install_handlers"}
  \/ pc = "raise" /\ s = signo

\* Mutant: the handler sets the flag alone.
NotesNothing(s) == stop_signal

\* The signal the handler notes: the last one.
Notes(s) == s

\* iouringd_handle_stop_signal; a second signal closes nothing more.
StopSignal(s) ==
  /\ pc # "down"
  /\ sent' = sent \cup {s}
  /\ \/ /\ Unhandled(s)
        /\ pc' = "down"
        /\ outcome' = s
        /\ held' = {}
        /\ UNCHANGED <<stop_requested, stop_signal>>
     \/ /\ ~Unhandled(s)
        /\ stop_requested' = TRUE
        /\ stop_signal' = Notes(s)
        /\ held' = IF published THEN held \ {"socket"} ELSE held
        /\ UNCHANGED <<pc, outcome>>
  /\ UNCHANGED <<path, published, signo, status, starts>>

\* SIGKILL, or SIGPIPE in the event loop: the kernel takes everything back
\* but the file at the path.
Crash ==
  /\ pc # "down"
  /\ pc' = "down"
  /\ held' = {}
  /\ outcome' = "crash"
  /\ UNCHANGED <<path, published, signalVars, signo, status, starts>>

Next ==
  \/ Start
  \/ SetUp
  \/ RunEnds
  \/ RunFails
  \/ WindDown
  \/ \E s \in StopSignals : StopSignal(s)
  \/ Crash

Spec == Init /\ [][Next]_vars

\* The process is scheduled, and its loop ends when asked to.
FairSpec == Spec /\ WF_vars(SetUp \/ RunEnds \/ WindDown)

-----------------------------------------------------------------------------
(***************************************************************************)
(* Whichever step of main or of iouringd_ring_init fails, and whenever a   *)
(* signal comes, a process that ends by itself has given back all it       *)
(* acquired, the file at its path included: every error path of the set-up *)
(* undoes exactly the steps before it.                                     *)
(***************************************************************************)
ReturnsReleaseAll == pc = "down" /\ outcome # "crash" => held = {}

(***************************************************************************)
(* The loop runs on a complete set-up: rings, buffers, a listening socket  *)
(* and its path, and nothing temporary.  Only the handler may have closed  *)
(* the socket, and then the loop knows.                                    *)
(***************************************************************************)
LoopFindsSetUp ==
  pc = "run" =>
    /\ {"ring_fd", "sq_map", "sqes_map", "storage", "path"} \subseteq held
    /\ held \cap {"probe", "iovecs"} = {}
    /\ "socket" \in held \/ stop_requested

(***************************************************************************)
(* A daemon whose loop was stopped ends by a signal it was sent            *)
(* (iouringd_finish_stop_signal), whatever other signals arrive while it   *)
(* cleans up; it never returns 0.                                          *)
(***************************************************************************)
EndsByStopSignal ==
  /\ outcome # "0"
  /\ pc = "down" /\ status = "stopped" => outcome \in sent \cup {"crash"}

(***************************************************************************)
(* A stop signal ends the process from any step of its set-up, its loop or *)
(* its clean-up.                                                           *)
(***************************************************************************)
StopEndsProcess == stop_requested ~> pc = "down"

=============================================================================
