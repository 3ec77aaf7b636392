---------------------------- MODULE ServerLauncher ----------------------------
(***************************************************************************)
(* KolosalServerLauncher (src/core/server_launcher.cpp) as AgentManager    *)
(* uses it: clients start and stop the inference server, a child process,  *)
(* and a monitor thread per start watches it.  stop() also leaves behind a *)
(* detached thread that, two seconds later, detaches the monitor thread    *)
(* the launcher then has.                                                  *)
(*                                                                         *)
(* Calls are made one at a time: monitor_thread_ has no lock, so two calls *)
(* at once are undefined behaviour.  The concurrency is that of one call   *)
(* with the monitors, the detached threads and the child.                  *)
(***************************************************************************)
EXTENDS Integers, FiniteSets

CONSTANTS
    Launches,       \* how many processes are launched (bounds the run)
    None            \* no process, no monitor

\* A process and the monitor thread of the start that launched it have one name.
Processes == 1 .. Launches

ASSUME LaunchesAssumption == Launches \in Nat /\ None \notin Nat

VARIABLES
    unix,       \* built for a Unix-like system, and not for Windows
    prompt,     \* a detached thread of stop() acts before the next call
    proc,       \* proc[p]: UNBORN, ALIVE, EXITED (nobody waited for it) or GONE
    pid,        \* process_id_ or process_handle_
    status,     \* status_
    shouldStop, \* should_stop_
    handle,     \* the joinable thread in monitor_thread_
    mpc,        \* mpc[p]: where the monitor thread is
    timers,     \* the detached threads of stop() that still sleep
    pc,         \* where the call is: idle between calls, destroyed at the end
    closing,    \* the destructor has begun
    aborted     \* a joinable std::thread was destroyed: std::terminate

platform   == <<unix, prompt>>
childVars  == <<proc, pid>>
threadVars == <<handle, mpc, timers>>
callVars   == <<pc, closing>>
vars == <<platform, childVars, status, shouldStop, threadVars, callVars, aborted>>

-----------------------------------------------------------------------------
\* is_running
Running == status \in {"RUNNING", "STARTING"}

\* is_process_running.  On Unix kill(pid, 0) also succeeds for a child that has exited and
\* that nobody has waited for.
ProcessRunning ==
    pid # None /\ proc[pid] \in (IF unix THEN {"ALIVE", "EXITED"} ELSE {"ALIVE"})

Init ==
    /\ unix \in BOOLEAN /\ prompt \in BOOLEAN
    /\ proc = [p \in Processes |-> "UNBORN"]
    /\ pid = None
    /\ status \in {"STOPPED", "ERROR"}      \* ERROR: no executable was found
    /\ shouldStop = FALSE
    /\ handle = None
    /\ mpc = [p \in Processes |-> "UNBORN"]
    /\ timers = 0
    /\ pc = "idle" /\ closing = FALSE
    /\ aborted = FALSE

-----------------------------------------------------------------------------
(* start_kolosal_server and KolosalServerLauncher::start                    *)

\* Between two calls, none of which comes after the destructor.
Idle == pc = "idle" /\ ~closing /\ ~aborted

\* Mutant of StartCall: the status is not tested.
StartAnyway ==
    /\ Idle /\ (prompt => timers = 0)
    /\ status' = "STARTING" /\ pc' = "launch"
    /\ UNCHANGED <<platform, childVars, shouldStop, threadVars, closing, aborted>>

\* Nothing is done while is_running.  The executable may be missing.
StartCall ==
    /\ Idle
    /\ prompt => timers = 0
    /\ ~Running
    /\ \/ status' = "ERROR" /\ UNCHANGED pc
       \/ status' = "STARTING" /\ pc' = "launch"
    /\ UNCHANGED <<platform, childVars, shouldStop, threadVars, closing, aborted>>

\* launch_process: fork and exec, or CreateProcess.
Launch(p) ==
    /\ pc = "launch"
    /\ proc[p] = "UNBORN"
    /\ \A q \in Processes : q < p => proc[q] # "UNBORN"
    /\ proc' = [proc EXCEPT ![p] = "ALIVE"]
    /\ pid' = p
    /\ pc' = "watch"
    /\ UNCHANGED <<platform, status, shouldStop, threadVars, closing, aborted>>

\* On Unix the result of a failed fork is stored and is no process.
LaunchFails ==
    /\ pc = "launch"
    /\ pid' = IF unix THEN None ELSE pid
    /\ status' = "ERROR"
    /\ pc' = "idle"
    /\ UNCHANGED <<platform, proc, shouldStop, threadVars, closing, aborted>>

\* The monitor thread starts.  The assignment to monitor_thread_ destroys the thread object
\* of an earlier start, which is fatal while that is joinable.
Watch ==
    /\ pc = "watch"
    /\ shouldStop' = FALSE
    /\ IF handle = None
       THEN /\ handle' = pid
            /\ mpc' = [mpc EXCEPT ![pid] = "check"]
            /\ pc' = "wait"
            /\ UNCHANGED aborted
       ELSE aborted' = TRUE /\ UNCHANGED <<handle, mpc, pc>>
    /\ ~aborted
    /\ UNCHANGED <<platform, childVars, status, timers, closing>>

\* wait_for_ready finds the process running and a server answering at its port ...
Ready ==
    /\ pc = "wait"
    /\ ProcessRunning
    /\ pc' = "ready"
    /\ UNCHANGED <<platform, childVars, status, shouldStop, threadVars, closing, aborted>>

\* ... then the status is written, whatever has happened since.
BecomeRunning ==
    /\ pc = "ready"
    /\ status' = "RUNNING"
    /\ pc' = "idle"
    /\ UNCHANGED <<platform, childVars, shouldStop, threadVars, closing, aborted>>

\* Mutant of NotReady: the wait has no limit.
WaitForever ==
    /\ pc = "wait" /\ ~ProcessRunning
    /\ pc' = "stop"
    /\ UNCHANGED <<platform, childVars, status, shouldStop, threadVars, closing, aborted>>

\* Mutant of NotReady: start returns without a stop.
GiveUp ==
    /\ pc = "wait" /\ pc' = "idle"
    /\ UNCHANGED <<platform, childVars, status, shouldStop, threadVars, closing, aborted>>

\* The process is not running, or the time is up: start calls stop.
NotReady ==
    /\ pc = "wait"
    /\ pc' = "stop"
    /\ UNCHANGED <<platform, childVars, status, shouldStop, threadVars, closing, aborted>>

-----------------------------------------------------------------------------
(* stop_kolosal_server and KolosalServerLauncher::stop                      *)

\* Called by start, by a client while is_running, or by the destructor while is_running.
StopBegins ==
    /\ \/ pc = "stop"
       \/ pc = "idle" /\ Running /\ ~aborted
    /\ status' = "STOPPING"
    /\ shouldStop' = TRUE
    /\ pc' = "terminate"
    /\ UNCHANGED <<platform, childVars, threadVars, closing, aborted>>

\* Mutant of TerminateProcess: after five seconds it gives up.
TerminateGently ==
    IF pid = None \/ (~unix /\ proc[pid] = "EXITED")
    THEN UNCHANGED childVars
    ELSE pid' = None /\ (UNCHANGED proc \/ proc' = [proc EXCEPT ![pid] = "GONE"])

\* The process is asked to end and, after five seconds, killed and waited for.  On Windows
\* TerminateProcess fails for a process that has exited, and the handle stays.
TerminateProcess ==
    IF pid = None \/ (~unix /\ proc[pid] = "EXITED")
    THEN UNCHANGED childVars
    ELSE pid' = None /\ proc' = [proc EXCEPT ![pid] = "GONE"]

\* terminate_process; then, if there is a thread to join, the detached thread begins.
Terminate ==
    /\ pc = "terminate"
    /\ TerminateProcess
    /\ timers' = IF handle = None THEN timers ELSE timers + 1
    /\ pc' = "join"
    /\ UNCHANGED <<platform, status, shouldStop, handle, mpc, closing, aborted>>

\* Mutant of Join: the monitor thread is detached at once.
JoinNobody ==
    /\ pc = "join" /\ handle' = None /\ status' = "STOPPED" /\ pc' = "idle"
    /\ UNCHANGED <<platform, childVars, shouldStop, mpc, timers, closing, aborted>>

\* The monitor has ended, or there is none to join.
Join ==
    /\ pc = "join"
    /\ handle # None => mpc[handle] = "done"
    /\ handle' = None
    /\ status' = "STOPPED"
    /\ pc' = "idle"
    /\ UNCHANGED <<platform, childVars, shouldStop, mpc, timers, closing, aborted>>

\* Two seconds after a join began, the monitor thread of the launcher is detached.  If that
\* happens during a join, the join goes on or, not yet begun, throws and is given up.
Detach ==
    /\ timers > 0
    /\ pc # "destroyed" /\ ~aborted
    /\ prompt => pc = "idle"
    /\ timers' = timers - 1
    /\ \/ handle' = None
       \/ pc = "join" /\ UNCHANGED handle
    /\ UNCHANGED <<platform, childVars, status, shouldStop, mpc, callVars, aborted>>

-----------------------------------------------------------------------------
(* The destructor                                                           *)

\* ~KolosalServerLauncher calls stop if is_running.
Destroy ==
    /\ Idle
    /\ closing' = TRUE
    /\ UNCHANGED <<platform, childVars, status, shouldStop, threadVars, pc, aborted>>

\* Mutant of Destruct: the server is left to itself.
DestructAtOnce ==
    /\ closing /\ pc = "idle" /\ ~aborted
    /\ pc' = "destroyed" /\ aborted' = (handle # None)
    /\ UNCHANGED <<platform, childVars, status, shouldStop, threadVars, closing>>

\* Then the members are destroyed, monitor_thread_ among them.
Destruct ==
    /\ closing /\ pc = "idle" /\ ~aborted
    /\ ~Running
    /\ pc' = "destroyed"
    /\ aborted' = (handle # None)
    /\ UNCHANGED <<platform, childVars, status, shouldStop, threadVars, closing>>

-----------------------------------------------------------------------------
(* monitor_process, and the child                                           *)

MonitorCheck(m) ==
    /\ mpc[m] = "check"
    /\ mpc' = [mpc EXCEPT ![m] = IF shouldStop THEN "done" ELSE "probe"]
    /\ UNCHANGED <<platform, childVars, status, shouldStop, handle, timers, callVars, aborted>>

MonitorProbe(m) ==
    /\ mpc[m] = "probe"
    /\ mpc' = [mpc EXCEPT ![m] = IF ProcessRunning THEN "check" ELSE "report"]
    /\ UNCHANGED <<platform, childVars, status, shouldStop, handle, timers, callVars, aborted>>

MonitorReport(m) ==
    /\ mpc[m] = "report"
    /\ status' = "ERROR"
    /\ mpc' = [mpc EXCEPT ![m] = "done"]
    /\ UNCHANGED <<platform, childVars, shouldStop, handle, timers, callVars, aborted>>

\* The server crashes, or exits because it cannot use its port.
ProcessExits(p) ==
    /\ proc[p] = "ALIVE"
    /\ proc' = [proc EXCEPT ![p] = "EXITED"]
    /\ UNCHANGED <<platform, pid, status, shouldStop, threadVars, callVars, aborted>>

-----------------------------------------------------------------------------
\* The steps of a call that do not wait for the outside.
CallStep ==
    \/ \E p \in Processes : Launch(p)
    \/ LaunchFails \/ Watch \/ BecomeRunning \/ NotReady
    \/ pc = "stop" /\ StopBegins
    \/ Terminate \/ Join

Alive == ~aborted /\ pc # "destroyed"

MonitorStep(m) == Alive /\ (MonitorCheck(m) \/ MonitorProbe(m) \/ MonitorReport(m))

Next ==
    \/ StartCall \/ CallStep \/ Ready \/ StopBegins \/ Detach
    \/ Destroy \/ Destruct
    \/ \E p \in Processes : MonitorStep(p) \/ ProcessExits(p)

Spec == Init /\ [][Next]_vars

(***************************************************************************)
(* A call in progress and the monitor threads are scheduled.  That the     *)
(* server ever answers is not assumed, nor that anybody calls.             *)
(***************************************************************************)
FairSpec == Spec /\ WF_vars(CallStep) /\ \A m \in Processes : WF_vars(MonitorStep(m))

-----------------------------------------------------------------------------
(* Properties                                                               *)

\* Every variable has its type; only a call in progress shows STARTING or STOPPING.
TypeOK ==
    /\ unix \in BOOLEAN /\ prompt \in BOOLEAN /\ shouldStop \in BOOLEAN
    /\ closing \in BOOLEAN /\ aborted \in BOOLEAN
    /\ proc \in [Processes -> {"UNBORN", "ALIVE", "EXITED", "GONE"}]
    /\ pid \in Processes \cup {None} /\ handle \in Processes \cup {None}
    /\ status \in {"STOPPED", "STARTING", "RUNNING", "STOPPING", "ERROR"}
    /\ mpc \in [Processes -> {"UNBORN", "check", "probe", "report", "done"}]
    /\ timers \in Nat
    /\ pc \in {"idle", "launch", "watch", "wait", "ready", "stop", "terminate", "join", "destroyed"}
    /\ pc = "idle" => status \notin {"STARTING", "STOPPING"}

Living == {p \in Processes : proc[p] = "ALIVE"}
Watching == {m \in Processes : mpc[m] \notin {"UNBORN", "done"}}

\* However calls, crashes and monitors interleave, there are never two servers, and the one
\* there is belongs to the launcher.
OneServer == prompt => Living \subseteq {pid}

\* Between two calls a launcher that says STOPPED or ERROR has no server, and on Unix no
\* child is left that nobody waited for once it says STOPPED.
NothingLeftBehind ==
    prompt /\ pc = "idle" => /\ status \in {"STOPPED", "ERROR"} => Living = {}
                             /\ unix /\ status = "STOPPED" =>
                                   \A p \in Processes : proc[p] # "EXITED"

\* No monitor thread outlives the call that stops it, and no two of them watch.
OneMonitor == prompt => Watching \subseteq {handle}

\* The destructor leaves no server behind and no thread that uses the destroyed object,
\* unless it ends the program.
DestructorStops ==
    prompt /\ pc = "destroyed" => Living = {} /\ (aborted \/ Watching = {})

\* Every call returns: start when the server never answers, stop whatever the monitor does.
CallsReturn == pc # "idle" ~> pc \in {"idle", "destroyed"} \/ aborted

\* "Health monitoring: Continuous monitoring of server health and status"
\* (docs/server.md:49): when a running server has crashed while its monitor watches, the
\* status does not stay RUNNING.
CrashNoticed ==
    \A p \in Processes :
        pid = p /\ proc[p] = "EXITED" /\ status = "RUNNING" /\ p \in Watching
            ~> status # "RUNNING" \/ closing

\* "Suppress all exceptions in destructor to prevent abort()" (server_launcher.cpp:66): the
\* destructor does not end in std::terminate.
DestructorNeverAborts == pc = "destroyed" => ~aborted
=============================================================================
