------------------------- MODULE ServerLauncherProofs -------------------------
(***************************************************************************)
(* Theorems about ServerLauncher for any number of launches.  The inductive *)
(* invariant says what a launcher whose detached threads act in time knows: *)
(* of its processes the last, of its monitors the joinable one, and between *)
(* two calls that do not leave a server RUNNING nothing is left of either.  *)
(***************************************************************************)
EXTENDS ServerLauncher, TLAPS

\* The children that have exited and that nobody waited for.
Unreaped == {p \in Processes : proc[p] = "EXITED"}

\* The launcher knows every server that lives and, on Unix, every child to wait for.
ServersKnown ==
    /\ Living \subseteq {pid}
    /\ unix => Unreaped \subseteq {pid}
    /\ pid # None => proc[pid] \in {"ALIVE", "EXITED"}

\* A monitor that watches can be joined, and one about to report has seen an end.
MonitorsKnown ==
    /\ Watching \subseteq {handle}
    /\ \A m \in Processes : mpc[m] = "report" => pid = None \/ (~unix /\ proc[pid] = "EXITED")

\* Where a call is and what it has made.
NoServer == Living = {} /\ (unix => Unreaped = {})
Stopped == pc = "idle" /\ status \in {"STOPPED", "ERROR"}
CallsAgree ==
    /\ pc \in {"launch", "destroyed"} \/ Stopped => NoServer /\ Watching = {}
    /\ pc = "watch" => pid # None /\ Watching = {}
    /\ pc \in {"wait", "ready"} \/ (pc = "idle" /\ status = "RUNNING") => pid # None
    /\ pc = "join" => NoServer

\* While a thread of stop() sleeps, nothing has been started that it could detach.
TimersWait ==
    timers > 0 => /\ pc \notin {"launch", "watch", "wait", "ready"}
                  /\ handle = None \/ pc = "join"

IInv == TypeOK /\ (prompt => ServersKnown /\ MonitorsKnown /\ CallsAgree /\ TimersWait)

\* Every step keeps the types.
LEMMA TypeStep ==
    ASSUME TypeOK, [Next]_vars
    PROVE  TypeOK'
<1> USE DEF platform, childVars, threadVars, callVars
<1>1. ASSUME StartCall PROVE TypeOK'
  BY <1>1 DEF StartCall, TypeOK
<1>2. ASSUME NEW p \in Processes, Launch(p) PROVE TypeOK'
  BY <1>2 DEF Launch, TypeOK
<1>3. ASSUME LaunchFails PROVE TypeOK'
  BY <1>3 DEF LaunchFails, TypeOK
<1>4. ASSUME Watch PROVE TypeOK'
  BY <1>4 DEF Watch, TypeOK
<1>5. ASSUME Ready PROVE TypeOK'
  BY <1>5 DEF Ready, TypeOK
<1>6. ASSUME BecomeRunning PROVE TypeOK'
  BY <1>6 DEF BecomeRunning, TypeOK
<1>7. ASSUME NotReady PROVE TypeOK'
  BY <1>7 DEF NotReady, TypeOK
<1>8. ASSUME StopBegins PROVE TypeOK'
  BY <1>8 DEF StopBegins, TypeOK
<1>9. ASSUME Terminate PROVE TypeOK'
  BY <1>9 DEF Terminate, TerminateProcess, TypeOK
<1>10. ASSUME Join PROVE TypeOK'
  BY <1>10 DEF Join, TypeOK
<1>11. ASSUME Detach PROVE TypeOK'
  BY <1>11 DEF Detach, TypeOK
<1>12. ASSUME Destroy PROVE TypeOK'
  BY <1>12 DEF Destroy, TypeOK
<1>13. ASSUME Destruct PROVE TypeOK'
  BY <1>13 DEF Destruct, TypeOK
<1>14. ASSUME NEW m \in Processes, Alive, MonitorCheck(m) PROVE TypeOK'
  BY <1>14 DEF MonitorCheck, TypeOK
<1>15. ASSUME NEW m \in Processes, Alive, MonitorProbe(m) PROVE TypeOK'
  BY <1>15 DEF MonitorProbe, TypeOK
<1>16. ASSUME NEW m \in Processes, Alive, MonitorReport(m) PROVE TypeOK'
  BY <1>16 DEF MonitorReport, TypeOK
<1>17. ASSUME NEW p \in Processes, ProcessExits(p) PROVE TypeOK'
  BY <1>17 DEF ProcessExits, TypeOK
<1>18. ASSUME UNCHANGED vars PROVE TypeOK'
  BY <1>18 DEF vars, TypeOK
<1>19. QED
  BY <1>1, <1>2, <1>3, <1>4, <1>5, <1>6, <1>7, <1>8, <1>9, <1>10, <1>11, <1>12, <1>13, <1>14, <1>15,
      <1>16, <1>17, <1>18 DEF Next, CallStep, MonitorStep

\* The launcher goes on knowing its servers.
LEMMA ServersStep ==
    ASSUME TypeOK, prompt, ServersKnown, MonitorsKnown, CallsAgree, TimersWait, [Next]_vars
    PROVE  ServersKnown'
<1> USE DEF platform, childVars, threadVars, callVars
<1>1. ASSUME StartCall PROVE ServersKnown'
  BY <1>1 DEF StartCall, ServersKnown, Living, Unreaped
<1>2. ASSUME NEW p \in Processes, Launch(p) PROVE ServersKnown'
  BY <1>2 DEF Launch, ServersKnown, CallsAgree, NoServer, Living, Unreaped, TypeOK
<1>3. ASSUME LaunchFails PROVE ServersKnown'
  BY <1>3 DEF LaunchFails, ServersKnown, CallsAgree, NoServer, Living, Unreaped
<1>4. ASSUME Watch PROVE ServersKnown'
  BY <1>4 DEF Watch, ServersKnown, Living, Unreaped
<1>5. ASSUME Ready PROVE ServersKnown'
  BY <1>5 DEF Ready, ServersKnown, Living, Unreaped
<1>6. ASSUME BecomeRunning PROVE ServersKnown'
  BY <1>6 DEF BecomeRunning, ServersKnown, Living, Unreaped
<1>7. ASSUME NotReady PROVE ServersKnown'
  BY <1>7 DEF NotReady, ServersKnown, Living, Unreaped
<1>8. ASSUME StopBegins PROVE ServersKnown'
  BY <1>8 DEF StopBegins, ServersKnown, Living, Unreaped
<1>9. ASSUME Terminate PROVE ServersKnown'
  BY <1>9 DEF Terminate, TerminateProcess, ServersKnown, Living, Unreaped, TypeOK
<1>10. ASSUME Join PROVE ServersKnown'
  BY <1>10 DEF Join, ServersKnown, Living, Unreaped
<1>11. ASSUME Detach PROVE ServersKnown'
  BY <1>11 DEF Detach, ServersKnown, Living, Unreaped
<1>12. ASSUME Destroy PROVE ServersKnown'
  BY <1>12 DEF Destroy, ServersKnown, Living, Unreaped
<1>13. ASSUME Destruct PROVE ServersKnown'
  BY <1>13 DEF Destruct, ServersKnown, Living, Unreaped
<1>14. ASSUME NEW m \in Processes, Alive, MonitorCheck(m) PROVE ServersKnown'
  BY <1>14 DEF MonitorCheck, ServersKnown, Living, Unreaped
<1>15. ASSUME NEW m \in Processes, Alive, MonitorProbe(m) PROVE ServersKnown'
  BY <1>15 DEF MonitorProbe, ServersKnown, Living, Unreaped
<1>16. ASSUME NEW m \in Processes, Alive, MonitorReport(m) PROVE ServersKnown'
  BY <1>16 DEF MonitorReport, ServersKnown, Living, Unreaped
<1>17. ASSUME NEW p \in Processes, ProcessExits(p) PROVE ServersKnown'
  BY <1>17 DEF ProcessExits, ServersKnown, Living, Unreaped
<1>18. ASSUME UNCHANGED vars PROVE ServersKnown'
  BY <1>18 DEF vars, ServersKnown, Living, Unreaped
<1>19. QED
  BY <1>1, <1>2, <1>3, <1>4, <1>5, <1>6, <1>7, <1>8, <1>9, <1>10, <1>11, <1>12, <1>13, <1>14, <1>15,
      <1>16, <1>17, <1>18 DEF Next, CallStep, MonitorStep

\* It goes on knowing its monitors.
LEMMA MonitorsStep ==
    ASSUME TypeOK, prompt, ServersKnown, MonitorsKnown, CallsAgree, TimersWait, [Next]_vars
    PROVE  MonitorsKnown'
<1> USE DEF platform, childVars, threadVars, callVars
<1>0. None \notin Processes
  BY LaunchesAssumption DEF Processes
<1>1. ASSUME StartCall PROVE MonitorsKnown'
  BY <1>1 DEF StartCall, MonitorsKnown, Watching
<1>2. ASSUME NEW p \in Processes, Launch(p) PROVE MonitorsKnown'
  BY <1>2 DEF Launch, MonitorsKnown, CallsAgree, Watching
<1>3. ASSUME LaunchFails PROVE MonitorsKnown'
  BY <1>3 DEF LaunchFails, MonitorsKnown, Watching
<1>4. ASSUME Watch PROVE MonitorsKnown'
  BY <1>0, <1>4 DEF Watch, MonitorsKnown, Watching, TypeOK
<1>5. ASSUME Ready PROVE MonitorsKnown'
  BY <1>5 DEF Ready, MonitorsKnown, Watching
<1>6. ASSUME BecomeRunning PROVE MonitorsKnown'
  BY <1>6 DEF BecomeRunning, MonitorsKnown, Watching
<1>7. ASSUME NotReady PROVE MonitorsKnown'
  BY <1>7 DEF NotReady, MonitorsKnown, Watching
<1>8. ASSUME StopBegins PROVE MonitorsKnown'
  BY <1>8 DEF StopBegins, MonitorsKnown, Watching
<1>9. ASSUME Terminate PROVE MonitorsKnown'
  BY <1>9 DEF Terminate, TerminateProcess, MonitorsKnown, Watching
<1>10. ASSUME Join PROVE MonitorsKnown'
  BY <1>10 DEF Join, MonitorsKnown, Watching
<1>11. ASSUME Detach PROVE MonitorsKnown'
  <2>1. handle' = handle /\ UNCHANGED <<mpc, childVars, platform>>
    BY <1>11 DEF Detach, TimersWait
  <2>2. QED
    BY <2>1 DEF MonitorsKnown, Watching
<1>12. ASSUME Destroy PROVE MonitorsKnown'
  BY <1>12 DEF Destroy, MonitorsKnown, Watching
<1>13. ASSUME Destruct PROVE MonitorsKnown'
  BY <1>13 DEF Destruct, MonitorsKnown, Watching
<1>14. ASSUME NEW m \in Processes, Alive, MonitorCheck(m) PROVE MonitorsKnown'
  BY <1>14 DEF MonitorCheck, MonitorsKnown, Watching
<1>15. ASSUME NEW m \in Processes, Alive, MonitorProbe(m) PROVE MonitorsKnown'
  BY <1>15 DEF MonitorProbe, ProcessRunning, ServersKnown, MonitorsKnown, Watching
<1>16. ASSUME NEW m \in Processes, Alive, MonitorReport(m) PROVE MonitorsKnown'
  BY <1>16 DEF MonitorReport, MonitorsKnown, Watching
<1>17. ASSUME NEW p \in Processes, ProcessExits(p) PROVE MonitorsKnown'
  BY <1>17 DEF ProcessExits, MonitorsKnown, Watching
<1>18. ASSUME UNCHANGED vars PROVE MonitorsKnown'
  BY <1>18 DEF vars, MonitorsKnown, Watching
<1>19. QED
  BY <1>1, <1>2, <1>3, <1>4, <1>5, <1>6, <1>7, <1>8, <1>9, <1>10, <1>11, <1>12, <1>13, <1>14, <1>15,
      <1>16, <1>17, <1>18 DEF Next, CallStep, MonitorStep

\* Every step of a call finds and leaves what its place says.
LEMMA CallsStep ==
    ASSUME TypeOK, prompt, ServersKnown, MonitorsKnown, CallsAgree, TimersWait, [Next]_vars
    PROVE  CallsAgree'
<1> USE DEF platform, childVars, threadVars, callVars
<1>0. None \notin Processes
  BY LaunchesAssumption DEF Processes
<1>1. ASSUME StartCall PROVE CallsAgree'
  BY <1>1 DEF StartCall, Idle, Running, CallsAgree, Stopped, NoServer, Living, Unreaped, Watching,
      TypeOK
<1>2. ASSUME NEW p \in Processes, Launch(p) PROVE CallsAgree'
  BY <1>0, <1>2 DEF Launch, CallsAgree, Stopped, Watching
<1>3. ASSUME LaunchFails PROVE CallsAgree'
  BY <1>3 DEF LaunchFails, CallsAgree, NoServer, Living, Unreaped, Watching
<1>4. ASSUME Watch PROVE CallsAgree'
  BY <1>4 DEF Watch, CallsAgree, Stopped, Watching
<1>5. ASSUME Ready PROVE CallsAgree'
  BY <1>5 DEF Ready, CallsAgree, Stopped
<1>6. ASSUME BecomeRunning PROVE CallsAgree'
  BY <1>6 DEF BecomeRunning, CallsAgree, Stopped
<1>7. ASSUME NotReady PROVE CallsAgree'
  BY <1>7 DEF NotReady, CallsAgree, Stopped
<1>8. ASSUME StopBegins PROVE CallsAgree'
  BY <1>8 DEF StopBegins, CallsAgree, Stopped
<1>9. ASSUME Terminate PROVE CallsAgree'
  BY <1>0, <1>9 DEF Terminate, TerminateProcess, ServersKnown, CallsAgree, Stopped, NoServer,
      Living, Unreaped, TypeOK
<1>10. ASSUME Join PROVE CallsAgree'
  BY <1>0, <1>10 DEF Join, MonitorsKnown, CallsAgree, NoServer, Living, Unreaped, Watching
<1>11. ASSUME Detach PROVE CallsAgree'
  BY <1>11 DEF Detach, CallsAgree, Stopped, NoServer, Living, Unreaped, Watching
<1>12. ASSUME Destroy PROVE CallsAgree'
  BY <1>12 DEF Destroy, CallsAgree, Stopped, NoServer, Living, Unreaped, Watching
<1>13. ASSUME Destruct PROVE CallsAgree'
  BY <1>13 DEF Destruct, Running, CallsAgree, Stopped, NoServer, Living, Unreaped, Watching, TypeOK
<1>14. ASSUME NEW m \in Processes, Alive, MonitorCheck(m) PROVE CallsAgree'
  BY <1>14 DEF MonitorCheck, CallsAgree, Stopped, NoServer, Living, Unreaped, Watching
<1>15. ASSUME NEW m \in Processes, Alive, MonitorProbe(m) PROVE CallsAgree'
  BY <1>15 DEF MonitorProbe, CallsAgree, Stopped, NoServer, Living, Unreaped, Watching
<1>16. ASSUME NEW m \in Processes, Alive, MonitorReport(m) PROVE CallsAgree'
  BY <1>0, <1>16 DEF MonitorReport, ServersKnown, MonitorsKnown, CallsAgree, NoServer, Living,
      Unreaped, Watching, TypeOK
<1>17. ASSUME NEW p \in Processes, ProcessExits(p) PROVE CallsAgree'
  BY <1>17 DEF ProcessExits, CallsAgree, Stopped, NoServer, Living, Watching
<1>18. ASSUME UNCHANGED vars PROVE CallsAgree'
  BY <1>18 DEF vars, CallsAgree, Stopped, NoServer, Living, Unreaped, Watching
<1>19. QED
  BY <1>1, <1>2, <1>3, <1>4, <1>5, <1>6, <1>7, <1>8, <1>9, <1>10, <1>11, <1>12, <1>13, <1>14, <1>15,
      <1>16, <1>17, <1>18 DEF Next, CallStep, MonitorStep

\* Nothing is started while a thread of stop() sleeps.
LEMMA TimersStep ==
    ASSUME TypeOK, prompt, ServersKnown, MonitorsKnown, CallsAgree, TimersWait, [Next]_vars
    PROVE  TimersWait'
<1> USE DEF platform, childVars, threadVars, callVars
<1>1. ASSUME StartCall PROVE TimersWait'
  BY <1>1 DEF StartCall, TimersWait
<1>2. ASSUME NEW p \in Processes, Launch(p) PROVE TimersWait'
  BY <1>2 DEF Launch, TimersWait
<1>3. ASSUME LaunchFails PROVE TimersWait'
  BY <1>3 DEF LaunchFails, TimersWait
<1>4. ASSUME Watch PROVE TimersWait'
  BY <1>4 DEF Watch, TimersWait
<1>5. ASSUME Ready PROVE TimersWait'
  BY <1>5 DEF Ready, TimersWait
<1>6. ASSUME BecomeRunning PROVE TimersWait'
  BY <1>6 DEF BecomeRunning, TimersWait
<1>7. ASSUME NotReady PROVE TimersWait'
  BY <1>7 DEF NotReady, TimersWait
<1>8. ASSUME StopBegins PROVE TimersWait'
  BY <1>8 DEF StopBegins, TimersWait
<1>9. ASSUME Terminate PROVE TimersWait'
  BY <1>9 DEF Terminate, TimersWait
<1>10. ASSUME Join PROVE TimersWait'
  BY <1>10 DEF Join, TimersWait
<1>11. ASSUME Detach PROVE TimersWait'
  BY <1>11 DEF Detach, TimersWait
<1>12. ASSUME Destroy PROVE TimersWait'
  BY <1>12 DEF Destroy, TimersWait
<1>13. ASSUME Destruct PROVE TimersWait'
  BY <1>13 DEF Destruct, TimersWait
<1>14. ASSUME NEW m \in Processes, Alive, MonitorCheck(m) PROVE TimersWait'
  BY <1>14 DEF MonitorCheck, TimersWait
<1>15. ASSUME NEW m \in Processes, Alive, MonitorProbe(m) PROVE TimersWait'
  BY <1>15 DEF MonitorProbe, TimersWait
<1>16. ASSUME NEW m \in Processes, Alive, MonitorReport(m) PROVE TimersWait'
  BY <1>16 DEF MonitorReport, TimersWait
<1>17. ASSUME NEW p \in Processes, ProcessExits(p) PROVE TimersWait'
  BY <1>17 DEF ProcessExits, TimersWait
<1>18. ASSUME UNCHANGED vars PROVE TimersWait'
  BY <1>18 DEF vars, TimersWait
<1>19. QED
  BY <1>1, <1>2, <1>3, <1>4, <1>5, <1>6, <1>7, <1>8, <1>9, <1>10, <1>11, <1>12, <1>13, <1>14, <1>15,
      <1>16, <1>17, <1>18 DEF Next, CallStep, MonitorStep

LEMMA InitialStates == Init => IInv
<1> SUFFICES ASSUME Init PROVE IInv
  OBVIOUS
<1>1. None \notin Processes
  BY LaunchesAssumption DEF Processes
<1>2. TypeOK
  BY DEF Init, TypeOK
<1>3. ServersKnown /\ MonitorsKnown
  BY DEF Init, ServersKnown, MonitorsKnown, Living, Unreaped, Watching
<1>4. CallsAgree /\ TimersWait
  BY DEF Init, CallsAgree, TimersWait, NoServer, Living, Unreaped, Watching
<1>5. QED
  BY <1>2, <1>3, <1>4 DEF IInv

\* Nothing changes whether the detached threads act in time.
LEMMA PlatformStays == [Next]_vars => UNCHANGED platform
<1> USE DEF platform
<1>1. CallStep => UNCHANGED platform
  BY DEF CallStep, Launch, LaunchFails, Watch, BecomeRunning, NotReady, StopBegins, Terminate, Join
<1>2. \A m \in Processes : MonitorStep(m) => UNCHANGED platform
  BY DEF MonitorStep, MonitorCheck, MonitorProbe, MonitorReport
<1>3. QED
  BY <1>1, <1>2 DEF Next, vars, StartCall, Ready, StopBegins, Detach, Destroy, Destruct,
      ProcessExits

LEMMA Inductive == Spec => []IInv
<1>1. IInv /\ [Next]_vars => IInv'
  <2> SUFFICES ASSUME IInv, [Next]_vars PROVE IInv'
    OBVIOUS
  <2>1. TypeOK'
    BY TypeStep DEF IInv
  <2>2. ASSUME prompt' PROVE ServersKnown' /\ MonitorsKnown' /\ CallsAgree' /\ TimersWait'
    <3>1. prompt /\ TypeOK /\ ServersKnown /\ MonitorsKnown /\ CallsAgree /\ TimersWait
      BY <2>2, PlatformStays DEF IInv, platform
    <3>2. QED
      BY <3>1, ServersStep, MonitorsStep, CallsStep, TimersStep
  <2>3. QED
    BY <2>1, <2>2 DEF IInv
<1>2. QED
  BY InitialStates, <1>1, PTL DEF Spec

-----------------------------------------------------------------------------
\* Every variable has its type, and between two calls the status is not that of a call
\* (the assignments to status_ in start, stop and monitor_process).
THEOREM LauncherTypeCorrect == Spec => []TypeOK
<1>1. IInv => TypeOK
  BY DEF IInv
<1>2. QED
  BY <1>1, Inductive, PTL

\* However calls, crashes and monitors interleave, there are never two servers, and the one
\* there is belongs to the launcher (launch_process, terminate_process).
THEOREM NeverTwoServers == Spec => []OneServer
<1>1. IInv => OneServer
  BY DEF IInv, ServersKnown, OneServer
<1>2. QED
  BY <1>1, Inductive, PTL

\* A launcher at rest that says STOPPED or ERROR has no server, and one that says STOPPED
\* has waited for its children (stop, launch_process, monitor_process).
THEOREM RestMeansNothingLeft == Spec => []NothingLeftBehind
<1>1. IInv => NothingLeftBehind
  BY DEF IInv, CallsAgree, Stopped, NoServer, Unreaped, NothingLeftBehind
<1>2. QED
  BY <1>1, Inductive, PTL

\* No monitor thread outlives the call that stops it, and no two of them watch
\* (monitor_process and the join of stop).
THEOREM NeverTwoMonitors == Spec => []OneMonitor
<1>1. IInv => OneMonitor
  BY DEF IInv, MonitorsKnown, OneMonitor
<1>2. QED
  BY <1>1, Inductive, PTL

\* The destructor leaves no server behind and no thread that uses the destroyed object.
THEOREM DestructorLeavesNothing == Spec => []DestructorStops
<1>1. IInv => DestructorStops
  BY DEF IInv, CallsAgree, NoServer, DestructorStops
<1>2. QED
  BY <1>1, Inductive, PTL

=============================================================================
