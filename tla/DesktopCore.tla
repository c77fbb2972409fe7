----------------------------- MODULE DesktopCore -----------------------------
(***************************************************************************)
(* DesktopV2rayCore (shared/desktop_v2ray_core.cc) as the Windows plugin   *)
(* drives it: every method runs on the Flutter platform thread (UI), one   *)
(* at a time; the auto-disconnect thread (TM) that a start may spawn runs  *)
(* Stop(true) by itself when the deadline passes.                          *)
(*                                                                         *)
(* One action is one critical section of mutex_, or one unlocked piece of  *)
(* work (a system call, an access to a member the mutex does not protect). *)
(* mutex_ itself is a variable only in so far as one method keeps it over  *)
(* a long call: the UI thread at "delay" (GetConnectedServerDelay).        *)
(***************************************************************************)
EXTENDS Integers, FiniteSets

CONSTANTS
  NoDeadline,    \* auto_disconnect_deadline_ is an empty optional
  MaxSessions,   \* bound: xray processes created in one behaviour
  AutoSeconds,   \* values of auto_disconnect_seconds, 0 standing for "none or <= 0"
  Adjustments,   \* values of additional_seconds
  MaxDeadline,   \* bound: furthest deadline, in ticks from now
  MaxLate,       \* bound: how long a passed deadline is tracked
  MaxUpdates     \* bound: calls of UpdateAutoDisconnectTime

ASSUME DesktopAssumption ==
  /\ NoDeadline \notin Int
  /\ MaxSessions \in Nat
  /\ MaxDeadline \in Nat
  /\ MaxLate \in Nat
  /\ MaxUpdates \in Nat
  /\ AutoSeconds \subseteq 0 .. MaxDeadline
  /\ Adjustments \subseteq Int

VARIABLES
  app,         \* "running", or how the application process ended
  pc,          \* per thread: where it is
  op,          \* the call the UI thread is in the middle of
  state,       \* state_
  mode,        \* transport_mode_
  process,     \* process_: the session it points to, 0 for nullptr
  sessions,    \* xray processes created so far
  xray,        \* the sessions whose OS process is running
  recorded,    \* what configured_route_delete_commands_ / _dns_interface_ hold
  configured,  \* what the plugin has configured in the OS
  stuck,       \* what a failed delete command left behind
  config,      \* TRUE: the temporary configuration file is on disk
  deadline,    \* auto_disconnect_deadline_, as ticks from now
  autoFlag,    \* auto_disconnected_
  autoStamp,   \* TRUE: auto_disconnect_timestamp_ms_ # 0
  stopTimer,   \* stop_timer_
  joinable,    \* auto_disconnect_thread_.joinable()
  updates,     \* calls of UpdateAutoDisconnectTime so far
  due,         \* history: the session whose deadline TM last saw pass
  endedBy      \* history: what ended the process of the last session (UI, TM, "exit")

life  == <<process, sessions, xray, endedBy>>
net   == <<recorded, configured, stuck>>
auto  == <<deadline, autoFlag, autoStamp>>
timer == <<stopTimer, joinable, due>>
vars  == <<app, pc, op, state, mode, life, net, config, auto, timer, updates>>

-----------------------------------------------------------------------------
(* Threads and program points.                                             *)

UI      == "UI"
TM      == "TM"
Threads == {UI, TM}

\* The points of Stop() between its two critical sections: no lock is held there.
Teardown == {"run", "clear", "kill", "close", "reset", "unlink", "final"}

\* StopAutoDisconnectTimer(), called by Stop, Start and CancelAutoDisconnect.
TimerStop == {"tset", "tjoin", "tclear"}

UIPoints == {"idle", "check", "prepare", "write", "announce", "create", "tun",
             "established", "spawn", "fail", "report", "delay", "gone"}
            \cup Teardown \cup TimerStop
TMPoints == {"off", "loop", "waitAny", "waitDeadline", "check", "exit"}
            \cup Teardown \cup TimerStop

Ops == {"none", "stop", "start", "abort", "poll", "shutdown", "arm", "disarm", "cancel"}

\* Who called the code a thread is in: the timer thread only ever runs Stop(true).
Caller(t) == IF t = TM THEN "auto" ELSE op

\* Where a thread continues after StopAutoDisconnectTimer(), and after the Stop() whose
\* last act that is.
Return == [stop |-> "idle", start |-> "prepare", abort |-> "fail", poll |-> "report",
           shutdown |-> "gone", auto |-> "exit", arm |-> "spawn", disarm |-> "idle",
           cancel |-> "idle"]

Goto(t, to) == pc' = [pc EXCEPT ![t] = to]

Step(t, from, to) == pc[t] = from /\ Goto(t, to)

\* A thread that needs mutex_ waits while the other one holds it.
CanLock(t) == t = UI \/ pc[UI] # "delay"

\* The UI thread takes its next method call or message only when the last one returned.
Call(o, to) == pc[UI] = "idle" /\ Goto(UI, to) /\ op' = o

Running == app = "running"

\* Faulty variant: a handle is taken for a running process.
ProcessRunningByHandle == process # 0

\* IsProcessRunning()
ProcessRunning == process # 0 /\ process \in xray

-----------------------------------------------------------------------------
(* Stop(from_auto_disconnect), on either thread.                           *)

\* Faulty variant: without a process, Stop returns and leaves the timer thread behind.
StopCheckLeavesTimer(t) ==
  /\ pc[t] = "check" /\ CanLock(t)
  /\ IF process # 0
     THEN /\ Goto(t, "run")
          /\ UNCHANGED <<state, mode, deadline>>
     ELSE /\ Goto(t, Return[Caller(t)])
          /\ state' = "DISCONNECTED" /\ mode' = "idle"
          /\ deadline' = NoDeadline
  /\ UNCHANGED <<app, op, life, net, config, autoFlag, autoStamp, timer, updates>>

\* The first critical section of Stop: with a process it only looks, without one it
\* settles the state at once and goes on to stop the timer.
StopCheck(t) ==
  /\ pc[t] = "check" /\ CanLock(t)
  /\ IF process # 0
     THEN /\ Goto(t, "run")
          /\ UNCHANGED <<state, mode, deadline>>
     ELSE /\ Goto(t, "tset")
          /\ state' = "DISCONNECTED" /\ mode' = "idle"
          /\ deadline' = NoDeadline
  /\ UNCHANGED <<app, op, life, net, config, autoFlag, autoStamp, timer, updates>>

\* CleanupTunNetworking: every recorded command is executed, its result ignored.
RunDeleteCommands(t) ==
  /\ Step(t, "run", "clear")
  /\ \E failed \in SUBSET (recorded \cap configured) :
       /\ configured' = configured \ (recorded \ failed)
       /\ stuck' = stuck \cup failed
  /\ UNCHANGED <<app, op, state, mode, life, recorded, config, auto, timer, updates>>

ClearDeleteCommands(t) ==
  /\ Step(t, "clear", "kill") /\ CanLock(t)
  /\ recorded' = {}
  /\ UNCHANGED <<app, op, state, mode, life, configured, stuck, config, auto, timer,
                 updates>>

\* TerminateProcess(process_->pi.hProcess, 0)
Terminate(t) ==
  /\ Step(t, "kill", "close")
  /\ process # 0
  /\ xray' = xray \ {process}
  /\ endedBy' = IF process \in xray THEN t ELSE endedBy
  /\ UNCHANGED <<app, op, state, mode, process, sessions, net, config, auto, timer,
                 updates>>

\* WaitForSingleObject and both CloseHandle calls, each through process_ again.
CloseHandles(t) ==
  /\ Step(t, "close", "reset")
  /\ process # 0
  /\ UNCHANGED <<app, op, state, mode, life, net, config, auto, timer, updates>>

\* Either of them when the other thread's process_.reset() came first: an access
\* violation ends the application.
NullProcess(t) ==
  /\ pc[t] \in {"kill", "close"}
  /\ process = 0
  /\ app' = "crashed"
  /\ UNCHANGED <<pc, op, state, mode, life, net, config, auto, timer, updates>>

ResetProcess(t) ==
  /\ Step(t, "reset", "unlink")
  /\ process' = 0
  /\ UNCHANGED <<app, op, state, mode, sessions, xray, endedBy, net, config, auto, timer,
                 updates>>

DeleteConfig(t) ==
  /\ Step(t, "unlink", "final")
  /\ config' = FALSE
  /\ UNCHANGED <<app, op, state, mode, life, net, auto, timer, updates>>

\* The last critical section of Stop; from_auto_disconnect is TRUE on the timer thread.
StopFinal(t) ==
  /\ Step(t, "final", "tset") /\ CanLock(t)
  /\ state' = "DISCONNECTED" /\ mode' = "idle"
  /\ deadline' = NoDeadline
  /\ autoFlag' = (autoFlag \/ t = TM)
  /\ autoStamp' = (autoStamp \/ t = TM)
  /\ UNCHANGED <<app, op, life, net, config, timer, updates>>

-----------------------------------------------------------------------------
(* StopAutoDisconnectTimer(), on either thread.                            *)

TimerStopSet(t) ==
  /\ Step(t, "tset", "tjoin") /\ CanLock(t)
  /\ stopTimer' = TRUE
  /\ UNCHANGED <<app, op, state, mode, life, net, config, auto, joinable, due, updates>>

\* Faulty variant: the timer thread joins itself.
TimerSelfJoin ==
  /\ Step(TM, "tjoin", "tjoin")
  /\ UNCHANGED <<app, op, state, mode, life, net, config, auto, timer, updates>>

\* The timer thread must not join itself: it returns and leaves stop_timer_ set.
TimerSelfReturn ==
  /\ Step(TM, "tjoin", "exit")
  /\ UNCHANGED <<app, op, state, mode, life, net, config, auto, timer, updates>>

\* Faulty variant: the thread is detached instead of joined.
TimerDetach ==
  /\ Step(UI, "tjoin", "tclear")
  /\ joinable' = FALSE
  /\ UNCHANGED <<app, op, state, mode, life, net, config, auto, stopTimer, due, updates>>

TimerJoin ==
  /\ Step(UI, "tjoin", "tclear")
  /\ joinable => pc[TM] = "off"
  /\ joinable' = FALSE
  /\ UNCHANGED <<app, op, state, mode, life, net, config, auto, stopTimer, due, updates>>

TimerStopClear ==
  /\ Step(UI, "tclear", Return[op])
  /\ op' = IF Return[op] = "idle" THEN "none" ELSE op
  /\ stopTimer' = FALSE
  /\ UNCHANGED <<app, state, mode, life, net, config, auto, joinable, due, updates>>

-----------------------------------------------------------------------------
(* Start(config, options), on the UI thread.                               *)

\* Faulty variant: Start does not stop the session before it.
CallStartWithoutStop ==
  /\ Call("start", "prepare")
  /\ UNCHANGED <<app, state, mode, life, net, config, auto, timer, updates>>

CallStart ==
  /\ Call("start", "check")
  /\ UNCHANGED <<app, state, mode, life, net, config, auto, timer, updates>>

\* Runtime discovery and validation, HasUsableOutbounds and BuildEffectiveConfig only
\* read; any of them can end the start.
Prepare ==
  /\ pc[UI] = "prepare"
  /\ \E to \in {"write", "fail"} : Goto(UI, to)
  /\ endedBy' = "none"
  /\ UNCHANGED <<app, op, state, mode, process, sessions, xray, net, config, auto, timer,
                 updates>>

\* WriteConfig: a write error can leave a truncated file, an open error leaves the disk.
WriteConfig ==
  /\ pc[UI] = "write"
  /\ \/ Goto(UI, "announce") /\ config' = TRUE
     \/ Goto(UI, "fail") /\ config' \in {config, TRUE}
  /\ UNCHANGED <<app, op, state, mode, life, net, auto, timer, updates>>

Announce ==
  /\ Step(UI, "announce", "create")
  /\ state' = "CONNECTING"
  /\ mode' \in {"tun", "proxy"}
  /\ UNCHANGED <<app, op, life, net, config, auto, timer, updates>>

\* CreateProcessA, then process_ = std::move(process).
CreateProcess ==
  /\ pc[UI] = "create"
  /\ \/ /\ sessions < MaxSessions
        /\ Goto(UI, IF mode = "tun" THEN "tun" ELSE "established")
        /\ sessions' = sessions + 1
        /\ process' = sessions + 1
        /\ xray' = xray \cup {sessions + 1}
        /\ UNCHANGED endedBy
     \/ Goto(UI, "fail") /\ UNCHANGED life
  /\ UNCHANGED <<app, op, state, mode, net, config, auto, timer, updates>>

\* Faulty variant: the delete commands are recorded only once everything succeeded.
ApplyTunNetworkingLateRecord ==
  /\ pc[UI] = "tun"
  /\ \/ Goto(UI, "established") /\ UNCHANGED op
        /\ recorded' = {"routes", "dns"} /\ configured' = configured \cup recorded'
     \/ Goto(UI, "check") /\ op' = "abort"
        /\ recorded' = {} /\ configured' \in {configured, configured \cup {"routes"}}
  /\ UNCHANGED <<app, state, mode, life, stuck, config, auto, timer, updates>>

\* Faulty variant: a networking failure is reported without another Stop().
ApplyTunNetworkingNoStop ==
  /\ pc[UI] = "tun"
  /\ \/ Goto(UI, "established") /\ recorded' = {"routes", "dns"}
     \/ Goto(UI, "fail") /\ recorded' \in {{}, {"routes"}}
  /\ configured' = configured \cup recorded'
  /\ UNCHANGED <<app, op, state, mode, life, stuck, config, auto, timer, updates>>

\* ApplyTunNetworking forgets what was recorded, waits for the adapter, adds routes and
\* sets DNS, recording each as it succeeds; on a failure Start calls Stop() again.
ApplyTunNetworking ==
  /\ pc[UI] = "tun"
  /\ \/ Goto(UI, "established") /\ recorded' = {"routes", "dns"} /\ UNCHANGED op
     \/ Goto(UI, "check") /\ op' = "abort" /\ recorded' \in {{}, {"routes"}}
  /\ configured' = configured \cup recorded'
  /\ UNCHANGED <<app, state, mode, life, stuck, config, auto, timer, updates>>

\* Faulty variant: the deadline is set and should_start_auto_disconnect_timer is not.
EstablishedUnarmed ==
  /\ pc[UI] = "established"
  /\ state' = "CONNECTED"
  /\ autoFlag' = FALSE /\ autoStamp' = FALSE
  /\ \E seconds \in AutoSeconds : deadline' = IF seconds > 0 THEN seconds ELSE NoDeadline
  /\ op' = "disarm"
  /\ Goto(UI, "tset")
  /\ UNCHANGED <<app, mode, life, net, config, timer, updates>>

Established ==
  /\ pc[UI] = "established"
  /\ state' = "CONNECTED"
  /\ autoFlag' = FALSE /\ autoStamp' = FALSE
  /\ \E seconds \in AutoSeconds :
       /\ deadline' = IF seconds > 0 THEN seconds ELSE NoDeadline
       /\ op' = IF seconds > 0 THEN "arm" ELSE "disarm"
  /\ Goto(UI, "tset")
  /\ UNCHANGED <<app, mode, life, net, config, timer, updates>>

\* StartAutoDisconnectTimer, once StopAutoDisconnectTimer has returned.
SpawnTimer ==
  /\ pc[UI] = "spawn"
  /\ pc' = [pc EXCEPT ![UI] = "idle", ![TM] = "loop"]
  /\ op' = "none"
  /\ stopTimer' = FALSE
  /\ joinable' = TRUE
  /\ UNCHANGED <<app, state, mode, life, net, config, auto, due, updates>>

\* The fail_start lambda.
FailStart ==
  /\ Step(UI, "fail", "idle")
  /\ op' = "none"
  /\ state' = "ERROR" /\ mode' = "idle"
  /\ deadline' = NoDeadline
  /\ autoFlag' = FALSE
  /\ UNCHANGED <<app, life, net, config, autoStamp, timer, updates>>

-----------------------------------------------------------------------------
(* The other calls of the UI thread.                                       *)

CallStop ==
  /\ Call("stop", "check")
  /\ UNCHANGED <<app, state, mode, life, net, config, auto, timer, updates>>

\* ~DesktopV2rayCore()
Shutdown ==
  /\ Call("shutdown", "check")
  /\ UNCHANGED <<app, state, mode, life, net, config, auto, timer, updates>>

\* Faulty variant: ERROR is announced while the exited process is still held.
PollExitEarlyError ==
  /\ process # 0 /\ state # "DISCONNECTED" /\ ~ProcessRunning
  /\ Call("poll", "check")
  /\ state' = "ERROR"
  /\ UNCHANGED <<app, mode, life, net, config, auto, timer, updates>>

\* PollProcessAndHandleExit, first critical section.  The status tick and two
\* diagnostics calls run it; when it does not find an exited process it only returns.
PollExit ==
  /\ process # 0 /\ state # "DISCONNECTED" /\ ~ProcessRunning
  /\ Call("poll", "check")
  /\ UNCHANGED <<app, state, mode, life, net, config, auto, timer, updates>>

\* PollProcessAndHandleExit, last critical section, after its Stop().
ReportExit ==
  /\ Step(UI, "report", "idle")
  /\ op' = "none"
  /\ state' = "ERROR" /\ mode' = "idle"
  /\ autoFlag' = FALSE /\ autoStamp' = FALSE
  /\ UNCHANGED <<app, life, net, config, deadline, timer, updates>>

\* Faulty variant: an update without an active deadline sets one.
UpdateSetsDeadline ==
  /\ pc[UI] = "idle"
  /\ updates < MaxUpdates
  /\ \E seconds \in Adjustments \cap (0 .. MaxDeadline) :
       deadline' = IF deadline = NoDeadline THEN seconds ELSE deadline
  /\ updates' = updates + 1
  /\ UNCHANGED <<app, pc, op, state, mode, life, net, config, autoFlag, autoStamp, timer>>

UpdateAutoDisconnectTime ==
  /\ pc[UI] = "idle"
  /\ deadline # NoDeadline
  /\ updates < MaxUpdates
  /\ \E seconds \in Adjustments :
       /\ deadline + seconds \in -MaxLate .. MaxDeadline
       /\ deadline' = deadline + seconds
  /\ updates' = updates + 1
  /\ UNCHANGED <<app, pc, op, state, mode, life, net, config, autoFlag, autoStamp, timer>>

\* Faulty variant: only the deadline is dropped, the thread keeps waiting.
CancelKeepsTimer ==
  /\ pc[UI] = "idle"
  /\ deadline' = NoDeadline
  /\ UNCHANGED <<app, pc, op, state, mode, life, net, config, autoFlag, autoStamp, timer,
                 updates>>

CancelAutoDisconnect ==
  /\ Call("cancel", "tset")
  /\ deadline' = NoDeadline
  /\ UNCHANGED <<app, state, mode, life, net, config, autoFlag, autoStamp, timer, updates>>

ClearAutoDisconnectFlag ==
  /\ pc[UI] = "idle"
  /\ autoFlag' = FALSE /\ autoStamp' = FALSE
  /\ UNCHANGED <<app, pc, op, state, mode, life, net, config, deadline, timer, updates>>

\* GetConnectedServerDelay holds mutex_ while MeasureTcpDelay connects.
BeginDelay ==
  /\ state = "CONNECTED"
  /\ Step(UI, "idle", "delay")
  /\ UNCHANGED <<app, op, state, mode, life, net, config, auto, timer, updates>>

EndDelay ==
  /\ Step(UI, "delay", "idle")
  /\ UNCHANGED <<app, op, state, mode, life, net, config, auto, timer, updates>>

\* requestPermission: a process that is not elevated starts itself again as administrator
\* and ends with exit(0), without a Stop().
RestartElevated ==
  /\ pc[UI] = "idle"
  /\ app' = "exited"
  /\ UNCHANGED <<pc, op, state, mode, life, net, config, auto, timer, updates>>

-----------------------------------------------------------------------------
(* The auto-disconnect thread: one iteration of its loop per action.       *)

TimerLoop ==
  /\ pc[TM] = "loop" /\ CanLock(TM)
  /\ Goto(TM, IF stopTimer THEN "off"
              ELSE IF deadline = NoDeadline THEN "waitAny" ELSE "waitDeadline")
  /\ UNCHANGED <<app, op, state, mode, life, net, config, auto, timer, updates>>

\* wait(lock, stop_timer_ || deadline) lets go of the mutex until one of them holds.
TimerWake ==
  /\ Step(TM, "waitAny", "loop") /\ CanLock(TM)
  /\ stopTimer \/ deadline # NoDeadline
  /\ UNCHANGED <<app, op, state, mode, life, net, config, auto, timer, updates>>

\* wait_until(lock, deadline, stop_timer_) returned TRUE.
TimerStopped ==
  /\ Step(TM, "waitDeadline", "off") /\ CanLock(TM)
  /\ stopTimer
  /\ UNCHANGED <<app, op, state, mode, life, net, config, auto, timer, updates>>

\* It timed out on a deadline that has been cancelled meanwhile: the loop turns again.
\* (On one that was only moved it waits again, at the same point.)
TimerStale ==
  /\ Step(TM, "waitDeadline", "loop") /\ CanLock(TM)
  /\ ~stopTimer /\ deadline = NoDeadline
  /\ UNCHANGED <<app, op, state, mode, life, net, config, auto, timer, updates>>

\* It timed out and the deadline has passed: unlock, then Stop(true).
Expire ==
  /\ Step(TM, "waitDeadline", "check") /\ CanLock(TM)
  /\ ~stopTimer /\ deadline # NoDeadline /\ deadline <= 0
  /\ due' = process
  /\ UNCHANGED <<app, op, state, mode, life, net, config, auto, stopTimer, joinable,
                 updates>>

TimerExit ==
  /\ Step(TM, "exit", "off") /\ CanLock(TM)
  /\ UNCHANGED <<app, op, state, mode, life, net, config, auto, timer, updates>>

-----------------------------------------------------------------------------
(* The environment, and the outcomes of what the code leaves undefined.    *)

\* steady_clock moves on; a deadline further in the past than MaxLate is not tracked.
Tick ==
  /\ deadline # NoDeadline
  /\ deadline > -MaxLate
  /\ deadline' = deadline - 1
  /\ UNCHANGED <<app, pc, op, state, mode, life, net, config, autoFlag, autoStamp, timer,
                 updates>>

\* xray exits by itself.
XrayExit ==
  /\ process \in xray
  /\ xray' = xray \ {process}
  /\ endedBy' = "exit"
  /\ UNCHANGED <<app, pc, op, state, mode, process, sessions, net, config, auto, timer,
                 updates>>

\* Two threads use, without a lock, a member that one of them destroys: the delete
\* commands while they are iterated, process_ while it is reset, or while the status
\* tick asks GetExitCodeProcess about it.
DataRace ==
  \/ \E t, u \in Threads :
       /\ t # u
       /\ \/ recorded # {} /\ pc[t] = "clear" /\ pc[u] \in {"run", "clear"}
          \/ process # 0 /\ pc[t] = "reset" /\ pc[u] \in {"kill", "close", "reset"}
  \/ process # 0 /\ pc[TM] = "reset" /\ pc[UI] = "idle"

DataRaceCrash ==
  /\ DataRace
  /\ app' = "crashed"
  /\ UNCHANGED <<pc, op, state, mode, life, net, config, auto, timer, updates>>

-----------------------------------------------------------------------------
Init ==
  /\ app = "running"
  /\ pc = [t \in Threads |-> IF t = UI THEN "idle" ELSE "off"]
  /\ op = "none"
  /\ state = "DISCONNECTED" /\ mode = "idle"
  /\ process = 0 /\ sessions = 0 /\ xray = {} /\ endedBy = "none"
  /\ recorded = {} /\ configured = {} /\ stuck = {}
  /\ config = FALSE
  /\ deadline = NoDeadline /\ autoFlag = FALSE /\ autoStamp = FALSE
  /\ stopTimer = FALSE /\ joinable = FALSE /\ due = 0
  /\ updates = 0

StopSteps(t) ==
  \/ StopCheck(t) \/ RunDeleteCommands(t) \/ ClearDeleteCommands(t) \/ Terminate(t)
  \/ CloseHandles(t) \/ NullProcess(t) \/ ResetProcess(t) \/ DeleteConfig(t)
  \/ StopFinal(t) \/ TimerStopSet(t)

\* The UI thread inside a call it has started.
UIStep ==
  \/ StopSteps(UI) \/ TimerJoin \/ TimerStopClear
  \/ Prepare \/ WriteConfig \/ Announce \/ CreateProcess \/ ApplyTunNetworking
  \/ Established \/ SpawnTimer \/ FailStart \/ ReportExit \/ EndDelay

TMStep ==
  \/ StopSteps(TM) \/ TimerSelfReturn
  \/ TimerLoop \/ TimerWake \/ TimerStopped \/ TimerStale \/ Expire \/ TimerExit

Request ==
  \/ CallStart \/ CallStop \/ Shutdown \/ PollExit \/ UpdateAutoDisconnectTime
  \/ CancelAutoDisconnect \/ ClearAutoDisconnectFlag \/ BeginDelay \/ RestartElevated

Next ==
  \/ Running /\ (UIStep \/ TMStep \/ Request \/ Tick \/ XrayExit \/ DataRaceCrash)
  \/ (~Running \/ pc[UI] = "gone") /\ UNCHANGED vars    \* the application has ended

Spec == Init /\ [][Next]_vars

\* The scheduler runs both threads; time passes; while somebody listens to the status
\* stream, the status thread posts a tick every second.  mutex_ is only ever held over
\* a bounded call, between which the UI thread returns to its message loop: the timer
\* thread gets it in the end.
Fairness ==
  /\ WF_vars(Running /\ UIStep)
  /\ SF_vars(Running /\ TMStep)
  /\ WF_vars(Running /\ Tick)
  /\ SF_vars(Running /\ PollExit)

FairSpec == Spec /\ Fairness

-----------------------------------------------------------------------------
(* Properties.                                                             *)

\* The state variables keep to their types, process_ to sessions that were created.
TypeOK ==
  /\ app \in {"running", "crashed", "exited"}
  /\ pc \in [Threads -> UIPoints \cup TMPoints]
  /\ pc[UI] \in UIPoints /\ pc[TM] \in TMPoints
  /\ op \in Ops
  /\ state \in {"DISCONNECTED", "CONNECTING", "CONNECTED", "ERROR"}
  /\ mode \in {"idle", "tun", "proxy"}
  /\ sessions \in Nat /\ process \in 0 .. sessions /\ xray \subseteq 1 .. sessions
  /\ endedBy \in {"none", "exit", UI, TM}
  /\ recorded \subseteq {"routes", "dns"}
  /\ configured \subseteq {"routes", "dns"} /\ stuck \subseteq {"routes", "dns"}
  /\ config \in BOOLEAN
  /\ deadline \in Int \cup {NoDeadline}
  /\ autoFlag \in BOOLEAN /\ autoStamp \in BOOLEAN
  /\ stopTimer \in BOOLEAN /\ joinable \in BOOLEAN /\ due \in 0 .. sessions
  /\ updates \in Nat

\* Whatever two threads tear down at once, no xray process runs that process_ does not
\* point to: none is orphaned by a stop, a failed start, an exit poll or the timer.
NoOrphan == xray \subseteq {process}

\* Once the process has been let go, nothing is left recorded, and what is still
\* configured in the OS is only what a delete command failed to remove.
NetworkRestored ==
  process = 0 => recorded = {} /\ configured \subseteq stuck

\* Between calls, a state other than CONNECTED means that everything of the session is
\* gone: the process, its deadline, its routes; and a start never leaves CONNECTING.
SettledMeansReleased ==
  (pc[UI] = "idle" /\ state # "CONNECTED")
    => process = 0 /\ deadline = NoDeadline /\ state # "CONNECTING"

\* The timer thread only ever tears down the session whose deadline it saw pass, never
\* one that was started meanwhile.
RightSession ==
  (pc[TM] \in {"check"} \cup Teardown /\ process # 0) => process = due

\* Between calls, a deadline always has a live thread that watches it or acts on it,
\* and has not been told to stop.
DeadlineWatched ==
  (pc[UI] \in {"idle", "delay"} /\ deadline # NoDeadline)
    => \/ pc[TM] \in {"loop", "waitDeadline"} /\ ~stopTimer
       \/ pc[TM] \in {"check"} \cup Teardown

\* Between calls, a connected session without a deadline (none asked for, or cancelled)
\* has no timer thread left that could end it.
CancelHolds ==
  (pc[UI] \in {"idle", "delay"} /\ state = "CONNECTED" /\ deadline = NoDeadline)
    => pc[TM] = "off"

\* When the destructor's Stop() returns, the std::thread member may be destroyed (it is
\* not joinable) and nothing of a session outlives the object.
ShutdownComplete ==
  pc[UI] = "gone"
    => ~joinable /\ pc[TM] = "off" /\ process = 0 /\ xray = {} /\ configured \subseteq stuck

\* BuildStatusPayload: the state an observer reads.
EffectiveState ==
  IF state = "DISCONNECTED" /\ autoFlag THEN "AUTO_DISCONNECTED" ELSE state

\* The process that is held, as the abstract session sees it.
HeldTunnel ==
  IF process = 0 THEN "none" ELSE IF ProcessRunning THEN "live" ELSE "dead"

Session == INSTANCE TunnelSession WITH status <- EffectiveState, tunnel <- HeldTunnel

\* The core is a tunnel session: every step of either thread is one the abstract
\* session allows, or invisible to it.
IsTunnelSession == Session!Spec

\* A call of the UI thread returns: the join in StopAutoDisconnectTimer, for which the
\* timer thread may first have to finish its own Stop(true), never blocks for ever.
CallsReturn ==
  (pc[UI] \notin {"idle", "gone"}) ~> (pc[UI] \in {"idle", "gone"} \/ ~Running)

\* A deadline, however often the app moved it, is reached or cancelled.
DeadlineReached ==
  (deadline # NoDeadline) ~> (deadline = NoDeadline \/ ~Running)

\* An xray process that exits by itself is noticed, although the app calls nothing.
ExitNoticed ==
  (state = "CONNECTED" /\ process \notin xray) ~> (state # "CONNECTED" \/ ~Running)

-----------------------------------------------------------------------------
(* The inductive invariant the theorems of DesktopCoreProofs rest on.      *)

\* The calls whose Stop() the UI thread can be in.
StopOps == {"stop", "start", "abort", "poll", "shutdown"}

\* Which call the UI thread is in, where it is in it.
OpInv ==
  /\ pc[UI] \in {"idle", "delay"} => op = "none"
  /\ pc[UI] \in {"check"} \cup Teardown => op \in StopOps
  /\ pc[UI] \in TimerStop => op # "none"
  /\ pc[UI] \in {"prepare", "write", "announce", "create", "tun", "established"}
       => op = "start"
  /\ pc[UI] = "spawn" => op = "arm"
  /\ pc[UI] = "fail" => op \in {"start", "abort"}
  /\ pc[UI] = "report" => op = "poll"
  /\ pc[UI] = "gone" => op = "shutdown"

\* No timer thread lives while the UI thread is past the join of a Stop().
JoinInv ==
  /\ pc[TM] # "off" => joinable
  /\ (pc[UI] \in {"tclear", "prepare", "write", "announce", "create", "tun",
                  "established", "spawn", "fail", "report", "gone"}
      \/ op \in {"abort", "arm", "disarm"})
       => ~joinable
  /\ pc[TM] # "tclear"

\* Where process_ is null, where it is not, and that it is let go only once exited.
ProcessInv ==
  /\ xray \subseteq {process}
  /\ \A t \in Threads :
       /\ pc[t] \in {"unlink", "final"} => process = 0
       /\ pc[t] \in {"close", "reset"} => process \notin xray
  /\ pc[TM] \in {"tset", "tjoin", "exit"} => process = 0
  /\ pc[UI] \in {"prepare", "write", "announce", "create", "fail", "report", "gone"}
       => process = 0
  /\ (pc[UI] \in TimerStop /\ op \in StopOps) => process = 0
  /\ pc[UI] \in {"tun", "established"} => process # 0

\* What the published state says about the process and the deadline.
StateInv ==
  /\ state \in {"DISCONNECTED", "ERROR"} => process = 0
  /\ deadline # NoDeadline => state = "CONNECTED"
  /\ pc[UI] \in {"create", "tun", "established"} => state = "CONNECTING"
  /\ state = "CONNECTING"
       => pc[UI] \in {"create", "tun", "established", "fail"} \/ op = "abort"
  /\ pc[UI] \in {"prepare", "write", "announce"} => state = "DISCONNECTED"
  /\ (pc[UI] \in TimerStop \cup {"report", "gone"} /\ op \in StopOps)
       => state = "DISCONNECTED"

\* Every change made to the OS is recorded, or a failed delete left it there.
NetInv ==
  /\ configured \subseteq recorded \cup stuck
  /\ process = 0 => recorded = {}
  /\ \A t \in Threads :
       /\ pc[t] = "clear" => configured \subseteq stuck
       /\ pc[t] \in {"kill", "close", "reset", "unlink", "final"} => recorded = {}

\* A deadline survives no call but the one that arms its timer.
DeadlineInv ==
  /\ (pc[UI] \in TimerStop \cup {"report", "gone"} /\ op # "arm") => deadline = NoDeadline
  /\ op = "arm" => deadline # NoDeadline

IInv ==
  /\ TypeOK /\ OpInv /\ JoinInv /\ ProcessInv /\ StateInv /\ NetInv /\ DeadlineInv
  /\ RightSession /\ DeadlineWatched /\ CancelHolds

-----------------------------------------------------------------------------
(* What the repository says, and the code does not do.                     *)

\* "`ERROR`: startup/runtime failure detected" (README.md:111): ERROR is not the state
\* of a session that the auto-disconnect timer ended.
ErrorMeansFailure ==
  state = "ERROR" => endedBy # TM

\* stop() "Stops the active connection" (lib/src/core/dart_v2ray_client.dart:80): when
\* Stop() goes through process_, the other thread has not reset it.
StopKeepsProcess ==
  \A t \in Threads : pc[t] \in {"kill", "close"} => process # 0
=============================================================================
