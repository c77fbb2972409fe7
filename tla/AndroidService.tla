---------------------------- MODULE AndroidService ----------------------------
(***************************************************************************)
(* The Android service process: XrayVPNService, whose commands and         *)
(* destruction run on the main thread, and the XrayCoreManager singleton   *)
(* it shares with the threads it spawns: one that monitors each xray       *)
(* process, one that monitors each tun2socks process and restarts it, one  *)
(* that hands the TUN descriptor over.  Nothing but main's message queue   *)
(* orders them: the fields are plain, and each thread reads them again     *)
(* after every wait.                                                       *)
(*                                                                         *)
(* A service object lives from its first Intent to onDestroy; the system   *)
(* may have a new one queue up behind the destruction of the old one.      *)
(***************************************************************************)
EXTENDS Integers, Sequences, FiniteSets

CONSTANTS
  None,         \* null
  MaxStarts,    \* bound: START_SERVICE Intents, and so xray processes
  MaxStops,     \* bound: STOP_SERVICE Intents and stopService calls of the app
  MaxUpdates,   \* bound: UPDATE_AUTO_DISCONNECT Intents
  MaxTuns,      \* bound: tun2socks processes
  MaxKills,     \* bound: times the system kills the service process
  Durations,    \* values of AUTO_DISCONNECT_DURATION, 0 for none
  Extra,        \* values of ADDITIONAL_SECONDS
  Faults        \* what may go wrong by itself, see FaultKinds

FaultKinds == {"exit",    \* an xray process exits
               "launch",  \* startCore throws
               "vpn",     \* no permission, establish() returns null, setupVpn throws
               "tunExit", \* a tun2socks process exits
               "tun",     \* tun2socks is missing or cannot be started
               "fd"}      \* the descriptor cannot be transferred

ASSUME ServiceAssumption ==
  /\ {MaxStarts, MaxStops, MaxUpdates, MaxTuns, MaxKills} \subseteq Nat
  /\ Durations \subseteq Nat /\ Extra \subseteq Int
  /\ Faults \subseteq FaultKinds

\* Service objects: an Intent, an expiry and a sticky restart can each create one.
Services  == 1 .. (MaxStarts + MaxStops + MaxUpdates + MaxStarts + MaxKills)

Main      == <<"main", 0>>
XrayMons  == {"xray"} \X (1 .. MaxStarts)
TunMons   == {"tun"} \X (1 .. MaxTuns)
FdSenders == {"fd"} \X (1 .. MaxTuns)
Threads   == {Main} \cup XrayMons \cup TunMons \cup FdSenders

\* The xray and tun2socks processes, each named as the thread that monitors it.
Processes == XrayMons \cup TunMons

\* The TUN interfaces, at most one for each start.
Interfaces == {"vpn"} \X (1 .. MaxStarts)

ASSUME NullAssumption == None \notin Processes \cup Interfaces

VARIABLES
  state,      \* AppConfigs.V2RAY_STATE
  core,       \* XrayCoreManager.xrayProcess
  begun,      \* calls of startCore so far
  timer,      \* countDownTimer is set and ticking
  remaining,  \* remainingAutoDisconnectSeconds
  auto,       \* autoDisconnectEnabled
  vpn,        \* per service: its open TUN interface
  running,    \* services with isRunning set
  tun,        \* per service: tun2socksProcess
  tunsMade,   \* tun2socks processes created so far
  alive,      \* child processes that run
  closed,     \* child processes that destroy() was called on
  pc,         \* per thread: where it is
  inst,       \* per thread: the service object it works for
  watch,      \* per monitor: the process it reads from or waits for; per sender: the interface
  job,        \* what the main thread is doing
  svc,        \* the service object the system has on record, 0 for none
  made,       \* service objects so far
  queue,      \* messages to the main thread
  asked,      \* per command: how often the app sent it; how often the process was killed
  heard       \* the state in the last broadcast, which the app gets in the order sent

coreVars    == <<state, core, begun>>
timerVars   == <<timer, remaining, auto>>
tunVars     == <<vpn, running, tun, tunsMade>>
threadVars  == <<pc, inst, watch, job>>
processVars == <<alive, closed>>
systemVars  == <<svc, made, queue, asked>>
vars == <<coreVars, timerVars, tunVars, threadVars, processVars, systemVars, heard>>

-----------------------------------------------------------------------------
(* Helpers.                                                                *)

Goto(t, to)       == pc' = [pc EXCEPT ![t] = to]
Step(t, from, to) == pc[t] = from /\ Goto(t, to)

\* broadcastConnectionStatus and sendTerminalBroadcast: the app sees the state in them.
Broadcast(s) == heard' = s

\* startService: the system creates a service object if none is on record.
StartService(command) ==
  /\ svc' = IF svc = 0 THEN made + 1 ELSE svc
  /\ made' = IF svc = 0 THEN made + 1 ELSE made
  /\ queue' = Append(queue, [cmd |-> command, to |-> svc'])

\* stopSelf() of a service object, stopService() of the one on record: whatever Intents
\* are still in the queue, the destruction lines up behind them.
Destroy(i, waiting) ==
  IF svc = i /\ svc # 0
  THEN svc' = 0 /\ queue' = Append(waiting, [cmd |-> "DESTROY", to |-> i])
  ELSE svc' = svc /\ queue' = waiting

\* The process field a monitor reads, each time anew.
Field(t) == IF t \in XrayMons THEN core ELSE tun[inst[t]]

\* markError
MarkError == state' = "ERROR"

-----------------------------------------------------------------------------
(* cleanup(), stopAll() and stopCore(), on any thread.                     *)

\* cleanup: destroy tun2socks and wait for it.  isRunning is still set.
KillTun(t) ==
  /\ Step(t, "kill", "close")
  /\ alive' = alive \ {tun[inst[t]]}
  /\ closed' = closed \cup ({tun[inst[t]]} \ {None})
  /\ UNCHANGED <<coreVars, timerVars, tunVars, inst, watch, job, systemVars, heard>>

\* cleanup: forget it, close the TUN interface, isRunning = false.  handleStartCommand
\* goes on to startCore, stopAll to stopCore.
CloseTun(t) ==
  /\ Step(t, "close", IF t = Main /\ job = "start" THEN "begin" ELSE "destroy")
  /\ tun' = [tun EXCEPT ![inst[t]] = None]
  /\ vpn' = [vpn EXCEPT ![inst[t]] = None]
  /\ running' = running \ {inst[t]}
  /\ UNCHANGED <<coreVars, timerVars, tunsMade, inst, watch, job, processVars,
                 systemVars, heard>>

\* stopCore: xrayProcess?.destroy()
DestroyCore(t) ==
  /\ Step(t, "destroy", "forget")
  /\ alive' = alive \ {core}
  /\ closed' = closed \cup ({core} \ {None})
  /\ UNCHANGED <<coreVars, timerVars, tunVars, inst, watch, job, systemVars, heard>>

ForgetCore(t) ==
  /\ Step(t, "forget", "settle")
  /\ core' = None
  /\ UNCHANGED <<state, begun, timerVars, tunVars, inst, watch, job, processVars,
                 systemVars, heard>>

\* The state stopCore settles in: AUTO_DISCONNECTED and ERROR are kept.
TerminalState == IF state \in {"AUTO_DISCONNECTED", "ERROR"} THEN state ELSE "DISCONNECTED"

\* Faulty variant: only an error is broadcast.
SettleSilent(t) ==
  /\ Step(t, "settle", IF t # Main THEN "off" ELSE IF job = "tunfail" THEN "up" ELSE "idle")
  /\ state' = TerminalState
  /\ timer' = FALSE /\ remaining' = -1 /\ auto' = FALSE
  /\ heard' = IF TerminalState = "ERROR" THEN "ERROR" ELSE heard
  /\ IF t \in XrayMons THEN UNCHANGED <<svc, queue>> ELSE Destroy(inst[t], queue)
  /\ job' = IF t = Main THEN "none" ELSE job
  /\ UNCHANGED <<core, begun, tunVars, inst, watch, processVars, made, asked>>

\* Faulty variant: the timer is left to run out.
SettleKeepsTimer(t) ==
  /\ Step(t, "settle", IF t # Main THEN "off" ELSE IF job = "tunfail" THEN "up" ELSE "idle")
  /\ state' = TerminalState
  /\ Broadcast(TerminalState)
  /\ IF t \in XrayMons THEN UNCHANGED <<svc, queue>> ELSE Destroy(inst[t], queue)
  /\ job' = IF t = Main THEN "none" ELSE job
  /\ UNCHANGED <<core, begun, timerVars, tunVars, inst, watch, processVars, made, asked>>

\* stopCore: terminal state, stopTimer and the terminal broadcast; stopAll: stopSelf.
Settle(t) ==
  /\ Step(t, "settle", IF t # Main THEN "off" ELSE IF job = "tunfail" THEN "up" ELSE "idle")
  /\ state' = TerminalState
  /\ timer' = FALSE /\ remaining' = -1 /\ auto' = FALSE
  /\ Broadcast(TerminalState)
  /\ IF t \in XrayMons THEN UNCHANGED <<svc, queue>> ELSE Destroy(inst[t], queue)
  /\ job' = IF t = Main THEN "none" ELSE job
  /\ UNCHANGED <<core, begun, tunVars, inst, watch, processVars, made,
                 asked>>

StopSteps(t) == KillTun(t) \/ CloseTun(t) \/ DestroyCore(t) \/ ForgetCore(t) \/ Settle(t)

-----------------------------------------------------------------------------
(* onStartCommand and onDestroy, on the main thread.                       *)

\* The next message, when the main thread is back in its loop.
Receive(command) ==
  /\ pc[Main] = "idle" /\ queue # <<>>
  /\ Head(queue).cmd = command
  /\ inst' = [inst EXCEPT ![Main] = Head(queue).to]

OnStart ==
  /\ Receive("START")
  /\ Goto(Main, "kill") /\ job' = "start"
  /\ queue' = Tail(queue)
  /\ UNCHANGED <<coreVars, timerVars, tunVars, watch, processVars, svc, made, asked, heard>>

\* Faulty variant: onDestroy only stops what is connected.
OnStopIfConnected ==
  /\ \E command \in {"STOP", "DESTROY"} : Receive(command)
  /\ IF state = "CONNECTED"
     THEN Goto(Main, "kill") /\ job' = "stop"
     ELSE UNCHANGED <<pc, job>>
  /\ queue' = Tail(queue)
  /\ UNCHANGED <<coreVars, timerVars, tunVars, watch, processVars, svc, made, asked, heard>>

\* STOP_SERVICE and onDestroy: stopAll.
OnStop ==
  /\ \E command \in {"STOP", "DESTROY"} : Receive(command)
  /\ Goto(Main, "kill") /\ job' = "stop"
  /\ queue' = Tail(queue)
  /\ UNCHANGED <<coreVars, timerVars, tunVars, watch, processVars, svc, made, asked,
                 heard>>

\* UPDATE_AUTO_DISCONNECT: seconds <= 0 are dropped, and so is an update without a
\* running countdown.
OnUpdate ==
  /\ Receive("UPDATE")
  /\ \E seconds \in Extra :
       remaining' = IF seconds > 0 /\ timer /\ auto /\ remaining >= 0
                    THEN remaining + seconds ELSE remaining
  /\ queue' = Tail(queue)
  /\ UNCHANGED <<coreVars, timer, auto, tunVars, pc, watch, job, processVars,
                 svc, made, asked, heard>>

\* Faulty variant: the null Intent is refused, the service stays.
OnRestartKeepsService ==
  /\ Receive("RESTART")
  /\ queue' = Tail(queue)
  /\ UNCHANGED <<coreVars, timerVars, tunVars, pc, watch, job, processVars, svc, made, asked,
                 heard>>

\* The null Intent of a sticky restart: stopSelf().
OnRestart ==
  /\ Receive("RESTART")
  /\ Destroy(Head(queue).to, Tail(queue))
  /\ UNCHANGED <<coreVars, timerVars, tunVars, pc, watch, job, processVars, made,
                 asked, heard>>

\* startCore: CONNECTING, announced at once.
BeginCore ==
  /\ Step(Main, "begin", "launch")
  /\ state' = "CONNECTING"
  /\ begun' = begun + 1
  /\ Broadcast("CONNECTING")
  /\ UNCHANGED <<core, timerVars, tunVars, inst, watch, job, processVars, systemVars>>

\* startCore: the xray process and the thread that monitors it.  In PROXY_ONLY mode there
\* is no TUN interface to set up.
Launch ==
  LET x == <<"xray", begun>> IN
  \E proxyOnly \in BOOLEAN :
  /\ pc[Main] = "launch"
  /\ core' = x
  /\ alive' = alive \cup {x}
  /\ pc' = [pc EXCEPT ![Main] = IF proxyOnly THEN "up" ELSE "vpn", ![x] = "new"]
  /\ inst' = [inst EXCEPT ![x] = inst[Main]]
  /\ running' = IF proxyOnly THEN running \cup {inst[Main]} ELSE running
  /\ UNCHANGED <<state, begun, timerVars, vpn, tun, tunsMade, watch, job, closed,
                 systemVars, heard>>

\* Faulty variant: the error is marked, and nothing stopped.
StartFailsMarked ==
  /\ \/ pc[Main] = "launch" /\ "launch" \in Faults
     \/ pc[Main] = "vpn" /\ "vpn" \in Faults
  /\ MarkError
  /\ Goto(Main, "idle")
  /\ UNCHANGED <<core, begun, timerVars, tunVars, inst, watch, job, processVars, systemVars,
                 heard>>

\* startCore threw; setupVpn got no permission, no interface, or an exception.
StartFails ==
  /\ \/ pc[Main] = "launch" /\ "launch" \in Faults
     \/ pc[Main] = "vpn" /\ "vpn" \in Faults
  /\ MarkError
  /\ Goto(Main, "kill") /\ job' = "fail"
  /\ UNCHANGED <<core, begun, timerVars, tunVars, inst, watch, processVars, systemVars,
                 heard>>

EstablishVpn ==
  /\ Step(Main, "vpn", "tun")
  /\ vpn' = [vpn EXCEPT ![inst[Main]] = <<"vpn", begun>>]
  /\ running' = running \cup {inst[Main]}
  /\ UNCHANGED <<coreVars, timerVars, tun, tunsMade, inst, watch, job, processVars,
                 systemVars, heard>>

RunsTun2socks(t) ==
  \/ t = Main /\ pc[t] = "tun"
  \/ t \in TunMons /\ pc[t] = "restart"

\* runTun2socks, from setupVpn and from the monitor that restarts it: the process, the
\* thread that monitors it and, with a TUN interface, the thread that sends the descriptor.
StartTun(t) ==
  LET j == tunsMade + 1 IN
  /\ RunsTun2socks(t)
  /\ tunsMade < MaxTuns
  /\ tunsMade' = j
  /\ tun' = [tun EXCEPT ![inst[t]] = <<"tun", j>>]
  /\ alive' = alive \cup {<<"tun", j>>}
  /\ pc' = [pc EXCEPT ![t] = IF t = Main THEN "up" ELSE "off",
                      ![<<"tun", j>>] = "new",
                      ![<<"fd", j>>] = IF vpn[inst[t]] # None THEN "send" ELSE "off"]
  /\ inst' = [inst EXCEPT ![<<"tun", j>>] = inst[t], ![<<"fd", j>>] = inst[t]]
  /\ watch' = [watch EXCEPT ![<<"fd", j>>] = vpn[inst[t]]]
  /\ UNCHANGED <<coreVars, timerVars, vpn, running, job, closed, systemVars,
                 heard>>

\* It fails: stopAll, and a normal return.
TunFails(t) ==
  /\ RunsTun2socks(t)
  /\ "tun" \in Faults
  /\ MarkError
  /\ Goto(t, "kill")
  /\ job' = IF t = Main THEN "tunfail" ELSE job
  /\ UNCHANGED <<core, begun, timerVars, tunVars, inst, watch, processVars, systemVars,
                 heard>>

\* onVpnEstablished and startTimer.
Established ==
  /\ Step(Main, "up", "idle")
  /\ state' = "CONNECTED"
  /\ Broadcast("CONNECTED")
  /\ timer' = TRUE
  /\ \E duration \in Durations :
       /\ auto' = (duration > 0)
       /\ remaining' = IF duration > 0 THEN duration ELSE -1
  /\ job' = "none"
  /\ UNCHANGED <<core, begun, tunVars, inst, watch, processVars,
                 systemVars>>

-----------------------------------------------------------------------------
(* CountDownTimer.onTick, on the main thread.                              *)

Counting == auto /\ remaining > 0

\* Faulty variant: it ticks without counting down.
TimerTickStuck ==
  /\ pc[Main] = "idle" /\ timer
  /\ ~(Counting /\ remaining = 1)
  /\ UNCHANGED remaining
  /\ Broadcast(state)
  /\ UNCHANGED <<coreVars, timer, auto, tunVars, threadVars, processVars, systemVars>>

TimerTick ==
  /\ pc[Main] = "idle" /\ timer
  /\ ~(Counting /\ remaining = 1)
  /\ remaining' = IF Counting THEN remaining - 1 ELSE remaining
  /\ Broadcast(state)
  /\ UNCHANGED <<coreVars, timer, auto, tunVars, threadVars, processVars, systemVars>>

\* handleAutoDisconnectExpiry: the broadcast, and a STOP_SERVICE to itself.
Expire ==
  /\ pc[Main] = "idle" /\ timer
  /\ Counting /\ remaining = 1
  /\ remaining' = 0 /\ auto' = FALSE
  /\ Broadcast("AUTO_DISCONNECTED")
  /\ StartService("STOP")
  /\ UNCHANGED <<coreVars, timer, tunVars, threadVars, processVars, asked>>

-----------------------------------------------------------------------------
(* The monitor threads.                                                    *)

\* The thread runs: it reads from the process the field holds now, if any.
MonitorBegin(t) ==
  /\ Step(t, "new", IF Field(t) = None THEN "join" ELSE "read")
  /\ watch' = [watch EXCEPT ![t] = Field(t)]
  /\ UNCHANGED <<coreVars, timerVars, tunVars, inst, job, processVars, systemVars,
                 heard>>

\* Faulty variant: a process that closes its output is taken for one that has exited.
MonitorEofSkipsWait(t) ==
  /\ Step(t, "read", IF t \in TunMons /\ inst[t] \in running THEN "restart" ELSE "join")
  /\ watch' = [watch EXCEPT ![t] = Field(t)]
  /\ UNCHANGED <<coreVars, timerVars, tunVars, inst, job, processVars, systemVars, heard>>

\* End of its output: wait for the process the field holds now.
MonitorEof(t) ==
  /\ Step(t, "read", "join")
  /\ watch[t] \notin alive
  /\ watch' = [watch EXCEPT ![t] = Field(t)]
  /\ UNCHANGED <<coreVars, timerVars, tunVars, inst, job, processVars, systemVars,
                 heard>>

\* destroy() closed the stream under the reader: an exception ends the thread.
MonitorInterrupted(t) ==
  /\ Step(t, "read", "off")
  /\ watch[t] \in closed
  /\ UNCHANGED <<coreVars, timerVars, tunVars, inst, watch, job, processVars,
                 systemVars, heard>>

\* Faulty variant: an exit counts only once the session is up.
XrayExitedLate(t) ==
  /\ t \in XrayMons /\ pc[t] = "join" /\ watch[t] \notin alive
  /\ Goto(t, IF state = "CONNECTED" THEN "mark" ELSE "off")
  /\ UNCHANGED <<coreVars, timerVars, tunVars, inst, watch, job, processVars,
                 systemVars, heard>>

\* waitFor returned.  xray: is the state an active one?
XrayExited(t) ==
  /\ t \in XrayMons /\ pc[t] = "join" /\ watch[t] \notin alive
  /\ Goto(t, IF state \in {"CONNECTED", "CONNECTING"} THEN "mark" ELSE "off")
  /\ UNCHANGED <<coreVars, timerVars, tunVars, inst, watch, job, processVars,
                 systemVars, heard>>

\* Faulty variant: the error is marked, and stopCore left to somebody else.
XrayMarksOnly(t) ==
  /\ Step(t, "mark", "off")
  /\ MarkError
  /\ UNCHANGED <<core, begun, timerVars, tunVars, inst, watch, job, processVars, systemVars,
                 heard>>

\* Then it is an error now, and stopCore runs on this thread.
XrayMarks(t) ==
  /\ Step(t, "mark", "destroy")
  /\ MarkError
  /\ UNCHANGED <<core, begun, timerVars, tunVars, inst, watch, job, processVars,
                 systemVars, heard>>

\* tun2socks: if isRunning, sleep and start it again, without another look.
TunExited(t) ==
  /\ t \in TunMons /\ pc[t] = "join" /\ watch[t] \notin alive
  /\ Goto(t, IF inst[t] \in running THEN "restart" ELSE "off")
  /\ UNCHANGED <<coreVars, timerVars, tunVars, inst, watch, job, processVars,
                 systemVars, heard>>

\* sendFd: a tun2socks that listens takes the open descriptor; otherwise, after the last
\* retry, stopAll.
FdSent(t) ==
  /\ Step(t, "send", "off")
  /\ vpn[inst[t]] = watch[t] /\ alive \cap TunMons # {}
  /\ UNCHANGED <<coreVars, timerVars, tunVars, inst, watch, job, processVars,
                 systemVars, heard>>

FdFails(t) ==
  /\ Step(t, "send", "kill")
  /\ "fd" \in Faults \/ vpn[inst[t]] # watch[t] \/ alive \cap TunMons = {}
  /\ MarkError
  /\ UNCHANGED <<core, begun, timerVars, tunVars, inst, watch, job, processVars,
                 systemVars, heard>>

-----------------------------------------------------------------------------
(* The app, the system and the child processes.                            *)

Asks(command, bound) ==
  /\ asked[command] < bound
  /\ asked' = [asked EXCEPT ![command] = @ + 1]

\* startVless, stopVless (or the notification's button), updateAutoDisconnectTime.
AppSends(command, bound) ==
  /\ Asks(command, bound)
  /\ StartService(command)
  /\ UNCHANGED <<coreVars, timerVars, tunVars, threadVars, processVars, heard>>

\* stopVless when a background start is not allowed: stopService().
AppStopsService ==
  /\ Asks("STOP", MaxStops)
  /\ Destroy(svc, queue)
  /\ UNCHANGED <<coreVars, timerVars, tunVars, threadVars, processVars, made, heard>>

ChildExits ==
  /\ \E p \in alive :
       /\ IF p \in XrayMons THEN "exit" \in Faults ELSE "tunExit" \in Faults
       /\ alive' = alive \ {p}
  /\ UNCHANGED <<coreVars, timerVars, tunVars, threadVars, closed, systemVars, heard>>

\* The system kills an idle process that serves: children, descriptors and statics are
\* gone, and the service, sticky, is created again with a null Intent.
KillProcess ==
  /\ pc[Main] = "idle" /\ queue = <<>> /\ svc # 0
  /\ Asks("KILL", MaxKills)
  /\ state' = "DISCONNECTED" /\ core' = None
  /\ timer' = FALSE /\ remaining' = -1 /\ auto' = FALSE
  /\ vpn' = [i \in Services |-> None] /\ running' = {} /\ tun' = [i \in Services |-> None]
  /\ alive' = {} /\ closed' = {}
  /\ pc' = [t \in Threads |-> IF t = Main THEN "idle" ELSE "off"]
  /\ made' = made + 1 /\ svc' = made + 1
  /\ queue' = <<[cmd |-> "RESTART", to |-> svc']>>
  /\ UNCHANGED <<begun, tunsMade, inst, watch, job, heard>>

-----------------------------------------------------------------------------
Init ==
  /\ state = "DISCONNECTED" /\ core = None /\ begun = 0
  /\ timer = FALSE /\ remaining = -1 /\ auto = FALSE
  /\ vpn = [i \in Services |-> None] /\ running = {} /\ tun = [i \in Services |-> None] /\ tunsMade = 0
  /\ alive = {} /\ closed = {}
  /\ pc = [t \in Threads |-> IF t = Main THEN "idle" ELSE "off"]
  /\ inst = [t \in Threads |-> 1]
  /\ watch = [t \in Threads \ {Main} |-> None]
  /\ job = "none"
  /\ svc = 0 /\ made = 0 /\ queue = <<>>
  /\ asked = [c \in {"START", "STOP", "UPDATE", "KILL"} |-> 0]
  /\ heard = "DISCONNECTED"

MainStep ==
  \/ OnStart \/ OnStop \/ OnUpdate \/ OnRestart
  \/ BeginCore \/ Launch \/ StartFails \/ EstablishVpn \/ StartTun(Main) \/ TunFails(Main)
  \/ Established \/ StopSteps(Main)

Ticking == TimerTick \/ Expire

MonitorStep(t) ==
  \/ MonitorBegin(t) \/ MonitorEof(t) \/ MonitorInterrupted(t)
  \/ XrayExited(t) \/ XrayMarks(t) \/ TunExited(t) \/ StopSteps(t)
  \/ StartTun(t) \/ TunFails(t)

SenderStep(t) == FdSent(t) \/ FdFails(t) \/ StopSteps(t)

AppStep ==
  \/ AppSends("START", MaxStarts)
  \/ AppSends("STOP", MaxStops)
  \/ AppSends("UPDATE", MaxUpdates)
  \/ AppStopsService

Next ==
  \/ MainStep
  \/ Ticking
  \/ \E t \in XrayMons \cup TunMons : MonitorStep(t)
  \/ \E t \in FdSenders : SenderStep(t)
  \/ ChildExits
  \/ KillProcess
  \/ AppStep

Spec == Init /\ [][Next]_vars

\* The main thread handles its messages, and ticks when none waits; the other threads, the
\* app and the system owe nothing.
Fairness ==
  /\ WF_vars(MainStep)
  /\ WF_vars(Ticking)

FairSpec == Spec /\ Fairness

-----------------------------------------------------------------------------
(* Properties.                                                             *)

States == {"DISCONNECTED", "CONNECTING", "CONNECTED", "AUTO_DISCONNECTED", "ERROR"}
Points == {"off", "idle", "kill", "close", "destroy", "forget", "settle", "begin", "launch",
           "vpn", "tun", "up", "new", "read", "join", "mark", "restart",
           "send"}

Messages == [cmd : {"START", "STOP", "UPDATE", "RESTART", "DESTROY"}, to : Services]

\* The variables keep to their types.
TypeOK ==
  /\ state \in States /\ heard \in States
  /\ core \in XrayMons \cup {None} /\ begun \in 0 .. MaxStarts
  /\ timer \in BOOLEAN /\ auto \in BOOLEAN /\ remaining \in Nat \cup {-1}
  /\ vpn \in [Services -> Interfaces \cup {None}] /\ running \subseteq Services
  /\ tun \in [Services -> TunMons \cup {None}] /\ tunsMade \in 0 .. MaxTuns
  /\ alive \subseteq Processes /\ closed \subseteq Processes
  /\ pc \in [Threads -> Points] /\ inst \in [Threads -> Services \cup {1}]
  /\ watch \in [Threads \ {Main} -> Processes \cup Interfaces \cup {None}]
  /\ job \in {"none", "start", "stop", "fail", "tunfail"}
  /\ svc \in Services \cup {0} /\ made \in Services \cup {0}
  /\ queue \in Seq(Messages)
  /\ asked \in [{"START", "STOP", "UPDATE", "KILL"} -> Nat]

Stopping(t) == pc[t] \in {"kill", "close", "destroy", "forget", "settle"}

\* No thread is in the middle of anything, no message waits.
Quiet ==
  /\ pc[Main] = "idle" /\ queue = <<>>
  /\ \A t \in Threads : ~Stopping(t)

\* The monitors read the process from the field, each time they need it: still, until the
\* core is started again, the xray process on record always has one that watches it, about
\* to, or acting on its exit.
CoreWatched ==
  core # None /\ begun <= 1 =>
    \/ \E t \in XrayMons :
         \/ pc[t] \in {"new", "mark"}
         \/ pc[t] \in {"read", "join"} /\ watch[t] = core
    \/ \E t \in Threads : Stopping(t)

\* A TUN interface never outlives its service object: the object is on record, its
\* destruction is queued, or being done.
TunnelOwned ==
  \A i \in Services : vpn[i] # None =>
    \/ svc = i
    \/ \E n \in DOMAIN queue : queue[n] = [cmd |-> "DESTROY", to |-> i]
    \/ inst[Main] = i /\ pc[Main] \in {"kill", "close"}

\* Between activities the app has last heard what the state is.
AppInformed == Quiet => heard = state

\* A countdown is one of a session that has come up and has not been stopped since, it
\* ticks, and it has not slipped past the tick that ends the session.
CountdownInSession ==
  Quiet /\ auto => state = "CONNECTED" /\ timer /\ remaining > 0

\* The monitor restarts tun2socks in place of the one that exited, never beside it: two
\* would take turns to accept the descriptor.
OneTun2socks == begun <= 1 => Cardinality(alive \cap TunMons) <= 1

\* What the repository says, and the code does not do.

\* Only after the VPN interface is set up "do we notify XrayCoreManager to mark connection
\* as active" (XrayVPNService.kt:168); "`CONNECTED`: session active" (README.md:108).
ConnectedHasCore == Quiet /\ state = "CONNECTED" => core # None

\* stopAll "Stops all components: tun2socks, VPN interface, and XRay Core."
\* (XrayVPNService.kt:458): once no service is left and no thread runs, no tun2socks does.
AllStopped == Quiet /\ svc = 0 /\ \A t \in Threads : pc[t] \in {"idle", "off"}

Tun2socksStopped == AllStopped => alive \cap TunMons = {}

\* "`AUTO_DISCONNECTED`: session ended by auto-disconnect timer" (README.md:110): once told
\* so, the app is told nothing else until a new session starts.
ExpiryKept == [][heard = "AUTO_DISCONNECTED" => heard' \in {heard, "CONNECTING"}]_heard

Terminal == {"DISCONNECTED", "AUTO_DISCONNECTED", "ERROR"}

\* A stop is answered: with a STOP_SERVICE under way the app hears of a terminal state,
\* whatever it interrupts.
StopAnswered ==
  (heard \notin Terminal /\ \E n \in DOMAIN queue : queue[n].cmd = "STOP") ~> heard \in Terminal

\* No attempt to connect is left hanging, whatever fails and on whichever thread.
ConnectingEnds == heard = "CONNECTING" ~> heard # "CONNECTING"

\* A countdown comes to its end, however often it is extended.
CountdownEnds == Counting ~> ~Counting

\* When the system killed the process under a session the app saw connected, the sticky
\* restart tells it that the session is over.
DeathReported == (heard = "CONNECTED" /\ state = "DISCONNECTED") ~> heard # "CONNECTED"
=============================================================================
