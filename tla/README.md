# TLA+ verification of dart_v2ray

dart_v2ray is a Flutter plugin that starts, watches and ends a VPN or proxy
session served by an external `xray` process. The same contract (a method
channel with `startVless`, `stopVless`, the auto-disconnect calls, and one
status stream) is implemented several times: in C++ for Windows, in Kotlin for
Android, in Swift for iOS and macOS, with Dart on the caller's side. This
directory models the parts of it where several actors change one session, and the
edits of text and routes a session depends on. TLC checks the models on small
instances; TLAPS proves theorems about each of them for every value of its
constants.

Contents: 1 inventory, 2 modules and how they correspond to the code, 3 runs,
4 bounds, 5 fairness, 6 proofs, 7 what the models leave out, 8 plan.

`tlc -config <cfg> <MC module>` runs a check, `tlapm <module>Proofs.tla` a proof.

## 1. Inventory

| Part | Source | State | Operations |
| --- | --- | --- | --- |
| Desktop core | `shared/desktop_v2ray_core.{h,cc}` | `process_`, `state_`, `transport_mode_`, the deadline and its thread, `stop_timer_`, the recorded delete commands, traffic samples | `Start`, `Stop`, `PollProcessAndHandleExit`, the auto-disconnect calls, `BuildStatusPayload`, diagnostics |
| Windows plugin | `windows/dart_v2ray_plugin.cpp` | status sink, status thread, last published payload | method calls, `onListen`/`onCancel`, `PublishStatus` |
| Android core manager | `android/.../XrayCoreManager.kt` | xray process, state, timer, countdown, traffic samples (in the service's process) | `startCore`, `stopCore`, monitor thread, timer, expiry |
| Android VPN service | `android/.../XrayVPNService.kt` | TUN descriptor, tun2socks process, `isRunning` | `onStartCommand`, `setupVpn`, tun2socks monitor, `sendFd`, `stopAll` |
| Android plugin | `android/.../DartV2rayPlugin.kt` | pending start result, its monitor, pending permission result, status sink (in the app's process) | `startVless`, `stopVless`, permission, broadcasts |
| Configuration edits | `shared/desktop_v2ray_core.cc`, 272-982 | none | `BuildEffectiveConfig`: insert the TUN inbound, the DNS servers and a routing rule into the app's JSON text |
| TUN networking | `shared/desktop_v2ray_core.cc`, 2061-2330 | recorded delete commands, DNS setting, interface indices, the system's routing table | `ApplyTunNetworking`, `CleanupTunNetworking` |
| Apple plugins | `ios/Classes`, `macos/Classes` | `isStarting`, timer, totals, `lastStatus`, the manager and its subscriptions, the extension's expiry timestamp | start, stop, `NEVPNStatusDidChange`, one-second timer, auto-disconnect |
| Dart client | `lib/src/core`, `lib/src/platform`, `lib/src/models` | subscription, latest status, fallback timer | start/stop listener, event parsing, `resolveState`, fallback mapping |
| Share links | `lib/src/share_links` | none | parsing of `vless://`, `vmess://`, ... |

How they interact. Dart calls the native plugin over the method channel and
listens on the event channel. On Windows the plugin owns the core object; every
call and every status tick (a window message that a status thread posts each
second) runs on the platform thread, while the core's auto-disconnect thread
calls `Stop(true)` by itself. On Android the plugin sends Intents to a service
in a process of its own, which answers with broadcasts; in that process the main
thread, a monitor per xray process, a monitor per tun2socks process and a thread
per descriptor transfer share plain fields. On Apple the plugin drives
`NETunnelProviderManager` and is called back with status changes.

What is hard, and what makes each part correct:

- *Desktop core*: two threads tear one session down, without the session's
  mutex over most of it. Correct means: no xray process is lost, what was
  configured is undone, a timer ends only the session whose deadline it saw
  pass, a cancel is final, a deadline is reached, the join never blocks.
- *Traffic figures*: three counters of two widths that wrap, fail and are read
  at any time. Correct means: what is added up is what was counted, and a
  session's figures do not go back.
- *Windows plugin*: the platform thread joins a thread that talks to it, and
  holds payloads back. Correct means: a call's outcome is told before it
  returns, suppressed news is told later, a cancel returns and leaves no thread.
- *Android service*: messages for an earlier service object, a service process
  that is killed, monitors that read shared fields anew after each wait. Correct
  means: a core that is held is watched, no TUN interface outlives its service
  object, the app hears the state it ends in, attempts and countdowns end.
- *Configuration edits*: the text is searched, not parsed. Correct means: what xray
  gets is the app's document with the intended changes.
- *TUN networking*: a dozen commands, each of which may fail, on a table that is not
  the program's own. Correct means: what a session made is undone, what it found is
  still there, and the server's own traffic stays out of the tunnel.
- *Android plugin*: broadcasts from another process, a timeout, a stop and an
  activity that comes and goes. Correct means: a start is answered once, in time,
  and on no stale news; a listener gets to hear of a session that stays up.
- *Apple plugins*: status changes, a timer whose ticks await the extension, and a
  reload that drops its subscriptions. Correct means: a listener knows what state
  the tunnel is in.
- *Dart client*: a controller whose calls await, polls that outlast a stop, and one
  handler per channel. Correct means: a stop is silent, polls do not pile up, and
  the status shown catches up with the state there is.

`PROJECT.json` lists the hazards one by one, each at the line where it bites
with the properties that would catch it.

## 2. Modules and their correspondence to the code

| Module | Models | Proofs |
| --- | --- | --- |
| `TunnelSession` | what any tunnel session promises its observer (abstract) | refined by `DesktopCore` |
| `DesktopCore` | both threads of `DesktopV2rayCore` | `DesktopCoreProofs` |
| `TrafficCounters` | the traffic figures of `BuildStatusPayload` | `TrafficProofs` |
| `StatusPipeline` | the plugin's status stream over a core; extends `TrafficCounters` | `StatusProofs` |
| `EffectiveConfig` | `BuildEffectiveConfig` and its helpers, next to what they are meant to do to a document (operators only) | model-checked in `TunNetworking`; the edits of any text in `TunProofs` |
| `TunNetworking` | a start from the method call to the routes, and its undoing; extends `EffectiveConfig` | `TunProofs` |
| `AndroidService` | `XrayVPNService` and `XrayCoreManager` (the service's process) | `AndroidServiceProofs` |
| `AndroidStart` | `DartV2rayPlugin.kt` (the app's process) over a service that may broadcast anything | `AndroidStartProofs` |
| `ApplePlugin` | `DartV2rayPlugin.swift` and `PacketTunnelManager.swift` of iOS and macOS | `AppleProofs` |
| `PersistentStatus` | the Dart controller, the event channel and the Windows fallback poll | `PersistentProofs` |
| `MC...` | the small instances of each | |

Definitions whose comment begins with "Faulty variant" are plausible mistakes in
the action that follows them. No specification uses them; replacing the action
by its variant makes TLC report the property that guards against it.

### TunnelSession

Two variables: the canonical state an observer reads, and whether a process is
held and runs. It says that a process is launched only while CONNECTING and
when none is held, that CONNECTED is announced only while one is held, that
only an exited process is let go, and that a terminal state is announced only
once nothing is held.

### DesktopCore

`pc["UI"]` is the Flutter platform thread inside a call, `pc["TM"]` the
auto-disconnect thread; `op` is the call the UI thread is in, which decides
where a shared routine returns to. One action is one critical section of
`mutex_`, or one piece of work without it. `Stop` is ten actions on either
thread: a first critical section (`StopCheck`), the delete commands, their
list, `TerminateProcess`, the handles, `process_.reset()`, the configuration
file, the last critical section, and `StopAutoDisconnectTimer` (set the flag,
join, clear the flag), from which the timer thread returns early because it
cannot join itself. A start is `CallStart`, a whole `Stop`, `Prepare`
(discovery, validation, configuration: reads that may fail), `WriteConfig`,
`Announce`, `CreateProcess`, `ApplyTunNetworking`, `Established` and
`SpawnTimer`; a networking failure runs another `Stop` (`op = "abort"`).

- `mutex_` is held over a long call in one place only, `GetConnectedServerDelay`
  (`pc[UI] = "delay"`); everywhere else a critical section is one action.
- `process` is `process_` as the number of the session it points to, `xray` the
  set of sessions whose process runs. A delete command may fail; what it leaves
  behind is `stuck`.
- `deadline` is counted in ticks from now. The timer thread may notice a passed
  deadline late, so that one moved closer while the thread sleeps until the old
  one is covered, too.
- A thread that goes through `process_` after the other one reset it crashes
  the application (`NullProcess`); two threads in one unlocked member may crash
  it or not (`DataRaceCrash`). The other properties therefore talk of what the
  code does when a race happens to go well.
- `due` and `endedBy` are history variables of the properties.

### TrafficCounters

The variables of the core that decide about the figures, and for each source
(TUN interface, process, interface below) its counter and the core's sample of
it. `BuildStatusPayload` is one action, because one thread runs it; it may fail
to read any source in `Failing`. `Delta` is the difference of two readings with
the code's treatment of a counter that went back, `Taken` the sample afterwards,
`Selected` the choice of the source shown, `Phase` the connection phase.
`Connect`, `Settle`, `Cleanup`, `Exit` and `Release` are what a driver of the
core may do to it: they are the actions `StatusPipeline` composes. One figure
stands for the pair upload/download. Which reason goes along with the source
(`traffic_reason`, the source's name in wording) is left out.

### StatusPipeline

Three threads: the platform thread `ui` (idle, poll, build, send, or joining),
the status thread (`thread`), the auto-disconnect thread (`tm`). A call of the
app changes the core in one step and then polls, builds and sends, the order of
`HandleMethodCall` and `PublishStatus`; `Stop(true)` on the auto-disconnect
thread keeps four steps, since a status tick may fall between any two of them.
(That the core's own steps, taken apart, keep their promises is `DesktopCore`'s
matter.) A deadline may pass at any time during a session.

`ticks` is the number of status messages in the window's queue; `PostMessage`
drops one that does not fit. `last` is both `last_status_payload_` and the last
event the listener got: the code assigns them together. The duration is part of
what is compared; `sameSecond` says whether it is the one last sent.
The intervals are counted in units of time. The window handle the messages go
to is taken as present.

### AndroidService

Each thread has a program counter, the service object it works for (`inst`) and,
for monitors, the process it last read from its field (`watch`). The actions
follow the places where another thread can come between: `cleanup` is "destroy
and wait" and then "forget, close, not running"; `stopCore` is "destroy",
"forget", "settle, stop the timer and broadcast". `stopAll` on any thread runs
all five. A monitor reads its field on entry, again at the end of the output
for `waitFor`, and checks the state (xray) or `isRunning` (tun2socks) after
that. Intents, the destruction of a service object and the sticky restart are
messages of one queue; `StartService` creates an object when none is on record,
`Destroy` queues the destruction behind whatever waits. `KillProcess` forgets
all of the process's memory and children. The Android system (queue, object
creation, kill) is modelled from how the code uses it.

### EffectiveConfig

A text is a sequence of tokens: the punctuation of JSON, and strings as a whole.
That keeps what the code's searches depend on: `find` of a quoted word finds the
first such token, key or value alike, and `find` of a bracket looks into strings,
for which two strings with a lone bracket stand. White space is left out; only the
look for an inbound that is there already depends on it. Each C++ helper is an
operator on such a sequence. Beside it stands the reference: documents as lists
of members, their `Text`, and `Intended`, the edits as one would make them on
the document.

### TunNetworking

`pc` is where `Start` is: built, launched, waiting for the adapter, excluding
server addresses one at a time, address, default route, bypass subnets, DNS, up,
and the three parts of `Stop`. Each step is one command, or the loop body that
issues it, and may fail where the code looks at a result. The routing table is a
set of routes <network, prefix, gateway> on addresses of `Width` bits;
`add_or_change_route` adds a route or, where there is one to the same network,
changes its gateway; both record the same delete command. The adapter comes
and goes with the xray process and takes its routes along. `origin`, `taken`,
`stuck`, `excluded` and `bypassed` are history variables of the properties.
`DesktopCore` has the same procedure as one step among two threads.

### AndroidStart

The main thread of the app's process: one action per method call, broadcast,
timeout and lifecycle callback. The service takes Intents in order and may
broadcast any state at any time or none at all, so that what holds here holds
whatever `AndroidService` does. `news` are the broadcasts under way, each with
the receivers registered when it was sent; one that is unregistered meanwhile
gets nothing. What `XrayCoreManager` and `AppConfigs` keep in this process is a
copy the service never writes: the snapshot for a new listener is always
DISCONNECTED. `fresh` and `cancelled` are history variables.

### PersistentStatus

`start()` is one step, `stop()` and `dispose()` two (before and after the await of
the cancel), a poll two. The channel has one handler (`handler`), which every
stream takes over when it is listened to and removes when it is cancelled, and
keeps one event (`buffer`) while there is none: that is how Flutter's
EventChannel and ChannelBuffers act on the two streams `onStatusChanged` makes.
Calls to the native side and messages from it are queues; the native side
answers a listen with an event and a diagnostics call with the same payload, or
with a failure. A status is its state, whether the process runs, and one figure.
`resolveState`, the parser and the fallback mapper are operators.

### ApplePlugin

Everything on the main queue is one action per turn; a change of the tunnel takes
two turns to reach the plugin (the notification, then `objectWillChange`), which
reads the state there is by then. The tasks of `PacketTunnelManager`
(`saveToPreferences`, `reload`) run beside the queue, a step per await. `flight`
counts timer ticks that have read CONNECTED and await the extension. `spoiled` is
a history variable: it becomes TRUE at the four places after which the listener
may have been told wrong, and FALSE when the plugin looks again. The model is
written along the iOS files; the macOS ones differ in imports and layout.

## 3. Runs and what they show

Passing:

| Run | Distinct states | Shows |
| --- | --- | --- |
| `desktop_session` | 206 000 | With two sessions and both threads in every interleaving: no orphaned process, networking restored, a settled state means that everything is released, the timer ends only its own session, a deadline has its thread, a cancel is final, a shutdown is complete; the core refines `TunnelSession`; calls return, deadlines are reached, an exited process is noticed. The inductive invariant of the proofs holds. |
| `windows_figures` | 87 000 | With counters just below their wrap, readings at any time and any reading failing: totals are exact, a session's figures are steady. |
| `windows_stream` | 378 000 | With a listener over two sessions: outcomes are told on return, suppressed news is told later, a listener never falls silent, a cancel returns and leaves no thread; the core behind the stream follows `TrafficCounters`. |
| `android_session` | 5 165 000 | Two starts and a stop in any order with every fault (an old object's destruction meets a new session), or one session with a restart of tun2socks: the core is watched, no interface outlives its object, never two tun2socks at once, the app hears the state, a countdown belongs to a session that is up. |
| `android_liveness` | 711 000 | A stop is answered, an attempt ends, a countdown (extended or not) ends, a session whose process was killed is reported. |
| `tun_start` | 233 000 | For every document, option and outcome of every command: the edited text is the intended document (unless a searched word stands elsewhere before), no excluded server is routed into its own tunnel, and what a session made is undone. |
| `android_start` | 844 000 | Two starts, a stop, two permission dialogs and a changing activity against a service that broadcasts anything: every start and permission call is answered once, a start in time and on no stale news, a listener gets to hear. |
| `persistent_follow` | 501 000 | Two streams of the controller and one of the app: a stop that has returned is silent on both sides, polls do not pile up, the status shown catches up. |
| `apple_status` | 7 995 000 | Two calls, a listener, three changes of the tunnel, a tick in flight, every fault: but for the four named ways to go wrong, the listener knows the tunnel's state. |

Violations: what a document or comment says, refuted by what the code does. Each
is a finding in `PROJECT.json`.

| Run | What happens |
| --- | --- |
| `desktop_crash` | `stop()` overlaps the timer's `Stop(true)`: both pass the check of `process_`, one resets it, the other goes through the null pointer. |
| `android_connected` | xray exits while the main thread sets the TUN interface up. Its monitor stops everything; then `onVpnEstablished` announces CONNECTED with no core left. |
| `apple_tick` | A timer tick reads CONNECTED and awaits the extension; the session ends, DISCONNECTED is told and the timer stopped; the tick returns and tells CONNECTED, which nothing corrects. |

Further statements of the repository are refuted in the same way. Each is a formula
at the end of its module, quoting the line it comes from; checking it as an
invariant or property of the instance named shows a counterexample. For several of them,
and for the first two runs above, a theorem says that this is the only way (section 6).

| Module | Formula | Instance | What happens |
| --- | --- | --- | --- |
| `DesktopCore` | `ErrorMeansFailure` | `DesktopCore_crash.cfg` | A status tick during the timer's `Stop(true)` finds the process that was just terminated, takes it for an exit and reports ERROR for a session the timer ended. |
| `TrafficCounters` | `TotalsNeverDrop` | `TrafficCounters_figures.cfg` | The total shown comes from the process until the TUN interface has counted a byte, and then from the interface: it drops within one session. |
| `AndroidService` | `Tun2socksStopped` | `AndroidService_session.cfg` | `cleanup()` terminates tun2socks with `isRunning` still set; the monitor starts it again, and nothing terminates the new one. |
| `AndroidService` | `ExpiryKept` | `AndroidService_session.cfg` | After AUTO_DISCONNECTED is broadcast, stopping the service broadcasts DISCONNECTED. |
| `AndroidStart` | `CancelHolds` | `AndroidStart_calls.cfg` | `cancelAutoDisconnect` clears the fields of the app's process; the countdown runs on in the service's. |
| `TunNetworking` | `TagErrorMeansNoTag` | `TunNetworking_start.cfg`, `Documents <- MCShareLinks` | The package's own share-link configuration, started with `dns_servers`: the new inbound's "dns" is taken for the root's, the edit swallows "outbounds", and the start fails for want of a tagged outbound. |
| `TunNetworking` | `BypassAvoidsTunnel` | `TunNetworking_start.cfg` | On Windows the routes made for `bypass_subnets` lead to the gateway of the TUN interface. |
| `PersistentStatus` | `ListensAsAsked` | `PersistentStatus_follow.cfg` | A subscription of the app's own takes the one handler of the channel; and a start() during the await of a stop() is lost. |

Two things the models show along the way. A second Android
start without a stop in between leaves the first xray process to nobody
(`cleanup()` does not touch the core), which is why `CoreWatched` and `OneTun2socks`
talk of the first start and of the process on record. And a descriptor
transfer that outlasts a stop and a new start stops the new session (`FdFails`).

## 4. Bounds

Every bound is a constant named in a guard, and a violation needs few actors:

- `DesktopCore`: `MaxSessions = 2`, because the worst a late timer can do is to
  end the *next* session; deadlines of 0 (none), 1 and 2 ticks, one update by -1
  or +2 with `MaxDeadline = 3` (an extension beyond, and one into the past), and
  `MaxLate = 1` (a deadline that has passed and is seen later). The two
  violations need one session.
- `TrafficCounters`: `Window = 3` with marks 0 and 2, so that a counter wraps on
  its first or second movement and can lap between two readings; movements by 1
  or 2, three of them; one session, since everything is forgotten between two.
  `TrafficProofs` lifts the bounds.
- `StatusPipeline`: the intervals keep the code's order (a tick no longer than
  the minimum interval, the heartbeat longer), a queue with room for one
  message, so that posts are dropped; two sessions, so that there is a change
  from one to the other, one listener and one movement of traffic, which takes a
  session from READY to ACTIVE. `StatusProofs` lifts the bounds for the safety
  part.
- `AndroidService`: `android_session` takes every fault, two starts, a stop, two
  tun2socks processes (one restart) and countdowns of two ticks. All at once are
  out of reach, so `MCHalves`, a constraint on the states explored, splits it in
  two: with a tun2socks process there is one start and no countdown, and without
  one (its start blocks or fails) there is everything else. `android_liveness`
  takes one start, one update of +1 or -1 (dropped), one kill and one tun2socks
  process, without a constraint. `AndroidServiceProofs` lifts the bounds and the
  split for the safety part.
- `TunNetworking`: addresses of 3 bits, a server behind the default route and one
  with two addresses, one of them on the local network; two tables, one with a
  route of the user's to the server; 5 lists of outbounds, any of the other
  sections in any order, two lists of resolvers, the old and new mode options, and
  bypass lists that cover a server, name it, or cover everything. Sessions follow
  one another until the table has changed for good. `TunProofs` lifts the bounds.
- `AndroidStart`: two starts (one that is BUSY or comes after the other), one stop,
  two broadcasts under way (one from before a start and one after), two dialogs,
  two changes of the activity; ERROR stands for the terminal states besides
  AUTO_DISCONNECTED, which the plugin treats alike. `AndroidStartProofs` lifts the
  bounds for the safety part.
- `PersistentStatus`: two streams of the controller, one stop or dispose, one
  subscription of the app, one message on its way to Dart, one failing poll, three
  statuses (idle, and connected with two figures). `PersistentProofs` lifts the
  bounds for the safety part.
- `ApplePlugin`: two calls, three changes of the tunnel (up, down, and one more),
  one listener, one tick in flight; `apple_tick` needs no call. `AppleProofs` lifts
  the bounds.

Deadlock is checked in the Windows, Apple, `AndroidStart` and Dart runs (an
application that has ended, and a routing table that has changed for good, stutter
explicitly). The `AndroidService` runs switch it off: once the
bounds on the app's requests are used up, an idle service has nothing more to do.

## 5. Fairness

- `DesktopCore`: weak fairness of the UI thread inside a call, strong fairness of
  the timer thread (it needs a mutex that the UI thread takes again and again,
  but always for a bounded time, and returns to its message loop in between),
  weak fairness of time, and strong fairness of the poll: the status thread posts
  a tick every second to the same queue the calls come through. `ExitNoticed` so
  holds while somebody listens to the status stream; nothing in the code notices
  an exit otherwise.
- `StatusPipeline`: strong fairness of `HandleTick`, for the same reason; weak
  fairness of the three threads and of time. Nothing is assumed of the app, the
  traffic or the xray process.
- `AndroidService`: weak fairness of the main thread and its timer. Nothing is
  assumed of the monitors, the senders, the app or the children: what ends, ends
  by the main thread alone.
- `AndroidStart`: weak fairness of the start's timeout and of broadcast delivery
  (the Looper of the app's main thread) and of the service's tick, which a
  connected session repeats every second. `StartAnswered` rests on the timeout alone.
- `PersistentStatus`: weak fairness of Dart's queue and of the poll timer, strong
  fairness of the native side's queue (the bound on messages disables it again and
  again; the code has no such bound), and weak fairness of "six seconds pass or an
  event comes". Nothing is assumed of status events: `CatchesUp` holds by the
  polls alone, on Windows.

## 6. Proofs

`DesktopCoreProofs` (1423 obligations). `IInv` is inductive:
`OpInv` says which call a program point belongs to; `JoinInv` that no timer
thread lives while the UI thread is past the join; `ProcessInv` where `process_`
is null and that only an exited process is reset; `StateInv` what a state says
about the process and the deadline; `NetInv` that every change is recorded or
stuck; `DeadlineInv` that a deadline survives no call but the one that arms it.
`NoOrphan` or `RightSession` alone are not inductive: whether the timer thread
still tears down the right session depends on the UI thread never being past its
join while that thread lives. From `IInv` follow `TypeOK` and seven safety
properties, and with it each step of either thread is shown to be a step of
`TunnelSession` or to leave its two variables alone (`Refinement`). Assumption:
`DesktopAssumption`.

Two more theorems delimit the crash that `desktop_crash` shows. `CrashNeedsOverlap`:
a behaviour in which two `Stop`s are never between their critical sections at the
same time, and no status tick comes while the timer thread resets `process_`,
satisfies `StopKeepsProcess` and never crashes; the invariant is that a `Stop` that has
seen a process still has it (`Undisturbed`). `NoTimerNoCrash`: if the app never asks for
an auto-disconnect (`AutoSeconds \subseteq {0}`) there is no second thread to overlap
with, and nothing it does crashes. `ErrorNeedsPollInWindow` does the same for
`ErrorMeansFailure`, which is refuted, too: with the tick kept out of the window between
the timer's `TerminateProcess` and its `process_.reset()`, ERROR is never the state of a
session that the timer ended.

Liveness is out of the prover's reach, but what it rests on is not. `CallsShorten` ranks
the points of a call (`CallLeft`, at most 36): each step of the UI thread inside a call
lowers the rank and no other step raises it. `JoinEnds` does so for the one step that
waits: at a join the timer thread has been told to stop, has a step to take, and is at most
11 of its own from its end (`TimerLeft`). With the fairness of section 5, which the run
assumes, that is why `CallsReturn` holds.

`TrafficProofs` (798 obligations). `TrafficInv` is inductive: a source without a
sample has nothing from before (`UnsampledInv`); less than a window after the
last reading the counter stands at the last reading plus what moved, once
wrapped or not (`CounterInv`, the arithmetic the 32-bit treatment rests on); and
in a session that is up the last payload showed what its source has added up
(`PayloadInv`). From it follow `TotalsExact`, for counters of any width, and the
action property `FiguresSteady`. `DropsExplained` says what is left of
`TotalsNeverDrop`, which is refuted: the total of the payload drops only when its source
cannot be read, or when one that ranks before it begins to show traffic.
Assumption: `TrafficAssumption`.

`StatusProofs` (380 obligations). Every step of the stream is shown to be a step
of `TrafficNext` or to leave the figures alone (`PipelineFollowsTraffic`), so
that the theorems of `TrafficProofs` hold of the stream too
(`StreamFiguresExact`). `PipelineInv` says, for each position of the UI thread,
what it knows of the listener, the status thread and the last event; from it
follow `ToldOnReturn` and `ThreadJoined`. `CancelJoinEnds` is the safety part of
`CancelReturns`: while `onCancel` joins, the status thread has a step to take or some of
its sleep before it, each of which lowers a rank (`ThreadLeft`, at most
`TickInterval + 2`) that nothing else raises. Assumption: `PipelineAssumption`,
which says beyond number ranges that "no event" is not an event.

`TunProofs` (1183 obligations; assumption: `TunAssumption`). `UndoInv` says where every new or missing
route comes from at each point of a session: a new one leads to the tunnel, or has a
delete command on record or one that failed, and a missing one was taken over by a
change. `RoutesUndone` needs it because, between the first command and the last
delete, the table differs from the one before by exactly what is recorded.
`HostInv` says that an excluded address keeps a route of its own of full length
that leads elsewhere than the tunnel, whatever is routed after it, unless
`bypass_subnets` lists the address itself; since no route is more specific, `NoLoop`
follows. Both hold for any table, documents, options and width. `ProxyInv` follows a
session without TUN mode: it leaves the routes alone up to its end
(`ProxyLeavesRoutesHolds`).

The rest of `TunProofs` is about the text edits of `EffectiveConfig`, for texts of any
length over any tokens that include the words the edits write. `MatchingBracketIsTheLoop`:
the model counts brackets where the code counts a depth up and down, and both find the same
place, or none; and from an opening bracket to that place the depth stays positive, so
that what an edit inserts there is inside of the array or object. `EditsKeepText`: an
accepted text still has the app's tokens, all of them and in order (`Kept`), but for one
stretch that `InjectDnsServers` replaces, from the first "dns" to the brace that closes the
next one. So no edit can lose an outbound except in that stretch, which is where the
refuted `TagErrorMeansNoTag` loses them. Both rest on induction over the natural numbers.
The library states this for an operator, which the provers cannot instantiate; `LeastNat`
takes it from the well-foundedness of `<` as a relation instead: a set of naturals has a
least element.

`AppleProofs` (131 obligations; assumption: `AppleAssumption`, of which the proof
needs nothing). `KnowsInv` adds to `ListenerKnows` that `lastStatus`, which a tick
tells again, is as good as what was told last, with a listener or without one.

`AndroidServiceProofs` (3245 obligations; assumptions: `ServiceAssumption`, ranges
of the bounds, and `NullAssumption`, that "none" is neither a process nor an
interface). `ServiceInv` is inductive. Its parts, and what each is needed for:

- `OwnInv` is `TunnelOwned` with what makes it inductive: a service object that
  anything is queued for, or that the main thread brings a session up for, is on
  record or has its destruction queued *behind* that. So whoever sets an interface
  up is destroyed afterwards.
- `CoreInv` says who looks after the first xray process on record: a monitor that
  has it in hand or has yet to read the field, or a thread that is in a `stopAll`.
  A thread that forgets the process may pull it from under another's `stopAll`;
  that is why a thread at "settle" must know that nothing is on record.
- `TunInv` says of the first session that only the tun2socks process made last may
  run or have a monitor that might start another, and that this monitor goes on only
  after it saw that process end, or once `isRunning` is off.
- `CountdownInv` and `HeardInv` extend `CountdownInSession` and `AppInformed` from the
  moments of rest to every state: away from CONNECTED a countdown has a stop or a
  start under way; what the app has not heard is still to come from a thread that
  stops, or from a queued stop, destruction or restart.
- `FirstInv` (nothing runs before the first start), `FreshInv` (a thread is started
  once), `WorkInv` (a thread works for an object there was) and `BoundsInv` (a START
  Intent is counted once, on its way, handled or begun; every service object has a
  cause) carry the others over the creation of objects and threads; `BoundsInv` is
  also why the numbers of the model never run out before the app's requests do.

From it follow six theorems: `TypeOK` and the five safety properties of
`android_session`. `OneTun2socks` and `CoreWatched` speak of the first
start only (section 3 says why).

Two more delimit what TLC refutes. `CoreLostInOverlap`: `ConnectedHasCore` holds in every
behaviour in which no other thread forgets the xray process while the main thread brings
up the session it was started for (`Overlap`); `UpInv` says that a session without a core
is otherwise about to be stopped. `GoneServiceIsClean`: with no service object left and
all threads at rest there is no interface, no xray process on record, no timer, no
countdown and no session, whatever ended it; a tun2socks may be left (`Tun2socksStopped`).
`GoneInv` says that each of these is there only while somebody will stop it.

`AndroidStartProofs` (532 obligations; assumption: `StartAssumption`). `AnswersInv`
says that, while there is an engine to answer, a call has an answer exactly if it is
neither pending nor yet to be made,
`GrantInv` that the permission call on record is the last that asked, has a dialog
on screen and no answer, and `NewsInv` that a CONNECTED on its way to the monitor
is from after the pending call, since a monitor is registered only with its call
and what is sent goes to those registered by then. `OneAnswer` and the action
property `SuccessIsFresh` follow.

`PersistentProofs` (833 obligations; assumption: `StatusAssumption`).
`ControllerInv` says, as long as no call came while a `stop()` waited, which
subscription is open and who is behind the handler; `SinkInv` that the last listen
or cancel on its way, or else the native side, agrees with the handler, which is
what `StoppedIsSilent` needs once the queue is empty. `PollsInv` counts the polls
under way as calls and answers in two queues, and says that without the flag every
one of them was left behind by a stop; `PollsBounded` follows. `StartListens` delimits
`ListensAsAsked`: it holds unless a call came while a `stop()` waited, or the app has a
subscription of its own; TLC refutes it with either.

Only model-checked:

- the liveness properties, because the prover does not treat fairness and ENABLED:
  `CallsReturn` and `CancelReturns` (whose safety part is proved, see above),
  `DeadlineReached`, `ExitNoticed`, `NewsTold`, `KeepsHearing`, `StopAnswered`,
  `ConnectingEnds`, `CountdownEnds`, `DeathReported`, `StartAnswered`, `ListenerHears`
  and `CatchesUp`;
- `EditsExact`, which compares the text search with the same edits on a document: it needs
  an induction over the fold that writes a document out, and rules for each section. TLC
  takes every document of section 4; what is proved of the edits holds of every text.

Where a definition had a `CASE` with guards that overlap, TLA+ leaves open which arm is
taken, while the code, and TLC, take the first. Such definitions are chains of IF, and the
proofs hold of that.

Every other property of a passing run is a theorem. The inductive invariant of
`DesktopCore` is also an invariant of `desktop_session`. TLC evaluates each
assumption in the runs of its module.

## 7. Not modelled, or left out

- Runtime discovery: the search order of `DiscoverRuntimePaths` and the version call
  (pure lookups); what `ValidateRuntime` makes of their outcomes is in
  `TunNetworking`. Share links, the configuration validator, the bug report and log
  texts: string processing without state.
- In `DesktopCore`: which routes are added and how (`TunNetworking` has it),
  the Linux branches of the shared core (the repository holds no Linux plugin),
  `MeasureTcpDelay` without the mutex.
- In `EffectiveConfig`: white space in the JSON text, escapes in strings, and
  texts that are not JSON.
- In `TunNetworking`: a second session in parallel (the method calls exclude it) and
  other programs that change the routing table during one.
- In `StatusPipeline`: calls that change nothing the stream shows
  (`initializeVless`, delays, log options); the restart of the application in
  `requestPermission` is in `DesktopCore`.
- In `AndroidService`: notifications, traffic sampling, and the expiry's timestamp in
  SharedPreferences. A START_SERVICE without a configuration
  is not modelled: the app always sends one.
- In `AndroidStart`: the delay and version calls on the executor, icon settings, the
  expiry timestamp.
- Android route exclusion (`Utilities.kt`): a pure computation of prefixes.
- In `ApplePlugin`: the traffic figures (a late tick's totals can reach the next
  session), delays, the messages that change the extension's countdown, a second
  `initializeVless`, a profile removed in the system's settings, overlapping
  permission calls, and the race on `cancellables` between two reloads. The network
  extension is the app's own and not in the repository.
- In `PersistentStatus`: the broadcast stream to the controller's listeners (every
  status emitted is also `latestStatus`), and the fields of a status besides the three.
- The example application and the generated registrants.

## 8. Plan

What is left is `RouteExclusion`: the prefixes outside the bypassed subnets on
Android, as recursive functions against the definition by sets of addresses.
