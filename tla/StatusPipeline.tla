---------------------------- MODULE StatusPipeline ----------------------------
(***************************************************************************)
(* The status stream of the Windows plugin (windows/dart_v2ray_plugin.cpp): *)
(* while somebody listens, a status thread posts a message a second to the *)
(* application's window; the platform thread (UI) answers each with        *)
(* PublishStatus, which polls the xray process, builds a payload and sends *)
(* it to the listener, or suppresses it.  startVless and stopVless publish *)
(* as well.  The session below is DesktopCore's, with a call of the UI     *)
(* thread in one step; the steps of the auto-disconnect thread (TM), which *)
(* a status tick can fall between, are kept apart.                         *)
(***************************************************************************)
EXTENDS TrafficCounters

CONSTANTS
  None,          \* no event yet
  TickInterval,  \* kStatusTickIntervalMs, in units of time
  MinInterval,   \* kConnectedStatusMinInterval
  Heartbeat,     \* kStatusHeartbeatInterval
  MaxListens,    \* bound: listeners in a behaviour
  MaxTicks       \* messages a window's queue has room for

\* What the events of the stream look like.
Payloads == [state : {"DISCONNECTED", "AUTO_DISCONNECTED", "CONNECTED", "ERROR"},
             mode : {"idle", "tun", "proxy"}, running : BOOLEAN,
             source : Sources \cup {"none"}, total : Nat,
             phase : {"DISCONNECTED", "AUTO_DISCONNECTED", "ERROR", "VERIFYING", "READY", "ACTIVE"}]

ASSUME PipelineAssumption ==
  /\ {TickInterval, MinInterval, Heartbeat, MaxListens, MaxTicks} \subseteq Nat
  /\ MinInterval <= Heartbeat /\ MaxTicks > 0 /\ None \notin Payloads

VARIABLES
  ui,       \* where the UI thread is
  job,      \* what it builds a payload for: "publish", "debug" or "none"
  tm,       \* where the auto-disconnect thread is in its Stop(true)
  thread,   \* where the status thread is
  wake,     \* how long it still sleeps
  enabled,  \* status_thread_running_
  ticks,    \* kStatusTickMessage messages in the window's queue
  sink,     \* the number of the listener that status_sink_ leads to, 0 for none
  listens,  \* listeners so far
  last,     \* last_status_payload_, the last event the listener got, or None without
            \* has_published_status_
  age,      \* time since last_status_published_at_, up to Heartbeat
  settler   \* history: what brought the state about: a call, an exit or TM

pipe     == <<ui, job, tm, thread, wake, enabled, ticks, sink, listens, last, age, settler>>
sender   == <<thread, wake, enabled, ticks, sink, listens>>
receiver == <<last, age>>
vars     == <<trafficVars, pipe>>

-----------------------------------------------------------------------------
(* Calls of the app, on the UI thread.                                     *)

\* A Stop() joins the auto-disconnect thread, which first ends its own.
StopCore(s, by) ==
  /\ Settle(s, s = "DISCONNECTED" /\ (autoFlag \/ tm # "off"))
  /\ tm' = "off"
  /\ settler' = by

Publishing(what) == ui' = "poll" /\ job' = what

\* startVless: Stop(), then a session or an error; both are published.
StartVless ==
  /\ ui = "idle"
  /\ Publishing("publish")
  /\ \/ \E m \in Modes :
          Connect(m) /\ tm' = "off" /\ settler' = "call"
     \/ StopCore("ERROR", "call")
  /\ UNCHANGED <<sender, receiver>>

\* Faulty variant: the result is left to the next tick.
StopVlessUnpublished ==
  /\ ui = "idle"
  /\ StopCore("DISCONNECTED", "call")
  /\ UNCHANGED <<ui, job, sender, receiver>>

StopVless ==
  /\ ui = "idle"
  /\ Publishing("publish")
  /\ StopCore("DISCONNECTED", "call")
  /\ UNCHANGED <<sender, receiver>>

\* getWindowsTrafficSource polls and builds a payload of its own; getDesktopDebugLogs polls.
GetDiagnostics ==
  /\ ui = "idle"
  /\ Publishing("debug")
  /\ UNCHANGED <<trafficVars, tm, sender, receiver, settler>>

\* onListen: the new sink, StartStatusThread and its first PublishStatus.  The engine
\* cancels a stream before it listens again.
OnListen ==
  /\ ui = "idle" /\ sink = 0 /\ listens < MaxListens
  /\ sink' = listens + 1 /\ listens' = listens + 1
  /\ enabled' = TRUE /\ thread' = "loop"
  /\ last' = None /\ age' = 0
  /\ Publishing("publish")
  /\ UNCHANGED <<trafficVars, tm, wake, ticks, settler>>

\* Faulty variant: the thread is told to stop, and not waited for.
OnCancelUnjoined ==
  /\ ui = "idle" /\ sink # 0
  /\ sink' = 0 /\ enabled' = FALSE
  /\ last' = None /\ age' = 0
  /\ UNCHANGED <<trafficVars, ui, job, tm, thread, wake, ticks, listens, settler>>

\* onCancel: no sink; StopStatusThread tells the thread to stop and joins it.
OnCancel ==
  /\ ui = "idle" /\ sink # 0
  /\ sink' = 0 /\ enabled' = FALSE
  /\ ui' = "join"
  /\ UNCHANGED <<trafficVars, job, tm, thread, wake, ticks, listens, receiver, settler>>

StatusThreadJoined ==
  /\ ui = "join" /\ thread = "off"
  /\ ui' = "idle"
  /\ last' = None /\ age' = 0
  /\ UNCHANGED <<trafficVars, job, tm, sender, settler>>

-----------------------------------------------------------------------------
(* PublishStatus, on the UI thread.                                        *)

\* HandleTopLevelWindowProc: a message that arrives after the stream was cancelled is
\* left alone.
HandleTick ==
  /\ ui = "idle" /\ ticks > 0
  /\ ticks' = ticks - 1
  /\ IF enabled THEN Publishing("publish") ELSE UNCHANGED <<ui, job>>
  /\ UNCHANGED <<trafficVars, tm, thread, wake, enabled, sink, listens, receiver, settler>>

\* PollProcessAndHandleExit
Poll ==
  /\ ui = "poll"
  /\ \/ ui' = "build" /\ UNCHANGED job
     \/ job = "debug" /\ ui' = "idle" /\ job' = "none"
  /\ IF held /\ ~running /\ state # "DISCONNECTED"
     THEN StopCore("ERROR", "exit")
     ELSE UNCHANGED <<trafficVars, tm, settler>>
  /\ UNCHANGED <<sender, receiver>>

Build ==
  /\ ui = "build"
  /\ BuildStatusPayload
  /\ IF job = "publish" THEN ui' = "send" /\ UNCHANGED job
                        ELSE ui' = "idle" /\ job' = "none"
  /\ UNCHANGED <<tm, sender, receiver, settler>>

\* Faulty variant: a connected session is told once.
SuppressedOnceConnected(same) ==
  /\ last # None
  /\ payload.state = last.state
  /\ payload.state = "CONNECTED" \/ (same /\ age < Heartbeat)

\* Faulty variant: no heartbeat.
SuppressedSame(same) ==
  /\ last # None
  /\ payload.state = last.state
  /\ \/ payload.state = "CONNECTED" /\ age < MinInterval
     \/ same

\* A payload in the state last told is suppressed when it is CONNECTED and too early, or
\* the same as the last one and no heartbeat due.
Suppressed(same) ==
  /\ last # None
  /\ payload.state = last.state
  /\ \/ payload.state = "CONNECTED" /\ age < MinInterval
     \/ same /\ age < Heartbeat

\* The duration is in the payload too, and moves on only while CONNECTED.
Send ==
  /\ ui = "send"
  /\ ui' = "idle" /\ job' = "none"
  /\ \E sameSecond \in BOOLEAN :
       /\ payload.state # "CONNECTED" => sameSecond
       /\ IF sink = 0 \/ Suppressed(payload = last /\ sameSecond)
          THEN UNCHANGED receiver
          ELSE last' = payload /\ age' = 0
  /\ UNCHANGED <<trafficVars, tm, sender, settler>>

-----------------------------------------------------------------------------
(* The status thread.                                                      *)

ThreadLoop ==
  /\ thread = "loop"
  /\ IF enabled THEN thread' = "sleep" /\ wake' = TickInterval
                ELSE thread' = "off" /\ UNCHANGED wake
  /\ UNCHANGED <<trafficVars, ui, job, tm, enabled, ticks, sink, listens, receiver,
                 settler>>

\* It has slept: is somebody still listening?
ThreadWakes ==
  /\ thread = "sleep" /\ wake = 0
  /\ thread' = IF enabled THEN "post" ELSE "off"
  /\ UNCHANGED <<trafficVars, ui, job, tm, wake, enabled, ticks, sink, listens, receiver,
                 settler>>

\* Faulty variant: SendMessage, which waits for the UI thread.
PostSynchronously ==
  /\ thread = "post" /\ ui = "idle"
  /\ thread' = "loop"
  /\ ticks' = IF ticks < MaxTicks THEN ticks + 1 ELSE ticks
  /\ UNCHANGED <<trafficVars, ui, job, tm, wake, enabled, sink, listens, receiver, settler>>

\* PostMessage: it never waits, and drops what does not fit.
Post ==
  /\ thread = "post"
  /\ thread' = "loop"
  /\ ticks' = IF ticks < MaxTicks THEN ticks + 1 ELSE ticks
  /\ UNCHANGED <<trafficVars, ui, job, tm, wake, enabled, sink, listens, receiver,
                 settler>>

-----------------------------------------------------------------------------
(* The rest: time, the auto-disconnect thread, the process, the traffic.   *)

Tick ==
  /\ (last # None /\ age < Heartbeat) \/ (thread = "sleep" /\ wake > 0)
  /\ age' = IF last # None /\ age < Heartbeat THEN age + 1 ELSE age
  /\ wake' = IF thread = "sleep" /\ wake > 0 THEN wake - 1 ELSE wake
  /\ UNCHANGED <<trafficVars, ui, job, tm, thread, enabled, ticks, sink, listens, last,
                 settler>>

TimerStep(from, to) ==
  /\ tm = from /\ tm' = to
  /\ UNCHANGED <<ui, job, sender, receiver>>

\* A deadline, if the session has one, passes.
Expire ==
  /\ Connected /\ TimerStep("off", "cleanup")
  /\ UNCHANGED <<trafficVars, settler>>

TimerCleanup == TimerStep("cleanup", "kill")  /\ Cleanup /\ UNCHANGED settler
TimerKill    == TimerStep("kill", "reset")    /\ Exit /\ UNCHANGED settler
TimerReset   == TimerStep("reset", "final")   /\ Release /\ UNCHANGED settler

\* Faulty variant: the state settles, and the samples stay for the next session.
TimerFinalKeepsSamples ==
  /\ TimerStep("final", "off")
  /\ state' = "DISCONNECTED" /\ autoFlag' = TRUE /\ mode' = "idle"
  /\ index' = {} /\ held' = FALSE /\ running' = FALSE /\ ending' = FALSE
  /\ settler' = "TM"
  /\ UNCHANGED <<session, samples, counter, payload, taken, moves>>

TimerFinal ==
  /\ TimerStep("final", "off")
  /\ Settle("DISCONNECTED", TRUE)
  /\ settler' = "TM"

XrayExit ==
  /\ running
  /\ Exit
  /\ UNCHANGED pipe

Transfer ==
  /\ \E s \in Sources, n \in Chunks : Move(s, n)
  /\ UNCHANGED pipe

-----------------------------------------------------------------------------
Init ==
  /\ TrafficInit
  /\ ui = "idle" /\ job = "none"
  /\ tm = "off"
  /\ thread = "off" /\ wake = 0 /\ enabled = FALSE /\ ticks = 0
  /\ sink = 0 /\ listens = 0
  /\ last = None /\ age = 0
  /\ settler = "call"

UIStep     == Poll \/ Build \/ Send \/ StatusThreadJoined
ThreadStep == ThreadLoop \/ ThreadWakes \/ Post
TimerSteps == TimerCleanup \/ TimerKill \/ TimerReset \/ TimerFinal
AppCall    == StartVless \/ StopVless \/ GetDiagnostics \/ OnListen \/ OnCancel

Next ==
  \/ HandleTick \/ UIStep \/ ThreadStep \/ TimerSteps \/ AppCall
  \/ Expire \/ XrayExit \/ Transfer \/ Tick

Spec == Init /\ [][Next]_vars

\* All three threads run, and time passes.  Status ticks and calls share the window's queue,
\* which is served in turn: calls cannot keep a tick waiting for ever.
Fairness ==
  /\ SF_vars(HandleTick)
  /\ WF_vars(UIStep) /\ WF_vars(ThreadStep) /\ WF_vars(TimerSteps) /\ WF_vars(Tick)

FairSpec == Spec /\ Fairness

-----------------------------------------------------------------------------
(* Properties.                                                             *)

\* The variables keep to their types.
TypeOK ==
  /\ TrafficTypeOK
  /\ payload \in Payloads /\ last \in Payloads \cup {None}
  /\ ui \in {"idle", "poll", "build", "send", "join"} /\ job \in {"none", "publish", "debug"}
  /\ tm \in {"off", "cleanup", "kill", "reset", "final"}
  /\ thread \in {"off", "loop", "sleep", "post"} /\ wake \in 0 .. TickInterval
  /\ enabled \in BOOLEAN /\ ticks \in 0 .. MaxTicks
  /\ sink \in 0 .. listens /\ listens \in 0 .. MaxListens
  /\ age \in 0 .. Heartbeat /\ settler \in {"call", "exit", "TM"}

\* Between calls a listener has heard something, from its first moment on; and the state a
\* call brought about before the call returned.
ToldOnReturn ==
  (ui = "idle" /\ sink # 0)
    => last # None /\ (settler = "call" => last.state = EffectiveState)

\* With nobody listening no status thread is left: the plugin may be destroyed, and the
\* next listener does not wait for the thread of the last one.
ThreadJoined == (ui = "idle" /\ sink = 0) => thread = "off"

\* The core's figures follow TrafficCounters, whatever thread calls.
FollowsTraffic == TrafficSpec

\* News is told: again and again what a listener last heard is the state the core is in, and
\* the phase of the last payload built, although those of a connected session are held back.
NewsTold ==
  []<>(sink = 0 \/ (last # None /\ last.state = EffectiveState /\ last.phase = payload.phase))

\* A cancel returns, although it joins a thread that talks to the thread that joins.
CancelReturns == ui = "join" ~> ui = "idle"

\* A listener is never left without another event.
KeepsHearing == []<>(sink = 0 \/ age = 0)

-----------------------------------------------------------------------------
(* The inductive invariant the theorems of StatusProofs rest on.           *)

\* A status thread exists only for a listener, or for the cancel that joins it.
ThreadInv ==
  /\ enabled <=> sink # 0
  /\ ui = "join" => sink = 0
  /\ (sink = 0 /\ ui # "join") => thread = "off"

\* Where the UI thread is between events, a listener knows what a call has brought about;
\* where it is about to send, the payload says so.
ToldInv ==
  /\ ui \in {"poll", "build", "send"} => job # "none"
  /\ (sink # 0 /\ (ui = "idle" \/ job = "debug"))
       => last # None /\ (settler = "call" => last.state = EffectiveState)
  /\ (ui = "send" /\ settler = "call") => payload.state = EffectiveState

PipelineInv == TypeOK /\ ThreadInv /\ ToldInv
=============================================================================
