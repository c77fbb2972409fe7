----------------------------- MODULE StatusProofs -----------------------------
(* Theorems about StatusPipeline, for any number of listeners and messages and *)
(* any intervals: the stream's core is the one of TrafficProofs, a cancelled   *)
(* stream leaves no thread behind, and a call's outcome is told.               *)
EXTENDS StatusPipeline, TrafficProofs

-----------------------------------------------------------------------------
(* The core below the stream.                                              *)

\* A complete Stop() is a Settle.
LEMMA StopCoreSettles ==
  ASSUME NEW s \in {"DISCONNECTED", "ERROR"}, NEW by, StopCore(s, by)
  PROVE  TrafficNext
<1> DEFINE auto == s = "DISCONNECTED" /\ (autoFlag \/ tm # "off")
<1>1. auto \in BOOLEAN /\ Settle(s, auto) /\ (s = "ERROR" => auto = FALSE)
  BY DEF StopCore
<1>2. QED
  BY <1>1 DEF TrafficNext

\* Every step of the pipeline is a step of the core's bookkeeping or leaves it alone.
LEMMA PipelineStepFollows == [Next]_vars => [TrafficNext]_trafficVars
<1> SUFFICES ASSUME [Next]_vars PROVE TrafficNext \/ UNCHANGED trafficVars
  OBVIOUS
<1>1. CASE StartVless
  BY <1>1, StopCoreSettles DEF StartVless, TrafficNext
<1>2. CASE StopVless
  BY <1>2, StopCoreSettles DEF StopVless
<1>3. CASE Poll
  BY <1>3, StopCoreSettles DEF Poll
<1>4. CASE Build
  BY <1>4 DEF Build, TrafficNext
<1>5. CASE TimerCleanup \/ TimerKill \/ TimerReset
  BY <1>5 DEF TimerCleanup, TimerKill, TimerReset, TrafficNext
<1>6. CASE TimerFinal
  BY <1>6 DEF TimerFinal, TrafficNext
<1>7. CASE XrayExit
  BY <1>7 DEF XrayExit, TrafficNext
<1>8. CASE Transfer
  BY <1>8 DEF Transfer, TrafficNext
<1>9. CASE \/ GetDiagnostics \/ OnListen \/ OnCancel \/ StatusThreadJoined \/ HandleTick
           \/ Send \/ ThreadLoop \/ ThreadWakes \/ Post \/ Tick \/ Expire
  BY <1>9 DEF GetDiagnostics, OnListen, OnCancel, StatusThreadJoined, HandleTick, Send,
    ThreadLoop, ThreadWakes, Post, Tick, Expire
<1>10. CASE UNCHANGED vars
  BY <1>10 DEF vars
<1>11. QED
  BY <1>1, <1>2, <1>3, <1>4, <1>5, <1>6, <1>7, <1>8, <1>9, <1>10
  DEF Next, UIStep, ThreadStep, TimerSteps, AppCall

\* Whatever the UI thread, the auto-disconnect thread and the process do and in what order,
\* the figures behind the status stream follow TrafficCounters.
THEOREM PipelineFollowsTraffic == Spec => FollowsTraffic
<1>1. Init => TrafficInit
  BY DEF Init
<1>2. [Next]_vars => [TrafficNext]_trafficVars
  BY PipelineStepFollows
<1>3. QED
  BY <1>1, <1>2, PTL DEF Spec, FollowsTraffic, TrafficSpec

\* So what is proved of them holds of the stream.
THEOREM StreamFiguresExact ==
  Spec => []TotalsExact /\ FiguresSteady /\ [][TotalDrops => DropExplained]_payload
<1>1. Spec => TrafficSpec
  BY PipelineFollowsTraffic DEF FollowsTraffic
<1>2. QED
  BY <1>1, TotalsExactHolds, FiguresSteadyHolds, DropsExplained, PTL

-----------------------------------------------------------------------------
(* Types.                                                                  *)

\* A payload looks like an event.
LEMMA BuildType ==
  ASSUME TrafficInv, BuildStatusPayload
  PROVE  payload' \in Payloads
<1>1. TrafficTypeOK /\ CounterInv
  BY DEF TrafficInv
<1>2. PICK asked, failed, read \in SUBSET Sources : Building(asked, failed, read)
  BY BuildFacts
<1>3. EffectiveState \in {"DISCONNECTED", "AUTO_DISCONNECTED", "CONNECTED", "ERROR"}
  BY <1>1 DEF EffectiveState, TrafficTypeOK
<1>4. payload'.source \in Sources \cup {"none"} /\ payload'.total \in Nat
  <2>1. payload'.source = Selected(read)
        /\ payload'.total = IF Selected(read) = "none" THEN 0 ELSE Shows(Selected(read), read)
    BY <1>2 DEF Building
  <2>2. CASE Selected(read) = "none"
    BY <2>1, <2>2
  <2>3. CASE Selected(read) # "none"
    BY <1>1, <2>1, <2>3, SelectedShows, TakenType
  <2>4. QED
    BY <2>2, <2>3
<1>5. payload'.phase
        \in {"DISCONNECTED", "AUTO_DISCONNECTED", "ERROR", "VERIFYING", "READY", "ACTIVE"}
  BY <1>2, <1>3 DEF Building, Phase
<1>6. payload' = [state |-> EffectiveState, mode |-> mode, running |-> held /\ running,
                  source |-> Selected(read),
                  total |-> IF Selected(read) = "none" THEN 0 ELSE Shows(Selected(read), read),
                  phase |-> Phase(Selected(read), \E s \in Sources : sample'[s].has)]
  BY <1>2 DEF Building
<1>7. (held /\ running) \in BOOLEAN /\ mode \in {"idle", "tun", "proxy"}
  BY <1>1 DEF TrafficTypeOK
<1>8. QED
  BY <1>3, <1>4, <1>5, <1>6, <1>7 DEF Payloads

\* What TypeOK says of the pipeline's own variables.
PipeTypes ==
  /\ last \in Payloads \cup {None}
  /\ ui \in {"idle", "poll", "build", "send", "join"} /\ job \in {"none", "publish", "debug"}
  /\ tm \in {"off", "cleanup", "kill", "reset", "final"}
  /\ thread \in {"off", "loop", "sleep", "post"} /\ wake \in 0 .. TickInterval
  /\ enabled \in BOOLEAN /\ ticks \in 0 .. MaxTicks
  /\ sink \in 0 .. listens /\ listens \in 0 .. MaxListens
  /\ age \in 0 .. Heartbeat /\ settler \in {"call", "exit", "TM"}

\* They keep to their types, if the core's do.
LEMMA PipeTypesStep ==
  ASSUME PipeTypes, payload \in Payloads, [Next]_vars
  PROVE  PipeTypes'
<1> USE DEF PipeTypes
<1>0. /\ TickInterval \in Nat /\ MinInterval \in Nat /\ Heartbeat \in Nat
      /\ MaxListens \in Nat /\ MaxTicks \in Nat
  BY PipelineAssumption
<1>1. CASE StartVless
  BY <1>1 DEF StartVless, StopCore, Publishing, sender, receiver
<1>2. CASE StopVless \/ GetDiagnostics
  BY <1>2 DEF StopVless, GetDiagnostics, StopCore, Publishing, sender, receiver
<1>3. CASE OnListen
  BY <1>0, <1>3, SMT DEF OnListen, Publishing
<1>4. CASE OnCancel
  <2>1. 0 \in 0 .. listens
    BY <1>0, SMT
  <2>2. /\ ui' = "join" /\ sink' = 0 /\ enabled' = FALSE
        /\ UNCHANGED <<job, tm, thread, wake, ticks, listens, last, age, settler>>
    BY <1>4 DEF OnCancel, receiver
  <2>3. QED
    BY <2>1, <2>2
<1>5. CASE StatusThreadJoined
  BY <1>0, <1>5 DEF StatusThreadJoined, sender
<1>6. CASE HandleTick
  BY <1>0, <1>6, SMT DEF HandleTick, Publishing, receiver
<1>7. CASE Poll
  BY <1>7 DEF Poll, StopCore, sender, receiver
<1>8. CASE Build
  BY <1>8 DEF Build, sender, receiver
<1>9. CASE Send
  <2>1. last' \in Payloads \cup {None} /\ age' \in 0 .. Heartbeat
    BY <1>0, <1>9, SMT DEF Send, receiver
  <2>2. /\ ui' = "idle" /\ job' = "none"
        /\ UNCHANGED <<tm, thread, wake, enabled, ticks, sink, listens, settler>>
    BY <1>9 DEF Send, sender
  <2>3. QED
    BY <2>1, <2>2
<1>10. CASE ThreadLoop \/ ThreadWakes
  BY <1>0, <1>10, SMT DEF ThreadLoop, ThreadWakes, receiver
<1>11. CASE Post
  BY <1>0, <1>11, SMT DEF Post, receiver
<1>12. CASE Tick
  BY <1>0, <1>12, SMT DEF Tick
<1>13. CASE Expire \/ TimerSteps
  BY <1>13 DEF Expire, TimerSteps, TimerCleanup, TimerKill, TimerReset, TimerFinal, TimerStep,
    sender, receiver
<1>14. CASE XrayExit \/ Transfer \/ UNCHANGED vars
  BY <1>14 DEF XrayExit, Transfer, vars, pipe
<1>15. QED
  BY <1>1, <1>2, <1>3, <1>4, <1>5, <1>6, <1>7, <1>8, <1>9, <1>10, <1>11, <1>12, <1>13, <1>14
  DEF Next, UIStep, ThreadStep, AppCall

\* Only Build makes a payload.
LEMMA PayloadType ==
  ASSUME TrafficInv, payload \in Payloads, [Next]_vars
  PROVE  payload' \in Payloads
<1>1. CASE BuildStatusPayload
  BY <1>1, BuildType
<1>2. CASE ~BuildStatusPayload
  <2>1. TrafficNext \/ UNCHANGED trafficVars
    BY PipelineStepFollows
  <2>2. payload' = payload
    BY <1>2, <2>1 DEF TrafficNext, Connect, Settle, Cleanup, Exit, Release, Move, trafficVars
  <2>3. QED
    BY <2>2
<1>3. QED
  BY <1>1, <1>2

-----------------------------------------------------------------------------
(* The invariant.                                                          *)

\* In the first state nobody listens.
LEMMA PipelineInit == Init => PipelineInv
<1> SUFFICES ASSUME Init PROVE PipelineInv
  OBVIOUS
<1>1. TrafficTypeOK
  BY InitInv DEF Init, TrafficInv
<1>2. payload \in Payloads
  BY DEF Init, TrafficInit, Payloads
<1>3. TypeOK
  <2>1. /\ ui = "idle" /\ job = "none" /\ tm = "off" /\ thread = "off" /\ wake = 0
        /\ enabled = FALSE /\ ticks = 0 /\ sink = 0 /\ listens = 0 /\ last = None /\ age = 0
        /\ settler = "call"
    BY DEF Init
  <2>2. 0 \in 0 .. TickInterval /\ 0 \in 0 .. MaxTicks /\ 0 \in 0 .. MaxListens
        /\ 0 \in 0 .. Heartbeat /\ 0 \in 0 .. 0
    BY PipelineAssumption, SMT
  <2>3. QED
    BY <1>1, <1>2, <2>1, <2>2 DEF TypeOK
<1>4. ThreadInv /\ ToldInv
  BY DEF Init, ThreadInv, ToldInv
<1>5. QED
  BY <1>3, <1>4 DEF PipelineInv

\* A thread starts with its listener, and is joined before the cancel returns.
LEMMA ThreadStepInv ==
  ASSUME PipelineInv, [Next]_vars
  PROVE  ThreadInv'
<1>1. TypeOK /\ ThreadInv
  BY DEF PipelineInv
<1> USE DEF ThreadInv
<1>2. CASE StartVless \/ StopVless \/ GetDiagnostics
  BY <1>1, <1>2 DEF StartVless, StopVless, GetDiagnostics, Publishing, sender
<1>3. CASE OnListen
  BY <1>1, <1>3, SMT DEF OnListen, Publishing, TypeOK
<1>4. CASE OnCancel \/ StatusThreadJoined
  BY <1>1, <1>4 DEF OnCancel, StatusThreadJoined, sender
<1>5. CASE HandleTick
  BY <1>1, <1>5 DEF HandleTick, Publishing
<1>6. CASE Poll \/ Build \/ Send
  BY <1>1, <1>6 DEF Poll, Build, Send, sender
<1>7. CASE ThreadStep
  BY <1>1, <1>7 DEF ThreadStep, ThreadLoop, ThreadWakes, Post
<1>8. CASE Tick \/ Expire \/ TimerSteps
  <2>1. UNCHANGED <<ui, thread, enabled, sink>>
    BY <1>8 DEF Tick, Expire, TimerSteps, TimerCleanup, TimerKill, TimerReset, TimerFinal,
      TimerStep, sender
  <2>2. QED
    BY <1>1, <2>1
<1>9. CASE XrayExit \/ Transfer \/ UNCHANGED vars
  BY <1>1, <1>9 DEF XrayExit, Transfer, vars, pipe
<1>10. QED
  BY <1>2, <1>3, <1>4, <1>5, <1>6, <1>7, <1>8, <1>9 DEF Next, UIStep, AppCall

\* What a call brought about is in the payload it sends, or was in the one it suppresses.
LEMMA ToldStepInv ==
  ASSUME PipelineInv, [Next]_vars
  PROVE  ToldInv'
<1>1. TypeOK /\ ThreadInv /\ ToldInv /\ None \notin Payloads
  BY PipelineAssumption DEF PipelineInv
<1> USE DEF ToldInv
<1>2. CASE StartVless \/ StopVless \/ OnListen
  BY <1>1, <1>2 DEF StartVless, StopVless, OnListen, Publishing
<1>3. CASE GetDiagnostics
  BY <1>1, <1>3 DEF GetDiagnostics, Publishing, sender, receiver, trafficVars, core,
    EffectiveState
<1>4. CASE OnCancel \/ StatusThreadJoined
  BY <1>1, <1>4 DEF OnCancel, StatusThreadJoined, sender, ThreadInv
<1>5. CASE HandleTick
  BY <1>1, <1>5 DEF HandleTick, Publishing, receiver, trafficVars, core, EffectiveState
<1>6. CASE Poll
  BY <1>1, <1>6 DEF Poll, StopCore, Settle, sender, receiver, trafficVars, core, EffectiveState
<1>7. CASE Build
  <2>1. payload'.state = EffectiveState /\ UNCHANGED <<state, autoFlag>>
    BY <1>7 DEF Build, BuildStatusPayload, core
  <2>2. EffectiveState' = EffectiveState
    BY <2>1 DEF EffectiveState
  <2>3. UNCHANGED <<last, age, sink, settler>> /\ ui = "build" /\ job # "none"
    BY <1>1, <1>7 DEF Build, sender, receiver
  <2>4. CASE job = "publish"
    BY <1>7, <2>1, <2>2, <2>4 DEF Build
  <2>5. CASE job = "debug"
    BY <1>1, <1>7, <2>2, <2>3, <2>5 DEF Build
  <2>6. QED
    BY <1>1, <2>3, <2>4, <2>5 DEF TypeOK
<1>8. CASE Send
  <2>1. EffectiveState' = EffectiveState /\ payload' = payload /\ sink' = sink /\ settler' = settler
        /\ ui' = "idle" /\ job' = "none"
    BY <1>8 DEF Send, sender, trafficVars, core, EffectiveState
  <2>2. sink # 0 => last' # None /\ last'.state = payload.state
    BY <1>1, <1>8 DEF Send, Suppressed, receiver, TypeOK
  <2>3. ui = "send"
    BY <1>8 DEF Send
  <2>4. QED
    BY <1>1, <2>1, <2>2, <2>3
<1>9. CASE ThreadStep \/ Tick
  BY <1>1, <1>9 DEF ThreadStep, ThreadLoop, ThreadWakes, Post, Tick, receiver, trafficVars, core,
    EffectiveState
<1>10. CASE Expire \/ TimerCleanup \/ TimerKill \/ TimerReset
  BY <1>1, <1>10 DEF Expire, TimerCleanup, TimerKill, TimerReset, TimerStep, Cleanup, Exit, Release,
    sender, receiver, trafficVars, core, EffectiveState
<1>11. CASE TimerFinal
  BY <1>1, <1>11 DEF TimerFinal, TimerStep, sender, receiver
<1>12. CASE XrayExit \/ Transfer \/ UNCHANGED vars
  BY <1>1, <1>12 DEF XrayExit, Transfer, Exit, Move, vars, pipe, trafficVars, core, EffectiveState
<1>13. QED
  BY <1>2, <1>3, <1>4, <1>5, <1>6, <1>7, <1>8, <1>9, <1>10, <1>11, <1>12
  DEF Next, UIStep, AppCall, TimerSteps

\* One step.
LEMMA PipelineStep ==
  PipelineInv /\ TrafficInv /\ TrafficInv' /\ [Next]_vars => PipelineInv'
<1> SUFFICES ASSUME PipelineInv, TrafficInv, TrafficInv', [Next]_vars PROVE PipelineInv'
  OBVIOUS
<1>1. PipeTypes /\ payload \in Payloads
  BY DEF PipelineInv, TypeOK, PipeTypes
<1>2. TypeOK'
  BY <1>1, PipeTypesStep, PayloadType DEF PipeTypes, TypeOK, TrafficInv
<1>3. QED
  BY <1>2, ThreadStepInv, ToldStepInv DEF PipelineInv

\* Every reachable state of the stream satisfies the invariant.
THEOREM PipelineInvariance == Spec => []PipelineInv
<1>1. Spec => []TrafficInv
  BY PipelineFollowsTraffic, TrafficInvariance, PTL DEF FollowsTraffic
<1>2. Init => PipelineInv
  BY PipelineInit
<1>3. PipelineInv /\ TrafficInv /\ TrafficInv' /\ [Next]_vars => PipelineInv'
  BY PipelineStep
<1>4. QED
  BY <1>1, <1>2, <1>3, PTL DEF Spec

\* The type invariant.
THEOREM PipelineTypeCorrect == Spec => []TypeOK
<1>1. PipelineInv => TypeOK
  BY DEF PipelineInv
<1>2. QED
  BY <1>1, PipelineInvariance, PTL

\* StopStatusThread leaves no thread behind that could outlive the plugin.
THEOREM ThreadAlwaysJoined == Spec => []ThreadJoined
<1>1. PipelineInv => ThreadJoined
  BY DEF PipelineInv, ThreadInv, ThreadJoined
<1>2. QED
  BY <1>1, PipelineInvariance, PTL

\* When startVless, stopVless or onListen returns, the listener has been told the state, even
\* where PublishStatus suppressed its payload.
THEOREM AlwaysToldOnReturn == Spec => []ToldOnReturn
<1>1. PipelineInv => ToldOnReturn
  BY DEF PipelineInv, ToldInv, ToldOnReturn
<1>2. QED
  BY <1>1, PipelineInvariance, PTL
-----------------------------------------------------------------------------
(* The join of a cancel.                                                   *)

\* The most steps and units of time a status thread needs that nobody listens to any more.
ThreadLeft ==
  IF thread = "off" THEN 0 ELSE IF thread = "loop" THEN 1
  ELSE IF thread = "post" THEN 2 ELSE 1 + wake

\* Its sleep goes on.
Sleeping == thread = "sleep" /\ wake > 0

LEMMA JoinShortens ==
  ASSUME PipelineInv, ui = "join", [Next]_vars
  PROVE  IF ThreadStep \/ (Tick /\ Sleeping) THEN ThreadLeft' < ThreadLeft
                                             ELSE ThreadLeft' = ThreadLeft
<1>1. ~enabled /\ wake \in Nat /\ thread \in {"off", "loop", "sleep", "post"}
  BY PipelineAssumption, SMT DEF PipelineInv, TypeOK, ThreadInv
<1>2. CASE ThreadStep
  BY <1>1, <1>2, SMT DEF ThreadStep, ThreadLoop, ThreadWakes, Post, ThreadLeft
<1>3. CASE Tick /\ Sleeping
  BY <1>1, <1>3, SMT DEF Tick, Sleeping, ThreadLeft
<1>4. CASE ~ThreadStep /\ ~(Tick /\ Sleeping)
  <2>1. UNCHANGED <<thread, wake>>
    <3>1. CASE Tick
      BY <1>4, <3>1 DEF Tick, Sleeping
    <3>2. CASE HandleTick \/ AppCall
      BY <3>2 DEF HandleTick, AppCall, StartVless, StopVless, GetDiagnostics, OnListen, OnCancel
    <3>3. CASE UIStep \/ TimerSteps \/ Expire
      BY <3>3 DEF UIStep, Poll, Build, Send, StatusThreadJoined, TimerSteps, TimerCleanup, TimerKill,
        TimerReset, TimerFinal, Expire, TimerStep, sender
    <3>4. CASE XrayExit \/ Transfer \/ UNCHANGED vars
      BY <3>4 DEF XrayExit, Transfer, vars, pipe
    <3>5. QED
      BY <1>4, <3>1, <3>2, <3>3, <3>4 DEF Next
  <2>2. QED
    BY <1>4, <2>1 DEF ThreadLeft
<1>5. QED
  BY <1>2, <1>3, <1>4

\* onCancel joins a thread that posts to the thread that joins, and the two never wait for
\* each other: until the status thread is off it has a step to take or some of its sleep
\* before it, each of which brings it nearer its end, at most TickInterval + 2 in all, and
\* nothing the rest of the system does takes it back.
THEOREM CancelJoinEnds ==
  Spec => /\ [](ui = "join" => ThreadLeft \in 0 .. (TickInterval + 2))
          /\ [][ui = "join" =>
                  IF ThreadStep \/ (Tick /\ Sleeping) THEN ThreadLeft' < ThreadLeft
                                                      ELSE ThreadLeft' = ThreadLeft]_vars
<1> DEFINE Shortens ==
      ui = "join" => IF ThreadStep \/ (Tick /\ Sleeping) THEN ThreadLeft' < ThreadLeft
                                                         ELSE ThreadLeft' = ThreadLeft
           Bounded == ui = "join" => ThreadLeft \in 0 .. (TickInterval + 2)
<1>1. PipelineInv => Bounded
  <2>1. PipelineInv => thread \in {"off", "loop", "sleep", "post"} /\ wake \in 0 .. TickInterval
    BY DEF PipelineInv, TypeOK
  <2>2. QED
    BY <2>1, PipelineAssumption, SMT DEF ThreadLeft
<1>2. PipelineInv /\ [Next]_vars => [Shortens]_vars
  BY JoinShortens
<1>3. QED
  BY <1>1, <1>2, PipelineInvariance, PTL DEF Spec
=============================================================================
