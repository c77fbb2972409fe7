-------------------------- MODULE DesktopCoreProofs --------------------------
(***************************************************************************)
(* Theorems about DesktopCore for every value of its constants.  IInv is   *)
(* inductive; the safety properties and the refinement follow from it.     *)
(***************************************************************************)
EXTENDS DesktopCore, TLAPS

USE DesktopAssumption DEF Threads, UI, TM, Step, Goto, CanLock, Caller, Call, Running,
    ProcessRunning, Teardown, TimerStop, UIPoints, TMPoints, Ops, StopOps,
    life, net, auto, timer

\* IInv without its types: what the actions have to preserve.
ControlInv ==
  /\ OpInv /\ JoinInv /\ ProcessInv /\ StateInv /\ NetInv /\ DeadlineInv
  /\ RightSession /\ DeadlineWatched /\ CancelHolds

\* TypeOK in two parts, one for each of the provers that handle them.
Flags ==
  /\ config \in BOOLEAN
  /\ autoFlag \in BOOLEAN /\ autoStamp \in BOOLEAN
  /\ stopTimer \in BOOLEAN /\ joinable \in BOOLEAN

Types ==
  /\ app \in {"running", "crashed", "exited"}
  /\ pc \in [Threads -> UIPoints \cup TMPoints]
  /\ pc[UI] \in UIPoints /\ pc[TM] \in TMPoints
  /\ op \in Ops
  /\ state \in {"DISCONNECTED", "CONNECTING", "CONNECTED", "ERROR"}
  /\ mode \in {"idle", "tun", "proxy"}
  /\ sessions \in Nat /\ process \in 0 .. sessions /\ xray \subseteq 1 .. sessions
  /\ endedBy \in {"none", "exit", UI, TM}
  /\ recorded \subseteq {"routes", "dns"}
  /\ configured \subseteq {"routes", "dns"} /\ stuck \subseteq {"routes", "dns"}
  /\ deadline \in Int \cup {NoDeadline}
  /\ due \in 0 .. sessions
  /\ updates \in Nat

LEMMA TypesAndFlags == TypeOK <=> Types /\ Flags
  BY Zenon DEF TypeOK, Types, Flags

USE DEF OpInv, JoinInv, ProcessInv, StateInv, NetInv, DeadlineInv, RightSession,
    DeadlineWatched, CancelHolds

-----------------------------------------------------------------------------
\* The program starts idle, without a session.
LEMMA InitInv == Init => IInv
<1>1. Init => Types /\ Flags
  <2>1. Init => Types
    BY SMT DEF Init, Types
  <2>2. Init => Flags
    BY Zenon DEF Init, Flags
  <2>3. QED
    BY <2>1, <2>2
<1>2. Init => ControlInv
  BY SMTT(20) DEF Init, ControlInv
<1>3. QED
  BY <1>1, <1>2, TypesAndFlags DEF IInv, ControlInv

\* Every step keeps the Boolean variables Boolean,
LEMMA FlagsStep == ASSUME Flags, Next PROVE Flags'
<1>1. ASSUME NEW t \in Threads, StopSteps(t) PROVE Flags'
  BY <1>1, Zenon DEF Flags, StopSteps, StopCheck, RunDeleteCommands, ClearDeleteCommands, Terminate,
    CloseHandles, NullProcess, ResetProcess, DeleteConfig, StopFinal, TimerStopSet
<1>2. CASE UIStep
  BY <1>1, <1>2, Zenon DEF Flags, UIStep, TimerJoin, TimerStopClear, Prepare, WriteConfig, Announce, CreateProcess,
    ApplyTunNetworking, Established, SpawnTimer, FailStart, ReportExit, EndDelay
<1>3. CASE TMStep
  BY <1>1, <1>3, Zenon DEF Flags, TMStep, TimerSelfReturn, TimerLoop, TimerWake, TimerStopped, TimerStale, Expire,
    TimerExit
<1>4. CASE Request
  BY <1>4, Zenon DEF Flags, Request, CallStart, CallStop, Shutdown, PollExit, UpdateAutoDisconnectTime,
    CancelAutoDisconnect, ClearAutoDisconnectFlag, BeginDelay, RestartElevated
<1>5. CASE Tick \/ XrayExit \/ DataRaceCrash
  BY <1>5, Zenon DEF Flags, Tick, XrayExit, DataRaceCrash
<1>6. CASE UNCHANGED vars
  BY <1>6, Zenon DEF Flags, vars
<1>7. QED
  BY <1>2, <1>3, <1>4, <1>5, <1>6 DEF Next

\* and the others in their types.
LEMMA TypesStep == ASSUME TypeOK, OpInv, Next PROVE Types'
<1>1. ASSUME NEW t \in Threads, StopSteps(t) PROVE Types'
  <2>1. CASE StopCheck(t)
    BY <2>1, SMTT(30) DEF Types, TypeOK, StopCheck
  <2>2. CASE RunDeleteCommands(t)
    BY <2>2, SMTT(30) DEF Types, TypeOK, RunDeleteCommands
  <2>3. CASE ClearDeleteCommands(t)
    BY <2>3, SMTT(30) DEF Types, TypeOK, ClearDeleteCommands
  <2>4. CASE Terminate(t)
    BY <2>4, SMTT(30) DEF Types, TypeOK, Terminate
  <2>5. CASE CloseHandles(t)
    BY <2>5, SMTT(30) DEF Types, TypeOK, CloseHandles
  <2>6. CASE NullProcess(t)
    BY <2>6, SMTT(30) DEF Types, TypeOK, NullProcess
  <2>7. CASE ResetProcess(t)
    BY <2>7, SMTT(30) DEF Types, TypeOK, ResetProcess
  <2>8. CASE DeleteConfig(t)
    BY <2>8, SMTT(30) DEF Types, TypeOK, DeleteConfig
  <2>9. CASE StopFinal(t)
    BY <2>9, SMTT(30) DEF Types, TypeOK, StopFinal
  <2>10. CASE TimerStopSet(t)
    BY <2>10, SMTT(30) DEF Types, TypeOK, TimerStopSet
  <2>11. QED
    BY <1>1, <2>1, <2>2, <2>3, <2>4, <2>5, <2>6, <2>7, <2>8, <2>9, <2>10 DEF StopSteps
<1>2. CASE UIStep
  <2>1. CASE TimerJoin
    BY <2>1, SMTT(30) DEF Types, TypeOK, TimerJoin
  <2>2. CASE TimerStopClear
    BY <2>2, SMTT(30) DEF Types, TypeOK, TimerStopClear, Return
  <2>3. CASE Prepare
    BY <2>3, SMTT(30) DEF Types, TypeOK, Prepare
  <2>4. CASE WriteConfig
    <3>1. /\ Goto(UI, "announce") \/ Goto(UI, "fail")
          /\ UNCHANGED <<app, op, state, mode, life, net, auto, timer, updates>>
      BY <2>4, Zenon DEF WriteConfig
    <3>2. QED
      BY <3>1, SMTT(30) DEF Types, TypeOK
  <2>5. CASE Announce
    BY <2>5, SMTT(30) DEF Types, TypeOK, Announce
  <2>6. CASE CreateProcess
    <3>1. \/ /\ sessions' = sessions + 1 /\ process' = sessions + 1
             /\ xray' = xray \cup {sessions + 1}
          \/ UNCHANGED <<process, sessions, xray>>
      BY <2>6, Zenon DEF CreateProcess
    <3>2. due' = due
      BY <2>6, Zenon DEF CreateProcess
    <3>3. pc' \in [Threads -> UIPoints \cup TMPoints] /\ pc'[UI] \in UIPoints /\ pc'[TM] = pc[TM]
      BY <2>6, SMTT(30) DEF TypeOK, CreateProcess
    <3>4. UNCHANGED <<app, op, state, mode, endedBy, net, deadline, updates>>
      BY <2>6, Zenon DEF CreateProcess
    <3>5. sessions' \in Nat /\ process' \in 0 .. sessions' /\ due' \in 0 .. sessions'
      BY <3>1, <3>2, SMT DEF TypeOK
    <3>6. xray' \subseteq 1 .. sessions'
      <4>1. SUFFICES ASSUME NEW x \in xray' PROVE x \in 1 .. sessions'
        OBVIOUS
      <4>2. sessions \in Nat /\ \A y \in xray : y \in 1 .. sessions
        BY SMT DEF TypeOK
      <4>3. QED
        BY <3>1, <4>2, SMT
    <3>7. QED
      BY <3>3, <3>4, <3>5, <3>6, SMTT(30) DEF Types, TypeOK
  <2>7. CASE ApplyTunNetworking
    <3>1. recorded' \in SUBSET {"routes", "dns"} /\ configured' = configured \cup recorded'
      BY <2>7, SMTT(30) DEF ApplyTunNetworking
    <3>2. configured' \subseteq {"routes", "dns"}
      BY <3>1, SMTT(30) DEF TypeOK
    <3>3. pc' \in [Threads -> UIPoints \cup TMPoints] /\ pc'[UI] \in UIPoints /\ pc'[TM] = pc[TM]
      BY <2>7, SMTT(30) DEF TypeOK, ApplyTunNetworking
    <3>4. op' \in {op, "abort"}
      BY <2>7, SMTT(30) DEF ApplyTunNetworking
    <3>5. UNCHANGED <<app, state, mode, life, stuck, deadline, due, updates>>
      BY <2>7, Zenon DEF ApplyTunNetworking
    <3>6. QED
      BY <3>1, <3>2, <3>3, <3>4, <3>5, SMTT(30) DEF Types, TypeOK
  <2>8. CASE Established
    BY <2>8, SMTT(30) DEF Types, TypeOK, Established
  <2>9. CASE SpawnTimer
    BY <2>9, SMTT(30) DEF Types, TypeOK, SpawnTimer
  <2>10. CASE FailStart
    BY <2>10, SMTT(30) DEF Types, TypeOK, FailStart
  <2>11. CASE ReportExit
    BY <2>11, SMTT(30) DEF Types, TypeOK, ReportExit
  <2>12. CASE EndDelay
    BY <2>12, SMTT(30) DEF Types, TypeOK, EndDelay
  <2>13. QED
    BY <1>1, <1>2, <2>1, <2>2, <2>3, <2>4, <2>5, <2>6, <2>7, <2>8, <2>9, <2>10, <2>11, <2>12 DEF UIStep
<1>3. CASE TMStep
  <2>1. CASE StopSteps(TM)
    BY <1>1, <2>1
  <2>2. CASE TimerSelfReturn
    BY <2>2, SMTT(30) DEF Types, TypeOK, TimerSelfReturn
  <2>3. CASE TimerLoop
    BY <2>3, SMTT(30) DEF Types, TypeOK, TimerLoop
  <2>4. CASE TimerWake
    BY <2>4, SMTT(30) DEF Types, TypeOK, TimerWake
  <2>5. CASE TimerStopped
    BY <2>5, SMTT(30) DEF Types, TypeOK, TimerStopped
  <2>6. CASE TimerStale
    BY <2>6, SMTT(30) DEF Types, TypeOK, TimerStale
  <2>7. CASE Expire
    BY <2>7, SMTT(30) DEF Types, TypeOK, Expire
  <2>8. CASE TimerExit
    BY <2>8, SMTT(30) DEF Types, TypeOK, TimerExit
  <2>9. QED
    BY <1>3, <2>1, <2>2, <2>3, <2>4, <2>5, <2>6, <2>7, <2>8 DEF TMStep
<1>4. CASE Request
  <2>1. CASE CallStart
    BY <2>1, SMTT(30) DEF Types, TypeOK, CallStart
  <2>2. CASE CallStop
    BY <2>2, SMTT(30) DEF Types, TypeOK, CallStop
  <2>3. CASE Shutdown
    BY <2>3, SMTT(30) DEF Types, TypeOK, Shutdown
  <2>4. CASE PollExit
    BY <2>4, SMTT(30) DEF Types, TypeOK, PollExit
  <2>5. CASE UpdateAutoDisconnectTime
    BY <2>5, SMTT(30) DEF Types, TypeOK, UpdateAutoDisconnectTime
  <2>6. CASE CancelAutoDisconnect
    BY <2>6, SMTT(30) DEF Types, TypeOK, CancelAutoDisconnect
  <2>7. CASE ClearAutoDisconnectFlag
    BY <2>7, SMTT(30) DEF Types, TypeOK, ClearAutoDisconnectFlag
  <2>8. CASE BeginDelay
    BY <2>8, SMTT(30) DEF Types, TypeOK, BeginDelay
  <2>9. CASE RestartElevated
    BY <2>9, SMTT(30) DEF Types, TypeOK, RestartElevated
  <2>10. QED
    BY <1>4, <2>1, <2>2, <2>3, <2>4, <2>5, <2>6, <2>7, <2>8, <2>9 DEF Request
<1>5. CASE Tick \/ XrayExit \/ DataRaceCrash
  <2>1. CASE Tick
    BY <2>1, SMTT(30) DEF Types, TypeOK, Tick
  <2>2. CASE XrayExit
    BY <2>2, SMTT(30) DEF Types, TypeOK, XrayExit
  <2>3. CASE DataRaceCrash
    BY <2>3, SMTT(30) DEF Types, TypeOK, DataRaceCrash, DataRace
  <2>4. QED
    BY <1>5, <2>1, <2>2, <2>3
<1>6. CASE UNCHANGED vars
  BY <1>6, SMTT(60) DEF Types, TypeOK, vars
<1>7. QED
  BY <1>2, <1>3, <1>4, <1>5, <1>6 DEF Next

-----------------------------------------------------------------------------
\* Either thread's steps through Stop() keep the control part.
LEMMA StopStepInv ==
  ASSUME NEW t \in Threads, TypeOK, ControlInv, StopSteps(t)
  PROVE  ControlInv'
<1>1. CASE StopCheck(t)
  BY <1>1, SMTT(30) DEF StopCheck, TypeOK, ControlInv
<1>2. CASE RunDeleteCommands(t)
  <2>1. PICK failed \in SUBSET (recorded \cap configured) :
          /\ configured' = configured \ (recorded \ failed)
          /\ stuck' = stuck \cup failed
    BY <1>2 DEF RunDeleteCommands
  <2>2. configured' \subseteq stuck'
    <3>1. configured \subseteq recorded \cup stuck
      BY DEF ControlInv
    <3>2. QED
      BY <2>1, <3>1, Zenon
  <2>3. NetInv'
    <3>1. pc' = [pc EXCEPT ![t] = "clear"] /\ UNCHANGED <<process, recorded>>
      BY <1>2, Zenon DEF RunDeleteCommands
    <3>2. configured' \subseteq recorded' \cup stuck'
      BY <2>2, Zenon
    <3>3. process' = 0 => recorded' = {}
      BY <3>1, SMT DEF ControlInv
    <3>4. \A u \in Threads :
            pc'[u] \in {"kill", "close", "reset", "unlink", "final"} => recorded' = {}
      BY <3>1, SMT DEF TypeOK, ControlInv
    <3>5. QED
      BY <2>2, <3>2, <3>3, <3>4, Zenon
  <2>4. (OpInv /\ JoinInv /\ ProcessInv /\ StateInv /\ DeadlineInv)'
    BY <1>2, SMTT(30) DEF RunDeleteCommands, TypeOK, ControlInv
  <2>5. (RightSession /\ DeadlineWatched /\ CancelHolds)'
    BY <1>2, SMTT(30) DEF RunDeleteCommands, TypeOK, ControlInv
  <2>6. QED
    BY <2>3, <2>4, <2>5 DEF ControlInv
<1>3. CASE ClearDeleteCommands(t)
  BY <1>3, SMTT(30) DEF ClearDeleteCommands, TypeOK, ControlInv
<1>4. CASE Terminate(t)
  BY <1>4, SMTT(30) DEF Terminate, TypeOK, ControlInv
<1>5. CASE CloseHandles(t)
  BY <1>5, SMTT(30) DEF CloseHandles, TypeOK, ControlInv
<1>6. CASE NullProcess(t)
  BY <1>6, SMTT(30) DEF NullProcess, TypeOK, ControlInv
<1>7. CASE ResetProcess(t)
  BY <1>7, SMTT(30) DEF ResetProcess, TypeOK, ControlInv
<1>8. CASE DeleteConfig(t)
  BY <1>8, SMTT(30) DEF DeleteConfig, TypeOK, ControlInv
<1>9. CASE StopFinal(t)
  BY <1>9, SMTT(30) DEF StopFinal, TypeOK, ControlInv
<1>10. CASE TimerStopSet(t)
  BY <1>10, SMTT(30) DEF TimerStopSet, TypeOK, ControlInv
<1>11. QED
  BY <1>1, <1>2, <1>3, <1>4, <1>5, <1>6, <1>7, <1>8, <1>9, <1>10 DEF StopSteps

\* So do the UI thread's steps outside Stop(),
LEMMA UIStepInv ==
  ASSUME TypeOK, ControlInv, UIStep, ~StopSteps(UI)
  PROVE  ControlInv'
<1>1. CASE TimerJoin
  BY <1>1, SMTT(30) DEF TimerJoin, TypeOK, ControlInv
<1>2. CASE TimerStopClear
  BY <1>2, SMTT(30) DEF TimerStopClear, TypeOK, ControlInv, Return
<1>3. CASE Prepare
  BY <1>3, SMTT(30) DEF Prepare, TypeOK, ControlInv
<1>4. CASE WriteConfig
  BY <1>4, SMTT(30) DEF WriteConfig, TypeOK, ControlInv
<1>5. CASE Announce
  BY <1>5, SMTT(30) DEF Announce, TypeOK, ControlInv
<1>6. CASE CreateProcess
  BY <1>6, SMTT(30) DEF CreateProcess, TypeOK, ControlInv
<1>7. CASE ApplyTunNetworking
  BY <1>7, SMTT(30) DEF ApplyTunNetworking, TypeOK, ControlInv
<1>8. CASE Established
  BY <1>8, SMTT(30) DEF Established, TypeOK, ControlInv
<1>9. CASE SpawnTimer
  BY <1>9, SMTT(30) DEF SpawnTimer, TypeOK, ControlInv
<1>10. CASE FailStart
  BY <1>10, SMTT(30) DEF FailStart, TypeOK, ControlInv
<1>11. CASE ReportExit
  BY <1>11, SMTT(30) DEF ReportExit, TypeOK, ControlInv
<1>12. CASE EndDelay
  BY <1>12, SMTT(30) DEF EndDelay, TypeOK, ControlInv
<1>13. QED
  BY <1>1, <1>2, <1>3, <1>4, <1>5, <1>6, <1>7, <1>8, <1>9, <1>10, <1>11, <1>12 DEF UIStep

\* the timer thread's,
LEMMA TMStepInv ==
  ASSUME TypeOK, ControlInv, TMStep, ~StopSteps(TM)
  PROVE  ControlInv'
<1>1. CASE TimerSelfReturn
  BY <1>1, SMTT(30) DEF TimerSelfReturn, TypeOK, ControlInv
<1>2. CASE TimerLoop
  BY <1>2, SMTT(30) DEF TimerLoop, TypeOK, ControlInv
<1>3. CASE TimerWake
  BY <1>3, SMTT(30) DEF TimerWake, TypeOK, ControlInv
<1>4. CASE TimerStopped
  BY <1>4, SMTT(30) DEF TimerStopped, TypeOK, ControlInv
<1>5. CASE TimerStale
  BY <1>5, SMTT(30) DEF TimerStale, TypeOK, ControlInv
<1>6. CASE Expire
  BY <1>6, SMTT(30) DEF Expire, TypeOK, ControlInv
<1>7. CASE TimerExit
  BY <1>7, SMTT(30) DEF TimerExit, TypeOK, ControlInv
<1>8. QED
  BY <1>1, <1>2, <1>3, <1>4, <1>5, <1>6, <1>7 DEF TMStep

\* the calls of the application,
LEMMA RequestInv ==
  ASSUME TypeOK, ControlInv, Request
  PROVE  ControlInv'
<1>1. CASE CallStart
  BY <1>1, SMTT(30) DEF CallStart, TypeOK, ControlInv
<1>2. CASE CallStop
  BY <1>2, SMTT(30) DEF CallStop, TypeOK, ControlInv
<1>3. CASE Shutdown
  BY <1>3, SMTT(30) DEF Shutdown, TypeOK, ControlInv
<1>4. CASE PollExit
  BY <1>4, SMTT(30) DEF PollExit, TypeOK, ControlInv
<1>5. CASE UpdateAutoDisconnectTime
  BY <1>5, SMTT(30) DEF UpdateAutoDisconnectTime, TypeOK, ControlInv
<1>6. CASE CancelAutoDisconnect
  BY <1>6, SMTT(30) DEF CancelAutoDisconnect, TypeOK, ControlInv
<1>7. CASE ClearAutoDisconnectFlag
  BY <1>7, SMTT(30) DEF ClearAutoDisconnectFlag, TypeOK, ControlInv
<1>8. CASE BeginDelay
  BY <1>8, SMTT(30) DEF BeginDelay, TypeOK, ControlInv
<1>9. CASE RestartElevated
  BY <1>9, SMTT(30) DEF RestartElevated, TypeOK, ControlInv
<1>10. QED
  BY <1>1, <1>2, <1>3, <1>4, <1>5, <1>6, <1>7, <1>8, <1>9 DEF Request

\* and what happens to the program.
LEMMA EnvironmentInv ==
  ASSUME TypeOK, ControlInv, Tick \/ XrayExit \/ DataRaceCrash
  PROVE  ControlInv'
<1>1. CASE Tick
  BY <1>1, SMTT(30) DEF Tick, TypeOK, ControlInv
<1>2. CASE XrayExit
  BY <1>2, SMTT(30) DEF XrayExit, TypeOK, ControlInv
<1>3. CASE DataRaceCrash
  BY <1>3, SMTT(30) DEF DataRaceCrash, TypeOK, ControlInv, DataRace
<1>4. QED
  BY <1>1, <1>2, <1>3

\* IInv is inductive.
LEMMA StepInv == IInv /\ [Next]_vars => IInv'
<1> SUFFICES ASSUME IInv, [Next]_vars PROVE IInv'
  OBVIOUS
<1>1. TypeOK /\ OpInv /\ ControlInv /\ Types /\ Flags
  BY TypesAndFlags, Zenon DEF IInv, ControlInv
<1>2. CASE Next
  <2>1. TypeOK'
    <3>1. Types' /\ Flags'
      BY <1>1, <1>2, TypesStep, FlagsStep, Zenon
    <3>2. QED
      BY <3>1, Zenon DEF TypeOK, Types, Flags
  <2>2. ControlInv'
    <3>1. CASE UNCHANGED vars
      BY <1>1, <3>1, SMTT(30) DEF vars, ControlInv
    <3>2. ASSUME NEW t \in Threads, StopSteps(t) PROVE ControlInv'
      BY <1>1, <3>2, StopStepInv, Zenon
    <3>3. CASE UIStep
      BY <1>1, <3>2, <3>3, UIStepInv, Zenon DEF Threads
    <3>4. CASE TMStep
      BY <1>1, <3>2, <3>4, TMStepInv, Zenon DEF Threads
    <3>5. CASE Request
      BY <1>1, <3>5, RequestInv, Zenon
    <3>6. CASE Tick \/ XrayExit \/ DataRaceCrash
      BY <1>1, <3>6, EnvironmentInv, Zenon
    <3>7. QED
      BY <1>2, <3>1, <3>3, <3>4, <3>5, <3>6, Zenon DEF Next
  <2>3. QED
    BY <2>1, <2>2, Zenon DEF IInv, ControlInv
<1>3. CASE UNCHANGED vars
  <2>1. Types'
    BY <1>1, <1>3, SMTT(30) DEF Types, vars
  <2>2. Flags'
    BY <1>1, <1>3, Zenon DEF Flags, vars
  <2>3. ControlInv'
    BY <1>1, <1>3, SMTT(30) DEF vars, ControlInv
  <2>4. QED
    BY <2>1, <2>2, <2>3, Zenon DEF IInv, ControlInv, TypeOK, Types, Flags
<1>4. QED
  BY <1>2, <1>3

-----------------------------------------------------------------------------
(* The theorems.                                                           *)

\* Every reachable state, of any number of sessions, satisfies the inductive invariant.
THEOREM Invariance == Spec => []IInv
  BY InitInv, StepInv, PTL DEF Spec

\* The variables keep to their types; process_ only points to created sessions.
THEOREM TypeCorrect == Spec => []TypeOK
<1>1. IInv => TypeOK
  BY Zenon DEF IInv
<1>2. QED
  BY <1>1, Invariance, PTL

\* Stop, a failed start, an exit poll and the timer, in any interleaving, never lose an
\* xray process that still runs.
THEOREM NoOrphanHolds == Spec => []NoOrphan
<1>1. IInv => NoOrphan
  BY Zenon DEF IInv, NoOrphan
<1>2. QED
  BY <1>1, Invariance, PTL

\* The process is never let go before the OS configuration of its session is undone,
\* but for what a delete command failed to remove.
THEOREM NetworkRestoredHolds == Spec => []NetworkRestored
<1>1. IInv => NetworkRestored
  <2>1. IInv => NetInv
    BY Zenon DEF IInv
  <2>2. NetInv => NetworkRestored
    BY SMT DEF NetworkRestored
  <2>3. QED
    BY <2>1, <2>2, Zenon
<1>2. QED
  BY <1>1, Invariance, PTL

\* A state other than CONNECTED, between calls, means nothing of a session is held.
THEOREM SettledMeansReleasedHolds == Spec => []SettledMeansReleased
<1>1. IInv => SettledMeansReleased
  <2>1. IInv => TypeOK /\ OpInv /\ StateInv
    BY Zenon DEF IInv
  <2>2. TypeOK /\ OpInv /\ StateInv => SettledMeansReleased
    BY SMT DEF SettledMeansReleased, TypeOK
  <2>3. QED
    BY <2>1, <2>2, Zenon
<1>2. QED
  BY <1>1, Invariance, PTL

\* A timer never ends a session other than the one whose deadline it saw pass.
THEOREM RightSessionHolds == Spec => []RightSession
<1>1. IInv => RightSession
  BY Zenon DEF IInv
<1>2. QED
  BY <1>1, Invariance, PTL

\* A deadline is never left without a thread that watches it.
THEOREM DeadlineWatchedHolds == Spec => []DeadlineWatched
<1>1. IInv => DeadlineWatched
  BY Zenon DEF IInv
<1>2. QED
  BY <1>1, Invariance, PTL

\* A cancelled auto-disconnect leaves no thread behind that could end the session.
THEOREM CancelIsFinal == Spec => []CancelHolds
<1>1. IInv => CancelHolds
  BY Zenon DEF IInv
<1>2. QED
  BY <1>1, Invariance, PTL

\* After the destructor's Stop(), no thread is left to join and no process runs.
THEOREM ShutdownCompleteHolds == Spec => []ShutdownComplete
<1>1. IInv => ShutdownComplete
  <2>1. IInv => TypeOK /\ JoinInv /\ ProcessInv /\ NetInv
    BY Zenon DEF IInv
  <2>2. TypeOK /\ JoinInv /\ ProcessInv /\ NetInv => ShutdownComplete
    <3>1. SUFFICES ASSUME TypeOK, JoinInv, ProcessInv, NetInv, pc[UI] = "gone"
                   PROVE  ~joinable /\ pc[TM] = "off" /\ process = 0 /\ xray = {}
                          /\ configured \subseteq stuck
      BY Zenon DEF ShutdownComplete
    <3>2. ~joinable /\ pc[TM] = "off"
      BY <3>1, SMT DEF TypeOK
    <3>3. process = 0 /\ configured \subseteq stuck
      BY <3>1, SMT
    <3>4. xray = {}
      <4>1. xray \subseteq {0} /\ 0 \notin xray
        BY <3>1, <3>3, SMT DEF TypeOK
      <4>2. QED
        BY <4>1, Zenon
    <3>5. QED
      BY <3>2, <3>3, <3>4
  <2>3. QED
    BY <2>1, <2>2, Zenon
<1>2. QED
  BY <1>1, Invariance, PTL

-----------------------------------------------------------------------------
(* Refinement of TunnelSession.                                            *)

\* A step that touches none of what the session is seen by stutters;
LEMMA Invisible ==
  ASSUME UNCHANGED <<state, autoFlag, process, xray>>
  PROVE  UNCHANGED Session!sessionVars
  BY Zenon DEF Session!sessionVars, EffectiveState, HeldTunnel

\* one without a process, before and after it, settles;
LEMMA Settles ==
  ASSUME process = 0, process' = 0, EffectiveState' \in Session!Terminal
  PROVE  Session!Next
  BY Zenon DEF Session!Next, Session!Settle, HeldTunnel

\* and DISCONNECTED is a terminal status, with the flag or without it.
LEMMA Disconnected ==
  ASSUME state' = "DISCONNECTED" PROVE EffectiveState' \in Session!Terminal
  BY Zenon DEF EffectiveState, Session!Terminal

\* Either thread's steps through Stop() are steps of the abstract session,
LEMMA StopStepRefines ==
  ASSUME NEW t \in Threads, IInv, StopSteps(t)
  PROVE  [Session!Next]_(Session!sessionVars)
<1>1. CASE StopCheck(t)
  <2>1. CASE process = 0
    BY <1>1, <2>1, Settles, Disconnected, Zenon DEF StopCheck
  <2>2. CASE process # 0
    BY <1>1, <2>2, Invisible, Zenon DEF StopCheck
  <2>3. QED
    BY <2>1, <2>2
<1>2. CASE Terminate(t)
  <2>1. CASE process \in xray
    <3>1. HeldTunnel = "live" /\ HeldTunnel' = "dead" /\ EffectiveState' = EffectiveState
      BY <1>2, <2>1, SMT DEF Terminate, HeldTunnel, EffectiveState
    <3>2. QED
      BY <3>1, Zenon DEF Session!Next, Session!Die
  <2>2. CASE process \notin xray
    <3>1. xray' = xray
      BY <1>2, <2>2, SMT DEF Terminate
    <3>2. QED
      BY <1>2, <3>1, Invisible, Zenon DEF Terminate
  <2>3. QED
    BY <2>1, <2>2
<1>3. CASE ResetProcess(t)
  <2>1. CASE process = 0
    BY <1>3, <2>1, Invisible, Zenon DEF ResetProcess
  <2>2. CASE process # 0
    <3>1. pc[t] = "reset" /\ process' = 0 /\ UNCHANGED <<state, autoFlag>>
      BY <1>3, Zenon DEF ResetProcess
    <3>2. process \notin xray
      BY <3>1, SMT DEF IInv
    <3>3. HeldTunnel = "dead" /\ HeldTunnel' = "none"
      BY <2>2, <3>1, <3>2, Zenon DEF HeldTunnel
    <3>4. QED
      BY <3>1, <3>3, Zenon DEF Session!Next, Session!Release, EffectiveState
  <2>3. QED
    BY <2>1, <2>2
<1>4. CASE StopFinal(t)
  <2>1. pc[t] = "final" /\ process' = process /\ state' = "DISCONNECTED"
    BY <1>4, Zenon DEF StopFinal
  <2>2. process = 0
    BY <2>1, SMT DEF IInv
  <2>3. QED
    BY <2>1, <2>2, Settles, Disconnected, Zenon
<1>5. CASE RunDeleteCommands(t) \/ ClearDeleteCommands(t) \/ CloseHandles(t) \/ NullProcess(t)
           \/ DeleteConfig(t) \/ TimerStopSet(t)
  BY <1>5, Invisible, Zenon DEF RunDeleteCommands, ClearDeleteCommands, CloseHandles, NullProcess,
    DeleteConfig, TimerStopSet
<1>6. QED
  BY <1>1, <1>2, <1>3, <1>4, <1>5 DEF StopSteps

\* so are the UI thread's other steps inside a call,
LEMMA UIStepRefines ==
  ASSUME IInv, UIStep
  PROVE  [Session!Next]_(Session!sessionVars)
<1>1. CASE StopSteps(UI)
  BY <1>1, StopStepRefines, Zenon DEF Threads
<1>2. CASE Announce
  <2>1. process = 0 /\ process' = 0 /\ state = "DISCONNECTED" /\ state' = "CONNECTING"
    BY <1>2, SMT DEF Announce, IInv
  <2>2. HeldTunnel = "none" /\ HeldTunnel' = "none"
    BY <2>1, Zenon DEF HeldTunnel
  <2>3. EffectiveState \in Session!Terminal /\ EffectiveState' = "CONNECTING"
    BY <2>1, Zenon DEF EffectiveState, Session!Terminal
  <2>4. QED
    BY <2>2, <2>3, Zenon DEF Session!Next, Session!Begin
<1>3. CASE CreateProcess
  <2>1. CASE UNCHANGED life
    BY <1>3, <2>1, Invisible, Zenon DEF CreateProcess
  <2>2. CASE process' = sessions + 1 /\ xray' = xray \cup {sessions + 1}
    <3>1. pc[UI] = "create" /\ UNCHANGED <<state, autoFlag>>
      BY <1>3, Zenon DEF CreateProcess
    <3>2. process = 0 /\ state = "CONNECTING"
      BY <3>1, SMT DEF IInv
    <3>3. process' # 0 /\ process' \in xray'
      BY <2>2, SMT DEF IInv, TypeOK
    <3>4. HeldTunnel = "none" /\ HeldTunnel' = "live"
      BY <3>2, <3>3, Zenon DEF HeldTunnel
    <3>5. EffectiveState = "CONNECTING" /\ EffectiveState' = "CONNECTING"
      BY <3>1, <3>2, Zenon DEF EffectiveState
    <3>6. QED
      BY <3>4, <3>5, Zenon DEF Session!Next, Session!Launch
  <2>3. QED
    BY <1>3, <2>1, <2>2, Zenon DEF CreateProcess
<1>4. CASE Established
  <2>1. pc[UI] = "established" /\ state' = "CONNECTED" /\ UNCHANGED <<process, xray>>
    BY <1>4, Zenon DEF Established
  <2>2. process # 0 /\ state = "CONNECTING"
    BY <2>1, SMT DEF IInv
  <2>3. HeldTunnel' = HeldTunnel /\ HeldTunnel # "none"
    BY <2>1, <2>2, Zenon DEF HeldTunnel
  <2>4. EffectiveState = "CONNECTING" /\ EffectiveState' = "CONNECTED"
    BY <2>1, <2>2, Zenon DEF EffectiveState
  <2>5. QED
    BY <2>3, <2>4, Zenon DEF Session!Next, Session!Establish
<1>5. CASE FailStart \/ ReportExit
  <2>1. pc[UI] \in {"fail", "report"} /\ process' = process /\ state' = "ERROR"
    BY <1>5, Zenon DEF FailStart, ReportExit
  <2>2. process = 0
    BY <2>1, SMT DEF IInv
  <2>3. EffectiveState' \in Session!Terminal
    BY <2>1, Zenon DEF EffectiveState, Session!Terminal
  <2>4. QED
    BY <2>1, <2>2, <2>3, Settles, Zenon
<1>6. CASE TimerJoin \/ TimerStopClear \/ Prepare \/ WriteConfig \/ ApplyTunNetworking \/ SpawnTimer
           \/ EndDelay
  BY <1>6, Invisible, Zenon DEF TimerJoin, TimerStopClear, Prepare, WriteConfig, ApplyTunNetworking,
    SpawnTimer, EndDelay
<1>7. QED
  BY <1>1, <1>2, <1>3, <1>4, <1>5, <1>6 DEF UIStep

\* the timer thread's, the calls' and the environment's.
LEMMA OtherStepRefines ==
  ASSUME IInv, TMStep \/ Request \/ Tick \/ XrayExit \/ DataRaceCrash
  PROVE  [Session!Next]_(Session!sessionVars)
<1>1. CASE TMStep
  <2>1. CASE StopSteps(TM)
    BY <2>1, StopStepRefines, Zenon DEF Threads
  <2>2. CASE ~StopSteps(TM)
    BY <1>1, <2>2, Invisible, Zenon DEF TMStep, TimerSelfReturn, TimerLoop, TimerWake, TimerStopped,
      TimerStale, Expire, TimerExit
  <2>3. QED
    BY <2>1, <2>2
<1>2. CASE ClearAutoDisconnectFlag
  <2>1. UNCHANGED <<state, process, xray>>
    BY <1>2, Zenon DEF ClearAutoDisconnectFlag
  <2>2. CASE state = "DISCONNECTED"
    <3>1. process = 0
      BY <2>2, SMT DEF IInv
    <3>2. QED
      BY <2>1, <2>2, <3>1, Settles, Disconnected, Zenon
  <2>3. CASE state # "DISCONNECTED"
    BY <2>1, <2>3, Zenon DEF Session!sessionVars, EffectiveState, HeldTunnel
  <2>4. QED
    BY <2>2, <2>3
<1>3. CASE Request /\ ~ClearAutoDisconnectFlag
  BY <1>3, Invisible, Zenon DEF Request, CallStart, CallStop, Shutdown, PollExit,
    UpdateAutoDisconnectTime, CancelAutoDisconnect, BeginDelay, RestartElevated
<1>4. CASE XrayExit
  <2>1. process \in xray /\ xray' = xray \ {process} /\ UNCHANGED <<state, autoFlag, process>>
    BY <1>4, Zenon DEF XrayExit
  <2>2. process # 0
    BY <2>1, SMT DEF IInv, TypeOK
  <2>3. HeldTunnel = "live" /\ HeldTunnel' = "dead"
    BY <2>1, <2>2, Zenon DEF HeldTunnel
  <2>4. EffectiveState' = EffectiveState
    BY <2>1, Zenon DEF EffectiveState
  <2>5. QED
    BY <2>3, <2>4, Zenon DEF Session!Next, Session!Die
<1>5. CASE Tick \/ DataRaceCrash
  BY <1>5, Invisible, Zenon DEF Tick, DataRaceCrash
<1>6. QED
  BY <1>1, <1>2, <1>3, <1>4, <1>5

\* The core implements the abstract session: whatever the two threads do, there is one
\* process at most, CONNECTED is announced only while it is held, and a terminal status
\* only once it has been let go.
THEOREM Refinement == Spec => IsTunnelSession
<1>1. Init => Session!Init
  BY Zenon DEF Init, Session!Init, EffectiveState, HeldTunnel
<1>2. IInv /\ [Next]_vars => [Session!Next]_(Session!sessionVars)
  <2>1. CASE UNCHANGED vars
    BY <2>1, Invisible, Zenon DEF vars
  <2>2. ASSUME IInv, Next PROVE [Session!Next]_(Session!sessionVars)
    BY <2>1, <2>2, UIStepRefines, OtherStepRefines, Zenon DEF Next
  <2>3. QED
    BY <2>1, <2>2
<1>3. QED
  BY <1>1, <1>2, Invariance, PTL DEF Spec, IsTunnelSession, Session!Spec

-----------------------------------------------------------------------------
(* What it takes to crash the application.                                 *)

\* Two Stops are between their critical sections, or the status tick comes while the timer
\* thread resets process_.
Overlap ==
  \/ \A t \in Threads : pc[t] \in Teardown
  \/ pc[TM] = "reset" /\ pc[UI] = "idle" /\ process # 0

\* A Stop that has seen a process still has it.
Undisturbed ==
  /\ app # "crashed"
  /\ \A t \in Threads : pc[t] \in {"run", "clear", "kill", "close"} => process # 0

\* Only another Stop takes the process away from a Stop, and only an overlap crashes.
LEMMA UndisturbedStep == ASSUME TypeOK, OpInv, Undisturbed, ~Overlap, Next PROVE Undisturbed'
<1>1. ASSUME NEW t \in Threads, StopSteps(t) PROVE Undisturbed'
  <2>1. CASE StopCheck(t)
    BY <2>1, SMTT(30) DEF TypeOK, Undisturbed, StopCheck
  <2>2. CASE ResetProcess(t)
    BY <2>2, SMTT(30) DEF TypeOK, Undisturbed, Overlap, ResetProcess
  <2>3. CASE NullProcess(t)
    BY <2>3, SMTT(30) DEF TypeOK, Undisturbed, NullProcess
  <2>4. CASE RunDeleteCommands(t) \/ ClearDeleteCommands(t)
    BY <2>4, SMTT(30) DEF TypeOK, Undisturbed, RunDeleteCommands, ClearDeleteCommands
  <2>5. CASE Terminate(t) \/ CloseHandles(t)
    BY <2>5, SMTT(30) DEF TypeOK, Undisturbed, Terminate, CloseHandles
  <2>6. CASE DeleteConfig(t) \/ StopFinal(t) \/ TimerStopSet(t)
    BY <2>6, SMTT(30) DEF TypeOK, Undisturbed, DeleteConfig, StopFinal, TimerStopSet
  <2>7. QED
    BY <1>1, <2>1, <2>2, <2>3, <2>4, <2>5, <2>6 DEF StopSteps
<1>2. CASE UIStep
  <2>1. CASE CreateProcess
    BY <2>1, SMTT(30) DEF TypeOK, Undisturbed, CreateProcess
  <2>2. CASE TimerStopClear
    BY <2>2, SMTT(30) DEF TypeOK, Undisturbed, TimerStopClear, Return
  <2>3. CASE TimerJoin \/ Prepare \/ WriteConfig \/ Announce \/ ApplyTunNetworking
    <3>1. process' = process /\ app' = app
      BY <2>3, Zenon DEF TimerJoin, Prepare, WriteConfig, Announce, ApplyTunNetworking
    <3>2. \E to \in UIPoints \ {"run", "clear", "kill", "close"} : pc' = [pc EXCEPT ![UI] = to]
      <4>1. \E to \in {"tclear", "write", "fail", "announce", "create", "established", "check"} :
              pc' = [pc EXCEPT ![UI] = to]
        BY <2>3, Zenon DEF TimerJoin, Prepare, WriteConfig, Announce, ApplyTunNetworking
      <4>2. QED
        BY <4>1, Zenon
    <3>3. QED
      BY <3>1, <3>2, SMTT(30) DEF TypeOK, Undisturbed
  <2>4. CASE Established \/ SpawnTimer \/ FailStart \/ ReportExit \/ EndDelay
    BY <2>4, SMTT(30) DEF TypeOK, Undisturbed, Established, SpawnTimer, FailStart, ReportExit, EndDelay
  <2>5. QED
    BY <1>1, <1>2, <2>1, <2>2, <2>3, <2>4 DEF UIStep
<1>3. CASE TMStep
  <2>1. CASE TimerSelfReturn \/ TimerLoop \/ TimerWake \/ TimerStopped \/ TimerStale \/ Expire \/ TimerExit
    BY <2>1, SMTT(30) DEF TypeOK, Undisturbed, TimerSelfReturn, TimerLoop, TimerWake, TimerStopped, TimerStale,
      Expire, TimerExit
  <2>2. QED
    BY <1>1, <1>3, <2>1 DEF TMStep
<1>4. CASE Request
  BY <1>4, SMTT(30) DEF TypeOK, Undisturbed, Request, CallStart, CallStop, Shutdown, PollExit,
    UpdateAutoDisconnectTime, CancelAutoDisconnect, ClearAutoDisconnectFlag, BeginDelay, RestartElevated
<1>5. CASE Tick \/ XrayExit
  BY <1>5, SMTT(30) DEF TypeOK, Undisturbed, Tick, XrayExit
<1>6. CASE DataRaceCrash
  <2>1. Overlap
    BY <1>6, SMTT(30) DEF TypeOK, Overlap, DataRaceCrash, DataRace
  <2>2. QED
    BY <2>1
<1>7. CASE UNCHANGED vars
  BY <1>7, SMTT(30) DEF Undisturbed, vars
<1>8. QED
  BY <1>2, <1>3, <1>4, <1>5, <1>6, <1>7 DEF Next

\* Stop goes through process_ without the mutex. That is harmful only when another Stop, or
\* the status tick's poll, comes in between: any other order of the two threads' steps, with
\* any number of sessions, crashes nothing.
THEOREM CrashNeedsOverlap == Spec /\ []~Overlap => []StopKeepsProcess /\ [](app # "crashed")
<1>1. Init => Undisturbed
  BY SMT DEF Init, Undisturbed
<1>2. TypeOK /\ OpInv /\ Undisturbed /\ ~Overlap /\ [Next]_vars => Undisturbed'
  <2>1. CASE UNCHANGED vars
    BY <2>1, SMT DEF Undisturbed, vars
  <2>2. QED
    BY <2>1, UndisturbedStep
<1>3. Undisturbed => StopKeepsProcess /\ app # "crashed"
  BY SMT DEF Undisturbed, StopKeepsProcess
<1>4. IInv => TypeOK /\ OpInv
  BY Zenon DEF IInv
<1>5. QED
  BY <1>1, <1>2, <1>3, <1>4, Invariance, PTL DEF Spec

\* Without a deadline there is no timer thread, nor a call that spawns one.
Threadless == pc[TM] = "off" /\ op # "arm"

\* Only the auto-disconnect thread can be the other party: an app that never asks for an
\* auto-disconnect cannot be crashed by any order of its calls.
THEOREM NoTimerNoCrash == (AutoSeconds \subseteq {0}) => (Spec => [](app # "crashed"))
<1> SUFFICES ASSUME AutoSeconds \subseteq {0} PROVE Spec => [](app # "crashed")
  OBVIOUS
<1>1. Init => Threadless
  BY SMT DEF Init, Threadless
<1>2. ASSUME TypeOK, OpInv, Threadless, [Next]_vars PROVE Threadless'
  <2>1. ASSUME NEW t \in Threads, StopSteps(t) PROVE Threadless'
    <3>1. t = UI /\ op' = op /\ pc'[TM] = pc[TM]
      BY <1>2, <2>1, SMTT(30) DEF TypeOK, Threadless, StopSteps, StopCheck, RunDeleteCommands,
        ClearDeleteCommands, Terminate, CloseHandles, NullProcess, ResetProcess, DeleteConfig, StopFinal,
        TimerStopSet
    <3>2. QED
      BY <1>2, <3>1 DEF Threadless
  <2>2. CASE UIStep
    <3>1. CASE Established
      BY <1>2, <3>1, SMTT(30) DEF TypeOK, Threadless, Established
    <3>2. CASE SpawnTimer
      BY <1>2, <3>2, SMTT(30) DEF TypeOK, Threadless, SpawnTimer
    <3>3. CASE TimerStopClear \/ TimerJoin \/ Prepare \/ WriteConfig \/ Announce
      <4>1. op' \in {op, "none"}
        BY <3>3, Zenon DEF TimerStopClear, TimerJoin, Prepare, WriteConfig, Announce
      <4>2. \E to : pc' = [pc EXCEPT ![UI] = to]
        BY <3>3, Zenon DEF TimerStopClear, TimerJoin, Prepare, WriteConfig, Announce
      <4>3. QED
        BY <1>2, <4>1, <4>2, SMTT(30) DEF TypeOK, Threadless
    <3>4. CASE CreateProcess \/ ApplyTunNetworking \/ FailStart \/ ReportExit \/ EndDelay
      BY <1>2, <3>4, SMTT(30) DEF TypeOK, Threadless, CreateProcess, ApplyTunNetworking, FailStart, ReportExit,
        EndDelay
    <3>5. QED
      BY <2>1, <2>2, <3>1, <3>2, <3>3, <3>4 DEF UIStep
  <2>3. CASE TMStep
    BY <1>2, <2>1, <2>3, SMTT(30) DEF Threadless, TMStep, TimerSelfReturn, TimerLoop, TimerWake, TimerStopped,
      TimerStale, Expire, TimerExit
  <2>4. CASE Request
    BY <1>2, <2>4, SMTT(30) DEF TypeOK, Threadless, Request, CallStart, CallStop, Shutdown, PollExit,
      UpdateAutoDisconnectTime, CancelAutoDisconnect, ClearAutoDisconnectFlag, BeginDelay, RestartElevated
  <2>5. CASE Tick \/ XrayExit \/ DataRaceCrash \/ UNCHANGED vars
    BY <1>2, <2>5, SMTT(30) DEF Threadless, Tick, XrayExit, DataRaceCrash, vars
  <2>6. QED
    BY <1>2, <2>2, <2>3, <2>4, <2>5 DEF Next
<1>3. IInv => TypeOK /\ OpInv
  BY Zenon DEF IInv
<1>4. Threadless => ~Overlap
  BY SMT DEF Threadless, Overlap
<1>5. Spec => [](app # "crashed")
  BY <1>1, <1>2, <1>3, <1>4, Invariance, CrashNeedsOverlap, PTL DEF Spec
<1>6. QED
  BY <1>5

-----------------------------------------------------------------------------
(* What a call costs, and whom it waits for: CallsReturn without fairness. *)

\* How far each point of the UI thread is from the end of its call, ...
CallPoints ==
  [idle |-> 0, gone |-> 0, delay |-> 1, fail |-> 1, report |-> 1, spawn |-> 1,
   established |-> 2, tun |-> 3, create |-> 4, announce |-> 5, write |-> 6, prepare |-> 7,
   tclear |-> 8, tjoin |-> 9, tset |-> 10, final |-> 11, unlink |-> 12, reset |-> 13,
   close |-> 14, kill |-> 15, clear |-> 16, run |-> 17, check |-> 18]

\* where a start has a whole Stop(), or the arming of the timer, still to come.
CallLeft == (IF op = "start" THEN 18 ELSE 0) + CallPoints[pc[UI]]

\* The same for a timer thread that has been told to stop.
TimerPoints ==
  [off |-> 0, exit |-> 1, loop |-> 1, waitDeadline |-> 1, waitAny |-> 2, tjoin |-> 2,
   tset |-> 3, final |-> 4, unlink |-> 5, reset |-> 6, close |-> 7, kill |-> 8, clear |-> 9,
   run |-> 10, check |-> 11]

TimerLeft == TimerPoints[pc[TM]]

\* The steps such a thread makes.
TimerMoves ==
  {<<"loop", "off">>, <<"waitAny", "loop">>, <<"waitDeadline", "off">>, <<"check", "run">>,
   <<"check", "tset">>, <<"run", "clear">>, <<"clear", "kill">>, <<"kill", "close">>,
   <<"close", "reset">>, <<"reset", "unlink">>, <<"unlink", "final">>, <<"final", "tset">>,
   <<"tset", "tjoin">>, <<"tjoin", "exit">>, <<"exit", "off">>}

\* They do bring it nearer.
LEMMA TimerMovesShorten ==
  ASSUME pc \in [Threads -> UIPoints \cup TMPoints],
         NEW m \in TimerMoves, pc[TM] = m[1], pc' = [pc EXCEPT ![TM] = m[2]]
  PROVE  TimerLeft' < TimerLeft
<1>1. \A n \in TimerMoves : TimerPoints[n[2]] < TimerPoints[n[1]]
  BY SMTT(30) DEF TimerMoves, TimerPoints
<1>2. pc'[TM] = m[2]
  BY SMT
<1>3. TimerPoints[m[2]] < TimerPoints[m[1]]
  BY <1>1, Zenon
<1>4. QED
  BY <1>2, <1>3, Zenon DEF TimerLeft

\* Every step inside a call brings its return nearer, and no step of the timer thread, of
\* the clock or of xray takes it away again: whatever a call runs into, a start with its two
\* Stops included, it returns after at most 36 steps of its own.
THEOREM CallsShorten ==
  Spec => [][/\ UIStep => CallLeft' < CallLeft \/ app' = "crashed"
             /\ pc[UI] # "idle" /\ ~UIStep => CallLeft' = CallLeft
             /\ CallLeft \in 0 .. 36]_vars
<1>1. ASSUME IInv, StopSteps(UI) PROVE CallLeft' < CallLeft \/ app' = "crashed"
  <2>1. TypeOK /\ OpInv
    BY <1>1, Zenon DEF IInv
  <2>2. CASE StopCheck(UI) \/ RunDeleteCommands(UI) \/ ClearDeleteCommands(UI) \/ Terminate(UI)
    BY <2>1, <2>2, SMTT(30) DEF TypeOK, CallLeft, CallPoints, StopCheck, RunDeleteCommands,
      ClearDeleteCommands, Terminate
  <2>3. CASE CloseHandles(UI) \/ NullProcess(UI) \/ ResetProcess(UI)
    BY <2>1, <2>3, SMTT(30) DEF TypeOK, CallLeft, CallPoints, CloseHandles, NullProcess, ResetProcess
  <2>4. CASE DeleteConfig(UI) \/ StopFinal(UI) \/ TimerStopSet(UI)
    BY <2>1, <2>4, SMTT(30) DEF TypeOK, CallLeft, CallPoints, DeleteConfig, StopFinal, TimerStopSet
  <2>5. QED
    BY <1>1, <2>2, <2>3, <2>4 DEF StopSteps
<1>2. ASSUME IInv, UIStep PROVE CallLeft' < CallLeft \/ app' = "crashed"
  <2>1. TypeOK /\ OpInv
    BY <1>2, Zenon DEF IInv
  <2>2. CASE TimerJoin \/ TimerStopClear
    BY <2>1, <2>2, SMTT(30) DEF TypeOK, CallLeft, CallPoints, TimerJoin, TimerStopClear, Return
  <2>3. CASE Prepare \/ WriteConfig \/ Announce
    <3>1. /\ op' = op
          /\ \/ pc[UI] = "prepare" /\ \E to \in {"write", "fail"} : pc' = [pc EXCEPT ![UI] = to]
             \/ pc[UI] = "write" /\ \E to \in {"announce", "fail"} : pc' = [pc EXCEPT ![UI] = to]
             \/ pc[UI] = "announce" /\ pc' = [pc EXCEPT ![UI] = "create"]
      BY <2>3, Zenon DEF Prepare, WriteConfig, Announce
    <3>2. QED
      BY <2>1, <3>1, SMTT(30) DEF TypeOK, CallLeft, CallPoints
  <2>4. CASE CreateProcess \/ ApplyTunNetworking \/ Established
    BY <2>1, <2>4, SMTT(30) DEF TypeOK, CallLeft, CallPoints, CreateProcess, ApplyTunNetworking, Established
  <2>5. CASE SpawnTimer \/ FailStart \/ ReportExit \/ EndDelay
    BY <2>1, <2>5, SMTT(30) DEF TypeOK, CallLeft, CallPoints, SpawnTimer, FailStart, ReportExit, EndDelay
  <2>6. QED
    BY <1>1, <1>2, <2>2, <2>3, <2>4, <2>5 DEF UIStep
<1>3. ASSUME IInv, Next, ~UIStep, pc[UI] # "idle" PROVE CallLeft' = CallLeft
  <2>1. TypeOK
    BY <1>3, Zenon DEF IInv
  <2>2. op' = op /\ pc'[UI] = pc[UI]
    <3>1. CASE TMStep
      BY <2>1, <3>1, SMTT(30) DEF TypeOK, TMStep, StopSteps, StopCheck, RunDeleteCommands, ClearDeleteCommands,
        Terminate, CloseHandles, NullProcess, ResetProcess, DeleteConfig, StopFinal, TimerStopSet,
        TimerSelfReturn, TimerLoop, TimerWake, TimerStopped, TimerStale, Expire, TimerExit
    <3>2. CASE Request
      BY <1>3, <3>2, SMTT(30) DEF Request, CallStart, CallStop, Shutdown, PollExit, UpdateAutoDisconnectTime,
        CancelAutoDisconnect, ClearAutoDisconnectFlag, BeginDelay, RestartElevated
    <3>3. CASE Tick \/ XrayExit \/ DataRaceCrash \/ UNCHANGED vars
      BY <3>3, Zenon DEF Tick, XrayExit, DataRaceCrash, vars
    <3>4. QED
      BY <1>3, <3>1, <3>2, <3>3 DEF Next
  <2>3. QED
    BY <2>2, Zenon DEF CallLeft
<1>4. TypeOK /\ OpInv => CallLeft \in 0 .. 36
  BY SMTT(30) DEF TypeOK, CallLeft, CallPoints
<1>5. IInv => TypeOK /\ OpInv
  BY Zenon DEF IInv
<1>6. ASSUME IInv, [Next]_vars
      PROVE  [/\ UIStep => CallLeft' < CallLeft \/ app' = "crashed"
              /\ pc[UI] # "idle" /\ ~UIStep => CallLeft' = CallLeft
              /\ CallLeft \in 0 .. 36]_vars
  BY <1>2, <1>3, <1>4, <1>5, <1>6, Zenon
<1>7. QED
  BY <1>6, Invariance, PTL DEF Spec

\* The one step of a call that waits for somebody is the join. While the UI thread waits
\* there, the timer thread has been told to stop, is kept from the mutex by nobody and is not
\* at a join itself; each of its steps brings it nearer its end, at most 11 of them, and no
\* step of anybody else moves it: neither thread ever waits for the other in a circle.
THEOREM JoinEnds ==
  Spec => /\ [](pc[UI] = "tjoin" => stopTimer /\ CanLock(TM) /\ pc[TM] # "tclear")
          /\ [][pc[UI] = "tjoin" =>
                  /\ TMStep => TimerLeft' < TimerLeft \/ app' = "crashed"
                  /\ ~TMStep => pc'[TM] = pc[TM]]_vars
<1> DEFINE Told == pc[UI] \in {"tjoin", "tclear"} => stopTimer
<1>1. Init => Told
  BY SMT DEF Init
<1>2. ASSUME TypeOK, OpInv, Told, [Next]_vars PROVE Told'
  <2>1. ASSUME NEW t \in Threads, StopSteps(t) PROVE Told'
    BY <1>2, <2>1, SMTT(30) DEF TypeOK, StopSteps, StopCheck, RunDeleteCommands, ClearDeleteCommands, Terminate,
      CloseHandles, NullProcess, ResetProcess, DeleteConfig, StopFinal, TimerStopSet
  <2>2. CASE TimerStopClear
    BY <1>2, <2>2, SMTT(30) DEF TypeOK, TimerStopClear, Return
  <2>3. CASE UIStep /\ ~TimerStopClear /\ ~StopSteps(UI)
    <3>1. CASE TimerJoin
      BY <1>2, <3>1, SMTT(30) DEF TypeOK, TimerJoin
    <3>2. CASE ~TimerJoin
      <4>1. CASE SpawnTimer \/ Established \/ FailStart \/ ReportExit \/ EndDelay
        BY <1>2, <4>1, SMTT(30) DEF TypeOK, SpawnTimer, Established, FailStart, ReportExit, EndDelay
      <4>2. CASE Prepare \/ WriteConfig \/ Announce \/ CreateProcess \/ ApplyTunNetworking
        <5>1. \E to \in {"write", "fail", "announce", "create", "tun", "established", "check"} :
                pc' = [pc EXCEPT ![UI] = to]
          BY <4>2, Zenon DEF Prepare, WriteConfig, Announce, CreateProcess, ApplyTunNetworking
        <5>2. QED
          BY <1>2, <5>1, SMTT(30) DEF TypeOK
      <4>3. QED
        BY <2>3, <3>2, <4>1, <4>2, Zenon DEF UIStep
    <3>3. QED
      BY <3>1, <3>2
  <2>4. CASE TMStep
    BY <1>2, <2>1, <2>4, SMTT(30) DEF TypeOK, TMStep, TimerSelfReturn, TimerLoop, TimerWake, TimerStopped,
      TimerStale, Expire, TimerExit
  <2>5. CASE Request
    BY <1>2, <2>5, SMTT(30) DEF TypeOK, Request, CallStart, CallStop, Shutdown, PollExit,
      UpdateAutoDisconnectTime, CancelAutoDisconnect, ClearAutoDisconnectFlag, BeginDelay, RestartElevated
  <2>6. CASE Tick \/ XrayExit \/ DataRaceCrash \/ UNCHANGED vars
    BY <1>2, <2>6, SMTT(30) DEF Tick, XrayExit, DataRaceCrash, vars
  <2>7. QED
    BY <1>2, <2>1, <2>2, <2>3, <2>4, <2>5, <2>6, Zenon DEF Next, UIStep, Threads
<1>3. IInv => TypeOK /\ OpInv /\ JoinInv
  BY Zenon DEF IInv
<1>4. JoinInv /\ Told => (pc[UI] = "tjoin" => stopTimer /\ CanLock(TM) /\ pc[TM] # "tclear")
  BY SMT
<1>5. ASSUME TypeOK, Told, pc[UI] = "tjoin", TMStep
      PROVE  TimerLeft' < TimerLeft \/ app' = "crashed"
  <2> DEFINE Moves(from, to) == pc[TM] = from /\ pc' = [pc EXCEPT ![TM] = to]
  <2> HIDE DEF Told
  <2>1. pc \in [Threads -> UIPoints \cup TMPoints] /\ stopTimer
    BY <1>5, Zenon DEF TypeOK, Told
  <2>2. \A m \in TimerMoves : Moves(m[1], m[2]) => TimerLeft' < TimerLeft
    BY <2>1, TimerMovesShorten, Zenon
  <2>3. CASE StopSteps(TM)
    <3>1. \/ Moves("check", "run") \/ Moves("check", "tset") \/ Moves("run", "clear")
          \/ Moves("clear", "kill") \/ Moves("kill", "close") \/ Moves("close", "reset")
          \/ Moves("reset", "unlink") \/ Moves("unlink", "final") \/ Moves("final", "tset")
          \/ Moves("tset", "tjoin") \/ app' = "crashed"
      BY <2>3, Zenon DEF StopSteps, StopCheck, RunDeleteCommands, ClearDeleteCommands, Terminate,
        CloseHandles, NullProcess, ResetProcess, DeleteConfig, StopFinal, TimerStopSet
    <3> HIDE DEF Moves
    <3>2. QED
      BY <2>2, <3>1, SMT DEF TimerMoves
  <2>4. CASE ~StopSteps(TM)
    <3>1. \/ Moves("tjoin", "exit") \/ Moves("loop", "off") \/ Moves("waitAny", "loop")
          \/ Moves("waitDeadline", "off") \/ Moves("exit", "off")
      <4>1. CASE TimerLoop
        <5>1. (IF stopTimer THEN "off" ELSE IF deadline = NoDeadline THEN "waitAny" ELSE "waitDeadline") = "off"
          BY <2>1, SMT
        <5>2. QED
          BY <4>1, <5>1, Zenon DEF TimerLoop
      <4>2. CASE ~TimerLoop
        BY <1>5, <2>1, <2>4, <4>2, Zenon DEF TMStep, TimerSelfReturn, TimerWake, TimerStopped, TimerStale, Expire,
          TimerExit
      <4>3. QED
        BY <4>1, <4>2
    <3> HIDE DEF Moves
    <3>2. QED
      BY <2>2, <3>1, SMT DEF TimerMoves
  <2>5. QED
    BY <2>3, <2>4
<1>6. ASSUME TypeOK, pc[UI] = "tjoin", Next, ~TMStep
      PROVE  pc'[TM] = pc[TM]
  <2>1. CASE UIStep
    BY <1>6, <2>1, SMTT(30) DEF TypeOK, UIStep, StopSteps, StopCheck, RunDeleteCommands, ClearDeleteCommands,
      Terminate, CloseHandles, NullProcess, ResetProcess, DeleteConfig, StopFinal, TimerStopSet, TimerJoin,
      TimerStopClear, Prepare, WriteConfig, Announce, CreateProcess, ApplyTunNetworking, Established,
      SpawnTimer, FailStart, ReportExit, EndDelay
  <2>2. CASE Request
    BY <1>6, <2>2, SMTT(30) DEF Request, CallStart, CallStop, Shutdown, PollExit, UpdateAutoDisconnectTime,
      CancelAutoDisconnect, ClearAutoDisconnectFlag, BeginDelay, RestartElevated
  <2>3. CASE Tick \/ XrayExit \/ DataRaceCrash \/ UNCHANGED vars
    BY <2>3, Zenon DEF Tick, XrayExit, DataRaceCrash, vars
  <2>4. QED
    BY <1>6, <2>1, <2>2, <2>3 DEF Next
<1>7. ASSUME TypeOK, Told, [Next]_vars
      PROVE  [pc[UI] = "tjoin" =>
                /\ TMStep => TimerLeft' < TimerLeft \/ app' = "crashed"
                /\ ~TMStep => pc'[TM] = pc[TM]]_vars
  BY <1>5, <1>6, <1>7, Zenon
<1> HIDE DEF Told
<1>8. QED
  BY <1>1, <1>2, <1>3, <1>4, <1>7, Invariance, PTL DEF Spec

-----------------------------------------------------------------------------
(* What it takes to take an auto-disconnect for a failure.                 *)

\* The timer thread has terminated the process, and not yet let it go.
Terminated == pc[TM] \in {"close", "reset"}

\* The status tick does not come in between.
TickKeepsOut == PollExit => ~Terminated

\* What is known of the end of a process that is still held, about to be reported, or to be
\* replaced.
EndKnown ==
  /\ process # 0 /\ endedBy = TM => Terminated
  /\ op = "poll" => endedBy # TM /\ process \notin xray
  /\ op = "abort" \/ pc[UI] \in {"write", "announce", "create", "tun", "established", "fail"}
       => endedBy # TM
  /\ state = "ERROR" => endedBy # TM

\* No step but a tick in the window loses what is known of the end.
LEMMA EndKnownStep ==
  ASSUME TypeOK, OpInv, JoinInv, ProcessInv, StateInv, EndKnown, TickKeepsOut, Next
  PROVE  EndKnown'
<1>1. ASSUME NEW t \in Threads, StopSteps(t) PROVE EndKnown'
  <2>1. CASE StopCheck(t)
    BY <2>1, SMTT(30) DEF TypeOK, EndKnown, Terminated, StopCheck
  <2>2. CASE Terminate(t)
    BY <2>2, SMTT(30) DEF TypeOK, EndKnown, Terminated, Terminate
  <2>3. CASE CloseHandles(t) \/ NullProcess(t) \/ ResetProcess(t)
    BY <2>3, SMTT(30) DEF TypeOK, EndKnown, Terminated, CloseHandles, NullProcess, ResetProcess
  <2>4. CASE RunDeleteCommands(t) \/ ClearDeleteCommands(t)
    BY <2>4, SMTT(30) DEF TypeOK, EndKnown, Terminated, RunDeleteCommands, ClearDeleteCommands
  <2>5. CASE DeleteConfig(t) \/ StopFinal(t) \/ TimerStopSet(t)
    BY <2>5, SMTT(30) DEF TypeOK, EndKnown, Terminated, DeleteConfig, StopFinal, TimerStopSet
  <2>6. QED
    BY <1>1, <2>1, <2>2, <2>3, <2>4, <2>5 DEF StopSteps
<1>2. CASE UIStep
  <2>1. CASE TimerStopClear
    BY <2>1, SMTT(30) DEF TypeOK, EndKnown, Terminated, TimerStopClear, Return
  <2>2. CASE TimerJoin \/ Announce
    BY <2>2, SMTT(30) DEF TypeOK, EndKnown, Terminated, TimerJoin, Announce
  <2>3. CASE Prepare
    BY <2>3, SMTT(30) DEF TypeOK, EndKnown, Terminated, Prepare
  <2>4. CASE WriteConfig
    <3>1. /\ Goto(UI, "announce") \/ Goto(UI, "fail")
          /\ pc[UI] = "write" /\ UNCHANGED <<op, state, process, endedBy>>
      BY <2>4, Zenon DEF WriteConfig
    <3>2. QED
      BY <3>1, SMTT(30) DEF TypeOK, EndKnown, Terminated
  <2>5. CASE CreateProcess
    <3>1. pc[UI] = "create" /\ UNCHANGED <<op, state, endedBy>>
      BY <2>5, Zenon DEF CreateProcess
    <3>2. endedBy # TM /\ op # "poll" /\ state # "ERROR"
      BY <3>1, SMT DEF TypeOK, EndKnown
    <3>3. QED
      BY <3>1, <3>2, Zenon DEF EndKnown
  <2>6. CASE ApplyTunNetworking \/ Established
    BY <2>6, SMTT(30) DEF TypeOK, EndKnown, Terminated, ApplyTunNetworking, Established
  <2>7. CASE SpawnTimer \/ EndDelay
    BY <2>7, SMTT(30) DEF TypeOK, EndKnown, Terminated, SpawnTimer, EndDelay
  <2>8. CASE FailStart \/ ReportExit
    <3>1. /\ pc[UI] \in {"fail", "report"} /\ pc' = [pc EXCEPT ![UI] = "idle"] /\ op' = "none"
          /\ UNCHANGED <<process, xray, endedBy>>
      BY <2>8, Zenon DEF FailStart, ReportExit
    <3>2. process = 0 /\ endedBy # TM
      BY <3>1, SMTT(30) DEF TypeOK, EndKnown
    <3>3. QED
      BY <3>1, <3>2, SMTT(30) DEF TypeOK, EndKnown
  <2>9. QED
    BY <1>1, <1>2, <2>1, <2>2, <2>3, <2>4, <2>5, <2>6, <2>7, <2>8 DEF UIStep
<1>3. CASE TMStep
  <2>1. CASE TimerSelfReturn \/ TimerLoop \/ TimerWake \/ TimerStopped \/ TimerStale \/ Expire \/ TimerExit
    BY <2>1, SMTT(30) DEF TypeOK, EndKnown, Terminated, TimerSelfReturn, TimerLoop, TimerWake, TimerStopped,
      TimerStale, Expire, TimerExit
  <2>2. QED
    BY <1>1, <1>3, <2>1 DEF TMStep
<1>4. CASE Request
  <2>1. CASE PollExit
    <3>1. ~Terminated
      BY <2>1 DEF TickKeepsOut
    <3>2. QED
      BY <2>1, <3>1, SMTT(30) DEF TypeOK, EndKnown, Terminated, PollExit
  <2>2. CASE ~PollExit
    BY <1>4, <2>2, SMTT(30) DEF TypeOK, EndKnown, Terminated, Request, CallStart, CallStop, Shutdown,
      UpdateAutoDisconnectTime, CancelAutoDisconnect, ClearAutoDisconnectFlag, BeginDelay, RestartElevated
  <2>3. QED
    BY <2>1, <2>2
<1>5. CASE Tick \/ XrayExit \/ DataRaceCrash
  BY <1>5, SMTT(30) DEF TypeOK, EndKnown, Terminated, Tick, XrayExit, DataRaceCrash
<1>6. CASE UNCHANGED vars
  BY <1>6, SMTT(30) DEF EndKnown, Terminated, vars
<1>7. QED
  BY <1>2, <1>3, <1>4, <1>5, <1>6 DEF Next

\* An auto-disconnect is reported as a failure in one way only: the status tick finds the
\* process exited while the timer thread stands between its TerminateProcess and its
\* process_.reset().  With the tick kept out of that window, in any other interleaving of any
\* number of sessions, ERROR is not the state of a session that the timer ended.
THEOREM ErrorNeedsPollInWindow ==
  Spec /\ [][TickKeepsOut]_vars => []ErrorMeansFailure
<1>1. Init => EndKnown
  BY SMT DEF Init, EndKnown
<1>2. IInv /\ EndKnown /\ [Next]_vars /\ [TickKeepsOut]_vars => EndKnown'
  <2>1. CASE UNCHANGED vars
    BY <2>1, SMTT(30) DEF EndKnown, Terminated, vars
  <2>2. IInv => TypeOK /\ OpInv /\ JoinInv /\ ProcessInv /\ StateInv
    BY Zenon DEF IInv
  <2>3. QED
    BY <2>1, <2>2, EndKnownStep
<1>3. EndKnown => ErrorMeansFailure
  BY Zenon DEF EndKnown, ErrorMeansFailure
<1>4. QED
  BY <1>1, <1>2, <1>3, Invariance, PTL DEF Spec

====
