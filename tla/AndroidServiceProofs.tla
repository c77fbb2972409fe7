------------------------- MODULE AndroidServiceProofs -------------------------
(***************************************************************************)
(* Theorems about AndroidService: what holds between the main thread and   *)
(* the threads it never waits for, for any number of Intents, service      *)
(* objects, processes, faults and kills.                                   *)
(***************************************************************************)
EXTENDS AndroidService, FiniteSetTheorems, SequenceTheorems, TLAPS

\* The main thread brings up a session; it has one to bring up.
Launching ==
  \/ pc[Main] \in {"launch", "vpn", "tun", "up"}
  \/ pc[Main] \in {"kill", "close", "destroy", "forget", "settle"} /\ job = "tunfail"

ToLaunch == pc[Main] = "begin" \/ (pc[Main] \in {"kill", "close"} /\ job = "start")

\* A thread is in a stopAll or stopCore, and not in the cleanup before a start.
Ending(t) ==
  \/ pc[t] \in {"destroy", "forget", "settle"}
  \/ pc[t] \in {"kill", "close"} /\ ~(t = Main /\ job = "start")

SomeEnds == \E t \in Threads : Ending(t)

-----------------------------------------------------------------------------
(* The inductive invariant.                                                *)

Count(s, T)   == Cardinality({n \in DOMAIN s : s[n] \in T})
StartMessages == {m \in Messages : m.cmd = "START"}
One(P)        == IF P THEN 1 ELSE 0

\* Every START Intent is counted once, on its way, being handled or begun; every service
\* object was asked for by the app, the system, or a session that had a countdown.
BoundsInv ==
  /\ asked["START"] <= MaxStarts /\ asked["STOP"] <= MaxStops
  /\ asked["UPDATE"] <= MaxUpdates /\ asked["KILL"] <= MaxKills
  /\ begun + Count(queue, StartMessages) + One(ToLaunch) <= asked["START"]
  /\ made + One(auto) + One(Launching)
       <= asked["START"] + asked["STOP"] + asked["UPDATE"] + asked["KILL"] + begun

\* A thread that does something does it for a service object there was.
WorkInv ==
  /\ \A t \in Threads : pc[t] \notin {"off", "idle"} => inst[t] \in Services
  /\ pc[Main] \in {"launch", "vpn", "tun"} => begun >= 1

\* A thread is started once.
FreshInv ==
  /\ \A n \in 1 .. MaxStarts :
       n > begun \/ (n = begun /\ pc[Main] = "launch") => pc[<<"xray", n>>] = "off"
  /\ \A n \in 1 .. MaxTuns :
       n > tunsMade => pc[<<"tun", n>>] = "off" /\ pc[<<"fd", n>>] = "off"

\* A service object is on record or will be destroyed, after all that is queued for it and
\* what the main thread does for it.
Destroyed(i, from) ==
  \/ svc = i
  \/ \E m \in DOMAIN queue : m > from /\ queue[m] = [cmd |-> "DESTROY", to |-> i]

OwnInv ==
  /\ \A i \in Services : \A n \in DOMAIN queue :
       queue[n].to = i /\ queue[n].cmd # "DESTROY" => Destroyed(i, n)
  /\ \A i \in Services :
       inst[Main] = i /\ (ToLaunch \/ pc[Main] \in {"launch", "vpn"}) => Destroyed(i, 0)
  /\ TunnelOwned

\* Until the first xray process there are no processes.
FirstInv ==
  begun = 0 \/ (begun = 1 /\ pc[Main] = "launch") =>
    /\ core = None /\ closed \cap XrayMons = {}
    /\ tunsMade = 0 /\ alive \cap TunMons = {}
    /\ pc[Main] = "launch" => state = "CONNECTING"

Watcher(t) ==
  \/ pc[t] \in {"new", "mark"}
  \/ pc[t] \in {"read", "join"} /\ watch[t] = core

\* The first xray process, while it is on record: it is watched or being stopped, it is being
\* stopped if no session is told of, and if it was destroyed it is about to be forgotten.
CoreInv ==
  begun <= 1 =>
    /\ core # None => (\E t \in XrayMons : Watcher(t)) \/ SomeEnds
    /\ core # None /\ state \notin {"CONNECTED", "CONNECTING"} => SomeEnds
    /\ core \in closed => \E t \in Threads : pc[t] = "forget"
    /\ \A t \in Threads : pc[t] = "settle" => core = None

\* The tun2socks processes of the first session: only the last one made may run or have a
\* monitor that might start another, and a monitor that will has seen its own end.
TunInv ==
  begun <= 1 =>
    /\ alive \cap TunMons \subseteq {<<"tun", tunsMade>>}
    /\ pc[Main] \in {"launch", "vpn", "tun"} =>
         tunsMade = 0
    /\ \A t \in TunMons : pc[t] \in {"new", "read", "join", "restart"} =>
         /\ t = <<"tun", tunsMade>>
         /\ tun[inst[t]] \in {t, None}
         /\ tun[inst[t]] = None => inst[t] \notin running
         /\ pc[t] = "read" => watch[t] = t
         /\ pc[t] = "join" => t \notin alive \/ inst[t] \notin running
         /\ pc[t] = "restart" => t \notin alive

\* A countdown ticks; away from CONNECTED a session is being brought up or stopped.
CountdownInv ==
  auto =>
    /\ timer /\ remaining > 0
    /\ state = "CONNECTED" \/ SomeEnds \/ pc[Main] \in {"launch", "vpn", "tun", "up"}

\* What the app has not heard yet it will: from a thread that stops the session, or from the
\* destruction, the stop or the restart that is queued.
HeardInv ==
  heard = state \/ SomeEnds
    \/ \E n \in DOMAIN queue : queue[n].cmd \in {"STOP", "DESTROY", "RESTART"}

ServiceInv ==
  /\ TypeOK /\ BoundsInv /\ WorkInv /\ FreshInv /\ OwnInv /\ FirstInv /\ CoreInv /\ TunInv /\ CountdownInv
  /\ HeardInv

-----------------------------------------------------------------------------
(* Counting the messages of a queue.                                       *)

LEMMA CountType ==
  ASSUME NEW S, NEW s \in Seq(S), NEW T
  PROVE  Count(s, T) \in Nat /\ IsFiniteSet({i \in DOMAIN s : s[i] \in T})
  <1>1. DOMAIN s = 1..Len(s) /\ Len(s) \in Nat
    BY LenProperties
  <1>2. IsFiniteSet(DOMAIN s)
    BY <1>1, FS_Interval
  <1>3. IsFiniteSet({i \in DOMAIN s : s[i] \in T})
    BY <1>2, FS_Subset
  <1> QED BY <1>3, FS_CardinalityType DEF Count

\* A message that is added counts if it is in the set.
LEMMA CountAppend ==
  ASSUME NEW S, NEW s \in Seq(S), NEW e \in S, NEW T
  PROVE  Count(Append(s, e), T) = Count(s, T) + (IF e \in T THEN 1 ELSE 0)
  <1> DEFINE I == {i \in DOMAIN s : s[i] \in T}
             J == {i \in DOMAIN Append(s, e) : Append(s, e)[i] \in T}
             n == Len(s) + 1
  <1>1. /\ Len(s) \in Nat /\ DOMAIN s = 1..Len(s) /\ DOMAIN Append(s, e) = 1..n
        /\ Append(s, e)[n] = e /\ \A i \in 1..Len(s) : Append(s, e)[i] = s[i]
    BY AppendProperties, LenProperties
  <1>2. IsFiniteSet(I) /\ Cardinality(I) = Count(s, T) /\ Cardinality(I) \in Nat
    <2>1. IsFiniteSet({i \in DOMAIN s : s[i] \in T}) /\ Count(s, T) \in Nat
      BY CountType
    <2> QED BY <2>1 DEF Count
  <1>3. n \notin I
    BY <1>1
  <1>4. Cardinality(J) = Count(Append(s, e), T)
    BY DEF Count
  <1> HIDE DEF I, J
  <1>5. CASE e \in T
    <2>1. J = I \cup {n}
      BY <1>1, <1>5 DEF I, J
    <2>2. Cardinality(I \cup {n}) = Cardinality(I) + 1
      BY <1>2, <1>3, FS_AddElement
    <2> QED BY <2>1, <2>2, <1>2, <1>4, <1>5
  <1>6. CASE e \notin T
    <2>1. J = I
      BY <1>1, <1>6 DEF I, J
    <2> QED BY <2>1, <1>2, <1>4, <1>6
  <1> QED BY <1>5, <1>6

\* A message that is taken no longer counts.
LEMMA CountTail ==
  ASSUME NEW S, NEW s \in Seq(S), s # <<>>, NEW T
  PROVE  Count(s, T) = Count(Tail(s), T) + (IF Head(s) \in T THEN 1 ELSE 0)
  <1> DEFINE I == {i \in DOMAIN s : s[i] \in T}
             K == I \ {1}
             J == {i \in DOMAIN Tail(s) : Tail(s)[i] \in T}
             f == [i \in K |-> i - 1]
  <1>1. /\ Len(s) \in Nat \ {0} /\ DOMAIN s = 1..Len(s) /\ DOMAIN Tail(s) = 1..(Len(s) - 1)
        /\ Head(s) = s[1] /\ \A i \in 1..(Len(s) - 1) : Tail(s)[i] = s[i + 1]
    BY HeadTailProperties, LenProperties, EmptySeq
  <1>2. IsFiniteSet(I) /\ Cardinality(I) = Count(s, T) /\ Cardinality(I) \in Nat
    <2>1. IsFiniteSet({i \in DOMAIN s : s[i] \in T}) /\ Count(s, T) \in Nat
      BY CountType
    <2> QED BY <2>1 DEF Count
  <1>3. ExistsBijection(K, J)
    <2>1. \A i \in K : i \in 2..Len(s) /\ i - 1 \in 1..(Len(s) - 1) /\ Tail(s)[i - 1] = s[i]
      BY <1>1
    <2>2. f \in [K -> J]
      BY <2>1, <1>1
    <2>3. \A i, j \in K : f[i] = f[j] => i = j
      BY <2>1
    <2>4. \A j \in J : j + 1 \in K /\ f[j + 1] = j
      BY <1>1
    <2>5. f \in Bijection(K, J)
      BY <2>2, <2>3, <2>4 DEF Bijection, Injection, Surjection, IsInjective
    <2> QED BY <2>5 DEF ExistsBijection
  <1>4. Cardinality(J) = Count(Tail(s), T)
    BY DEF Count
  <1> HIDE DEF I, J, K, f
  <1>5. IsFiniteSet(K)
    BY <1>2, FS_RemoveElement DEF K
  <1>6. Cardinality(K) = Cardinality(J)
    BY <1>3, <1>5, FS_Bijection
  <1>7. CASE Head(s) \in T
    <2>1. 1 \in I
      BY <1>1, <1>7 DEF I
    <2>2. Cardinality(K) = Cardinality(I) - 1
      BY <2>1, <1>2, FS_RemoveElement DEF K
    <2> QED BY <2>2, <1>2, <1>4, <1>6, <1>7
  <1>8. CASE Head(s) \notin T
    <2>1. K = I
      BY <1>1, <1>8 DEF I, K
    <2> QED BY <2>1, <1>2, <1>4, <1>6, <1>8
  <1> QED BY <1>7, <1>8

-----------------------------------------------------------------------------
(* The threads and what they do to each other's state.                     *)

LEMMA ThreadFacts ==
  /\ Main \in Threads /\ XrayMons \cup TunMons \cup FdSenders = Threads \ {Main}
  /\ XrayMons \cap TunMons = {} /\ FdSenders \cap (XrayMons \cup TunMons) = {}
  /\ Processes = XrayMons \cup TunMons
  /\ None \notin Processes /\ None \notin Interfaces
  BY NullAssumption DEF Main, Threads, XrayMons, TunMons, FdSenders, Processes

LEMMA MessageType ==
  ASSUME NEW command \in {"START", "STOP", "UPDATE", "RESTART", "DESTROY"}, NEW i \in Services
  PROVE  [cmd |-> command, to |-> i] \in Messages
  BY DEF Messages

\* What a destruction does to the record and the queue.
LEMMA DestroyCases ==
  ASSUME NEW i, NEW waiting, Destroy(i, waiting)
  PROVE  \/ /\ svc = i /\ svc # 0 /\ svc' = 0
            /\ queue' = Append(waiting, [cmd |-> "DESTROY", to |-> i])
         \/ svc' = svc /\ queue' = waiting
  BY DEF Destroy

\* A step of a monitor or a sender leaves the main thread where it is, and everything that
\* only Intents change.
LEMMA AsideSteps ==
  ASSUME TypeOK, NEW t \in Threads, t # Main, MonitorStep(t) \/ SenderStep(t)
  PROVE  /\ pc'[Main] = pc[Main] /\ inst'[Main] = inst[Main]
         /\ UNCHANGED <<begun, job, made, asked>>
         /\ pc'[t] # pc[t] /\ pc[t] # "off"
  <1> USE DEF TypeOK, coreVars, timerVars, tunVars, threadVars, processVars, systemVars, Step, Goto
  <1>1. Main # <<"tun", tunsMade + 1>> /\ Main # <<"fd", tunsMade + 1>>
    BY DEF Main
  <1>2. Main \in Threads
    BY ThreadFacts
  <1>3. CASE StopSteps(t)
    BY <1>2, <1>3 DEF StopSteps, KillTun, CloseTun, DestroyCore, ForgetCore, Settle
  <1>4. CASE \/ MonitorBegin(t) \/ MonitorEof(t) \/ MonitorInterrupted(t) \/ XrayExited(t)
             \/ XrayMarks(t) \/ TunExited(t)
    BY <1>2, <1>4 DEF MonitorBegin, MonitorEof, MonitorInterrupted, XrayExited, XrayMarks, TunExited
  <1>5. CASE StartTun(t)
    BY <1>1, <1>2, <1>5 DEF StartTun, RunsTun2socks
  <1>6. CASE TunFails(t) \/ FdSent(t) \/ FdFails(t)
    BY <1>2, <1>6 DEF TunFails, RunsTun2socks, FdSent, FdFails
  <1> QED BY <1>3, <1>4, <1>5, <1>6 DEF MonitorStep, SenderStep

\* What it does to the record, the queue and the countdown: at most the stopSelf and the
\* stopTimer of its last step.
LEMMA AsideEffects ==
  ASSUME NEW t \in Threads, t # Main, MonitorStep(t) \/ SenderStep(t)
  PROVE  \/ /\ UNCHANGED <<svc, queue, timer, remaining, auto, heard>>
         \/ /\ Settle(t)
            /\ UNCHANGED <<svc, queue>> \/ Destroy(inst[t], queue)
            /\ auto' = FALSE
  <1> USE DEF coreVars, timerVars, tunVars, threadVars, processVars, systemVars
  <1>1. CASE Settle(t)
    BY <1>1 DEF Settle
  <1>2. CASE KillTun(t) \/ CloseTun(t) \/ DestroyCore(t) \/ ForgetCore(t)
    BY <1>2 DEF KillTun, CloseTun, DestroyCore, ForgetCore
  <1>3. CASE \/ MonitorBegin(t) \/ MonitorEof(t) \/ MonitorInterrupted(t) \/ XrayExited(t)
             \/ XrayMarks(t) \/ TunExited(t) \/ StartTun(t) \/ TunFails(t) \/ FdSent(t) \/ FdFails(t)
    BY <1>3 DEF MonitorBegin, MonitorEof, MonitorInterrupted, XrayExited, XrayMarks, TunExited,
                StartTun, TunFails, FdSent, FdFails
  <1> QED BY <1>1, <1>2, <1>3 DEF MonitorStep, SenderStep, StopSteps

-----------------------------------------------------------------------------
(* Bounds.                                                                 *)

Commands == {"START", "STOP", "UPDATE", "KILL"}

\* The bound on service objects, of which each counts once.
Asked == asked["START"] + asked["STOP"] + asked["UPDATE"] + asked["KILL"]
Begins == Count(queue, StartMessages)

LEMMA BoundsType ==
  ASSUME TypeOK
  PROVE  /\ asked["START"] \in Nat /\ asked["STOP"] \in Nat /\ asked["UPDATE"] \in Nat
         /\ asked["KILL"] \in Nat /\ begun \in Nat /\ made \in Nat /\ Begins \in Nat /\ Asked \in Nat
  <1>1. Begins \in Nat
    BY CountType DEF TypeOK, Begins
  <1>2. begun \in Nat /\ made \in Nat
    BY ServiceAssumption DEF TypeOK, Services
  <1>3. \A c \in {"START", "STOP", "UPDATE", "KILL"} : asked[c] \in Nat
    BY DEF TypeOK
  <1> QED BY <1>1, <1>2, <1>3 DEF Asked

\* A step after which no more is asked for, begun or made, and none is brought up that was
\* not before, keeps the bounds.
LEMMA BoundsSame ==
  ASSUME TypeOK, BoundsInv, UNCHANGED <<asked, begun, made>>, Begins' = Begins,
         ToLaunch' => ToLaunch, Launching' => Launching, auto' => auto
  PROVE  BoundsInv'
  <1>1. One(ToLaunch') <= One(ToLaunch) /\ One(ToLaunch') \in 0 .. 1 /\ One(ToLaunch) \in 0 .. 1
    BY DEF One
  <1>2. One(Launching') <= One(Launching) /\ One(Launching') \in 0 .. 1 /\ One(Launching) \in 0 .. 1
    BY DEF One
  <1>3. One(auto') <= One(auto) /\ One(auto') \in 0 .. 1 /\ One(auto) \in 0 .. 1
    BY DEF One
  <1> HIDE DEF One, ToLaunch, Launching
  <1> QED BY <1>1, <1>2, <1>3, BoundsType DEF BoundsInv, Begins

\* A message that is added or taken counts if it is a START.
LEMMA BeginsAppend ==
  ASSUME TypeOK, NEW m \in Messages, queue' = Append(queue, m)
  PROVE  Begins' = Begins + One(m.cmd = "START")
  <1>1. Count(Append(queue, m), StartMessages) = Count(queue, StartMessages) + (IF m \in StartMessages THEN 1 ELSE 0)
    BY CountAppend DEF TypeOK
  <1>2. m \in StartMessages <=> m.cmd = "START"
    BY DEF StartMessages
  <1> QED BY <1>1, <1>2 DEF Begins, One

LEMMA BeginsTail ==
  ASSUME TypeOK, queue # <<>>
  PROVE  /\ Begins = Count(Tail(queue), StartMessages) + One(Head(queue).cmd = "START")
         /\ Count(Tail(queue), StartMessages) \in Nat
         /\ Tail(queue) \in Seq(Messages) /\ Head(queue) \in Messages
  <1>1. Tail(queue) \in Seq(Messages) /\ Head(queue) \in Messages
    BY HeadTailProperties DEF TypeOK
  <1>2. Head(queue) \in StartMessages <=> Head(queue).cmd = "START"
    BY <1>1 DEF StartMessages
  <1>3. Count(queue, StartMessages)
          = Count(Tail(queue), StartMessages) + (IF Head(queue) \in StartMessages THEN 1 ELSE 0)
    BY CountTail DEF TypeOK
  <1> QED BY <1>1, <1>2, <1>3, CountType DEF Begins, One

\* A destruction queued behind what waits is no START.
LEMMA BeginsDestroy ==
  ASSUME TypeOK, NEW i, NEW waiting \in Seq(Messages), Destroy(i, waiting)
  PROVE  Begins' = Count(waiting, StartMessages)
  <1> DEFINE m == [cmd |-> "DESTROY", to |-> i]
  <1>1. queue' = waiting \/ (svc = i /\ svc # 0 /\ queue' = Append(waiting, m))
    BY DEF Destroy
  <1>2. svc = i /\ svc # 0 => m \in Messages /\ m \notin StartMessages
    BY DEF TypeOK, Messages, StartMessages
  <1> HIDE DEF m
  <1>3. ASSUME m \in Messages, m \notin StartMessages
        PROVE  Count(Append(waiting, m), StartMessages) = Count(waiting, StartMessages)
    <2>1. Count(Append(waiting, m), StartMessages)
            = Count(waiting, StartMessages) + (IF m \in StartMessages THEN 1 ELSE 0)
      BY <1>3, CountAppend
    <2>2. Count(waiting, StartMessages) \in Nat
      BY CountType
    <2> QED BY <2>1, <2>2, <1>3
  <1> QED BY <1>1, <1>2, <1>3 DEF Begins

\* There is room for a service object as long as the app or the system may ask again, or a
\* countdown runs.
LEMMA RoomForService ==
  ASSUME TypeOK, BoundsInv,
         \/ asked["START"] < MaxStarts \/ asked["STOP"] < MaxStops
         \/ asked["UPDATE"] < MaxUpdates \/ asked["KILL"] < MaxKills \/ auto
  PROVE  made + 1 \in Services
  <1>1. One(ToLaunch) \in 0 .. 1 /\ One(Launching) \in 0 .. 1
    BY DEF One
  <1>2. One(auto) \in 0 .. 1 /\ (auto => One(auto) = 1)
    BY DEF One
  <1>3. begun <= asked["START"] /\ made + One(auto) <= Asked + begun
    BY <1>1, <1>2, BoundsType DEF BoundsInv, Begins, Asked
  <1>4. {MaxStarts, MaxStops, MaxUpdates, MaxTuns, MaxKills} \subseteq Nat
    BY ServiceAssumption
  <1> HIDE DEF One
  <1>5. made + 1 <= MaxStarts + MaxStops + MaxUpdates + MaxStarts + MaxKills
    BY <1>2, <1>3, <1>4, BoundsType DEF BoundsInv, Asked
  <1> QED BY <1>5, BoundsType DEF Services

\* Intents: at most one more service object, and one more message, to the one on record.
LEMMA ServiceStarted ==
  ASSUME TypeOK, made + 1 \in Services, NEW command \in {"START", "STOP", "UPDATE"},
         StartService(command)
  PROVE  /\ svc' \in Services /\ made' \in {made, made + 1} /\ made' \in Services \cup {0}
         /\ queue' = Append(queue, [cmd |-> command, to |-> svc'])
         /\ [cmd |-> command, to |-> svc'] \in Messages
         /\ svc' = svc \/ svc = 0
         /\ Begins' = Begins + One(command = "START")
  <1>1. /\ svc' \in Services /\ made' \in {made, made + 1} /\ made' \in Services \cup {0}
        /\ svc' = svc \/ svc = 0
    BY DEF StartService, TypeOK
  <1>2. queue' = Append(queue, [cmd |-> command, to |-> svc'])
    BY DEF StartService
  <1>3. [cmd |-> command, to |-> svc'] \in Messages
    BY <1>1, MessageType
  <1>4. Begins' = Begins + One(command = "START")
    <2> DEFINE m == [cmd |-> command, to |-> svc']
    <2>1. m.cmd = command
      OBVIOUS
    <2> HIDE DEF m
    <2> QED BY <1>2, <1>3, <2>1, BeginsAppend DEF m
  <1> QED BY <1>1, <1>2, <1>3, <1>4

LEMMA BoundsNext == TypeOK /\ BoundsInv /\ [Next]_vars => BoundsInv'
  <1> SUFFICES ASSUME TypeOK, BoundsInv, [Next]_vars PROVE BoundsInv'
    OBVIOUS
  <1> USE DEF coreVars, timerVars, tunVars, threadVars, processVars, systemVars
  <1>1. Main \in Threads /\ pc \in [Threads -> Points]
    BY ThreadFacts DEF TypeOK
  <1>2. ASSUME queue' = queue PROVE Begins' = Begins
    BY <1>2 DEF Begins
  <1>3. ASSUME NEW t \in Threads, t # Main, MonitorStep(t) \/ SenderStep(t) PROVE BoundsInv'
    <2>1. /\ pc'[Main] = pc[Main] /\ UNCHANGED <<begun, job, made, asked>>
      BY <1>3, AsideSteps
    <2>2. (auto' => auto) /\ (UNCHANGED queue \/ Destroy(inst[t], queue))
      BY <1>3, AsideEffects
    <2>3. Begins' = Begins
      BY <1>2, <2>2, BeginsDestroy DEF TypeOK, Begins
    <2>4. (ToLaunch' => ToLaunch) /\ (Launching' => Launching)
      BY <2>1 DEF ToLaunch, Launching
    <2> QED BY <2>1, <2>2, <2>3, <2>4, BoundsSame
  <1>4. CASE KillTun(Main) \/ CloseTun(Main) \/ DestroyCore(Main) \/ ForgetCore(Main)
    <2>1. UNCHANGED <<asked, begun, made, auto, queue, job>>
      BY <1>4 DEF KillTun, CloseTun, DestroyCore, ForgetCore
    <2>2. (ToLaunch' => ToLaunch) /\ (Launching' => Launching)
      BY <1>1, <1>4, <2>1 DEF KillTun, CloseTun, DestroyCore, ForgetCore, Step, Goto, ToLaunch, Launching
    <2> QED BY <1>2, <2>1, <2>2, BoundsSame
  <1>5. CASE Settle(Main)
    <2>1. UNCHANGED <<asked, begun, made>> /\ ~auto' /\ pc[Main] = "settle" /\ job' = "none"
          /\ pc'[Main] = (IF job = "tunfail" THEN "up" ELSE "idle")
      BY <1>1, <1>5 DEF Settle, Step, Goto
    <2>2. Begins' = Begins
      <3>1. UNCHANGED queue \/ Destroy(inst[Main], queue)
        BY <1>5 DEF Settle
      <3> QED BY <1>2, <3>1, BeginsDestroy DEF TypeOK, Begins
    <2>3. (ToLaunch' => ToLaunch) /\ (Launching' => Launching)
      BY <2>1 DEF ToLaunch, Launching
    <2> QED BY <2>1, <2>2, <2>3, BoundsSame
  <1>6. CASE OnStart
    <2>1. /\ UNCHANGED <<asked, begun, made, auto>> /\ queue # <<>> /\ Head(queue).cmd = "START"
          /\ queue' = Tail(queue) /\ pc[Main] = "idle" /\ pc'[Main] = "kill" /\ job' = "start"
      BY <1>1, <1>6 DEF OnStart, Receive, Goto
    <2>2. Begins = Begins' + 1 /\ Begins' \in Nat
      BY <2>1, BeginsTail DEF Begins, One
    <2>3. One(ToLaunch) = 0 /\ One(ToLaunch') = 1 /\ One(Launching) = 0 /\ One(Launching') = 0
      BY <2>1 DEF ToLaunch, Launching, One
    <2>4. One(auto') = One(auto)
      BY <2>1
    <2> QED BY <2>1, <2>2, <2>3, <2>4, BoundsType DEF BoundsInv, Begins
  <1>7. CASE OnStop
    <2>1. /\ UNCHANGED <<asked, begun, made, auto>> /\ queue # <<>> /\ Head(queue).cmd # "START"
          /\ queue' = Tail(queue) /\ pc'[Main] = "kill" /\ job' = "stop"
      BY <1>1, <1>7 DEF OnStop, Receive, Goto
    <2>2. Begins' = Begins
      BY <2>1, BeginsTail, BoundsType DEF Begins, One
    <2>3. (ToLaunch' => ToLaunch) /\ (Launching' => Launching)
      BY <2>1 DEF ToLaunch, Launching
    <2> QED BY <2>1, <2>2, <2>3, BoundsSame
  <1>8. CASE OnUpdate \/ OnRestart
    <2>1. /\ UNCHANGED <<asked, begun, made, auto, pc, job>> /\ queue # <<>> /\ Head(queue).cmd # "START"
      BY <1>8 DEF OnUpdate, OnRestart, Receive
    <2>2. Begins' = Begins
      <3>1. queue' = Tail(queue) \/ Destroy(Head(queue).to, Tail(queue))
        BY <1>8 DEF OnUpdate, OnRestart
      <3>2. Begins = Count(Tail(queue), StartMessages) /\ Tail(queue) \in Seq(Messages)
        BY <2>1, BeginsTail DEF One
      <3>3. queue' = Tail(queue) => Begins' = Count(Tail(queue), StartMessages)
        BY DEF Begins
      <3> QED BY <3>1, <3>2, <3>3, BeginsDestroy
    <2>3. (ToLaunch' => ToLaunch) /\ (Launching' => Launching)
      BY <2>1 DEF ToLaunch, Launching
    <2> QED BY <2>1, <2>2, <2>3, BoundsSame
  <1>9. CASE BeginCore
    <2>1. /\ UNCHANGED <<asked, made, auto, queue, job>> /\ begun' = begun + 1
          /\ pc[Main] = "begin" /\ pc'[Main] = "launch"
      BY <1>1, <1>9 DEF BeginCore, Step, Goto
    <2>2. One(ToLaunch) = 1 /\ One(ToLaunch') = 0 /\ One(Launching) = 0 /\ One(Launching') = 1
      BY <2>1 DEF ToLaunch, Launching, One
    <2>3. One(auto') = One(auto) /\ One(auto) \in 0 .. 1
      BY <2>1 DEF One
    <2> QED BY <1>2, <2>1, <2>2, <2>3, BoundsType DEF BoundsInv, Begins
  <1>10. CASE Launch \/ StartFails \/ EstablishVpn \/ StartTun(Main) \/ TunFails(Main)
    <2>1. UNCHANGED <<asked, begun, made, auto, queue>> /\ pc[Main] \in {"launch", "vpn", "tun"}
      BY <1>10 DEF Launch, StartFails, EstablishVpn, StartTun, TunFails, RunsTun2socks, Step, TunMons, Main
    <2>2. ~ToLaunch' /\ Launching
      <3>1. ASSUME NEW x, pc' = [pc EXCEPT ![Main] = x] PROVE pc'[Main] = x
        BY <1>1, <3>1
      <3>2. CASE Launch
        BY <1>1, <3>2, <2>1 DEF Launch, Main, ToLaunch, Launching
      <3>3. CASE StartFails \/ TunFails(Main)
        BY <3>1, <3>3, <2>1 DEF StartFails, TunFails, Goto, ToLaunch, Launching
      <3>4. CASE EstablishVpn
        BY <3>1, <3>4, <2>1 DEF EstablishVpn, Step, Goto, ToLaunch, Launching
      <3>5. CASE StartTun(Main)
        BY <1>1, <3>5, <2>1 DEF StartTun, Main, ToLaunch, Launching
      <3> QED BY <1>10, <3>2, <3>3, <3>4, <3>5
    <2> QED BY <1>2, <2>1, <2>2, BoundsSame
  <1>11. CASE Established
    <2>1. /\ UNCHANGED <<asked, begun, made, queue>> /\ pc[Main] = "up" /\ pc'[Main] = "idle"
      BY <1>1, <1>11 DEF Established, Step, Goto
    <2>2. One(ToLaunch) = 0 /\ One(ToLaunch') = 0 /\ One(Launching) = 1 /\ One(Launching') = 0
      BY <2>1 DEF ToLaunch, Launching, One
    <2>3. One(auto') \in 0 .. 1 /\ One(auto) \in 0 .. 1
      BY DEF One
    <2> QED BY <1>2, <2>1, <2>2, <2>3, BoundsType DEF BoundsInv, Begins
  <1>12. CASE Expire
    <2>1. /\ UNCHANGED <<asked, begun, pc, job>> /\ auto /\ ~auto'
      BY <1>12 DEF Expire, Counting
    <2>2. Begins' = Begins /\ made' \in {made, made + 1}
      <3>1. StartService("STOP")
        BY <1>12 DEF Expire
      <3>2. made + 1 \in Services
        BY <2>1, RoomForService
      <3> QED BY <3>1, <3>2, ServiceStarted, BoundsType DEF One
    <2>3. /\ One(ToLaunch') = One(ToLaunch) /\ One(Launching') = One(Launching)
          /\ One(Launching) \in 0 .. 1 /\ One(ToLaunch) \in 0 .. 1
      <3>1. ToLaunch' = ToLaunch /\ Launching' = Launching
        BY <2>1 DEF ToLaunch, Launching
      <3> QED BY <3>1 DEF One
    <2>4. One(auto) = 1 /\ One(auto') = 0
      BY <2>1 DEF One
    <2>5. made' <= made + 1 /\ made' \in Nat
      BY <2>2, BoundsType
    <2>6. made' + One(auto') + One(Launching') <= Asked + begun
      BY <2>3, <2>4, <2>5, BoundsType DEF BoundsInv, Asked
    <2> QED BY <2>1, <2>2, <2>3, <2>6 DEF BoundsInv, Begins, Asked
  <1>13. CASE TimerTick \/ ChildExits \/ UNCHANGED vars
    <2>1. UNCHANGED <<asked, begun, made, auto, queue, pc, job>>
      BY <1>13 DEF TimerTick, ChildExits, vars
    <2> QED BY <1>2, <2>1, BoundsSame DEF ToLaunch, Launching
  <1>14. ASSUME NEW command \in Commands, NEW bound, Asks(command, bound),
                bound = CASE command = "START" -> MaxStarts [] command = "STOP" -> MaxStops
                          [] command = "UPDATE" -> MaxUpdates [] OTHER -> MaxKills,
                made' \in {made, made + 1}, Begins' \in {Begins, Begins + One(command = "START")},
                ToLaunch' => ToLaunch, Launching' => Launching, auto' => auto, begun' = begun
         PROVE  BoundsInv'
    <2>1. /\ asked[command] < bound /\ asked'[command] = asked[command] + 1
          /\ \A c \in Commands : c # command => asked'[c] = asked[c]
      BY <1>14 DEF Asks, TypeOK, Commands
    <2>2. /\ One(ToLaunch') <= One(ToLaunch) /\ One(ToLaunch') \in 0 .. 1 /\ One(ToLaunch) \in 0 .. 1
          /\ One(Launching') <= One(Launching) /\ One(Launching') \in 0 .. 1 /\ One(Launching) \in 0 .. 1
      BY <1>14 DEF One
    <2>3. One(auto') <= One(auto) /\ One(auto') \in 0 .. 1 /\ One(auto) \in 0 .. 1
      BY <1>14 DEF One
    <2>4. {MaxStarts, MaxStops, MaxUpdates, MaxTuns, MaxKills} \subseteq Nat
      BY ServiceAssumption
    <2>5. Begins' = Begins \/ (command = "START" /\ Begins' = Begins + 1)
      BY <1>14, BoundsType DEF One
    <2> HIDE DEF ToLaunch, Launching
    <2>6. CASE command = "START"
      BY <1>14, <2>1, <2>2, <2>3, <2>4, <2>5, <2>6, BoundsType DEF BoundsInv, Begins, Commands
    <2>7. CASE command # "START"
      BY <1>14, <2>1, <2>2, <2>3, <2>4, <2>5, <2>7, BoundsType DEF BoundsInv, Begins, Commands
    <2> QED BY <2>6, <2>7
  <1>15. CASE AppStep
    <2>1. UNCHANGED <<begun, auto, pc, job>>
      BY <1>15 DEF AppStep, AppSends, AppStopsService
    <2>2. (ToLaunch' => ToLaunch) /\ (Launching' => Launching)
      BY <2>1 DEF ToLaunch, Launching
    <2>3. ASSUME NEW command \in {"START", "STOP", "UPDATE"}, NEW bound, AppSends(command, bound),
                 bound = CASE command = "START" -> MaxStarts [] command = "STOP" -> MaxStops
                           [] command = "UPDATE" -> MaxUpdates [] OTHER -> MaxKills
          PROVE  BoundsInv'
      <3>1. Asks(command, bound) /\ StartService(command)
        BY <2>3 DEF AppSends
      <3>2. made + 1 \in Services
        BY <2>3, <3>1, RoomForService DEF Asks
      <3>3. made' \in {made, made + 1} /\ Begins' = Begins + One(command = "START")
        BY <3>1, <3>2, ServiceStarted
      <3> QED BY <1>14, <2>1, <2>2, <2>3, <3>1, <3>3 DEF Commands
    <2>4. CASE AppStopsService
      <3>1. Asks("STOP", MaxStops) /\ Destroy(svc, queue) /\ made' = made
        BY <2>4 DEF AppStopsService
      <3>2. Begins' = Begins
        BY <3>1, BeginsDestroy DEF TypeOK, Begins
      <3> QED BY <1>14, <2>1, <2>2, <3>1, <3>2 DEF Commands
    <2> QED BY <1>15, <2>3, <2>4 DEF AppStep
  <1>16. CASE KillProcess
    <2>1. /\ Asks("KILL", MaxKills) /\ made' = made + 1 /\ begun' = begun /\ ~auto'
          /\ queue = <<>> /\ queue' = <<[cmd |-> "RESTART", to |-> made + 1]>> /\ pc'[Main] = "idle"
      BY <1>1, <1>16 DEF KillProcess
    <2>2. Begins' = Begins
      <3>1. made + 1 \in Services
        BY <2>1, RoomForService DEF Asks
      <3>2. [cmd |-> "RESTART", to |-> made + 1] \in Messages
        BY <3>1, MessageType
      <3>3. queue' = Append(queue, [cmd |-> "RESTART", to |-> made + 1])
        BY <2>1
      <3> QED BY <3>2, <3>3, BeginsAppend, BoundsType DEF One
    <2>3. ~ToLaunch' /\ ~Launching'
      BY <2>1 DEF ToLaunch, Launching
    <2> QED BY <1>14, <2>1, <2>2, <2>3 DEF Commands
  <1>17. CASE MainStep \/ Ticking
    BY <1>4, <1>5, <1>6, <1>7, <1>8, <1>9, <1>10, <1>11, <1>12, <1>13, <1>17
       DEF MainStep, Ticking, StopSteps
  <1> QED BY <1>3, <1>13, <1>15, <1>16, <1>17, ThreadFacts DEF Next

-----------------------------------------------------------------------------
(* Types.                                                                  *)

LEMMA RoomForStart ==
  ASSUME TypeOK, BoundsInv, ToLaunch
  PROVE  begun + 1 \in 1 .. MaxStarts
  <1> DEFINE k == One(ToLaunch)
  <1>1. k = 1
    BY DEF One
  <1>2. MaxStarts \in Nat /\ begun \in Nat /\ Begins \in Nat /\ asked["START"] \in Nat
    BY ServiceAssumption, BoundsType
  <1>3. begun + Begins + k <= asked["START"] /\ asked["START"] <= MaxStarts
    BY DEF BoundsInv, Begins
  <1> HIDE DEF k
  <1> QED BY <1>1, <1>2, <1>3

\* The steps of any thread, and those that only the monitors and the senders take.
AnyStep(t)  == StopSteps(t) \/ StartTun(t) \/ TunFails(t)
Reading(t)  == MonitorBegin(t) \/ MonitorEof(t) \/ MonitorInterrupted(t)
Reacting(t) == XrayExited(t) \/ XrayMarks(t) \/ TunExited(t)
Sending(t)  == FdSent(t) \/ FdFails(t)

Receiving  == OnStart \/ OnStop \/ OnUpdate \/ OnRestart
Starting   == BeginCore \/ Launch \/ StartFails \/ EstablishVpn \/ Established
Outside    == ChildExits \/ KillProcess \/ AppStep \/ UNCHANGED vars

LEMMA NextCases ==
  ASSUME [Next]_vars
  PROVE  \/ \E t \in Threads : AnyStep(t)
         \/ \E t \in XrayMons \cup TunMons : Reading(t) \/ Reacting(t)
         \/ \E t \in FdSenders : Sending(t)
         \/ Receiving \/ Starting \/ Ticking \/ Outside
  BY ThreadFacts DEF Next, MainStep, MonitorStep, SenderStep, AnyStep, Reading, Reacting, Sending,
                     Receiving, Starting, Outside


\* Which steps change what.
LEMMA Changes ==
  ASSUME [Next]_vars
  PROVE  /\ \/ UNCHANGED state \/ BeginCore \/ StartFails \/ Established \/ KillProcess
            \/ \E t \in Threads : Settle(t) \/ TunFails(t)
            \/ \E t \in XrayMons \cup TunMons : XrayMarks(t)
            \/ \E t \in FdSenders : FdFails(t)
         /\ UNCHANGED core \/ Launch \/ KillProcess \/ \E t \in Threads : ForgetCore(t)
         /\ UNCHANGED begun \/ BeginCore
         /\ UNCHANGED timer \/ Established \/ KillProcess \/ \E t \in Threads : Settle(t)
         /\ \/ UNCHANGED remaining \/ OnUpdate \/ Established \/ KillProcess \/ TimerTick \/ Expire
            \/ \E t \in Threads : Settle(t)
         /\ UNCHANGED auto \/ Established \/ KillProcess \/ Expire \/ \E t \in Threads : Settle(t)
         /\ UNCHANGED vpn \/ EstablishVpn \/ KillProcess \/ \E t \in Threads : CloseTun(t)
         /\ \/ UNCHANGED running \/ EstablishVpn \/ Launch \/ KillProcess
            \/ \E t \in Threads : CloseTun(t)
         /\ UNCHANGED tun \/ KillProcess \/ \E t \in Threads : CloseTun(t) \/ StartTun(t)
         /\ UNCHANGED tunsMade \/ \E t \in Threads : StartTun(t)
         /\ \/ UNCHANGED alive \/ Launch \/ KillProcess \/ ChildExits
            \/ \E t \in Threads : StartTun(t) \/ KillTun(t) \/ DestroyCore(t)
         /\ UNCHANGED closed \/ KillProcess \/ \E t \in Threads : KillTun(t) \/ DestroyCore(t)
         /\ UNCHANGED inst \/ Receiving \/ Launch \/ \E t \in Threads : StartTun(t)
         /\ \/ UNCHANGED watch \/ \E t \in XrayMons \cup TunMons : MonitorBegin(t) \/ MonitorEof(t)
            \/ \E t \in Threads : StartTun(t)
         /\ \/ UNCHANGED job \/ OnStart \/ OnStop \/ StartFails \/ Established
            \/ \E t \in Threads : Settle(t) \/ TunFails(t)
         /\ \/ UNCHANGED svc \/ OnRestart \/ Expire \/ KillProcess \/ AppStep
            \/ \E t \in Threads : Settle(t)
         /\ UNCHANGED made \/ Expire \/ KillProcess \/ AppStep
         /\ \/ UNCHANGED queue \/ Receiving \/ Expire \/ KillProcess \/ AppStep
            \/ \E t \in Threads : Settle(t)
         /\ UNCHANGED asked \/ KillProcess \/ AppStep
         /\ \/ UNCHANGED heard \/ BeginCore \/ Established \/ Ticking
            \/ \E t \in Threads : Settle(t)
  <1> USE DEF coreVars, timerVars, tunVars, threadVars, processVars, systemVars
  <1>1. ASSUME NEW t \in Threads, StopSteps(t)
        PROVE  /\ UNCHANGED <<begun, tunsMade, inst, watch, made, asked>>
               /\ UNCHANGED <<state, timer, remaining, auto, job, svc, queue, heard>> \/ Settle(t)
               /\ UNCHANGED core \/ ForgetCore(t)
               /\ UNCHANGED <<vpn, running, tun>> \/ CloseTun(t)
               /\ UNCHANGED <<alive, closed>> \/ KillTun(t) \/ DestroyCore(t)
    BY <1>1 DEF StopSteps, KillTun, CloseTun, DestroyCore, ForgetCore, Settle
  <1>2. ASSUME NEW t \in Threads, StartTun(t) \/ TunFails(t)
        PROVE  /\ UNCHANGED <<core, begun, timer, remaining, auto, vpn, running, closed, svc, made,
                              queue, asked, heard>>
               /\ UNCHANGED <<state, job>> \/ TunFails(t)
               /\ UNCHANGED <<tun, tunsMade, alive, inst, watch>> \/ StartTun(t)
    BY <1>2 DEF StartTun, TunFails
  <1>3. ASSUME NEW t, Reading(t) \/ Reacting(t) \/ Sending(t)
        PROVE  /\ UNCHANGED <<core, begun, timer, remaining, auto, vpn, running, tun, tunsMade, alive,
                              closed, inst, job, svc, made, queue, asked, heard>>
               /\ UNCHANGED state \/ XrayMarks(t) \/ FdFails(t)
               /\ UNCHANGED watch \/ MonitorBegin(t) \/ MonitorEof(t)
    BY <1>3 DEF Reading, Reacting, Sending, MonitorBegin, MonitorEof, MonitorInterrupted, XrayExited,
                XrayMarks, TunExited, FdSent, FdFails
  <1>4. ASSUME Receiving
        PROVE  /\ UNCHANGED <<state, core, begun, timer, auto, vpn, running, tun, tunsMade, alive,
                              closed, watch, made, asked, heard>>
               /\ UNCHANGED remaining \/ OnUpdate
               /\ UNCHANGED job \/ OnStart \/ OnStop
               /\ UNCHANGED svc \/ OnRestart
    BY <1>4 DEF Receiving, OnStart, OnStop, OnUpdate, OnRestart
  <1>5. ASSUME Starting
        PROVE  /\ UNCHANGED <<tun, tunsMade, closed, watch, svc, made, queue, asked>>
               /\ UNCHANGED state \/ BeginCore \/ StartFails \/ Established
               /\ UNCHANGED <<core, alive, inst>> \/ Launch
               /\ UNCHANGED begun \/ BeginCore
               /\ UNCHANGED <<timer, remaining, auto>> \/ Established
               /\ UNCHANGED vpn \/ EstablishVpn
               /\ UNCHANGED running \/ EstablishVpn \/ Launch
               /\ UNCHANGED job \/ StartFails \/ Established
               /\ UNCHANGED heard \/ BeginCore \/ Established
    BY <1>5 DEF Starting, BeginCore, Launch, StartFails, EstablishVpn, Established
  <1>6. ASSUME Ticking
        PROVE  /\ UNCHANGED <<state, core, begun, timer, vpn, running, tun, tunsMade, alive, closed,
                              inst, watch, job, asked>>
               /\ TimerTick \/ Expire
               /\ UNCHANGED <<auto, svc, made, queue>> \/ Expire
    BY <1>6 DEF Ticking, TimerTick, Expire
  <1>7. ASSUME Outside
        PROVE  \/ KillProcess /\ UNCHANGED <<begun, tunsMade, inst, watch, job, heard>>
               \/ /\ UNCHANGED <<state, core, begun, timer, remaining, auto, vpn, running, tun,
                                 tunsMade, closed, inst, watch, job, heard>>
                  /\ UNCHANGED alive \/ ChildExits
                  /\ UNCHANGED <<svc, made, queue, asked>> \/ AppStep
    BY <1>7 DEF Outside, ChildExits, KillProcess, AppStep, AppSends, AppStopsService, vars
  <1> HIDE DEF coreVars, timerVars, tunVars, threadVars, processVars, systemVars
  <1>8. CASE \E t \in Threads : AnyStep(t)
    BY <1>1, <1>2, <1>8 DEF AnyStep
  <1>9. CASE \E t \in XrayMons \cup TunMons : Reading(t) \/ Reacting(t)
    <2>1. PICK t \in XrayMons \cup TunMons : Reading(t) \/ Reacting(t)
      BY <1>9
    <2>2. ~FdFails(t)
      <3>1. pc[t] # "send"
        BY <2>1 DEF Reading, Reacting, MonitorBegin, MonitorEof, MonitorInterrupted, XrayExited,
                    XrayMarks, TunExited, Step
      <3> QED BY <3>1 DEF FdFails, Step
    <2> QED BY <1>3, <2>1, <2>2
  <1>14. CASE \E t \in FdSenders : Sending(t)
    <2>1. PICK t \in FdSenders : Sending(t)
      BY <1>14
    <2>2. pc[t] = "send"
      BY <2>1 DEF Sending, FdSent, FdFails, Step
    <2>3. ~XrayMarks(t) /\ ~MonitorBegin(t) /\ ~MonitorEof(t)
      BY <2>2 DEF XrayMarks, MonitorBegin, MonitorEof, Step
    <2> QED BY <1>3, <2>1, <2>3
  <1>10. CASE Receiving
    BY <1>4, <1>10
  <1>11. CASE Starting
    BY <1>5, <1>11
  <1>12. CASE Ticking
    BY <1>6, <1>12
  <1>13. CASE Outside
    BY <1>7, <1>13
  <1> QED BY <1>8, <1>9, <1>10, <1>11, <1>12, <1>13, <1>14, NextCases

LEMMA TypeInit == Init => TypeOK
  <1> SUFFICES ASSUME Init PROVE TypeOK
    OBVIOUS
  <1>1. queue \in Seq(Messages)
    BY EmptySeq DEF Init
  <1>2. begun \in 0 .. MaxStarts /\ tunsMade \in 0 .. MaxTuns
    BY ServiceAssumption DEF Init
  <1>3. timer \in BOOLEAN /\ auto \in BOOLEAN
    BY Zenon DEF Init
  <1> QED BY <1>1, <1>2, <1>3 DEF Init, TypeOK, States, Points

LEMMA FlagsType ==
  ASSUME TypeOK, [Next]_vars
  PROVE  timer' \in BOOLEAN /\ auto' \in BOOLEAN
  <1>1. timer \in BOOLEAN /\ auto \in BOOLEAN
    BY DEF TypeOK
  <1>2. timer' = timer \/ timer' = TRUE \/ timer' = FALSE
    <2>1. Established \/ KillProcess \/ (\E t \in Threads : Settle(t)) => timer' = TRUE \/ timer' = FALSE
      BY DEF Established, KillProcess, Settle
    <2> QED BY <2>1, Changes
  <1>3. auto' = auto \/ auto' = TRUE \/ auto' = FALSE
    <2>1. KillProcess \/ Expire \/ (\E t \in Threads : Settle(t)) => auto' = FALSE
      BY DEF KillProcess, Expire, Settle
    <2>2. Established => \E duration \in Durations : auto' = (duration > 0)
      BY DEF Established
    <2>3. ASSUME NEW duration \in Durations, auto' = (duration > 0) PROVE auto' = TRUE \/ auto' = FALSE
      BY <2>3
    <2> QED BY <2>1, <2>2, <2>3, Changes
  <1> QED BY <1>1, <1>2, <1>3, Zenon

LEMMA FiguresType ==
  ASSUME TypeOK, BoundsInv, WorkInv, [Next]_vars
  PROVE  /\ state' \in States /\ heard' \in States
         /\ begun' \in 0 .. MaxStarts /\ remaining' \in Nat \cup {-1}
         /\ job' \in {"none", "start", "stop", "fail", "tunfail"}
         /\ tunsMade' \in 0 .. MaxTuns
  <1> USE ServiceAssumption DEF TypeOK, States
  <1>1. state' \in States
    BY Changes DEF BeginCore, StartFails, Established, KillProcess, Settle, TunFails, XrayMarks, FdFails,
                   MarkError, TerminalState
  <1>2. heard' \in States
    BY Changes DEF BeginCore, Established, Ticking, TimerTick, Expire, Settle, Broadcast, TerminalState
  <1>3. begun' \in 0 .. MaxStarts
    <2>1. CASE BeginCore
      <3>1. begun' = begun + 1 /\ ToLaunch
        BY <2>1 DEF BeginCore, Step, ToLaunch
      <3> QED BY <3>1, RoomForStart
    <2> QED BY <2>1, Changes
  <1>4. remaining' \in Nat \cup {-1}
    <2>1. CASE OnUpdate
      <3>1. PICK seconds \in Extra :
              remaining' = IF seconds > 0 /\ timer /\ auto /\ remaining >= 0
                           THEN remaining + seconds ELSE remaining
        BY <2>1 DEF OnUpdate
      <3>2. seconds \in Int
        OBVIOUS
      <3> QED BY <3>1, <3>2
    <2>2. CASE Established
      <3>1. PICK duration \in Durations : remaining' = IF duration > 0 THEN duration ELSE -1
        BY <2>2 DEF Established
      <3> QED BY <3>1
    <2>3. CASE TimerTick
      <3>1. remaining' = remaining \/ (remaining > 0 /\ remaining' = remaining - 1)
        BY <2>3 DEF TimerTick, Counting
      <3> QED BY <3>1
    <2>4. KillProcess \/ Expire \/ (\E t \in Threads : Settle(t)) => remaining' \in {0, -1}
      BY DEF KillProcess, Expire, Settle
    <2> QED BY <2>1, <2>2, <2>3, <2>4, Changes
  <1>5. job' \in {"none", "start", "stop", "fail", "tunfail"}
    BY Changes DEF OnStart, OnStop, StartFails, Established, Settle, TunFails
  <1>6. tunsMade' \in 0 .. MaxTuns
    BY Changes DEF StartTun
  <1> QED BY <1>1, <1>2, <1>3, <1>4, <1>5, <1>6

\* The threads and processes that are made have a name.
LEMMA Names ==
  ASSUME TypeOK, WorkInv
  PROVE  /\ pc[Main] \in {"launch", "vpn", "tun"} =>
              <<"xray", begun>> \in XrayMons /\ <<"vpn", begun>> \in Interfaces
         /\ tunsMade < MaxTuns =>
              <<"tun", tunsMade + 1>> \in TunMons /\ <<"fd", tunsMade + 1>> \in FdSenders
         /\ \A t \in Threads : pc[t] \notin {"off", "idle"} => inst[t] \in Services
         /\ \A t \in Threads : inst[t] \in Services => vpn[inst[t]] \in Interfaces \cup {None}
                                                       /\ tun[inst[t]] \in TunMons \cup {None}
         /\ Main # <<"xray", begun>> /\ Main # <<"tun", tunsMade + 1>> /\ Main # <<"fd", tunsMade + 1>>
  <1>1. begun \in Nat /\ tunsMade \in Nat /\ begun <= MaxStarts /\ MaxStarts \in Nat /\ MaxTuns \in Nat
    BY ServiceAssumption DEF TypeOK
  <1> QED BY <1>1 DEF TypeOK, WorkInv, XrayMons, TunMons, FdSenders, Interfaces, Main

LEMMA ProcessesType ==
  ASSUME TypeOK, WorkInv, [Next]_vars
  PROVE  /\ core' \in XrayMons \cup {None}
         /\ vpn' \in [Services -> Interfaces \cup {None}] /\ running' \subseteq Services
         /\ tun' \in [Services -> TunMons \cup {None}]
         /\ alive' \subseteq Processes /\ closed' \subseteq Processes
  <1> USE DEF TypeOK, Step
  <1>1. core' \in XrayMons \cup {None}
    BY Changes, Names DEF Launch, KillProcess, ForgetCore
  <1>2. vpn' \in [Services -> Interfaces \cup {None}]
    BY Changes, Names DEF EstablishVpn, KillProcess, CloseTun
  <1>3. running' \subseteq Services
    <2>1. EstablishVpn \/ Launch => running' \subseteq running \cup {inst[Main]} /\ inst[Main] \in Services
      BY Names, ThreadFacts DEF EstablishVpn, Launch
    <2>2. KillProcess \/ (\E t \in Threads : CloseTun(t)) => running' \subseteq running
      BY DEF KillProcess, CloseTun
    <2> QED BY <2>1, <2>2, Changes
  <1>4. tun' \in [Services -> TunMons \cup {None}]
    <2>1. ASSUME NEW t \in Threads, StartTun(t) PROVE tun' \in [Services -> TunMons \cup {None}]
      BY <2>1, Names DEF StartTun
    <2>2. KillProcess \/ (\E t \in Threads : CloseTun(t)) => tun' \in [Services -> TunMons \cup {None}]
      BY DEF KillProcess, CloseTun
    <2> QED BY <2>1, <2>2, Changes
  <1>5. alive' \subseteq Processes
    <2>1. Processes = XrayMons \cup TunMons
      BY ThreadFacts
    <2>2. Launch => alive' \subseteq Processes
      BY <2>1, Names DEF Launch
    <2>3. ASSUME NEW t \in Threads, StartTun(t) PROVE alive' \subseteq Processes
      BY <2>1, <2>3, Names DEF StartTun
    <2>4. KillProcess \/ ChildExits \/ (\E t \in Threads : KillTun(t) \/ DestroyCore(t))
            => alive' \subseteq alive
      BY DEF KillProcess, ChildExits, KillTun, DestroyCore
    <2> QED BY <2>2, <2>3, <2>4, Changes
  <1>6. closed' \subseteq Processes
    <2>1. Processes = XrayMons \cup TunMons
      BY ThreadFacts
    <2>2. closed \subseteq Processes /\ core \in XrayMons \cup {None}
      BY DEF TypeOK
    <2>3. ASSUME NEW t \in Threads, KillTun(t) PROVE closed' \subseteq Processes
      <3>1. tun[inst[t]] \in TunMons \cup {None}
        BY <2>3, Names DEF KillTun, Step
      <3> QED BY <2>1, <2>2, <2>3, <3>1 DEF KillTun
    <2>4. KillProcess \/ (\E t \in Threads : DestroyCore(t)) => closed' \subseteq Processes
      BY <2>1, <2>2 DEF KillProcess, DestroyCore
    <2> QED BY <2>2, <2>3, <2>4, Changes
  <1> QED BY <1>1, <1>2, <1>3, <1>4, <1>5, <1>6

LEMMA SystemType ==
  ASSUME TypeOK, BoundsInv, [Next]_vars
  PROVE  /\ svc' \in Services \cup {0} /\ made' \in Services \cup {0}
         /\ queue' \in Seq(Messages)
         /\ asked' \in [{"START", "STOP", "UPDATE", "KILL"} -> Nat]
  <1>0. svc \in Services \cup {0} /\ made \in Services \cup {0} /\ queue \in Seq(Messages)
        /\ asked \in [{"START", "STOP", "UPDATE", "KILL"} -> Nat]
    BY DEF TypeOK
  <1>1. ASSUME NEW command \in {"START", "STOP", "UPDATE"}, StartService(command),
               \/ asked["START"] < MaxStarts \/ asked["STOP"] < MaxStops
               \/ asked["UPDATE"] < MaxUpdates \/ auto
        PROVE  /\ svc' \in Services \cup {0} /\ made' \in Services \cup {0}
               /\ queue' \in Seq(Messages)
    <2>1. made + 1 \in Services
      BY <1>1, RoomForService
    <2>2. /\ svc' \in Services \cup {0} /\ made' \in Services \cup {0}
          /\ queue' = Append(queue, [cmd |-> command, to |-> svc'])
          /\ [cmd |-> command, to |-> svc'] \in Messages
      BY <1>1, <2>1, ServiceStarted
    <2> QED BY <1>0, <2>2, AppendProperties
  <1>2. ASSUME NEW i, NEW waiting \in Seq(Messages), Destroy(i, waiting)
        PROVE  svc' \in Services \cup {0} /\ queue' \in Seq(Messages)
    <2>1. svc = i /\ svc # 0 => [cmd |-> "DESTROY", to |-> i] \in Messages
      BY <1>0, MessageType
    <2>2. CASE svc = i /\ svc # 0 /\ svc' = 0 /\ queue' = Append(waiting, [cmd |-> "DESTROY", to |-> i])
      <3>1. Append(waiting, [cmd |-> "DESTROY", to |-> i]) \in Seq(Messages)
        BY <1>2, <2>1, <2>2, AppendProperties
      <3> QED BY <2>2, <3>1
    <2>3. CASE svc' = svc /\ queue' = waiting
      BY <1>0, <1>2, <2>3
    <2> QED BY <1>2, <2>2, <2>3, DestroyCases
  <1>3. CASE AppStep
    <2>1. ASSUME NEW command \in {"START", "STOP", "UPDATE"}, NEW bound, AppSends(command, bound),
                 bound = CASE command = "START" -> MaxStarts [] command = "STOP" -> MaxStops
                           [] command = "UPDATE" -> MaxUpdates [] OTHER -> MaxKills
          PROVE  /\ svc' \in Services \cup {0} /\ made' \in Services \cup {0}
                 /\ queue' \in Seq(Messages)
      BY <1>1, <2>1 DEF AppSends, Asks
    <2>2. AppStopsService => /\ svc' \in Services \cup {0} /\ made' \in Services \cup {0}
                             /\ queue' \in Seq(Messages)
      BY <1>0, <1>2 DEF AppStopsService
    <2>3. asked' \in [{"START", "STOP", "UPDATE", "KILL"} -> Nat]
      BY <1>0, <1>3 DEF AppStep, AppSends, AppStopsService, Asks
    <2> QED BY <1>3, <2>1, <2>2, <2>3 DEF AppStep
  <1>4. CASE KillProcess
    <2>1. made + 1 \in Services
      BY <1>4, RoomForService DEF KillProcess, Asks
    <2>2. [cmd |-> "RESTART", to |-> made + 1] \in Messages
      BY <2>1, MessageType
    <2> QED BY <1>0, <1>4, <2>1, <2>2 DEF KillProcess, Asks
  <1>5. CASE Expire
    <2>1. auto /\ StartService("STOP") /\ asked' = asked
      BY <1>5 DEF Expire, Counting
    <2> QED BY <1>0, <1>1, <2>1
  <1>6. CASE Receiving
    <2>1. queue # <<>> /\ ((UNCHANGED svc /\ queue' = Tail(queue)) \/ Destroy(Head(queue).to, Tail(queue)))
          /\ UNCHANGED <<made, asked>>
      BY <1>6 DEF Receiving, OnStart, OnStop, OnUpdate, OnRestart, Receive, systemVars
    <2> QED BY <1>0, <1>2, <2>1, BeginsTail
  <1>7. CASE \E t \in Threads : Settle(t)
    <2>1. PICK t \in Threads : Settle(t)
      BY <1>7
    <2>2. UNCHANGED <<svc, queue>> \/ Destroy(inst[t], queue)
      BY <2>1 DEF Settle
    <2>3. UNCHANGED <<made, asked>>
      BY <2>1 DEF Settle
    <2> QED BY <1>0, <1>2, <2>2, <2>3
  <1>8. CASE UNCHANGED <<svc, made, queue, asked>>
    BY <1>0, <1>8
  <1>9. OnRestart => Receiving
    BY DEF Receiving
  <1> QED BY <1>3, <1>4, <1>5, <1>6, <1>7, <1>8, <1>9, Changes

LEMMA ThreadsType ==
  ASSUME TypeOK, WorkInv, [Next]_vars
  PROVE  /\ pc' \in [Threads -> Points] /\ inst' \in [Threads -> Services \cup {1}]
         /\ watch' \in [Threads \ {Main} -> Processes \cup Interfaces \cup {None}]
  <1>0. /\ pc \in [Threads -> Points] /\ inst \in [Threads -> Services \cup {1}]
        /\ watch \in [Threads \ {Main} -> Processes \cup Interfaces \cup {None}]
        /\ core \in Processes \cup {None}
    BY ThreadFacts DEF TypeOK
  <1>1. ASSUME NEW t, NEW x \in Points, pc' = [pc EXCEPT ![t] = x] PROVE pc' \in [Threads -> Points]
    BY <1>0, <1>1
  <1>2. pc' \in [Threads -> Points]
    <2>1. ASSUME NEW t, StopSteps(t) PROVE pc' \in [Threads -> Points]
      BY <1>1, <2>1 DEF StopSteps, KillTun, CloseTun, DestroyCore, ForgetCore, Settle, Step, Goto, Points
    <2>2. ASSUME NEW t, StartTun(t) PROVE pc' \in [Threads -> Points]
      BY <1>0, <2>2 DEF StartTun, Points
    <2>3. ASSUME NEW t, TunFails(t) PROVE pc' \in [Threads -> Points]
      BY <1>1, <2>3 DEF TunFails, Goto, Points
    <2>4. ASSUME NEW t, Reading(t) \/ Reacting(t) \/ Sending(t) PROVE pc' \in [Threads -> Points]
      BY <1>1, <2>4 DEF Reading, Reacting, Sending, MonitorBegin, MonitorEof, MonitorInterrupted, XrayExited,
                XrayMarks, TunExited, FdSent, FdFails, Step, Goto, Points
    <2>5. Receiving => pc' \in [Threads -> Points]
      BY <1>0, <1>1 DEF Receiving, OnStart, OnStop, OnUpdate, OnRestart, Goto, Points
    <2>6. Launch => pc' \in [Threads -> Points]
      BY <1>0 DEF Launch, Points
    <2>7. BeginCore \/ StartFails \/ EstablishVpn \/ Established => pc' \in [Threads -> Points]
      BY <1>1 DEF BeginCore, StartFails, EstablishVpn, Established, Step, Goto, Points
    <2>8. KillProcess => pc' \in [Threads -> Points]
      BY DEF KillProcess, Points
    <2>9. Ticking \/ ChildExits \/ AppStep \/ UNCHANGED vars => pc' = pc
      BY DEF Ticking, TimerTick, Expire, ChildExits, AppStep, AppSends, AppStopsService, vars, threadVars
    <2> QED BY <1>0, <2>1, <2>2, <2>3, <2>4, <2>5, <2>6, <2>7, <2>8, <2>9, NextCases
            DEF AnyStep, Starting, Outside
  <1>3. inst' \in [Threads -> Services \cup {1}]
    <2>1. ASSUME NEW command, Receive(command) PROVE inst' \in [Threads -> Services \cup {1}]
      <3>1. Head(queue).to \in Services
        BY <2>1, BeginsTail DEF Receive, Messages
      <3> QED BY <1>0, <2>1, <3>1 DEF Receive
    <2>2. Launch \/ (\E t \in Threads : StartTun(t)) => inst' \in [Threads -> Services \cup {1}]
      BY <1>0, ThreadFacts DEF Launch, StartTun
    <2> QED BY <1>0, <2>1, <2>2, Changes DEF Receiving, OnStart, OnStop, OnUpdate, OnRestart
  <1>4. watch' \in [Threads \ {Main} -> Processes \cup Interfaces \cup {None}]
    <2>1. ASSUME NEW t \in XrayMons \cup TunMons, MonitorBegin(t) \/ MonitorEof(t)
          PROVE  watch' \in [Threads \ {Main} -> Processes \cup Interfaces \cup {None}]
      <3>1. t \in Threads /\ pc[t] \in {"new", "read"} /\ watch' = [watch EXCEPT ![t] = Field(t)]
        BY <2>1, ThreadFacts DEF MonitorBegin, MonitorEof, Step
      <3>2. tun[inst[t]] \in TunMons \cup {None}
        BY <3>1, Names
      <3>3. Field(t) \in Processes \cup {None}
        BY <1>0, <3>2, ThreadFacts DEF Field
      <3> QED BY <1>0, <3>1, <3>3
    <2>2. ASSUME NEW t \in Threads, StartTun(t)
          PROVE  watch' \in [Threads \ {Main} -> Processes \cup Interfaces \cup {None}]
      <3>1. pc[t] \notin {"off", "idle"}
        BY <2>2 DEF StartTun, RunsTun2socks
      <3>2. vpn[inst[t]] \in Interfaces \cup {None}
        BY <3>1, Names
      <3> QED BY <1>0, <2>2, <3>2 DEF StartTun
    <2> QED BY <1>0, <2>1, <2>2, Changes
  <1> QED BY <1>2, <1>3, <1>4

LEMMA TypeNext == TypeOK /\ BoundsInv /\ WorkInv /\ [Next]_vars => TypeOK'
  <1> SUFFICES ASSUME TypeOK, BoundsInv, WorkInv, [Next]_vars PROVE TypeOK'
    OBVIOUS
  <1>1. timer' \in BOOLEAN /\ auto' \in BOOLEAN
    BY FlagsType
  <1> QED BY <1>1, FiguresType, ProcessesType, SystemType, ThreadsType DEF TypeOK

-----------------------------------------------------------------------------
(* Where the threads are.                                                  *)

\* A thread moves by a step of its own, when another starts it, or when the process is killed.
LEMMA Moves ==
  ASSUME TypeOK, [Next]_vars, NEW u \in Threads, pc'[u] # pc[u]
  PROVE  \/ AnyStep(u)
         \/ u \in XrayMons \cup TunMons /\ (Reading(u) \/ Reacting(u))
         \/ u \in FdSenders /\ Sending(u)
         \/ u = Main /\ (OnStart \/ OnStop \/ Starting)
         \/ KillProcess
         \/ Launch /\ u = <<"xray", begun>> /\ pc'[u] = "new"
         \/ /\ \E t \in Threads : StartTun(t) /\ inst' = [inst EXCEPT ![<<"tun", tunsMade + 1>>] = inst[t],
                                                                       ![<<"fd", tunsMade + 1>>] = inst[t]]
            /\ \/ u = <<"tun", tunsMade + 1>> /\ pc'[u] = "new"
               \/ u = <<"fd", tunsMade + 1>> /\ pc'[u] \in {"send", "off"}
  <1>0. pc \in [Threads -> Points]
    BY DEF TypeOK
  <1>1. ASSUME NEW t, NEW x, pc' = [pc EXCEPT ![t] = x] PROVE t = u
    BY <1>0, <1>1
  <1>2. ASSUME NEW t, StopSteps(t) PROVE t = u
    BY <1>1, <1>2 DEF StopSteps, KillTun, CloseTun, DestroyCore, ForgetCore, Settle, Step, Goto
  <1>3. ASSUME NEW t, TunFails(t) PROVE t = u
    BY <1>1, <1>3 DEF TunFails, Goto
  <1>4. ASSUME NEW t, Reading(t) \/ Reacting(t) \/ Sending(t) PROVE t = u
    BY <1>1, <1>4 DEF Reading, Reacting, Sending, MonitorBegin, MonitorEof, MonitorInterrupted, XrayExited,
                XrayMarks, TunExited, FdSent, FdFails, Step, Goto
  <1>5. Receiving => u = Main /\ (OnStart \/ OnStop)
    <2>1. OnUpdate \/ OnRestart => pc' = pc
      BY DEF OnUpdate, OnRestart
    <2>2. OnStart \/ OnStop => u = Main
      BY <1>1 DEF OnStart, OnStop, Goto
    <2> QED BY <2>1, <2>2 DEF Receiving
  <1>6. BeginCore \/ StartFails \/ EstablishVpn \/ Established => u = Main
    BY <1>1 DEF BeginCore, StartFails, EstablishVpn, Established, Step, Goto
  <1>7. Launch => u = Main \/ (u = <<"xray", begun>> /\ pc'[u] = "new")
    BY <1>0 DEF Launch
  <1>8. ASSUME NEW t \in Threads, StartTun(t)
        PROVE  \/ t = u
               \/ u = <<"tun", tunsMade + 1>> /\ pc'[u] = "new"
               \/ u = <<"fd", tunsMade + 1>> /\ pc'[u] \in {"send", "off"}
    BY <1>0, <1>8 DEF StartTun
  <1>9. ~(Ticking \/ ChildExits \/ AppStep \/ UNCHANGED vars)
    BY DEF Ticking, TimerTick, Expire, ChildExits, AppStep, AppSends, AppStopsService, vars, threadVars
  <1>10. CASE \E t \in Threads : AnyStep(t)
    <2>1. PICK t \in Threads : AnyStep(t)
      BY <1>10
    <2>2. CASE StartTun(t)
      <3>1. inst' = [inst EXCEPT ![<<"tun", tunsMade + 1>>] = inst[t], ![<<"fd", tunsMade + 1>>] = inst[t]]
        BY <2>2 DEF StartTun
      <3> QED BY <2>1, <2>2, <3>1, <1>8
    <2> QED BY <2>1, <2>2, <1>2, <1>3 DEF AnyStep
  <1>11. CASE \/ \E t \in XrayMons \cup TunMons : Reading(t) \/ Reacting(t)
              \/ \E t \in FdSenders : Sending(t)
    BY <1>4, <1>11
  <1>12. CASE Receiving
    BY <1>5, <1>12
  <1>13. CASE Starting
    BY <1>6, <1>7, <1>13 DEF Starting
  <1>14. CASE Ticking \/ Outside
    BY <1>9, <1>14 DEF Outside
  <1> QED BY <1>10, <1>11, <1>12, <1>13, <1>14, NextCases

\* The places a thread can come from and go to by a step of its own.
LEMMA Walks ==
  ASSUME TypeOK, NEW u \in Threads, Main # <<"xray", begun>>
  PROVE  /\ KillTun(u) => pc[u] = "kill" /\ pc'[u] = "close"
         /\ CloseTun(u) =>
              pc[u] = "close" /\ pc'[u] = IF u = Main /\ job = "start" THEN "begin" ELSE "destroy"
         /\ DestroyCore(u) => pc[u] = "destroy" /\ pc'[u] = "forget"
         /\ ForgetCore(u) => pc[u] = "forget" /\ pc'[u] = "settle"
         /\ Settle(u) => pc[u] = "settle"
              /\ pc'[u] = IF u # Main THEN "off" ELSE IF job = "tunfail" THEN "up" ELSE "idle"
         /\ StartTun(u) =>
              IF u = Main THEN pc[u] = "tun" /\ pc'[u] = "up"
                          ELSE u \in TunMons /\ pc[u] = "restart" /\ pc'[u] \in {"off", "new"}
         /\ TunFails(u) => pc'[u] = "kill"
              /\ IF u = Main THEN pc[u] = "tun" ELSE u \in TunMons /\ pc[u] = "restart"
         /\ MonitorBegin(u) => pc[u] = "new" /\ pc'[u] = IF Field(u) = None THEN "join" ELSE "read"
         /\ MonitorEof(u) => pc[u] = "read" /\ pc'[u] = "join"
         /\ MonitorInterrupted(u) => pc[u] = "read" /\ pc'[u] = "off"
         /\ XrayExited(u) => pc[u] = "join"
              /\ pc'[u] = IF state \in {"CONNECTED", "CONNECTING"} THEN "mark" ELSE "off"
         /\ XrayMarks(u) => pc[u] = "mark" /\ pc'[u] = "destroy"
         /\ TunExited(u) => pc[u] = "join" /\ pc'[u] = IF inst[u] \in running THEN "restart" ELSE "off"
         /\ FdSent(u) => pc[u] = "send" /\ pc'[u] = "off"
         /\ FdFails(u) => pc[u] = "send" /\ pc'[u] = "kill"
         /\ u = Main =>
              /\ OnStart \/ OnStop => pc[u] = "idle" /\ pc'[u] = "kill"
              /\ OnUpdate \/ OnRestart => pc[u] = "idle" /\ pc'[u] = "idle"
              /\ BeginCore => pc[u] = "begin" /\ pc'[u] = "launch"
              /\ Launch => pc[u] = "launch" /\ pc'[u] \in {"vpn", "up"}
              /\ StartFails => pc[u] \in {"launch", "vpn"} /\ pc'[u] = "kill"
              /\ EstablishVpn => pc[u] = "vpn" /\ pc'[u] = "tun"
              /\ Established => pc[u] = "up" /\ pc'[u] = "idle"
  <1>0. pc \in [Threads -> Points]
    BY DEF TypeOK
  <1>1. ASSUME NEW x, pc' = [pc EXCEPT ![u] = x] PROVE pc'[u] = x
    BY <1>0, <1>1
  <1>2. /\ KillTun(u) => pc[u] = "kill" /\ pc'[u] = "close"
        /\ CloseTun(u) =>
              pc[u] = "close" /\ pc'[u] = IF u = Main /\ job = "start" THEN "begin" ELSE "destroy"
        /\ DestroyCore(u) => pc[u] = "destroy" /\ pc'[u] = "forget"
        /\ ForgetCore(u) => pc[u] = "forget" /\ pc'[u] = "settle"
        /\ Settle(u) => pc[u] = "settle"
              /\ pc'[u] = IF u # Main THEN "off" ELSE IF job = "tunfail" THEN "up" ELSE "idle"
    BY <1>1 DEF KillTun, CloseTun, DestroyCore, ForgetCore, Settle, Step, Goto
  <1>3. /\ StartTun(u) =>
              IF u = Main THEN pc[u] = "tun" /\ pc'[u] = "up"
                          ELSE u \in TunMons /\ pc[u] = "restart" /\ pc'[u] \in {"off", "new"}
        /\ TunFails(u) => pc'[u] = "kill"
              /\ IF u = Main THEN pc[u] = "tun" ELSE u \in TunMons /\ pc[u] = "restart"
    <2>1. Main # <<"tun", tunsMade + 1>> /\ Main # <<"fd", tunsMade + 1>> /\ Main \notin TunMons
      BY DEF Main, TunMons
    <2>2. u \in TunMons => u # <<"fd", tunsMade + 1>>
      BY DEF TunMons
    <2>3. StartTun(u) =>
              IF u = Main THEN pc[u] = "tun" /\ pc'[u] = "up"
                          ELSE u \in TunMons /\ pc[u] = "restart" /\ pc'[u] \in {"off", "new"}
      BY <1>0, <2>1, <2>2 DEF StartTun, RunsTun2socks
    <2> QED BY <1>1, <2>1, <2>3 DEF TunFails, RunsTun2socks, Goto
  <1>4. /\ MonitorBegin(u) => pc[u] = "new" /\ pc'[u] = IF Field(u) = None THEN "join" ELSE "read"
        /\ MonitorEof(u) => pc[u] = "read" /\ pc'[u] = "join"
        /\ MonitorInterrupted(u) => pc[u] = "read" /\ pc'[u] = "off"
        /\ XrayExited(u) => pc[u] = "join"
              /\ pc'[u] = IF state \in {"CONNECTED", "CONNECTING"} THEN "mark" ELSE "off"
        /\ XrayMarks(u) => pc[u] = "mark" /\ pc'[u] = "destroy"
        /\ TunExited(u) => pc[u] = "join" /\ pc'[u] = IF inst[u] \in running THEN "restart" ELSE "off"
        /\ FdSent(u) => pc[u] = "send" /\ pc'[u] = "off"
        /\ FdFails(u) => pc[u] = "send" /\ pc'[u] = "kill"
    BY <1>1 DEF MonitorBegin, MonitorEof, MonitorInterrupted, XrayExited, XrayMarks, TunExited, FdSent,
                FdFails, Step, Goto
  <1>5. ASSUME u = Main
        PROVE /\ OnStart \/ OnStop => pc[u] = "idle" /\ pc'[u] = "kill"
              /\ OnUpdate \/ OnRestart => pc[u] = "idle" /\ pc'[u] = "idle"
              /\ BeginCore => pc[u] = "begin" /\ pc'[u] = "launch"
              /\ Launch => pc[u] = "launch" /\ pc'[u] \in {"vpn", "up"}
              /\ StartFails => pc[u] \in {"launch", "vpn"} /\ pc'[u] = "kill"
              /\ EstablishVpn => pc[u] = "vpn" /\ pc'[u] = "tun"
              /\ Established => pc[u] = "up" /\ pc'[u] = "idle"
    <2>1. /\ OnStart \/ OnStop => pc[u] = "idle" /\ pc'[u] = "kill"
          /\ OnUpdate \/ OnRestart => pc[u] = "idle" /\ pc'[u] = "idle"
      BY <1>1, <1>5 DEF OnStart, OnStop, OnUpdate, OnRestart, Receive, Goto
    <2>2. Launch => pc[u] = "launch" /\ pc'[u] \in {"vpn", "up"}
      BY <1>0, <1>5 DEF Launch
    <2> QED BY <1>1, <1>5, <2>1, <2>2 DEF BeginCore, StartFails, EstablishVpn, Established, Step, Goto
  <1> QED BY <1>2, <1>3, <1>4, <1>5

\* The main thread comes to the session it brings up by BeginCore, and to each place of it
\* from the one before.
LEMMA MainFrom ==
  ASSUME TypeOK, WorkInv, [Next]_vars, ~BeginCore
  PROVE  /\ pc'[Main] = "launch" => pc[Main] = "launch"
         /\ pc'[Main] \in {"launch", "vpn", "tun"} => pc[Main] \in {"launch", "vpn", "tun"}
         /\ begun' = begun
  <1>0. Main \in Threads /\ Main # <<"xray", begun>> /\ Main \notin XrayMons \cup TunMons \cup FdSenders
    BY ThreadFacts, Names
  <1>1. CASE pc'[Main] = pc[Main]
    BY <1>1, Changes
  <1>2. CASE pc'[Main] # pc[Main] /\ pc'[Main] \in {"launch", "vpn", "tun"}
    <2>1. ~AnyStep(Main)
      BY <1>0, <1>2, Walks DEF AnyStep, StopSteps
    <2>2. ~(OnStart \/ OnStop \/ StartFails \/ Established) /\ ~KillProcess
      BY <1>0, <1>2, Walks DEF KillProcess
    <2>3. Launch \/ EstablishVpn => pc[Main] \in {"launch", "vpn", "tun"} /\ pc'[Main] # "launch"
      BY <1>0, Walks
    <2> QED BY <1>0, <1>2, <2>1, <2>2, <2>3, Moves, Names, Changes DEF Starting
  <1> QED BY <1>1, <1>2, Changes

LEMMA WorkInit == Init => WorkInv
  BY ThreadFacts DEF Init, WorkInv

LEMMA WorkNext == TypeOK /\ BoundsInv /\ WorkInv /\ [Next]_vars => WorkInv'
  <1> SUFFICES ASSUME TypeOK, BoundsInv, WorkInv, [Next]_vars PROVE WorkInv'
    OBVIOUS
  <1>0. Main \in Threads /\ Main # <<"xray", begun>> /\ begun \in Nat
    BY ThreadFacts, Names, BoundsType
  <1>1. ASSUME NEW u \in Threads, inst'[u] # inst[u] PROVE inst'[u] \in Services
    <2>0. inst \in [Threads -> Services \cup {1}]
      BY DEF TypeOK
    <2>1. ASSUME NEW command, Receive(command) PROVE inst'[u] \in Services
      <3>1. Head(queue).to \in Services
        BY <2>1, BeginsTail DEF Receive, Messages
      <3> QED BY <1>1, <2>0, <2>1, <3>1 DEF Receive
    <2>2. CASE Launch
      <3>1. inst[Main] \in Services
        BY <1>0, <2>2, Names DEF Launch
      <3> QED BY <1>1, <2>0, <2>2, <3>1 DEF Launch
    <2>3. ASSUME NEW t \in Threads, StartTun(t) PROVE inst'[u] \in Services
      <3>1. inst[t] \in Services
        BY <2>3, Names DEF StartTun, RunsTun2socks
      <3> QED BY <1>1, <2>0, <2>3, <3>1 DEF StartTun
    <2> QED BY <1>1, <2>1, <2>2, <2>3, Changes DEF Receiving, OnStart, OnStop, OnUpdate, OnRestart
  <1>2. ASSUME NEW u \in Threads, pc'[u] \notin {"off", "idle"} PROVE inst'[u] \in Services
    <2>0. inst \in [Threads -> Services \cup {1}]
      BY DEF TypeOK
    <2>1. CASE pc[u] \notin {"off", "idle"}
      BY <1>1, <2>1, Names
    <2>2. CASE pc[u] \in {"off", "idle"}
      <3>1. ~AnyStep(u) /\ ~Reading(u) /\ ~Reacting(u) /\ ~Sending(u) /\ (u = Main => ~Starting)
        <4>1. ~AnyStep(u)
          BY <1>0, <2>2, Walks DEF AnyStep, StopSteps
        <4>2. ~Reading(u) /\ ~Reacting(u) /\ ~Sending(u)
          BY <1>0, <2>2, Walks DEF Reading, Reacting, Sending
        <4>3. u = Main => ~Starting
          BY <1>0, <2>2, Walks DEF Starting
        <4> QED BY <4>1, <4>2, <4>3
      <3>2. CASE u = Main /\ (OnStart \/ OnStop)
        <4>1. queue # <<>> /\ inst'[u] = Head(queue).to
          BY <2>0, <3>2 DEF OnStart, OnStop, Receive
        <4>2. Head(queue).to \in Services
          BY <4>1, BeginsTail DEF Messages
        <4> QED BY <4>1, <4>2
      <3>3. CASE Launch /\ u = <<"xray", begun>>
        <4>1. inst[Main] \in Services
          BY <1>0, <3>3, Names DEF Launch
        <4> QED BY <2>0, <3>3, <4>1 DEF Launch
      <3>4. ASSUME NEW t \in Threads, StartTun(t), u \in {<<"tun", tunsMade + 1>>, <<"fd", tunsMade + 1>>}
            PROVE  inst'[u] \in Services
        <4>1. inst[t] \in Services
          BY <3>4, Names DEF StartTun, RunsTun2socks
        <4> QED BY <2>0, <3>4, <4>1 DEF StartTun
      <3>5. ~KillProcess
        BY <1>2 DEF KillProcess
      <3> QED BY <1>2, <2>2, <3>1, <3>2, <3>3, <3>4, <3>5, Moves
    <2> QED BY <2>1, <2>2
  <1>3. ASSUME pc'[Main] \in {"launch", "vpn", "tun"} PROVE begun' >= 1
    <2>1. CASE BeginCore
      BY <1>0, <2>1 DEF BeginCore
    <2>2. CASE ~BeginCore
      BY <1>3, <2>2, MainFrom DEF WorkInv
    <2> QED BY <2>1, <2>2
  <1> QED BY <1>2, <1>3 DEF WorkInv

LEMMA FreshInit == Init => FreshInv
  BY DEF Init, FreshInv, Threads, XrayMons, TunMons, FdSenders, Main

LEMMA Fresh ==
  ASSUME TypeOK, WorkInv, FreshInv
  PROVE  /\ pc[Main] = "launch" => pc[<<"xray", begun>>] = "off"
         /\ tunsMade < MaxTuns =>
              pc[<<"tun", tunsMade + 1>>] = "off" /\ pc[<<"fd", tunsMade + 1>>] = "off"
  <1>1. begun \in Nat /\ tunsMade \in Nat /\ begun <= MaxStarts /\ MaxStarts \in Nat /\ MaxTuns \in Nat
        /\ (pc[Main] = "launch" => begun >= 1)
    BY ServiceAssumption DEF TypeOK, WorkInv
  <1> QED BY <1>1 DEF FreshInv

\* A thread that is off is started by Launch or StartTun only.
LEMMA OffNext ==
  ASSUME TypeOK, WorkInv, [Next]_vars, NEW u \in Threads, pc[u] = "off", pc'[u] # "off"
  PROVE  \/ Launch /\ u = <<"xray", begun>> /\ pc'[u] = "new"
         \/ /\ \E t \in Threads : StartTun(t) /\ inst' = [inst EXCEPT ![<<"tun", tunsMade + 1>>] = inst[t],
                                                                       ![<<"fd", tunsMade + 1>>] = inst[t]]
            /\ \/ u = <<"tun", tunsMade + 1>> /\ pc'[u] = "new"
               \/ u = <<"fd", tunsMade + 1>> /\ pc'[u] = "send"
  <1>0. Main # <<"xray", begun>>
    BY Names
  <1>1. ~AnyStep(u)
    BY <1>0, Walks DEF AnyStep, StopSteps
  <1>2. ~Reading(u) /\ ~Reacting(u) /\ ~Sending(u)
    BY <1>0, Walks DEF Reading, Reacting, Sending
  <1>3. u = Main => ~OnStart /\ ~OnStop /\ ~Starting
    BY <1>0, Walks DEF Starting
  <1>4. CASE KillProcess
    <2>1. u = Main /\ pc[Main] = "idle"
      BY <1>4 DEF KillProcess
    <2> QED BY <2>1
  <1> QED BY <1>1, <1>2, <1>3, <1>4, Moves

LEMMA FreshNext == TypeOK /\ WorkInv /\ FreshInv /\ [Next]_vars => FreshInv'
  <1> SUFFICES ASSUME TypeOK, WorkInv, FreshInv, [Next]_vars PROVE FreshInv'
    OBVIOUS
  <1>0. /\ begun \in Nat /\ tunsMade \in Nat /\ Main \in Threads /\ Main # <<"xray", begun>>
        /\ begun' \in {begun, begun + 1} /\ tunsMade' \in {tunsMade, tunsMade + 1}
    <2>1. begun' \in {begun, begun + 1} /\ tunsMade' \in {tunsMade, tunsMade + 1}
      BY Changes DEF BeginCore, StartTun
    <2>2. begun \in Nat /\ tunsMade \in Nat
      BY ServiceAssumption DEF TypeOK
    <2> QED BY <2>1, <2>2, ThreadFacts, Names
  <1>1. ASSUME NEW n \in 1 .. MaxStarts, n > begun' \/ (n = begun' /\ pc'[Main] = "launch"),
               pc'[<<"xray", n>>] # "off"
        PROVE  FALSE
    <2>1. n > begun \/ (n = begun /\ pc[Main] = "launch")
      <3>1. CASE BeginCore
        BY <1>0, <1>1, <3>1 DEF BeginCore
      <3>2. CASE ~BeginCore
        BY <1>1, <3>2, MainFrom
      <3> QED BY <3>1, <3>2
    <2>2. pc[<<"xray", n>>] = "off" /\ <<"xray", n>> \in Threads
      BY <2>1 DEF FreshInv, Threads, XrayMons
    <2>3. Launch /\ n = begun
      <3>1. <<"xray", n>> # <<"tun", tunsMade + 1>> /\ <<"xray", n>> # <<"fd", tunsMade + 1>>
        OBVIOUS
      <3>2. Launch /\ <<"xray", n>> = <<"xray", begun>>
        BY <1>1, <2>2, <3>1, OffNext
      <3> QED BY <3>2
    <2>4. begun' = begun /\ pc'[Main] # "launch"
      <3>1. pc'[Main] \in {"vpn", "up"}
        BY <1>0, <2>3, Walks
      <3> QED BY <2>3, <3>1 DEF Launch
    <2> QED BY <1>0, <1>1, <2>3, <2>4
  <1>2. ASSUME NEW n \in 1 .. MaxTuns, n > tunsMade',
               NEW u \in {<<"tun", n>>, <<"fd", n>>}, pc'[u] # "off"
        PROVE  FALSE
    <2>1. n > tunsMade
      BY <1>0, <1>2
    <2>2. pc[u] = "off" /\ u \in Threads
      <3>1. u \in TunMons \cup FdSenders
        BY DEF TunMons, FdSenders
      <3>2. pc[u] = "off"
        BY <2>1 DEF FreshInv
      <3> QED BY <3>1, <3>2, ThreadFacts
    <2>3. u # <<"xray", begun>>
      OBVIOUS
    <2>4. \E t \in Threads : StartTun(t) /\ u \in {<<"tun", tunsMade + 1>>, <<"fd", tunsMade + 1>>}
      BY <1>2, <2>2, <2>3, OffNext
    <2>5. n = tunsMade + 1 /\ tunsMade' = tunsMade + 1
      BY <2>4 DEF StartTun
    <2> QED BY <1>0, <1>2, <2>5
  <1> QED BY <1>1, <1>2 DEF FreshInv

-----------------------------------------------------------------------------
(* Threads that stop a session go through with it.                         *)

LEMMA EndsNext ==
  ASSUME TypeOK, WorkInv, FreshInv, [Next]_vars, NEW u \in Threads, Ending(u)
  PROVE  KillProcess \/ Settle(u) \/ Ending(u)'
  <1>0. Main \in Threads /\ Main # <<"xray", begun>>
    BY ThreadFacts, Names
  <1>9. pc[u] \in {"kill", "close", "destroy", "forget", "settle"}
    BY DEF Ending
  <1>1. CASE pc'[u] = pc[u]
    <2>1. ASSUME u = Main, job' # job PROVE FALSE
      <3>1. ~(OnStart \/ OnStop \/ StartFails \/ Established \/ TunFails(Main) \/ Settle(Main))
        BY <1>0, <1>1, <1>9, <2>1, Walks
      <3>2. ASSUME NEW t \in Threads, t # Main PROVE ~TunFails(t) /\ ~Settle(t)
        BY <2>1, <3>2 DEF TunFails, Settle
      <3> QED BY <2>1, <3>1, <3>2, Changes
    <2> QED BY <1>1, <2>1 DEF Ending
  <1>2. CASE pc'[u] # pc[u]
    <2>2. ~Reading(u) /\ ~Reacting(u) /\ ~Sending(u) /\ ~StartTun(u) /\ ~TunFails(u)
      BY <1>0, <1>9, Walks DEF Reading, Reacting, Sending
    <2>3. u = Main => ~OnStart /\ ~OnStop /\ ~Starting
      BY <1>0, <1>9, Walks DEF Starting
    <2>4. ~(Launch /\ u = <<"xray", begun>>)
      BY <1>9, Fresh DEF Launch
    <2>5. ASSUME NEW t \in Threads, StartTun(t), u \in {<<"tun", tunsMade + 1>>, <<"fd", tunsMade + 1>>}
          PROVE  FALSE
      BY <1>9, <2>5, Fresh DEF StartTun
    <2>6. CASE StopSteps(u)
      <3>1. KillTun(u) \/ CloseTun(u) => job' = job
        BY DEF KillTun, CloseTun
      <3> QED BY <1>0, <2>6, <3>1, Walks DEF StopSteps, Ending
    <2> QED BY <1>2, <2>2, <2>3, <2>4, <2>5, <2>6, Moves DEF AnyStep
  <1> QED BY <1>1, <1>2

\* So a session that is being stopped still is, or has just been.
LEMMA SomeEndsNext ==
  ASSUME TypeOK, WorkInv, FreshInv, [Next]_vars, SomeEnds
  PROVE  KillProcess \/ (\E t \in Threads : Settle(t)) \/ SomeEnds'
  BY EndsNext DEF SomeEnds

\* An error is marked by a thread that then stops the session.
LEMMA ErrorsEnd ==
  ASSUME TypeOK, WorkInv,
         \/ StartFails \/ (\E t \in Threads : TunFails(t))
         \/ (\E t \in XrayMons \cup TunMons : XrayMarks(t)) \/ \E t \in FdSenders : FdFails(t)
  PROVE  SomeEnds'
  <1>0. Main \in Threads /\ Main # <<"xray", begun>> /\ XrayMons \cup TunMons \cup FdSenders = Threads \ {Main}
    BY ThreadFacts, Names
  <1>1. CASE StartFails
    <2>1. pc'[Main] = "kill" /\ job' = "fail"
      BY <1>0, <1>1, Walks DEF StartFails
    <2> QED BY <1>0, <2>1 DEF SomeEnds, Ending
  <1>2. ASSUME NEW t \in Threads, TunFails(t) PROVE SomeEnds'
    <2>1. pc'[t] = "kill" /\ (t = Main => job' = "tunfail")
      BY <1>0, <1>2, Walks DEF TunFails
    <2> QED BY <2>1 DEF SomeEnds, Ending
  <1>3. ASSUME NEW t \in Threads \ {Main}, XrayMarks(t) \/ FdFails(t) PROVE SomeEnds'
    <2>1. pc'[t] \in {"kill", "destroy"}
      BY <1>0, <1>3, Walks
    <2> QED BY <2>1 DEF SomeEnds, Ending
  <1> QED BY <1>0, <1>1, <1>2, <1>3

-----------------------------------------------------------------------------
(* The countdown.                                                          *)

LEMMA CountdownNext ==
  TypeOK /\ WorkInv /\ FreshInv /\ CountdownInv /\ [Next]_vars => CountdownInv'
  <1> SUFFICES ASSUME TypeOK, WorkInv, FreshInv, CountdownInv, [Next]_vars, auto' PROVE CountdownInv'
    BY DEF CountdownInv
  <1>0. Main \in Threads /\ Main # <<"xray", begun>> /\ timer \in BOOLEAN /\ remaining \in Nat \cup {-1}
        /\ Main \notin XrayMons \cup TunMons \cup FdSenders
    BY ThreadFacts, Names DEF TypeOK
  <1>1. CASE Established
    <2>1. PICK duration \in Durations :
            auto' = (duration > 0) /\ remaining' = IF duration > 0 THEN duration ELSE -1
      BY <1>1 DEF Established
    <2>2. duration > 0
      BY <2>1
    <2>3. remaining' > 0
      BY <2>1, <2>2
    <2> QED BY <1>1, <2>3 DEF Established, CountdownInv
  <1>2. ~KillProcess /\ ~Expire /\ \A t \in Threads : ~Settle(t)
    BY DEF KillProcess, Expire, Settle
  <1>3. CASE ~Established
    <2>1. auto /\ timer /\ remaining > 0 /\ timer' = timer
      BY <1>2, <1>3, Changes DEF CountdownInv
    <2>2. remaining' > 0
      <3>1. CASE OnUpdate
        <4>1. PICK seconds \in Extra :
                remaining' = IF seconds > 0 /\ timer /\ auto /\ remaining >= 0
                             THEN remaining + seconds ELSE remaining
          BY <3>1 DEF OnUpdate
        <4>2. seconds \in Int
          BY ServiceAssumption
        <4> QED BY <1>0, <2>1, <4>1, <4>2
      <3>2. CASE TimerTick
        <4>1. remaining # 1 /\ remaining' = remaining - 1
          BY <2>1, <3>2 DEF TimerTick, Counting
        <4> QED BY <1>0, <2>1, <4>1
      <3> QED BY <1>2, <1>3, <2>1, <3>1, <3>2, Changes
    <2>3. (state = "CONNECTED" \/ SomeEnds \/ pc[Main] \in {"launch", "vpn", "tun", "up"})'
      <3>1. CASE SomeEnds
        BY <1>2, <3>1, SomeEndsNext
      <3>2. CASE state' # state
        <4>1. BeginCore => pc'[Main] = "launch"
          BY <1>0, Walks
        <4> QED BY <1>2, <1>3, <3>2, <4>1, Changes, ErrorsEnd
      <3>3. CASE state' = state /\ state = "CONNECTED"
        BY <3>3
      <3>4. CASE pc[Main] \in {"launch", "vpn", "tun", "up"}
        <4>1. CASE AnyStep(Main)
          <5>1. StartTun(Main) \/ TunFails(Main)
            BY <1>0, <3>4, <4>1, Walks DEF AnyStep, StopSteps
          <5> QED BY <1>0, <5>1, Walks, ErrorsEnd
        <4>2. CASE Starting
          <5>1. Launch \/ EstablishVpn => pc'[Main] \in {"vpn", "up", "tun"}
            BY <1>0, Walks
          <5>2. ~BeginCore
            BY <1>0, <3>4, Walks
          <5> QED BY <1>3, <4>2, <5>1, <5>2, ErrorsEnd DEF Starting
        <4>3. ~OnStart /\ ~OnStop
          BY <1>0, <3>4, Walks
        <4>4. CASE pc'[Main] = pc[Main]
          BY <3>4, <4>4
        <4> QED BY <1>0, <1>2, <4>1, <4>2, <4>3, <4>4, Moves, Names
      <3> QED BY <2>1, <3>1, <3>2, <3>3, <3>4 DEF CountdownInv
    <2> QED BY <2>1, <2>2, <2>3 DEF CountdownInv
  <1> QED BY <1>1, <1>3

-----------------------------------------------------------------------------
(* What the app has heard.                                                 *)

\* A message stays in the queue until the main thread takes it.
LEMMA QueueNext ==
  ASSUME TypeOK, BoundsInv, [Next]_vars, NEW n \in DOMAIN queue
  PROVE  \/ n \in DOMAIN queue' /\ queue'[n] = queue[n]
         \/ Receiving /\ n > 1 /\ n - 1 \in DOMAIN queue' /\ queue'[n - 1] = queue[n]
         \/ Receiving /\ n = 1
  <1>0. queue \in Seq(Messages) /\ Len(queue) \in Nat /\ DOMAIN queue = 1 .. Len(queue)
    BY DEF TypeOK
  <1>1. ASSUME NEW s \in Seq(Messages), NEW m \in DOMAIN s, NEW e PROVE m \in DOMAIN Append(s, e) /\ Append(s, e)[m] = s[m]
    BY <1>1
  <1>2. ASSUME NEW i, NEW waiting \in Seq(Messages), Destroy(i, waiting), NEW m \in DOMAIN waiting
        PROVE  m \in DOMAIN queue' /\ queue'[m] = waiting[m]
    BY <1>1, <1>2, DestroyCases
  <1>3. CASE Expire \/ AppStep
    <2>1. (\E command : StartService(command)) \/ Destroy(svc, queue)
      BY <1>3 DEF Expire, AppStep, AppSends, AppStopsService
    <2>2. (\E e : queue' = Append(queue, e)) \/ Destroy(svc, queue)
      BY <2>1 DEF StartService
    <2> QED BY <1>0, <1>1, <1>2, <2>2
  <1>4. CASE \E t \in Threads : Settle(t)
    <2>1. UNCHANGED queue \/ \E t \in Threads : Destroy(inst[t], queue)
      BY <1>4 DEF Settle
    <2> QED BY <1>0, <1>2, <2>1
  <1>5. CASE Receiving
    <2>1. queue # <<>> /\ (queue' = Tail(queue) \/ Destroy(Head(queue).to, Tail(queue)))
      BY <1>5 DEF Receiving, OnStart, OnStop, OnUpdate, OnRestart, Receive
    <2>2. Tail(queue) \in Seq(Messages) /\ (n > 1 => n - 1 \in DOMAIN Tail(queue) /\ Tail(queue)[n - 1] = queue[n])
      BY <1>0, <2>1
    <2>3. n = 1 \/ n > 1
      BY <1>0
    <2>4. ASSUME n > 1 PROVE n - 1 \in DOMAIN queue' /\ queue'[n - 1] = queue[n]
      <3>1. n - 1 \in DOMAIN Tail(queue) /\ Tail(queue)[n - 1] = queue[n]
        BY <2>2, <2>4
      <3>2. Destroy(Head(queue).to, Tail(queue)) =>
              n - 1 \in DOMAIN queue' /\ queue'[n - 1] = Tail(queue)[n - 1]
        BY <1>2, <2>2, <3>1
      <3> QED BY <2>1, <3>1, <3>2
    <2> QED BY <1>5, <2>3, <2>4
  <1>6. ~KillProcess
    BY <1>0 DEF KillProcess
  <1> QED BY <1>3, <1>4, <1>5, <1>6, Changes

LEMMA HeardNext ==
  TypeOK /\ BoundsInv /\ WorkInv /\ FreshInv /\ OwnInv /\ HeardInv /\ [Next]_vars => HeardInv'
  <1> DEFINE Answering == {"STOP", "DESTROY", "RESTART"}
  <1> SUFFICES ASSUME TypeOK, BoundsInv, WorkInv, FreshInv, OwnInv, HeardInv, [Next]_vars PROVE HeardInv'
    OBVIOUS
  <1>0. Main \in Threads /\ Main # <<"xray", begun>> /\ queue \in Seq(Messages)
    BY ThreadFacts, Names DEF TypeOK
  <1>1. CASE (\E t \in Threads : Settle(t)) \/ BeginCore \/ Established \/ TimerTick
    <2>1. heard' = state'
      BY <1>1 DEF Settle, BeginCore, Established, TimerTick, Broadcast, coreVars
    <2> QED BY <2>1 DEF HeardInv
  <1>2. CASE Expire
    <2>1. queue' = Append(queue, [cmd |-> "STOP", to |-> svc'])
      BY <1>2 DEF Expire, StartService
    <2> DEFINE n == Len(queue) + 1
    <2>2. n \in DOMAIN queue' /\ queue'[n].cmd = "STOP"
      BY <1>0, <2>1
    <2> QED BY <2>2 DEF HeardInv
  <1>3. CASE KillProcess
    <2>1. queue' = <<[cmd |-> "RESTART", to |-> svc']>>
      BY <1>3 DEF KillProcess
    <2>2. 1 \in DOMAIN queue' /\ queue'[1].cmd = "RESTART"
      BY <2>1
    <2> QED BY <2>2 DEF HeardInv
  <1>4. CASE \/ StartFails \/ (\E t \in Threads : TunFails(t))
             \/ (\E t \in XrayMons \cup TunMons : XrayMarks(t)) \/ \E t \in FdSenders : FdFails(t)
    BY <1>4, ErrorsEnd DEF HeardInv
  <1>5. CASE SomeEnds
    BY <1>1, <1>3, <1>5, SomeEndsNext DEF HeardInv
  <1>6. ASSUME NEW n \in DOMAIN queue, queue[n].cmd \in Answering PROVE HeardInv'
    <2>1. CASE \E m \in DOMAIN queue' : queue'[m] = queue[n]
      BY <1>6, <2>1 DEF HeardInv
    <2>2. CASE Receiving /\ n = 1
      <3>1. queue # <<>> /\ Head(queue) = queue[1]
        BY <1>0, <1>6, <2>2
      <3>2. CASE OnStop
        <4>1. pc'[Main] = "kill" /\ job' = "stop"
          BY <1>0, <3>2, Walks DEF OnStop
        <4> QED BY <1>0, <4>1 DEF HeardInv, SomeEnds, Ending
      <3>3. CASE OnRestart
        <4> DEFINE i == Head(queue).to
                   m == [cmd |-> "DESTROY", to |-> i]
        <4>1. Destroy(i, Tail(queue)) /\ Head(queue).cmd = "RESTART" /\ i \in Services
              /\ Tail(queue) \in Seq(Messages)
          BY <3>1, <3>3, BeginsTail DEF OnRestart, Receive, Messages
        <4>2. svc = i \/ \E k \in DOMAIN queue : k > 1 /\ queue[k] = m
          BY <1>6, <2>2, <3>1, <4>1 DEF OwnInv, Destroyed
        <4>3. CASE svc = i
          <5>1. svc # 0
            BY <4>1, <4>3 DEF Services
          <5>2. queue' = Append(Tail(queue), m)
            BY <4>1, <4>3, <5>1 DEF Destroy
          <5> HIDE DEF i
          <5>3. Len(Tail(queue)) + 1 \in DOMAIN queue' /\ queue'[Len(Tail(queue)) + 1].cmd = "DESTROY"
            BY <4>1, <5>2
          <5> QED BY <5>3 DEF HeardInv
        <4>4. ASSUME NEW k \in DOMAIN queue, k > 1, queue[k] = m PROVE HeardInv'
          <5>1. \E j \in DOMAIN queue' : queue'[j] = queue[k]
            BY <4>4, QueueNext
          <5>2. m.cmd = "DESTROY"
            OBVIOUS
          <5> HIDE DEF m
          <5> QED BY <4>4, <5>1, <5>2 DEF HeardInv
        <4> QED BY <4>2, <4>3, <4>4
      <3> QED BY <1>6, <2>2, <3>1, <3>2, <3>3 DEF Receiving, OnStart, OnUpdate, Receive
    <2> QED BY <1>6, <2>1, <2>2, QueueNext
  <1>7. CASE heard = state /\ UNCHANGED <<heard, state>>
    BY <1>7 DEF HeardInv
  <1>8. Ticking => TimerTick \/ Expire
    BY DEF Ticking
  <1> QED BY <1>1, <1>2, <1>3, <1>4, <1>5, <1>6, <1>7, <1>8, Changes DEF HeardInv

-----------------------------------------------------------------------------
(* The service objects.                                                    *)

\* The last message of a queue that one is added to.
LEMMA Added ==
  ASSUME NEW s \in Seq(Messages), NEW e
  PROVE  /\ Len(s) + 1 \in DOMAIN Append(s, e) /\ Append(s, e)[Len(s) + 1] = e
         /\ \A n \in DOMAIN Append(s, e) : n = Len(s) + 1 \/ (n \in DOMAIN s /\ Append(s, e)[n] = s[n])
  OBVIOUS

\* What is in the queue was there, is a destruction, or is for the service object on record.
LEMMA NewMessages ==
  ASSUME TypeOK, [Next]_vars, NEW n \in DOMAIN queue'
  PROVE  \/ ~Receiving /\ n \in DOMAIN queue /\ queue'[n] = queue[n]
         \/ Receiving /\ n + 1 \in DOMAIN queue /\ queue'[n] = queue[n + 1]
         \/ queue'[n].cmd = "DESTROY" \/ queue'[n].to = svc'
  <1>0. queue \in Seq(Messages)
    BY DEF TypeOK
  <1>1. ASSUME NEW i, NEW waiting \in Seq(Messages), Destroy(i, waiting)
        PROVE  queue'[n].cmd = "DESTROY" \/ (n \in DOMAIN waiting /\ queue'[n] = waiting[n])
    <2>1. queue' = waiting \/ queue' = Append(waiting, [cmd |-> "DESTROY", to |-> i])
      BY <1>1, DestroyCases
    <2> DEFINE e == [cmd |-> "DESTROY", to |-> i]
    <2>2. e.cmd = "DESTROY"
      OBVIOUS
    <2> HIDE DEF e
    <2>3. queue' = waiting \/ queue' = Append(waiting, e)
      BY <2>1 DEF e
    <2> QED BY <2>2, <2>3, Added
  <1>2. ASSUME NEW command, StartService(command)
        PROVE  queue'[n].to = svc' \/ (n \in DOMAIN queue /\ queue'[n] = queue[n])
    <2> DEFINE e == [cmd |-> command, to |-> svc']
    <2>1. queue' = Append(queue, e)
      BY <1>2 DEF StartService
    <2>2. e.to = svc'
      OBVIOUS
    <2> HIDE DEF e
    <2> QED BY <1>0, <2>1, <2>2, Added
  <1>3. CASE Receiving
    <2>1. queue # <<>> /\ (queue' = Tail(queue) \/ Destroy(Head(queue).to, Tail(queue)))
      BY <1>3 DEF Receiving, OnStart, OnStop, OnUpdate, OnRestart, Receive
    <2>2. Tail(queue) \in Seq(Messages)
          /\ \A k \in DOMAIN Tail(queue) : k + 1 \in DOMAIN queue /\ Tail(queue)[k] = queue[k + 1]
      BY <1>0, <2>1
    <2>3. queue'[n].cmd = "DESTROY" \/ (n \in DOMAIN Tail(queue) /\ queue'[n] = Tail(queue)[n])
      BY <1>1, <2>1, <2>2
    <2> QED BY <1>3, <2>2, <2>3
  <1>4. CASE ~Receiving /\ ~KillProcess
    <2>1. \/ UNCHANGED queue \/ \E command : StartService(command)
          \/ \E i : Destroy(i, queue)
      <3>1. Expire \/ AppStep => (\E command : StartService(command)) \/ Destroy(svc, queue)
        BY DEF Expire, AppStep, AppSends, AppStopsService
      <3>2. ASSUME NEW t \in Threads, Settle(t) PROVE UNCHANGED queue \/ Destroy(inst[t], queue)
        BY <3>2 DEF Settle
      <3> QED BY <1>4, <3>1, <3>2, Changes
    <2> QED BY <1>0, <1>1, <1>2, <1>4, <2>1
  <1>5. CASE KillProcess
    <2> DEFINE e == [cmd |-> "RESTART", to |-> svc']
    <2>1. queue' = <<e>>
      BY <1>5 DEF KillProcess
    <2>2. e.to = svc'
      OBVIOUS
    <2> HIDE DEF e
    <2> QED BY <2>1, <2>2
  <1> QED BY <1>3, <1>4, <1>5

\* A service object that is on record, or whose destruction is queued behind some message,
\* stays so, until the message is a destruction and taken.
LEMMA DestroyedNext ==
  ASSUME TypeOK, BoundsInv, [Next]_vars, ~KillProcess,
         NEW i \in Services, NEW k \in 0 .. Len(queue), Destroyed(i, k)
  PROVE  /\ ~Receiving => Destroyed(i, k)'
         /\ Receiving /\ k > 0 => Destroyed(i, k - 1)'
         /\ Receiving => Destroyed(i, 0)' \/ (OnStop /\ Head(queue) = [cmd |-> "DESTROY", to |-> i])
  <1> DEFINE e == [cmd |-> "DESTROY", to |-> i]
  <1>0. queue \in Seq(Messages) /\ Len(queue) \in Nat /\ DOMAIN queue = 1 .. Len(queue) /\ i # 0
    BY DEF TypeOK, Services
  <1>1. CASE svc = i /\ svc' # i
    <2>1. CASE OnRestart
      <3>1. queue # <<>> /\ Destroy(Head(queue).to, Tail(queue))
        BY <2>1 DEF OnRestart, Receive
      <3>2. queue' = Append(Tail(queue), e)
        BY <1>1, <3>1, DestroyCases
      <3> HIDE DEF e
      <3>3. Tail(queue) \in Seq(Messages) /\ Len(Tail(queue)) = Len(queue) - 1
        BY <1>0, <3>1
      <3>4. Len(queue) \in DOMAIN queue' /\ queue'[Len(queue)] = e /\ Len(queue) >= 1
        <4>1. Len(Tail(queue)) + 1 \in DOMAIN queue' /\ queue'[Len(Tail(queue)) + 1] = e
          BY <3>2, <3>3, Added
        <4> QED BY <1>0, <3>1, <3>3, <4>1
      <3> QED BY <1>0, <2>1, <3>4 DEF Destroyed, e, Receiving
    <2>2. CASE \E j : Destroy(j, queue)
      <3>1. queue' = Append(queue, e)
        BY <1>1, <2>2, DestroyCases
      <3> HIDE DEF e
      <3>2. Len(queue) + 1 \in DOMAIN queue' /\ queue'[Len(queue) + 1] = e
        BY <1>0, <3>1, Added
      <3>3. Len(queue) + 1 > k /\ Len(queue) + 1 > 0 /\ (k > 0 => Len(queue) + 1 > k - 1)
        BY <1>0
      <3>4. Destroyed(i, k)' /\ Destroyed(i, 0)' /\ (k > 0 => Destroyed(i, k - 1)')
        BY <3>2, <3>3 DEF Destroyed, e
      <3> QED BY <3>4
    <2>3. OnRestart \/ \E j : Destroy(j, queue)
      <3>1. ASSUME NEW command, StartService(command) PROVE svc' = svc
        BY <1>0, <1>1, <3>1 DEF StartService
      <3>2. Expire => svc' = svc
        BY <3>1 DEF Expire
      <3>3. AppStep => svc' = svc \/ Destroy(svc, queue)
        BY <3>1 DEF AppStep, AppSends, AppStopsService
      <3>4. ASSUME NEW t \in Threads, Settle(t) PROVE svc' = svc \/ Destroy(inst[t], queue)
        BY <3>4 DEF Settle
      <3> QED BY <1>1, <3>2, <3>3, <3>4, Changes
    <2> QED BY <2>1, <2>2, <2>3
  <1>2. CASE svc' = i
    BY <1>2 DEF Destroyed
  <1>3. ASSUME NEW m \in DOMAIN queue, m > k, queue[m] = e
        PROVE  /\ ~Receiving => Destroyed(i, k)'
               /\ Receiving /\ k > 0 => Destroyed(i, k - 1)'
               /\ Receiving => Destroyed(i, 0)' \/ (OnStop /\ Head(queue) = e)
    <2> HIDE DEF e
    <2>1. CASE m \in DOMAIN queue' /\ queue'[m] = queue[m]
      <3>1. m > k /\ m > 0 /\ (k > 0 => m > k - 1)
        BY <1>0, <1>3
      <3> QED BY <1>3, <2>1, <3>1 DEF Destroyed, e
    <2>2. CASE Receiving /\ m > 1 /\ m - 1 \in DOMAIN queue' /\ queue'[m - 1] = queue[m]
      <3>1. m - 1 > k - 1 /\ m - 1 > 0
        BY <1>0, <1>3, <2>2
      <3> QED BY <1>3, <2>2, <3>1 DEF Destroyed, e
    <2>3. CASE Receiving /\ m = 1
      <3>1. k = 0 /\ Head(queue) = e /\ e.cmd = "DESTROY"
        BY <1>0, <1>3, <2>3 DEF e
      <3>2. OnStop
        BY <2>3, <3>1 DEF Receiving, OnStart, OnUpdate, OnRestart, Receive
      <3> QED BY <2>3, <3>1, <3>2
    <2> QED BY <2>1, <2>2, <2>3, QueueNext
  <1> QED BY <1>1, <1>2, <1>3 DEF Destroyed

LEMMA OwnInit == Init => OwnInv
  BY ThreadFacts DEF Init, OwnInv, ToLaunch, TunnelOwned, Services

\* While the main thread has something to do, it does it for the same service object and
\* takes no message.
LEMMA MainBusy ==
  ASSUME TypeOK, [Next]_vars, pc[Main] # "idle"
  PROVE  inst'[Main] = inst[Main] /\ ~Receiving /\ ~KillProcess
  <1>1. ~Receiving /\ ~KillProcess
    BY DEF Receiving, OnStart, OnStop, OnUpdate, OnRestart, Receive, KillProcess
  <1>2. inst \in [Threads -> Services \cup {1}]
    BY DEF TypeOK
  <1>3. Launch \/ (\E t \in Threads : StartTun(t)) => inst'[Main] = inst[Main]
    BY <1>2, ThreadFacts DEF Launch, StartTun, Main
  <1> QED BY <1>1, <1>3, Changes

LEMMA OwnNext == TypeOK /\ BoundsInv /\ WorkInv /\ OwnInv /\ [Next]_vars => OwnInv'
  <1> SUFFICES ASSUME TypeOK, BoundsInv, WorkInv, OwnInv, [Next]_vars PROVE OwnInv'
    OBVIOUS
  <1>0. /\ Main \in Threads /\ Main # <<"xray", begun>> /\ Main \notin XrayMons \cup TunMons \cup FdSenders
        /\ queue \in Seq(Messages) /\ Len(queue) \in Nat /\ DOMAIN queue = 1 .. Len(queue)
        /\ vpn \in [Services -> Interfaces \cup {None}] /\ pc \in [Threads -> Points]
        /\ inst \in [Threads -> Services \cup {1}] /\ None \notin Interfaces
    BY ThreadFacts, Names DEF TypeOK
  <1>1. ASSUME NEW i \in Services, NEW n \in DOMAIN queue', queue'[n].to = i, queue'[n].cmd # "DESTROY"
        PROVE  Destroyed(i, n)'
    <2>1. CASE ~Receiving /\ n \in DOMAIN queue /\ queue'[n] = queue[n]
      <3>1. CASE KillProcess
        <4>1. queue = <<>>
          BY <3>1 DEF KillProcess
        <4> QED BY <1>0, <2>1, <4>1
      <3>2. CASE ~KillProcess
        <4>1. Destroyed(i, n)
          BY <1>1, <2>1 DEF OwnInv
        <4>2. n \in 0 .. Len(queue)
          BY <1>0, <2>1
        <4> QED BY <2>1, <3>2, <4>1, <4>2, DestroyedNext
      <3> QED BY <3>1, <3>2
    <2>2. CASE Receiving /\ n + 1 \in DOMAIN queue /\ queue'[n] = queue[n + 1]
      <3>1. Destroyed(i, n + 1)
        BY <1>1, <2>2 DEF OwnInv
      <3>2. n + 1 \in 0 .. Len(queue) /\ n + 1 > 0 /\ (n + 1) - 1 = n
        <4>1. n \in Nat
          <5>1. queue' \in Seq(Messages)
            BY SystemType
          <5> QED BY <5>1
        <4> QED BY <1>0, <2>2, <4>1
      <3>3. ~KillProcess
        BY <1>0, <2>2 DEF KillProcess
      <3>4. Destroyed(i, (n + 1) - 1)'
        BY <2>2, <3>1, <3>2, <3>3, DestroyedNext
      <3> QED BY <3>2, <3>4
    <2>3. CASE queue'[n].to = svc'
      BY <1>1, <2>3 DEF Destroyed
    <2> QED BY <1>1, <2>1, <2>2, <2>3, NewMessages
  <1>2. ASSUME NEW i \in Services, inst'[Main] = i, ToLaunch' \/ pc'[Main] \in {"launch", "vpn"}
        PROVE  Destroyed(i, 0)'
    <2>1. CASE OnStart
      <3>1. queue # <<>> /\ Head(queue) = queue[1] /\ 1 \in DOMAIN queue /\ Head(queue).cmd = "START"
            /\ Head(queue).to = i
        BY <1>0, <1>2, <2>1 DEF OnStart, Receive
      <3>2. Destroyed(i, 1)
        BY <3>1 DEF OwnInv
      <3>3. Receiving /\ ~KillProcess /\ 1 \in 0 .. Len(queue) /\ 1 > 0 /\ 1 - 1 = 0
        BY <1>0, <2>1, <3>1 DEF Receiving, KillProcess
      <3>4. Destroyed(i, 1 - 1)'
        BY <3>1, <3>2, <3>3, DestroyedNext
      <3> QED BY <3>3, <3>4
    <2>2. CASE ~OnStart
      <3>1. ToLaunch \/ pc[Main] \in {"launch", "vpn"}
        <4>1. CASE pc'[Main] = pc[Main]
          <5>1. job' # job => job' # "start" \/ OnStop
            BY <2>2, Changes DEF StartFails, Established, Settle, TunFails
          <5>2. OnStop => job' # "start" /\ pc'[Main] = "kill"
            BY <1>0, Walks DEF OnStop
          <5> QED BY <1>2, <4>1, <5>1, <5>2 DEF ToLaunch
        <4>2. CASE pc'[Main] # pc[Main]
          <5>1. CASE AnyStep(Main)
            <6>1. CASE KillTun(Main) \/ CloseTun(Main)
              <7>1. job' = job
                BY <6>1 DEF KillTun, CloseTun
              <7> QED BY <1>0, <1>2, <6>1, <7>1, Walks DEF ToLaunch
            <6>2. TunFails(Main) => job' = "tunfail"
              BY DEF TunFails
            <6> QED BY <1>0, <1>2, <5>1, <6>1, <6>2, Walks DEF AnyStep, StopSteps, ToLaunch
          <5>2. CASE Starting
            <6>1. StartFails => job' = "fail"
              BY DEF StartFails
            <6> QED BY <1>0, <1>2, <5>2, <6>1, Walks DEF Starting, ToLaunch
          <5>3. ~OnStop
            <6>1. OnStop => pc'[Main] = "kill" /\ job' = "stop"
              BY <1>0, Walks DEF OnStop
            <6> QED BY <1>2, <6>1 DEF ToLaunch
          <5>4. KillProcess => pc'[Main] = "idle"
            BY <1>0 DEF KillProcess
          <5> QED BY <1>0, <1>2, <2>2, <4>2, <5>1, <5>2, <5>3, <5>4, Moves, Names DEF ToLaunch
        <4> QED BY <4>1, <4>2
      <3>2. pc[Main] # "idle"
        BY <1>0, <3>1 DEF ToLaunch
      <3>3. inst'[Main] = inst[Main] /\ ~Receiving /\ ~KillProcess
        BY <3>2, MainBusy
      <3>4. Destroyed(i, 0) /\ 0 \in 0 .. Len(queue)
        BY <1>0, <1>2, <3>1, <3>3 DEF OwnInv
      <3> QED BY <3>3, <3>4, DestroyedNext
    <2> QED BY <2>1, <2>2
  <1>3. ASSUME NEW i \in Services, vpn'[i] # None
        PROVE  Destroyed(i, 0)' \/ (inst'[Main] = i /\ pc'[Main] \in {"kill", "close"})
    <2>1. ~KillProcess /\ 0 \in 0 .. Len(queue)
      BY <1>0, <1>3 DEF KillProcess
    <2>2. CASE Destroyed(i, 0)
      <3>1. Destroyed(i, 0)' \/ (OnStop /\ Head(queue) = [cmd |-> "DESTROY", to |-> i])
        BY <2>1, <2>2, DestroyedNext
      <3>2. ASSUME OnStop, Head(queue) = [cmd |-> "DESTROY", to |-> i]
            PROVE  inst'[Main] = i /\ pc'[Main] = "kill"
        BY <1>0, <3>2, Walks DEF OnStop, Receive
      <3> QED BY <3>1, <3>2
    <2>3. CASE vpn[i] = None
      <3>1. EstablishVpn /\ i = inst[Main]
        BY <1>0, <1>3, <2>1, <2>3, Changes DEF EstablishVpn, CloseTun
      <3>2. Destroyed(i, 0)
        BY <3>1 DEF OwnInv, EstablishVpn, Step
      <3> QED BY <2>2, <3>2
    <2>4. CASE inst[Main] = i /\ pc[Main] \in {"kill", "close"}
      <3>1. inst'[Main] = i
        BY <2>4, MainBusy
      <3>2. pc'[Main] \in {"kill", "close"}
        <4>1. CASE CloseTun(Main)
          BY <1>0, <1>3, <2>4, <4>1 DEF CloseTun
        <4>2. CASE ~CloseTun(Main)
          <5>1. AnyStep(Main) => pc'[Main] \in {"kill", "close"}
            BY <1>0, <2>4, <4>2, Walks DEF AnyStep, StopSteps
          <5>2. ~OnStart /\ ~OnStop /\ ~Starting
            BY <1>0, <2>4, Walks DEF Starting
          <5> QED BY <1>0, <2>1, <2>4, <5>1, <5>2, Moves, Names
        <4> QED BY <4>1, <4>2
      <3> QED BY <3>1, <3>2
    <2>5. vpn[i] # None => Destroyed(i, 0) \/ (inst[Main] = i /\ pc[Main] \in {"kill", "close"})
      <3>1. DOMAIN queue = 1 .. Len(queue)
        BY <1>0
      <3> QED BY <1>0 DEF OwnInv, TunnelOwned, Destroyed
    <2> QED BY <2>2, <2>3, <2>4, <2>5
  <1>4. TunnelOwned'
    BY <1>3 DEF TunnelOwned, Destroyed
  <1> QED BY <1>1, <1>2, <1>4 DEF OwnInv

-----------------------------------------------------------------------------
(* The first session: until there is an xray process, while it is on       *)
(* record, and the tun2socks processes it makes.                           *)

\* Nothing was launched yet.
First == begun = 0 \/ (begun = 1 /\ pc[Main] = "launch")

LEMMA FirstFacts ==
  ASSUME TypeOK, WorkInv, FreshInv, FirstInv, First
  PROVE  /\ core = None /\ closed \cap XrayMons = {} /\ tunsMade = 0 /\ alive \cap TunMons = {}
         /\ pc[Main] = "launch" => state = "CONNECTING"
         /\ \A t \in Threads \ {Main} : pc[t] = "off"
         /\ pc[Main] \notin {"vpn", "tun"}
  <1>1. /\ core = None /\ closed \cap XrayMons = {} /\ tunsMade = 0 /\ alive \cap TunMons = {}
        /\ pc[Main] = "launch" => state = "CONNECTING"
    BY DEF First, FirstInv
  <1>2. \A t \in XrayMons : pc[t] = "off"
    BY DEF First, FreshInv, XrayMons
  <1>3. \A t \in TunMons \cup FdSenders : pc[t] = "off"
    <2>1. \A n \in 1 .. MaxTuns : pc[<<"tun", n>>] = "off" /\ pc[<<"fd", n>>] = "off"
      <3>1. MaxTuns \in Nat
        BY ServiceAssumption
      <3>2. \A n \in 1 .. MaxTuns : n > tunsMade
        BY <1>1, <3>1
      <3> QED BY <3>2 DEF FreshInv
    <2>2. \A t \in TunMons : \E n \in 1 .. MaxTuns : t = <<"tun", n>>
      BY DEF TunMons
    <2>3. \A t \in FdSenders : \E n \in 1 .. MaxTuns : t = <<"fd", n>>
      BY DEF FdSenders
    <2> QED BY <2>1, <2>2, <2>3
  <1>4. pc[Main] \notin {"vpn", "tun"}
    BY DEF First, WorkInv
  <1> QED BY <1>1, <1>2, <1>3, <1>4, ThreadFacts

LEMMA FirstInit == Init => FirstInv
  BY ThreadFacts DEF Init, FirstInv

LEMMA FirstNext == TypeOK /\ BoundsInv /\ WorkInv /\ FreshInv /\ FirstInv /\ [Next]_vars => FirstInv'
  <1> SUFFICES ASSUME TypeOK, BoundsInv, WorkInv, FreshInv, FirstInv, [Next]_vars, First' PROVE FirstInv'
    BY DEF FirstInv, First
  <1>0. /\ Main \in Threads /\ Main # <<"xray", begun>> /\ begun \in Nat
        /\ begun' \in {begun, begun + 1}
    BY ThreadFacts, Names, BoundsType, Changes DEF BeginCore
  <1>1. First
    <2>1. CASE BeginCore
      BY <1>0, <2>1 DEF BeginCore, First
    <2>2. CASE ~BeginCore
      BY <2>2, MainFrom DEF First
    <2> QED BY <2>1, <2>2
  <1>2. /\ core = None /\ closed \cap XrayMons = {} /\ tunsMade = 0 /\ alive \cap TunMons = {}
        /\ pc[Main] = "launch" => state = "CONNECTING"
        /\ \A t \in Threads \ {Main} : pc[t] = "off"
        /\ pc[Main] \notin {"vpn", "tun"}
    BY <1>1, FirstFacts
  <1>3. ~Launch
    <2>1. ASSUME Launch PROVE FALSE
      <3>1. pc[Main] = "launch" /\ pc'[Main] # "launch" /\ begun' = begun
        BY <1>0, <2>1, Walks DEF Launch
      <3>2. begun >= 1
        BY <3>1 DEF WorkInv
      <3> QED BY <1>0, <3>1, <3>2 DEF First
    <2> QED BY <2>1
  <1>4. ASSUME NEW t \in Threads PROVE ~StartTun(t) /\ ~TunFails(t)
    <2>1. ~RunsTun2socks(t)
      BY <1>2, ThreadFacts DEF RunsTun2socks
    <2> QED BY <2>1 DEF StartTun, TunFails
  <1>5. core' = None /\ tunsMade' = 0
    BY <1>2, <1>3, <1>4, Changes DEF ForgetCore, KillProcess
  <1>6. alive' \cap TunMons = {}
    BY <1>2, <1>3, <1>4, Changes DEF ChildExits, KillProcess, KillTun, DestroyCore
  <1>7. closed' \cap XrayMons = {}
    <2>1. ASSUME NEW t \in Threads, KillTun(t) PROVE closed' \cap XrayMons = {}
      <3>1. tun[inst[t]] \in TunMons \cup {None}
        BY <2>1, Names DEF KillTun, Step
      <3> QED BY <1>2, <2>1, <3>1, ThreadFacts DEF KillTun
    <2> QED BY <1>2, <2>1, Changes DEF DestroyCore, KillProcess
  <1>8. ASSUME pc'[Main] = "launch" PROVE state' = "CONNECTING"
    <2>1. CASE BeginCore
      BY <2>1 DEF BeginCore
    <2>2. CASE ~BeginCore
      <3>1. pc[Main] = "launch" /\ state = "CONNECTING"
        BY <1>2, <1>8, <2>2, MainFrom
      <3>2. ~StartFails /\ ~Established /\ ~KillProcess
        BY <1>0, <1>8, <3>1, Walks DEF KillProcess
      <3>3. ASSUME NEW t \in Threads PROVE ~Settle(t) /\ ~XrayMarks(t) /\ ~FdFails(t)
        BY <1>2, <3>1 DEF Settle, XrayMarks, FdFails, Step
      <3> QED BY <1>4, <2>2, <3>1, <3>2, <3>3, Changes, ThreadFacts
    <2> QED BY <2>1, <2>2
  <1> QED BY <1>5, <1>6, <1>7, <1>8 DEF FirstInv

\* The thread at the end of stopCore is there until it takes the step.
LEMMA StopCoreSteps ==
  ASSUME TypeOK, WorkInv, FreshInv, [Next]_vars, ~KillProcess, NEW u \in Threads
  PROVE  /\ pc[u] = "forget" => pc'[u] = "forget" \/ ForgetCore(u)
         /\ pc'[u] = "settle" => pc[u] = "settle" \/ ForgetCore(u)
  <1>0. Main # <<"xray", begun>>
    BY Names
  <1>1. ASSUME pc[u] = "forget" PROVE pc'[u] = "forget" \/ ForgetCore(u)
    <2>1. AnyStep(u) => ForgetCore(u)
      BY <1>0, <1>1, Walks DEF AnyStep, StopSteps
    <2>2. ~Reading(u) /\ ~Reacting(u) /\ ~Sending(u)
      BY <1>0, <1>1, Walks DEF Reading, Reacting, Sending
    <2>3. u = Main => ~OnStart /\ ~OnStop /\ ~Starting
      BY <1>0, <1>1, Walks DEF Starting
    <2>4. ~(Launch /\ u = <<"xray", begun>>)
      BY <1>1, Fresh DEF Launch
    <2>5. ASSUME NEW t \in Threads, StartTun(t), u \in {<<"tun", tunsMade + 1>>, <<"fd", tunsMade + 1>>}
          PROVE  FALSE
      BY <1>1, <2>5, Fresh DEF StartTun
    <2> QED BY <1>1, <2>1, <2>2, <2>3, <2>4, <2>5, Moves
  <1>2. ASSUME pc'[u] = "settle" PROVE pc[u] = "settle" \/ ForgetCore(u)
    <2>1. AnyStep(u) => ForgetCore(u)
      BY <1>0, <1>2, Walks DEF AnyStep, StopSteps
    <2>2. ~Reading(u) /\ ~Reacting(u) /\ ~Sending(u)
      BY <1>0, <1>2, Walks DEF Reading, Reacting, Sending
    <2>3. u = Main => ~OnStart /\ ~OnStop /\ ~Starting
      BY <1>0, <1>2, Walks DEF Starting
    <2> QED BY <1>2, <2>1, <2>2, <2>3, Moves
  <1> QED BY <1>1, <1>2

LEMMA CoreInit == Init => CoreInv
  BY ThreadFacts DEF Init, CoreInv

LEMMA CoreNext ==
  TypeOK /\ BoundsInv /\ WorkInv /\ FreshInv /\ FirstInv /\ CoreInv /\ [Next]_vars => CoreInv'
  <1> SUFFICES ASSUME TypeOK, BoundsInv, WorkInv, FreshInv, FirstInv, CoreInv, [Next]_vars, begun' <= 1
               PROVE CoreInv'
    BY DEF CoreInv
  <1>0. /\ Main \in Threads /\ Main # <<"xray", begun>> /\ begun \in Nat
        /\ begun' \in {begun, begun + 1} /\ core \in XrayMons \cup {None}
    BY ThreadFacts, Names, BoundsType, Changes DEF BeginCore, TypeOK
  <1>1. /\ core # None => (\E t \in XrayMons : Watcher(t)) \/ SomeEnds
        /\ core # None /\ state \notin {"CONNECTED", "CONNECTING"} => SomeEnds
        /\ core \in closed => \E t \in Threads : pc[t] = "forget"
        /\ \A t \in Threads : pc[t] = "settle" => core = None
    BY <1>0 DEF CoreInv
  <1>2. CASE core' = None
    <2>1. closed' \subseteq Processes /\ None \notin Processes
      BY ProcessesType, ThreadFacts
    <2> QED BY <1>2, <2>1 DEF CoreInv
  <1>3. CASE Launch
    <2> DEFINE x == <<"xray", begun>>
    <2>1. pc[Main] = "launch" /\ begun = 1 /\ begun' = begun
      BY <1>0, <1>3 DEF Launch, WorkInv
    <2>2. /\ closed \cap XrayMons = {} /\ state = "CONNECTING"
          /\ \A t \in Threads \ {Main} : pc[t] = "off"
      BY <2>1, FirstFacts DEF First
    <2>3. x \in XrayMons /\ x \in Threads
      BY <2>1, Names, ThreadFacts
    <2>4. core' = x /\ state' = state /\ closed' = closed /\ pc'[x] = "new" /\ pc'[Main] \in {"vpn", "up"}
      <3>1. pc \in [Threads -> Points]
        BY DEF TypeOK
      <3> QED BY <1>0, <1>3, <2>3, <3>1 DEF Launch
    <2>5. ASSUME NEW t \in Threads PROVE pc'[t] # "settle"
      <3>1. CASE pc'[t] = pc[t]
        BY <2>2, <2>4, <3>1
      <3>2. pc'[t] # pc[t] => t \in {Main, x}
        BY <1>3 DEF Launch, TypeOK
      <3> QED BY <2>4, <3>1, <3>2
    <2>6. (\E t \in XrayMons : Watcher(t))'
      BY <2>3, <2>4 DEF Watcher
    <2> QED BY <2>2, <2>3, <2>4, <2>5, <2>6 DEF CoreInv
  <1>4. CASE core' # None /\ ~Launch
    <2>1. ~KillProcess /\ (\A t \in Threads : ~ForgetCore(t)) /\ core' = core /\ core # None
      <3>1. ~KillProcess /\ \A t \in Threads : ~ForgetCore(t)
        BY <1>4 DEF KillProcess, ForgetCore
      <3> QED BY <1>4, <3>1, Changes
    <2>2. ~BeginCore /\ begun' = begun
      <3>1. BeginCore => begun = 0
        BY <1>0 DEF BeginCore
      <3>2. ~BeginCore
        BY <2>1, <3>1 DEF FirstInv
      <3> QED BY <3>2, Changes
    <2>3. \A t \in Threads : ~Settle(t)
      BY <1>1, <2>1 DEF Settle, Step
    <2>4. SomeEnds => SomeEnds'
      BY <2>1, <2>3, SomeEndsNext
    <2>5. ASSUME NEW t \in XrayMons, Watcher(t), ~SomeEnds PROVE Watcher(t)' \/ SomeEnds'
      <3>0. t \in Threads /\ t # Main /\ t \notin TunMons /\ t \notin FdSenders /\ core \notin closed
            /\ state \in {"CONNECTED", "CONNECTING"} /\ Field(t) = core
        BY <1>1, <2>1, <2>5, ThreadFacts DEF SomeEnds, Ending, Field
      <3>1. CASE MonitorBegin(t) \/ MonitorEof(t)
        <4>1. pc'[t] \in {"read", "join"}
          BY <1>0, <3>0, <3>1, Walks
        <4>2. watch'[t] = core
          BY <3>0, <3>1 DEF MonitorBegin, MonitorEof, TypeOK
        <4> QED BY <2>1, <4>1, <4>2 DEF Watcher
      <3>2. CASE ~MonitorBegin(t) /\ ~MonitorEof(t)
        <4>1. watch'[t] = watch[t]
          <5>1. ASSUME NEW s \in XrayMons \cup TunMons, MonitorBegin(s) \/ MonitorEof(s) PROVE watch'[t] = watch[t]
            <6>1. s # t
              BY <3>2, <5>1
            <6> QED BY <3>0, <5>1, <6>1 DEF MonitorBegin, MonitorEof, TypeOK
          <5>2. ASSUME NEW s \in Threads, StartTun(s) PROVE watch'[t] = watch[t]
            <6>1. t # <<"fd", tunsMade + 1>>
              BY DEF XrayMons
            <6> QED BY <3>0, <5>2, <6>1 DEF StartTun, TypeOK
          <5> QED BY <5>1, <5>2, Changes
        <4>2. CASE pc'[t] = pc[t]
          BY <2>1, <2>5, <4>1, <4>2 DEF Watcher
        <4>3. ~AnyStep(t) /\ ~Sending(t)
          BY <1>0, <2>5, <3>0, Walks DEF AnyStep, StopSteps, Sending, Watcher
        <4>4. ~MonitorInterrupted(t)
          BY <2>5, <3>0 DEF MonitorInterrupted, Watcher, Step
        <4>5. CASE XrayExited(t)
          <5>1. pc'[t] = "mark"
            BY <1>0, <3>0, <4>5, Walks
          <5> QED BY <5>1 DEF Watcher
        <4>6. XrayMarks(t) => SomeEnds'
          BY ErrorsEnd
        <4>7. ~TunExited(t)
          BY <3>0 DEF TunExited
        <4>8. t # <<"tun", tunsMade + 1>> /\ t # <<"fd", tunsMade + 1>>
          BY DEF XrayMons
        <4> QED BY <1>4, <2>1, <3>0, <3>2, <4>2, <4>3, <4>4, <4>5, <4>6, <4>7, <4>8, Moves DEF Reading, Reacting
      <3> QED BY <3>1, <3>2
    <2>6. (\E t \in XrayMons : Watcher(t))' \/ SomeEnds'
      BY <1>1, <2>1, <2>4, <2>5
    <2>7. ASSUME state' \notin {"CONNECTED", "CONNECTING"} PROVE SomeEnds'
      <3>1. CASE state' = state
        BY <1>1, <2>1, <2>4, <2>7, <3>1
      <3>2. Established => state' = "CONNECTED"
        BY DEF Established
      <3> QED BY <2>1, <2>2, <2>3, <2>7, <3>1, <3>2, Changes, ErrorsEnd
    <2>8. ASSUME core' \in closed' PROVE \E t \in Threads : pc'[t] = "forget"
      <3>1. CASE core \in closed
        BY <1>1, <2>1, <3>1, StopCoreSteps
      <3>2. CASE core \notin closed
        <4>1. ASSUME NEW t \in Threads, KillTun(t) PROVE FALSE
          <5>1. tun[inst[t]] \in TunMons \cup {None}
            BY <4>1, Names DEF KillTun, Step
          <5> QED BY <1>0, <2>1, <2>8, <3>2, <4>1, <5>1, ThreadFacts DEF KillTun
        <4>2. ASSUME NEW t \in Threads, DestroyCore(t) PROVE pc'[t] = "forget"
          BY <1>0, <4>2, Walks
        <4> QED BY <2>1, <2>8, <3>2, <4>1, <4>2, Changes
      <3> QED BY <3>1, <3>2
    <2>9. \A t \in Threads : pc'[t] # "settle"
      BY <1>1, <2>1, StopCoreSteps
    <2> QED BY <2>1, <2>6, <2>7, <2>8, <2>9 DEF CoreInv
  <1> QED BY <1>2, <1>3, <1>4

\* What becomes of the processes of tun2socks.
LEMMA TunsNext ==
  ASSUME TypeOK, WorkInv, [Next]_vars, NEW t \in TunMons, \A s \in Threads : ~StartTun(s)
  PROVE  /\ tunsMade' = tunsMade
         /\ t \in alive' => t \in alive
         /\ inst'[t] = inst[t] /\ inst[t] \in Services \cup {1}
         /\ \A i \in Services : \/ tun'[i] = tun[i] /\ (i \notin running => i \notin running' \/ Launch \/ EstablishVpn)
                                \/ tun'[i] = None /\ i \notin running'
  <1>0. /\ t \in Threads /\ t # Main /\ t \notin XrayMons
        /\ inst \in [Threads -> Services \cup {1}] /\ tun \in [Services -> TunMons \cup {None}]
    BY ThreadFacts DEF TypeOK
  <1>1. tunsMade' = tunsMade
    BY Changes
  <1>2. t \in alive' => t \in alive
    <2>1. Launch => <<"xray", begun>> # t
      BY DEF TunMons
    <2> QED BY <2>1, Changes DEF Launch, KillProcess, ChildExits, KillTun, DestroyCore
  <1>3. inst'[t] = inst[t]
    <2>1. Receiving => inst'[t] = inst[t]
      BY <1>0 DEF Receiving, OnStart, OnStop, OnUpdate, OnRestart, Receive
    <2>2. Launch => inst'[t] = inst[t]
      <3>1. <<"xray", begun>> # t
        BY DEF TunMons
      <3> QED BY <1>0, <3>1 DEF Launch
    <2> QED BY <2>1, <2>2, Changes
  <1>4. ASSUME NEW i \in Services
        PROVE  \/ tun'[i] = tun[i] /\ (i \notin running => i \notin running' \/ Launch \/ EstablishVpn)
               \/ tun'[i] = None /\ i \notin running'
    <2>1. CASE KillProcess
      BY <2>1 DEF KillProcess
    <2>2. ASSUME NEW s \in Threads, CloseTun(s)
          PROVE  \/ tun'[i] = tun[i] /\ (i \notin running => i \notin running')
                 \/ tun'[i] = None /\ i \notin running'
      BY <1>0, <2>2 DEF CloseTun
    <2>3. CASE ~KillProcess /\ \A s \in Threads : ~CloseTun(s)
      BY <2>3, Changes
    <2> QED BY <2>1, <2>2, <2>3
  <1> QED BY <1>0, <1>1, <1>2, <1>3, <1>4

\* A monitor that may start tun2socks again.
Minding(t) == pc[t] \in {"new", "read", "join", "restart"}

LEMMA TunInit == Init => TunInv
  BY ThreadFacts DEF Init, TunInv

LEMMA TunNext ==
  TypeOK /\ BoundsInv /\ WorkInv /\ FreshInv /\ FirstInv /\ TunInv /\ [Next]_vars => TunInv'
  <1> SUFFICES ASSUME TypeOK, BoundsInv, WorkInv, FreshInv, FirstInv, TunInv, [Next]_vars, begun' <= 1
               PROVE TunInv'
    BY DEF TunInv
  <1>0. /\ Main \in Threads /\ Main # <<"xray", begun>> /\ begun \in Nat /\ Main \notin TunMons
        /\ begun' \in {begun, begun + 1} /\ tunsMade \in Nat
        /\ TunMons \subseteq Threads \ {Main}
        /\ <<"tun", 0>> \notin TunMons
    <2>1. begun' \in {begun, begun + 1}
      BY Changes DEF BeginCore
    <2>2. tunsMade \in Nat /\ <<"tun", 0>> \notin TunMons
      BY ServiceAssumption DEF TypeOK, TunMons
    <2> QED BY <2>1, <2>2, ThreadFacts, Names, BoundsType
  <1>1. /\ begun <= 1
        /\ alive \cap TunMons \subseteq {<<"tun", tunsMade>>}
        /\ pc[Main] \in {"launch", "vpn", "tun"} => tunsMade = 0
        /\ \A t \in TunMons : Minding(t) =>
             /\ t = <<"tun", tunsMade>>
             /\ tun[inst[t]] \in {t, None}
             /\ tun[inst[t]] = None => inst[t] \notin running
             /\ pc[t] = "read" => watch[t] = t
             /\ pc[t] = "join" => t \notin alive \/ inst[t] \notin running
             /\ pc[t] = "restart" => t \notin alive
    BY <1>0 DEF TunInv, Minding
  <1>2. ASSUME NEW s \in Threads, StartTun(s)
        PROVE  /\ alive \cap TunMons = {} /\ \A t \in TunMons : Minding(t) => t = s
    <2>1. CASE s = Main
      <3>1. pc[Main] = "tun"
        BY <1>0, <1>2, <2>1, Walks
      <3>2. tunsMade = 0
        BY <1>1, <3>1
      <3> QED BY <1>0, <1>1, <3>2
    <2>2. CASE s \in TunMons /\ pc[s] = "restart"
      <3>1. s = <<"tun", tunsMade>> /\ s \notin alive
        BY <1>1, <2>2 DEF Minding
      <3> QED BY <1>1, <3>1
    <2> QED BY <1>2, <2>1, <2>2 DEF StartTun, RunsTun2socks
  <1>3. alive' \cap TunMons \subseteq {<<"tun", tunsMade'>>}
    <2>1. ASSUME NEW s \in Threads, StartTun(s) PROVE alive' \cap TunMons \subseteq {<<"tun", tunsMade'>>}
      BY <1>2, <2>1 DEF StartTun
    <2>2. CASE \A s \in Threads : ~StartTun(s)
      BY <1>1, <2>2, TunsNext
    <2> QED BY <2>1, <2>2
  <1>4. ASSUME pc'[Main] \in {"launch", "vpn", "tun"} PROVE tunsMade' = 0
    <2>1. tunsMade = 0
      <3>1. CASE BeginCore
        <4>1. begun = 0
          BY <1>0, <3>1 DEF BeginCore
        <4> QED BY <4>1 DEF FirstInv
      <3>2. CASE ~BeginCore
        BY <1>1, <1>4, <3>2, MainFrom
      <3> QED BY <3>1, <3>2
    <2>2. ASSUME NEW s \in Threads, StartTun(s) PROVE FALSE
      <3>1. s # Main
        BY <1>0, <1>4, <2>2, Walks
      <3>2. s \in TunMons /\ pc[s] = "restart"
        BY <2>2, <3>1 DEF StartTun, RunsTun2socks
      <3> QED BY <1>0, <1>1, <2>1, <3>2 DEF Minding
    <2> QED BY <2>1, <2>2, Changes
  <1>5. ASSUME NEW t \in TunMons, Minding(t)'
        PROVE  /\ t = <<"tun", tunsMade'>>
               /\ tun'[inst'[t]] \in {t, None}
               /\ tun'[inst'[t]] = None => inst'[t] \notin running'
               /\ pc'[t] = "read" => watch'[t] = t
               /\ pc'[t] = "join" => t \notin alive' \/ inst'[t] \notin running'
               /\ pc'[t] = "restart" => t \notin alive'
    <2>0. t \in Threads /\ t # Main /\ pc'[t] \in {"new", "read", "join", "restart"}
      BY <1>0, <1>5 DEF Minding
    <2>1. ASSUME NEW s \in Threads, StartTun(s)
          PROVE  /\ t = <<"tun", tunsMade'>> /\ tun'[inst'[t]] = t /\ pc'[t] = "new"
      <3> DEFINE u == <<"tun", tunsMade + 1>>
      <3>1. t = u
        <4>1. CASE pc'[t] = pc[t]
          <5>1. Minding(t)
            BY <2>0, <4>1 DEF Minding
          <5>2. t = s
            BY <1>2, <2>1, <5>1
          <5>3. pc[t] = "restart" /\ pc'[t] \in {"off", "new"}
            BY <1>0, <2>0, <2>1, <5>2, Walks
          <5> QED BY <4>1, <5>3
        <4>2. CASE pc'[t] # pc[t] /\ t # u
          <5>1. t # <<"fd", tunsMade + 1>> /\ t # <<"xray", begun>>
            BY DEF TunMons
          <5>2. pc'[t] = "off"
            BY <2>0, <2>1, <4>2, <5>1 DEF StartTun, TypeOK
          <5> QED BY <2>0, <5>2
        <4> QED BY <4>1, <4>2
      <3>2. tunsMade' = tunsMade + 1 /\ inst[s] \in Services
        BY <2>1, Names DEF StartTun, RunsTun2socks
      <3>3. inst'[t] = inst[s]
        BY <1>0, <2>1, <3>1 DEF StartTun, TypeOK
      <3>4. tun'[inst[s]] = t
        BY <2>1, <3>1, <3>2 DEF StartTun, TypeOK
      <3>5. pc'[t] = "new"
        BY <1>0, <2>0, <2>1, <3>1 DEF StartTun, TypeOK
      <3> QED BY <3>1, <3>2, <3>3, <3>4, <3>5
    <2>2. CASE \A s \in Threads : ~StartTun(s)
      <3>1. /\ tunsMade' = tunsMade /\ (t \in alive' => t \in alive) /\ inst'[t] = inst[t]
            /\ \A i \in Services : \/ tun'[i] = tun[i] /\ (i \notin running => i \notin running' \/ Launch \/ EstablishVpn)
                                   \/ tun'[i] = None /\ i \notin running'
        BY <2>2, TunsNext
      <3>2. ~KillProcess
        BY <2>0 DEF KillProcess
      <3>3. t \notin XrayMons /\ t \notin FdSenders /\ t # <<"xray", begun>>
        BY ThreadFacts, <2>0 DEF TunMons, FdSenders, XrayMons
      <3>4. \/ pc'[t] = pc[t] \/ MonitorBegin(t) \/ MonitorEof(t) \/ TunExited(t)
        <4>1. CASE pc'[t] # pc[t]
          <5>1. ~AnyStep(t)
            BY <1>0, <2>0, <2>2, Walks DEF AnyStep, StopSteps
          <5>2. ~MonitorInterrupted(t) /\ ~XrayMarks(t)
            BY <1>0, <2>0, Walks
          <5>3. ~XrayExited(t)
            BY <3>3 DEF XrayExited
          <5> QED BY <2>0, <2>2, <3>2, <3>3, <4>1, <5>1, <5>2, <5>3, Moves DEF Reading, Reacting
        <4> QED BY <4>1
      <3>5. Minding(t)
        BY <1>0, <2>0, <3>4, Walks DEF Minding
      <3>6. /\ t = <<"tun", tunsMade>> /\ tun[inst[t]] \in {t, None}
            /\ tun[inst[t]] = None => inst[t] \notin running
            /\ pc[t] = "read" => watch[t] = t
            /\ pc[t] = "join" => t \notin alive \/ inst[t] \notin running
            /\ pc[t] = "restart" => t \notin alive
        BY <1>1, <3>5
      <3>7. ~Launch /\ ~EstablishVpn
        <4>1. pc[Main] \notin {"launch", "vpn", "tun"}
          BY <1>0, <1>1, <3>6
        <4> QED BY <4>1 DEF Launch, EstablishVpn, Step
      <3>8. inst[t] \in Services /\ Field(t) = tun[inst[t]]
        BY <2>0, <3>3, <3>5, Names DEF Minding, Field
      <3>9. /\ tun'[inst[t]] = tun[inst[t]] \/ (tun'[inst[t]] = None /\ inst[t] \notin running')
            /\ inst[t] \notin running => inst[t] \notin running'
        BY <3>1, <3>7, <3>8
      <3>10. ~MonitorBegin(t) /\ ~MonitorEof(t) => watch'[t] = watch[t]
        <4>1. ASSUME NEW s \in XrayMons \cup TunMons, MonitorBegin(s) \/ MonitorEof(s), s # t
              PROVE  watch'[t] = watch[t]
          BY <2>0, <4>1 DEF MonitorBegin, MonitorEof, TypeOK
        <4> QED BY <2>2, <4>1, Changes
      <3>11. pc'[t] = "read" => watch'[t] = t
        <4>1. CASE MonitorBegin(t)
          <5>1. watch'[t] = tun[inst[t]] /\ (pc'[t] = "read" => tun[inst[t]] # None)
            BY <1>0, <2>0, <3>8, <4>1, Walks DEF MonitorBegin, TypeOK
          <5> QED BY <3>6, <5>1
        <4>2. CASE ~MonitorBegin(t)
          <5>1. pc'[t] = "read" => pc[t] = "read" /\ ~MonitorEof(t)
            BY <1>0, <2>0, <3>4, <4>2, Walks
          <5> QED BY <3>6, <3>10, <4>2, <5>1
        <4> QED BY <4>1, <4>2
      <3>12. pc'[t] = "join" => t \notin alive' \/ inst[t] \notin running'
        <4>1. CASE MonitorBegin(t)
          <5>1. pc'[t] = "join" => tun[inst[t]] = None
            BY <1>0, <2>0, <3>8, <4>1, Walks
          <5> QED BY <3>6, <3>9, <5>1
        <4>2. CASE MonitorEof(t)
          BY <3>1, <3>6, <4>2 DEF MonitorEof, Step
        <4>3. CASE TunExited(t)
          BY <1>0, <2>0, <4>3, Walks
        <4>4. CASE pc'[t] = pc[t]
          BY <3>1, <3>6, <3>9, <4>4
        <4> QED BY <3>4, <4>1, <4>2, <4>3, <4>4
      <3>13. pc'[t] = "restart" => t \notin alive'
        <4>1. CASE TunExited(t)
          <5>1. pc[t] = "join" /\ (pc'[t] = "restart" => inst[t] \in running)
            BY <1>0, <2>0, <4>1, Walks
          <5> QED BY <3>1, <3>6, <5>1
        <4>2. CASE MonitorBegin(t) \/ MonitorEof(t)
          BY <1>0, <2>0, <4>2, Walks
        <4>3. CASE pc'[t] = pc[t]
          BY <3>1, <3>6, <4>3
        <4> QED BY <3>4, <4>1, <4>2, <4>3
      <3>14. tun'[inst[t]] \in {t, None} /\ (tun'[inst[t]] = None => inst[t] \notin running')
        BY <3>6, <3>9
      <3> QED BY <3>1, <3>6, <3>11, <3>12, <3>13, <3>14
    <2>3. ASSUME NEW s \in Threads, StartTun(s)
          PROVE  /\ t = <<"tun", tunsMade'>> /\ tun'[inst'[t]] \in {t, None}
                 /\ tun'[inst'[t]] = None => inst'[t] \notin running'
                 /\ pc'[t] = "new"
      <3>1. t # None
        BY ThreadFacts
      <3> QED BY <2>1, <2>3, <3>1
    <2> QED BY <2>2, <2>3
  <1> QED BY <1>3, <1>4, <1>5 DEF TunInv, Minding

-----------------------------------------------------------------------------
(* A session that is being brought up, and the stop that will end it.      *)

\* A message that stops the session waits for the main thread.
StopWaits    == \E n \in DOMAIN queue : queue[n].cmd \in {"STOP", "DESTROY"}
DestroyWaits == \E n \in DOMAIN queue : queue[n].cmd = "DESTROY"

\* The service object a session is brought up for is on record or will be destroyed.
LaunchInv == Launching => Destroyed(inst[Main], 0)

\* From BeginCore to Established a session is being brought up without a gap.
LEMMA LaunchingFrom ==
  ASSUME TypeOK, WorkInv, [Next]_vars, ~BeginCore, Launching'
  PROVE  Launching /\ ~Established
  <1>0. Main \in Threads /\ Main # <<"xray", begun>> /\ Main \notin XrayMons \cup TunMons \cup FdSenders
    BY ThreadFacts, Names
  <1>1. job' = "tunfail" => job = "tunfail" \/ TunFails(Main)
    <2>1. ASSUME NEW t \in Threads, t # Main, TunFails(t) PROVE job' = job
      BY <2>1 DEF TunFails
    <2> QED BY <2>1, Changes DEF OnStart, OnStop, StartFails, Established, Settle
  <1>2. TunFails(Main) => Launching
    BY <1>0, Walks DEF Launching
  <1>3. ~Established
    BY <1>0, Walks DEF Launching
  <1>4. CASE pc'[Main] = pc[Main]
    BY <1>1, <1>2, <1>3, <1>4 DEF Launching
  <1>5. CASE pc'[Main] # pc[Main]
    <2>1. AnyStep(Main) => Launching
      BY <1>0, <1>1, <1>2, Walks DEF AnyStep, StopSteps, Launching
    <2>2. ~OnStart /\ ~OnStop
      <3>1. OnStart \/ OnStop => pc'[Main] = "kill" /\ job' # "tunfail"
        BY <1>0, Walks DEF OnStart, OnStop
      <3> QED BY <3>1 DEF Launching
    <2>3. Starting => Launching
      BY <1>0, <1>3, Walks DEF Starting, Launching
    <2>4. ~KillProcess
      BY <1>0 DEF KillProcess, Launching
    <2> QED BY <1>0, <1>3, <1>5, <2>1, <2>2, <2>3, <2>4, Moves, Names
  <1> QED BY <1>4, <1>5

LEMMA LaunchNext == TypeOK /\ BoundsInv /\ WorkInv /\ OwnInv /\ LaunchInv /\ [Next]_vars => LaunchInv'
  <1> SUFFICES ASSUME TypeOK, BoundsInv, WorkInv, OwnInv, LaunchInv, [Next]_vars, Launching'
               PROVE  Destroyed(inst[Main], 0)'
    BY DEF LaunchInv
  <1>0. Main \in Threads /\ queue \in Seq(Messages)
    BY ThreadFacts DEF TypeOK
  <1>1. pc[Main] # "idle" /\ pc[Main] # "off" /\ Destroyed(inst[Main], 0)
    <2>1. CASE BeginCore
      <3>1. pc[Main] = "begin"
        BY <2>1 DEF BeginCore, Step
      <3>2. inst[Main] \in Services
        BY <1>0, <3>1 DEF WorkInv
      <3> QED BY <3>1, <3>2 DEF OwnInv, ToLaunch
    <2>2. CASE ~BeginCore
      <3>1. Launching
        BY <2>2, LaunchingFrom
      <3> QED BY <3>1 DEF LaunchInv, Launching
    <2> QED BY <2>1, <2>2
  <1>2. PICK i \in Services : i = inst[Main]
    BY <1>0, <1>1 DEF WorkInv
  <1>3. inst'[Main] = i /\ ~Receiving /\ ~KillProcess /\ 0 \in 0 .. Len(queue)
    BY <1>0, <1>1, <1>2, MainBusy
  <1>4. Destroyed(i, 0)'
    BY <1>1, <1>2, <1>3, DestroyedNext
  <1> QED BY <1>3, <1>4 DEF Destroyed

\* The stop that waits is taken at last by the main thread, which then stops the session.
LEMMA StopWaitsNext ==
  ASSUME TypeOK, BoundsInv, WorkInv, [Next]_vars, StopWaits
  PROVE  StopWaits' \/ (pc'[Main] = "kill" /\ job' = "stop")
  <1>0. Main \in Threads /\ Main # <<"xray", begun>> /\ queue \in Seq(Messages)
    BY ThreadFacts, Names DEF TypeOK
  <1>1. PICK n \in DOMAIN queue : queue[n].cmd \in {"STOP", "DESTROY"}
    BY DEF StopWaits
  <1>2. CASE \E m \in DOMAIN queue' : queue'[m] = queue[n]
    BY <1>1, <1>2 DEF StopWaits
  <1>3. CASE Receiving /\ n = 1
    <2>1. queue # <<>> /\ Head(queue) = queue[1]
      BY <1>0, <1>1, <1>3
    <2>2. CASE OnStop
      BY <1>0, <2>2, Walks DEF OnStop
    <2>3. CASE ~OnStop
      BY <1>1, <1>3, <2>1, <2>3 DEF Receiving, OnStart, OnUpdate, OnRestart, Receive
    <2> QED BY <2>2, <2>3
  <1> QED BY <1>2, <1>3, QueueNext

\* A destruction that waits is not taken while the main thread is busy.
LEMMA DestroyWaitsNext ==
  ASSUME TypeOK, BoundsInv, [Next]_vars, DestroyWaits, ~Receiving
  PROVE  DestroyWaits'
  <1>1. PICK n \in DOMAIN queue : queue[n].cmd = "DESTROY"
    BY DEF DestroyWaits
  <1>2. n \in DOMAIN queue' /\ queue'[n] = queue[n]
    BY QueueNext
  <1> QED BY <1>1, <1>2 DEF DestroyWaits

\* The destruction of a service object that is taken off the record waits.
LEMMA OffRecord ==
  ASSUME TypeOK, [Next]_vars, svc # 0, svc' = 0
  PROVE  DestroyWaits'
  <1>0. queue \in Seq(Messages)
    BY DEF TypeOK
  <1>1. ASSUME NEW i, NEW waiting \in Seq(Messages), Destroy(i, waiting) PROVE DestroyWaits'
    <2> DEFINE e == [cmd |-> "DESTROY", to |-> i]
    <2>1. queue' = Append(waiting, e)
      BY <1>1, DestroyCases
    <2>2. e.cmd = "DESTROY"
      OBVIOUS
    <2> HIDE DEF e
    <2>3. Len(waiting) + 1 \in DOMAIN queue' /\ queue'[Len(waiting) + 1] = e
      BY <2>1, Added
    <2> QED BY <2>2, <2>3 DEF DestroyWaits
  <1>2. ASSUME NEW command, StartService(command) PROVE FALSE
    BY <1>2 DEF StartService
  <1>3. CASE OnRestart
    <2>1. Destroy(Head(queue).to, Tail(queue)) /\ Tail(queue) \in Seq(Messages)
      BY <1>0, <1>3 DEF OnRestart, Receive
    <2> QED BY <1>1, <2>1
  <1>4. ~Expire /\ ~KillProcess
    <2>1. KillProcess => svc' = made + 1 /\ made \in Nat
      BY DEF KillProcess, TypeOK, Services
    <2>2. made \in Nat => made + 1 # 0
      OBVIOUS
    <2> QED BY <1>2, <2>1, <2>2 DEF Expire
  <1>5. AppStep => Destroy(svc, queue)
    BY <1>2 DEF AppStep, AppSends, AppStopsService
  <1>6. ASSUME NEW t \in Threads, Settle(t) PROVE svc' = svc \/ Destroy(inst[t], queue)
    BY <1>6 DEF Settle
  <1> QED BY <1>0, <1>1, <1>3, <1>4, <1>5, <1>6, Changes

\* Another thread forgets the xray process while the main thread brings up the session it
\* was started for.
Overlap == pc[Main] \in {"vpn", "tun", "up"} /\ \E t \in Threads \ {Main} : pc[t] = "forget"

\* Without that, a session that is told of without an xray process is about to be stopped, and
\* one that is brought up without it (tun2socks could not be started) will be.
UpInv ==
  /\ state = "CONNECTED" /\ core = None => SomeEnds \/ StopWaits
  /\ pc[Main] \in {"vpn", "tun"} => core # None
  /\ pc[Main] = "up" /\ core = None => DestroyWaits

LEMMA UpNext ==
  TypeOK /\ BoundsInv /\ WorkInv /\ FreshInv /\ LaunchInv /\ UpInv /\ ~Overlap /\ [Next]_vars => UpInv'
  <1> SUFFICES ASSUME TypeOK, BoundsInv, WorkInv, FreshInv, LaunchInv, UpInv, ~Overlap, [Next]_vars
               PROVE  UpInv'
    OBVIOUS
  <1>0. /\ Main \in Threads /\ Main # <<"xray", begun>> /\ Main \notin XrayMons \cup TunMons \cup FdSenders
        /\ queue \in Seq(Messages) /\ pc \in [Threads -> Points] /\ None \notin Processes
        /\ XrayMons \subseteq Processes
    BY ThreadFacts, Names DEF TypeOK
  <1>1. Launch => core' # None
    <2>1. pc[Main] = "launch" => <<"xray", begun>> \in XrayMons
      BY Names
    <2> QED BY <1>0, <2>1 DEF Launch
  <1>2. ASSUME core' # core, core' = None, ~KillProcess
        PROVE  SomeEnds' /\ pc[Main] \notin {"vpn", "tun", "up"}
    <2>1. PICK t \in Threads : ForgetCore(t)
      BY <1>1, <1>2, Changes
    <2>2. pc[t] = "forget" /\ pc'[t] = "settle"
      BY <1>0, <2>1, Walks
    <2>3. SomeEnds'
      BY <2>2 DEF SomeEnds, Ending
    <2>4. pc[Main] \notin {"vpn", "tun", "up"}
      BY <2>2 DEF Overlap
    <2> QED BY <2>3, <2>4
  <1>3. KillProcess => pc[Main] = "idle" /\ pc'[Main] = "idle" /\ state' # "CONNECTED"
    BY <1>0 DEF KillProcess
  <1>4. pc'[Main] = "kill" => pc'[Main] \notin {"vpn", "tun", "up"}
    OBVIOUS
  <1>5. ASSUME state' = "CONNECTED", core' = None PROVE SomeEnds' \/ StopWaits'
    <2>1. ~KillProcess /\ \A t \in Threads : ~Settle(t)
      BY <1>3, <1>5 DEF Settle, TerminalState
    <2>2. CASE core' # core
      BY <1>2, <1>5, <2>1, <2>2
    <2>3. CASE core = None /\ Established
      <3>1. pc[Main] = "up" /\ UNCHANGED queue
        BY <2>3 DEF Established, Step, systemVars
      <3>2. DestroyWaits
        BY <2>3, <3>1 DEF UpInv
      <3> QED BY <3>1, <3>2 DEF DestroyWaits, StopWaits
    <2>4. CASE core = None /\ ~Established
      <3>1. state = "CONNECTED"
        <4>1. ASSUME BeginCore \/ StartFails \/ (\E t \in Threads : TunFails(t))
                       \/ (\E t \in XrayMons \cup TunMons : XrayMarks(t)) \/ (\E t \in FdSenders : FdFails(t))
              PROVE  state' # "CONNECTED"
          BY <4>1 DEF BeginCore, StartFails, TunFails, XrayMarks, FdFails, MarkError
        <4> QED BY <1>5, <2>1, <2>4, <4>1, Changes
      <3>2. SomeEnds \/ StopWaits
        BY <2>4, <3>1 DEF UpInv
      <3>3. pc'[Main] = "kill" /\ job' = "stop" => SomeEnds'
        BY <1>0 DEF SomeEnds, Ending
      <3> QED BY <2>1, <3>2, <3>3, SomeEndsNext, StopWaitsNext
    <2> QED BY <1>5, <2>2, <2>3, <2>4
  <1>6. ASSUME pc[Main] \in {"vpn", "tun"}, core' = None PROVE FALSE
    <2>1. core # None /\ ~KillProcess
      BY <1>3, <1>6 DEF UpInv
    <2> QED BY <1>2, <1>6, <2>1
  <1>7. ASSUME pc'[Main] \in {"vpn", "tun"} PROVE core' # None
    <2>1. CASE pc[Main] \in {"vpn", "tun"}
      BY <1>6, <2>1
    <2>2. CASE pc[Main] \notin {"vpn", "tun"}
      <3>1. ~AnyStep(Main) /\ ~OnStart /\ ~OnStop /\ ~KillProcess
        BY <1>0, <1>3, <1>7, Walks DEF AnyStep, StopSteps
      <3>2. Starting => Launch
        BY <1>0, <1>7, <2>2, Walks DEF Starting
      <3>3. Launch
        BY <1>0, <1>7, <2>2, <3>1, <3>2, Moves, Names
      <3> QED BY <1>1, <3>3
    <2> QED BY <2>1, <2>2
  <1>8. ASSUME pc'[Main] = "up", core' = None PROVE DestroyWaits'
    <2>1. ~Launch /\ ~KillProcess
      BY <1>1, <1>3, <1>8
    <2>2. CASE pc[Main] = "up"
      <3>1. core = None
        BY <1>2, <1>8, <2>1, <2>2
      <3>2. DestroyWaits /\ ~Receiving
        BY <2>2, <3>1, MainBusy DEF UpInv
      <3> QED BY <3>2, DestroyWaitsNext
    <2>3. CASE Settle(Main)
      <3>1. pc[Main] = "settle" /\ job = "tunfail"
        BY <1>0, <1>8, <2>3, Walks
      <3>2. Destroyed(inst[Main], 0) /\ inst[Main] \in Services
        BY <1>0, <3>1 DEF LaunchInv, Launching, WorkInv
      <3>3. Destroy(inst[Main], queue)
        BY <1>0, <2>3 DEF Settle
      <3>4. CASE svc = inst[Main]
        <4>1. svc # 0 /\ svc' = 0
          BY <3>2, <3>3, <3>4 DEF Destroy, Services
        <4> QED BY <4>1, OffRecord
      <3>5. CASE svc # inst[Main]
        <4>1. queue' = queue
          BY <3>3, <3>5 DEF Destroy
        <4>2. PICK m \in DOMAIN queue : queue[m] = [cmd |-> "DESTROY", to |-> inst[Main]]
          BY <3>2, <3>5 DEF Destroyed
        <4>3. queue[m].cmd = "DESTROY"
          BY <4>2
        <4> QED BY <4>1, <4>3 DEF DestroyWaits
      <3> QED BY <3>4, <3>5
    <2>4. CASE pc[Main] # "up" /\ ~Settle(Main)
      <3>1. AnyStep(Main) => pc[Main] = "tun"
        BY <1>0, <1>8, <2>4, Walks DEF AnyStep, StopSteps
      <3>2. ~OnStart /\ ~OnStop /\ ~Starting
        BY <1>0, <1>8, <2>1, <2>4, Walks DEF Starting
      <3>3. pc[Main] = "tun"
        BY <1>0, <1>8, <2>1, <2>4, <3>1, <3>2, Moves, Names
      <3> QED BY <1>6, <1>8, <3>3
    <2> QED BY <2>2, <2>3, <2>4
  <1> QED BY <1>5, <1>7, <1>8 DEF UpInv

\* What keeps a service object, a stop of it, or a session being brought up for one.
Served == svc # 0 \/ StopWaits \/ Launching

\* A thread in stopAll or stopCore that has yet to forget the xray process.
Forgets(t) == Ending(t) /\ pc[t] # "settle"

\* A session is told of, a countdown ticks and an xray process is on record only while
\* somebody is there to stop it.
GoneInv ==
  /\ state \in {"CONNECTED", "CONNECTING"} \/ timer => Served \/ SomeEnds
  /\ core # None => Served \/ \E t \in Threads : Forgets(t)

LEMMA ServedNext ==
  ASSUME TypeOK, BoundsInv, WorkInv, FreshInv, LaunchInv, [Next]_vars, Served
  PROVE  Served' \/ Forgets(Main)'
  <1>0. /\ Main \in Threads /\ Main # <<"xray", begun>> /\ Main \notin XrayMons \cup TunMons \cup FdSenders
        /\ svc \in Services \cup {0}
    BY ThreadFacts, Names DEF TypeOK
  <1>1. ASSUME pc'[Main] = "kill", job' # "start" PROVE Forgets(Main)'
    BY <1>1 DEF Forgets, Ending
  <1>2. CASE StopWaits
    BY <1>1, <1>2, StopWaitsNext DEF Served
  <1>3. CASE svc # 0
    <2>1. DestroyWaits' => StopWaits'
      BY DEF DestroyWaits, StopWaits
    <2> QED BY <1>3, <2>1, OffRecord DEF Served
  <1>4. CASE Launching /\ svc = 0
    <2>1. DestroyWaits
      <3>1. Destroyed(inst[Main], 0) /\ inst[Main] # 0
        BY <1>0, <1>4 DEF LaunchInv, Launching, WorkInv, Services
      <3>2. PICK m \in DOMAIN queue : queue[m] = [cmd |-> "DESTROY", to |-> inst[Main]]
        BY <1>4, <3>1 DEF Destroyed
      <3>3. queue[m].cmd = "DESTROY"
        BY <3>2
      <3> QED BY <3>3 DEF DestroyWaits
    <2>2. StopWaits
      BY <2>1 DEF DestroyWaits, StopWaits
    <2> QED BY <1>2, <2>2
  <1> QED BY <1>2, <1>3, <1>4 DEF Served

LEMMA GoneNext ==
  TypeOK /\ BoundsInv /\ WorkInv /\ FreshInv /\ LaunchInv /\ GoneInv /\ [Next]_vars => GoneInv'
  <1> SUFFICES ASSUME TypeOK, BoundsInv, WorkInv, FreshInv, LaunchInv, GoneInv, [Next]_vars
               PROVE  GoneInv'
    OBVIOUS
  <1>0. Main \in Threads /\ Main # <<"xray", begun>> /\ Main \notin XrayMons \cup TunMons \cup FdSenders
    BY ThreadFacts, Names
  <1>1. ASSUME NEW t \in Threads, Forgets(t)' PROVE SomeEnds' /\ \E u \in Threads : Forgets(u)'
    BY <1>1 DEF SomeEnds, Forgets
  <1>2. CASE Served
    BY <1>0, <1>1, <1>2, ServedNext DEF GoneInv
  <1>3. CASE KillProcess
    BY <1>3 DEF KillProcess, GoneInv
  <1>4. BeginCore \/ Launch \/ Established => Served \/ Served'
    <2>1. Launch \/ Established => Launching
      BY <1>0, Walks DEF Launching
    <2>2. BeginCore => Launching'
      BY <1>0, Walks DEF Launching
    <2> QED BY <2>1, <2>2 DEF Served
  <1>5. CASE ~Served /\ ~KillProcess
    <2>1. ASSUME state' \in {"CONNECTED", "CONNECTING"} \/ timer' PROVE Served' \/ SomeEnds'
      <3>1. CASE BeginCore \/ Established
        BY <1>4, <1>5, <3>1
      <3>2. CASE ~BeginCore /\ ~Established
        <4>1. \A t \in Threads : ~Settle(t)
          BY <2>1 DEF Settle, TerminalState
        <4>2. state \in {"CONNECTED", "CONNECTING"} \/ timer
          <5>1. ASSUME StartFails \/ (\E t \in Threads : TunFails(t))
                         \/ (\E t \in XrayMons \cup TunMons : XrayMarks(t)) \/ (\E t \in FdSenders : FdFails(t))
                PROVE  state' \notin {"CONNECTED", "CONNECTING"}
            BY <5>1 DEF StartFails, TunFails, XrayMarks, FdFails, MarkError
          <5> QED BY <1>5, <2>1, <3>2, <4>1, <5>1, Changes
        <4> QED BY <1>5, <4>1, <4>2, SomeEndsNext DEF GoneInv
      <3> QED BY <3>1, <3>2
    <2>2. ASSUME core' # None PROVE Served' \/ \E t \in Threads : Forgets(t)'
      <3>1. CASE Launch
        BY <1>4, <1>5, <3>1
      <3>2. CASE ~Launch
        <4>1. (\A t \in Threads : ~ForgetCore(t)) /\ core' = core
          BY <1>5, <2>2, <3>2, Changes DEF ForgetCore
        <4>2. PICK t \in Threads : Forgets(t)
          BY <1>5, <2>2, <4>1 DEF GoneInv
        <4>3. pc[t] # "settle" /\ pc'[t] # "settle"
          BY <1>5, <4>1, <4>2, StopCoreSteps DEF Forgets
        <4>4. ~Settle(t)
          BY <4>3 DEF Settle, Step
        <4> QED BY <1>5, <4>2, <4>3, <4>4, EndsNext DEF Forgets
      <3> QED BY <3>1, <3>2
    <2> QED BY <2>1, <2>2 DEF GoneInv
  <1> QED BY <1>2, <1>3, <1>5

-----------------------------------------------------------------------------
(* The theorems.                                                           *)

LEMMA BoundsInit == Init => BoundsInv
  <1> SUFFICES ASSUME Init PROVE BoundsInv
    OBVIOUS
  <1>1. Count(queue, StartMessages) = 0
    <2>1. {n \in DOMAIN queue : queue[n] \in StartMessages} = {}
      BY DEF Init
    <2> QED BY <2>1, FS_EmptySet DEF Count
  <1>2. One(ToLaunch) = 0 /\ One(Launching) = 0 /\ One(auto) = 0
    BY ThreadFacts DEF Init, ToLaunch, Launching, One
  <1> HIDE DEF One
  <1> QED BY <1>1, <1>2, ServiceAssumption DEF Init, BoundsInv

\* The inductive invariant holds in every reachable state.
THEOREM ServiceInvariant == Spec => []ServiceInv
  <1>1. Init => ServiceInv
    <2>1. Init => CountdownInv /\ HeardInv
      BY DEF Init, CountdownInv, HeardInv
    <2> QED BY <2>1, TypeInit, BoundsInit, WorkInit, FreshInit, OwnInit, FirstInit, CoreInit, TunInit
            DEF ServiceInv
  <1>2. ServiceInv /\ [Next]_vars => ServiceInv'
    BY TypeNext, BoundsNext, WorkNext, FreshNext, OwnNext, FirstNext, CoreNext, TunNext, CountdownNext,
       HeardNext DEF ServiceInv
  <1> QED BY <1>1, <1>2, PTL DEF Spec

\* The variables keep to their types: no more service objects, xray and tun2socks processes are
\* made than the Intents, expiries and kills account for, whatever their order.
THEOREM ServiceTypes == Spec => []TypeOK
  <1>1. ServiceInv => TypeOK
    BY DEF ServiceInv
  <1> QED BY <1>1, ServiceInvariant, PTL

\* A TUN interface is always one of a service object that is on record or about to be
\* destroyed: onStartCommand and onDestroy leave none behind.
THEOREM TunnelsOwned == Spec => []TunnelOwned
  <1>1. ServiceInv => TunnelOwned
    BY DEF ServiceInv, OwnInv
  <1> QED BY <1>1, ServiceInvariant, PTL

\* The first xray process is never left without a monitor that will see it exit, although the
\* monitors read the field they share with startCore and stopCore.
THEOREM CoreIsWatched == Spec => []CoreWatched
  <1>1. ServiceInv => CoreWatched
    <2>1. SomeEnds => \E t \in Threads : Stopping(t)
      BY DEF SomeEnds, Ending, Stopping
    <2> QED BY <2>1 DEF ServiceInv, CoreInv, CoreWatched, Watcher
  <1> QED BY <1>1, ServiceInvariant, PTL

\* Whenever the service is at rest a countdown belongs to a session that is up, and the tick
\* that ends it is still ahead.
THEOREM CountdownsEndSessions == Spec => []CountdownInSession
  <1>1. ServiceInv => CountdownInSession
    <2>1. Quiet => ~SomeEnds /\ pc[Main] = "idle"
      BY DEF Quiet, SomeEnds, Ending, Stopping
    <2> QED BY <2>1 DEF ServiceInv, CountdownInv, CountdownInSession
  <1> QED BY <1>1, ServiceInvariant, PTL

\* Whenever the service is at rest the app has heard the state it is in, after whatever
\* overlap of stops, restarts, failures and kills.
THEOREM AppIsInformed == Spec => []AppInformed
  <1>1. ServiceInv => AppInformed
    <2>1. Quiet => ~SomeEnds /\ queue = <<>>
      BY DEF Quiet, SomeEnds, Ending, Stopping
    <2> QED BY <2>1 DEF ServiceInv, HeardInv, AppInformed
  <1> QED BY <1>1, ServiceInvariant, PTL

\* In the first session runTun2socks and the monitors that restart it never have two
\* tun2socks running.
THEOREM OneTun2socksRuns == Spec => []OneTun2socks
  <1>1. ServiceInv => OneTun2socks
    <2> SUFFICES ASSUME ServiceInv, begun <= 1 PROVE Cardinality(alive \cap TunMons) <= 1
      BY DEF OneTun2socks
    <2> DEFINE one == {<<"tun", tunsMade>>}
    <2>1. alive \cap TunMons \subseteq one
      BY DEF ServiceInv, TunInv
    <2>2. IsFiniteSet(one) /\ Cardinality(one) = 1
      BY FS_Singleton
    <2> HIDE DEF one
    <2>3. Cardinality(alive \cap TunMons) <= Cardinality(one)
      BY <2>1, <2>2, FS_Subset
    <2> QED BY <2>2, <2>3
  <1> QED BY <1>1, ServiceInvariant, PTL

\* ConnectedHasCore, which a run refutes, fails in one way only: if no monitor forgets the xray
\* process while the main thread brings up the session it was started for, then between
\* activities CONNECTED means that startCore's process is on record.
THEOREM CoreLostInOverlap == Spec /\ []~Overlap => []ConnectedHasCore
  <1>1. Init => LaunchInv /\ UpInv
    BY ThreadFacts DEF Init, LaunchInv, Launching, UpInv
  <1>2. ServiceInv /\ LaunchInv /\ UpInv /\ ~Overlap /\ [Next]_vars => LaunchInv' /\ UpInv'
    BY LaunchNext, UpNext DEF ServiceInv
  <1>3. UpInv => ConnectedHasCore
    <2>1. Quiet => ~SomeEnds /\ ~StopWaits
      BY DEF Quiet, SomeEnds, Ending, Stopping, StopWaits
    <2> QED BY <2>1 DEF UpInv, ConnectedHasCore
  <1> QED BY <1>1, <1>2, <1>3, ServiceInvariant, PTL DEF Spec

\* What stopAll and the destruction of a service reach for certain: once the service is at
\* rest with no object on record, no interface is open, no xray process is on record, no
\* countdown runs and no session is told of, whatever threads ended it and in what order.
ServiceGone ==
  Quiet /\ svc = 0 =>
    /\ \A i \in Services : vpn[i] = None
    /\ core = None /\ ~timer /\ ~auto /\ state \notin {"CONNECTED", "CONNECTING"}

\* The stop of the last service object leaves none of stopCore's work undone, and no interface
\* that cleanup had to close; a tun2socks it may leave (Tun2socksStopped is refuted).
THEOREM GoneServiceIsClean == Spec => []ServiceGone
  <1>1. Init => LaunchInv /\ GoneInv
    BY ThreadFacts DEF Init, LaunchInv, Launching, GoneInv
  <1>2. ServiceInv /\ LaunchInv /\ GoneInv /\ [Next]_vars => LaunchInv' /\ GoneInv'
    BY LaunchNext, GoneNext DEF ServiceInv
  <1>3. ServiceInv /\ GoneInv => ServiceGone
    <2> SUFFICES ASSUME ServiceInv, GoneInv, Quiet, svc = 0 PROVE ServiceGone
      BY DEF ServiceGone
    <2>1. pc[Main] = "idle" /\ queue = <<>> /\ ~SomeEnds /\ (\A t \in Threads : ~Forgets(t)) /\ ~Served
      BY DEF Quiet, SomeEnds, Ending, Stopping, Forgets, Served, StopWaits, Launching
    <2>2. ~timer /\ core = None /\ state \notin {"CONNECTED", "CONNECTING"}
      BY <2>1 DEF GoneInv
    <2>3. ~auto
      BY <2>2 DEF ServiceInv, CountdownInv
    <2>4. \A i \in Services : vpn[i] = None
      BY <2>1 DEF ServiceInv, OwnInv, TunnelOwned, Services
    <2> QED BY <2>2, <2>3, <2>4 DEF ServiceGone
  <1> QED BY <1>1, <1>2, <1>3, ServiceInvariant, PTL DEF Spec

=============================================================================
