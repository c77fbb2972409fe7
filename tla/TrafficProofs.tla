----------------------------- MODULE TrafficProofs -----------------------------
(* Theorems about TrafficCounters, for every width of the counters and every *)
(* amount of traffic.                                                        *)
EXTENDS TrafficCounters, TLAPS

\* The bounds and widths are numbers.
LEMMA Bounds ==
  /\ Window \in Nat /\ Window > 0
  /\ Marks \subseteq Nat /\ \A c \in Marks : c < Window
  /\ Chunks \subseteq Nat /\ \A n \in Chunks : n < Window
  BY TrafficAssumption

\* The difference of two readings is what the source counted in between, if that is less
\* than a window.
LEMMA DeltaIsSince ==
  ASSUME TrafficTypeOK, CounterInv,
         NEW s \in Sources, s \notin lapped, sample[s].has
  PROVE  Delta(s) = since[s]
<1>1. CASE s = "process"
  BY <1>1, SMT DEF TrafficTypeOK, CounterInv, Delta, Sources, Wrapping
<1>2. CASE s \in Wrapping
  BY <1>2, Bounds, SMT DEF TrafficTypeOK, CounterInv, Delta, Sources, Wrapping
<1>3. QED
  BY <1>1, <1>2 DEF Sources

\* A reading never shows a negative difference.
LEMMA DeltaType ==
  ASSUME TrafficTypeOK, CounterInv, NEW s \in Sources
  PROVE  Delta(s) \in Nat
BY Bounds, SMT DEF TrafficTypeOK, CounterInv, Delta, Sources, Wrapping

\* The sample after a reading.
LEMMA TakenType ==
  ASSUME TrafficTypeOK, CounterInv, NEW s \in Sources
  PROVE  Taken(s) \in [has : BOOLEAN, last : Nat, acc : Nat]
BY DeltaType, SMT DEF TrafficTypeOK, Taken

-----------------------------------------------------------------------------
\* The invariant but for what it says of payloads is kept by every step that forgets the
\* samples.
LEMMA ForgetKeeps ==
  ASSUME TrafficTypeOK, Forget, counter' \in [Sources -> Nat]
  PROVE  /\ sample' \in [Sources -> [has : BOOLEAN, last : Nat, acc : Nat]]
         /\ since' \in [Sources -> Nat] /\ total' \in [Sources -> Nat] /\ lapped' = {}
         /\ UnsampledInv' /\ CounterInv' /\ TotalsExact'
         /\ \A s \in Sources : ~sample'[s].has
<1>1. \A s \in Sources : sample'[s] = Fresh /\ since'[s] = 0 /\ total'[s] = 0 /\ lapped' = {}
  BY DEF Forget
<1>2. Fresh \in [has : BOOLEAN, last : Nat, acc : Nat] /\ ~Fresh.has /\ Fresh.last = 0
  BY DEF Fresh
<1>3. CounterInv'
  BY <1>1, <1>2, Bounds, SMT DEF CounterInv, Sources, Wrapping
<1>4. UnsampledInv' /\ TotalsExact'
  BY <1>1, <1>2 DEF UnsampledInv, TotalsExact
<1>5. QED
  BY <1>1, <1>2, <1>3, <1>4 DEF Forget

\* The first state.
LEMMA InitInv == TrafficInit => TrafficInv
<1> SUFFICES ASSUME TrafficInit PROVE TrafficInv
  OBVIOUS
<1>1. \A s \in Sources : sample[s] = Fresh /\ since[s] = 0 /\ total[s] = 0 /\ lapped = {}
  BY DEF TrafficInit
<1>2. Fresh \in [has : BOOLEAN, last : Nat, acc : Nat] /\ ~Fresh.has /\ Fresh.last = 0
  BY DEF Fresh
<1>3. counter \in [Sources -> Nat] /\ \A s \in Wrapping : counter[s] < Window
  <2>1. PICK c \in [Wrapping -> Marks] :
          counter = [s \in Sources |-> IF s \in Wrapping THEN c[s] ELSE 0]
    BY DEF TrafficInit
  <2>2. \A s \in Wrapping : c[s] \in Nat /\ c[s] < Window
    BY <2>1, Bounds
  <2>3. QED
    BY <2>1, <2>2, SMT DEF Sources, Wrapping
<1>4. TrafficTypeOK
  BY <1>1, <1>2, <1>3 DEF TrafficTypeOK, TrafficInit
<1>5. CounterInv
  BY <1>1, <1>2, Bounds, SMT DEF CounterInv, Sources, Wrapping
<1>6. UnsampledInv /\ TotalsExact
  BY <1>1, <1>2 DEF UnsampledInv, TotalsExact
<1>7. PayloadInv
  BY DEF PayloadInv, TrafficInit, Connected, Offered
<1>8. QED
  BY <1>4, <1>5, <1>6, <1>7 DEF TrafficInv

\* A start: nothing is sampled, and the last payload is of an earlier session.
LEMMA ConnectStep ==
  ASSUME TrafficInv, NEW m \in Modes, Connect(m)
  PROVE  TrafficInv'
<1>1. TrafficTypeOK /\ PayloadInv
  BY DEF TrafficInv
<1>2. Forget /\ counter' = [counter EXCEPT !["process"] = 0] /\ session' = session + 1
      /\ taken' = taken /\ payload' = payload
  BY DEF Connect
<1>3. counter' \in [Sources -> Nat] /\ \A s \in Wrapping : counter'[s] < Window
  BY <1>1, <1>2, SMT DEF TrafficTypeOK, Sources, Wrapping
<1>4. UnsampledInv' /\ CounterInv' /\ TotalsExact'
  BY <1>1, <1>2, <1>3, ForgetKeeps
<1>5. m \in {"tun", "proxy"}
  BY TrafficAssumption
<1>6. index' \subseteq Wrapping
  BY DEF Connect, Wrapping
<1>7. TrafficTypeOK'
  <2>1. /\ sample' \in [Sources -> [has : BOOLEAN, last : Nat, acc : Nat]]
        /\ since' \in [Sources -> Nat] /\ total' \in [Sources -> Nat] /\ lapped' = {}
    BY <1>1, <1>2, <1>3, ForgetKeeps
  <2>2. session' \in Nat /\ moves' \in Nat
    BY <1>1, <1>2, SMT DEF TrafficTypeOK, Connect
  <2>3. /\ state' = "CONNECTED" /\ autoFlag' = FALSE /\ mode' = m
        /\ held' = TRUE /\ running' = TRUE /\ ending' = FALSE
    BY DEF Connect
  <2>4. QED
    BY <1>3, <1>5, <1>6, <2>1, <2>2, <2>3 DEF TrafficTypeOK
<1>8. PayloadInv'
  BY <1>1, <1>2, SMT DEF PayloadInv, TrafficTypeOK
<1>9. QED
  BY <1>4, <1>7, <1>8 DEF TrafficInv

\* The end of a session, and the first step of its end on the timer thread.
LEMMA SettleStep ==
  ASSUME TrafficInv, NEW s \in {"DISCONNECTED", "ERROR"}, NEW auto \in BOOLEAN, Settle(s, auto)
  PROVE  TrafficInv'
<1>1. TrafficTypeOK /\ PayloadInv
  BY DEF TrafficInv
<1>2. Forget /\ counter' = counter /\ counter' \in [Sources -> Nat]
      /\ \A w \in Wrapping : counter'[w] < Window
  BY <1>1 DEF Settle, TrafficTypeOK
<1>3. UnsampledInv' /\ CounterInv' /\ TotalsExact'
  BY <1>1, <1>2, ForgetKeeps
<1>4. TrafficTypeOK'
  BY <1>1, <1>2, ForgetKeeps DEF TrafficTypeOK, Settle
<1>5. PayloadInv'
  BY <1>1 DEF PayloadInv, Settle, Connected
<1>6. QED
  BY <1>3, <1>4, <1>5 DEF TrafficInv

LEMMA CleanupStep == TrafficInv /\ Cleanup => TrafficInv'
<1> SUFFICES ASSUME TrafficInv, Cleanup PROVE TrafficInv'
  OBVIOUS
<1>1. TrafficTypeOK /\ PayloadInv
  BY DEF TrafficInv
<1>2. Forget /\ counter' = counter /\ counter' \in [Sources -> Nat]
      /\ \A w \in Wrapping : counter'[w] < Window
  BY <1>1 DEF Cleanup, TrafficTypeOK
<1>3. UnsampledInv' /\ CounterInv' /\ TotalsExact'
  BY <1>1, <1>2, ForgetKeeps
<1>4. TrafficTypeOK'
  BY <1>1, <1>2, ForgetKeeps DEF TrafficTypeOK, Cleanup
<1>5. PayloadInv'
  BY <1>1 DEF PayloadInv, Cleanup
<1>6. QED
  BY <1>3, <1>4, <1>5 DEF TrafficInv

\* An exit and the release of the process touch no sample.
LEMMA ProcessStep == TrafficInv /\ (Exit \/ Release) => TrafficInv'
<1> SUFFICES ASSUME TrafficInv, Exit \/ Release PROVE TrafficInv'
  OBVIOUS
<1>1. UNCHANGED <<state, autoFlag, mode, index, session, ending, samples, counter, payload, taken,
                  moves>>
  BY DEF Exit, Release
<1>2. running' \in BOOLEAN /\ held' \in BOOLEAN
  BY DEF Exit, Release, TrafficInv, TrafficTypeOK
<1>3. TrafficTypeOK /\ UnsampledInv /\ CounterInv /\ PayloadInv /\ TotalsExact
  BY DEF TrafficInv
<1>4. ending \/ held' = held
  BY DEF Exit, Release
<1>5. TrafficTypeOK' /\ UnsampledInv' /\ CounterInv' /\ TotalsExact'
  BY <1>1, <1>2, <1>3 DEF TrafficTypeOK, UnsampledInv, CounterInv, TotalsExact, samples
<1>6. PayloadInv'
  BY <1>1, <1>3, <1>4 DEF PayloadInv, samples, Connected, Offered
<1>7. QED
  BY <1>5, <1>6 DEF TrafficInv

\* A source counts on, and past its width.
LEMMA MoveStep ==
  ASSUME TrafficInv, NEW x \in Sources, NEW n \in Chunks, Move(x, n)
  PROVE  TrafficInv'
<1>1. TrafficTypeOK /\ UnsampledInv /\ CounterInv /\ PayloadInv /\ TotalsExact
  BY DEF TrafficInv
<1>2. n \in Nat /\ n < Window /\ Window \in Nat
  BY Bounds
<1>3. UNCHANGED <<core, sample, payload, taken>>
  BY DEF Move
<1>4. \A s \in Sources : counter'[s] =
        IF s # x THEN counter[s]
        ELSE IF s \in Wrapping /\ counter[s] + n >= Window THEN counter[s] + n - Window
        ELSE counter[s] + n
  BY <1>1 DEF Move, TrafficTypeOK
<1>5. counter' \in [Sources -> Nat] /\ \A s \in Wrapping : counter'[s] < Window
  BY <1>1, <1>2, SMT DEF TrafficTypeOK, Move, Sources
<1>. DEFINE Typed(s) == /\ sample[s].has \in BOOLEAN /\ sample[s].last \in Nat
                        /\ sample[s].acc \in Nat /\ counter[s] \in Nat
                        /\ since[s] \in Nat /\ total[s] \in Nat
<1>9. \A s \in Sources : Typed(s)
  BY <1>1 DEF TrafficTypeOK
<1>10. sample' = sample /\ \A s \in Wrapping : counter[s] < Window
  BY <1>1, <1>3 DEF TrafficTypeOK
<1>6. CASE ~sample[x].has
  <2>1. UNCHANGED <<since, total, lapped>>
    BY <1>6 DEF Move
  <2>2. TrafficTypeOK'
    BY <1>1, <1>2, <1>3, <1>5, <2>1, SMT DEF TrafficTypeOK, core, Move
  <2>3. CounterInv'
    BY <1>1, <1>3, <1>4, <1>6, <2>1 DEF CounterInv, Sources, Wrapping
  <2>4. UnsampledInv' /\ PayloadInv' /\ TotalsExact'
    BY <1>1, <1>3, <2>1 DEF UnsampledInv, PayloadInv, TotalsExact, core, Connected, Offered
  <2>5. QED
    BY <2>2, <2>3, <2>4 DEF TrafficInv
<1>7. CASE sample[x].has
  <2>0. since' = [since EXCEPT ![x] = @ + n] /\ total' = [total EXCEPT ![x] = @ + n]
    BY <1>7 DEF Move
  <2>1. \A s \in Sources : /\ since'[s] = IF s = x THEN since[s] + n ELSE since[s]
                           /\ total'[s] = IF s = x THEN total[s] + n ELSE total[s]
    <3>1. DOMAIN since = Sources /\ DOMAIN total = Sources
      BY <1>1, SMT DEF TrafficTypeOK
    <3>2. ASSUME NEW s \in Sources
          PROVE  since'[s] = IF s = x THEN since[s] + n ELSE since[s]
      BY <2>0, <3>1, Zenon
    <3>3. ASSUME NEW s \in Sources
          PROVE  total'[s] = IF s = x THEN total[s] + n ELSE total[s]
      BY <2>0, <3>1, Zenon
    <3>4. QED
      BY <3>2, <3>3, Zenon
  <2>2. since' \in [Sources -> Nat] /\ total' \in [Sources -> Nat]
    BY <1>1, <1>2, <1>7, SMT DEF TrafficTypeOK, Move
  <2>3. lapped' = IF x \in Wrapping /\ since[x] + n >= Window THEN lapped \cup {x} ELSE lapped
    BY <1>7 DEF Move
  <2>4. TrafficTypeOK'
    BY <1>1, <1>2, <1>3, <1>5, <2>2, <2>3, SMT DEF TrafficTypeOK, core, Move, Sources
  <2>5. CounterInv'
    <3>1. lapped' \subseteq Wrapping /\ \A s \in Wrapping : sample'[s].last < Window
      BY <1>1, <1>3, <2>3 DEF CounterInv
    <3>2. ASSUME NEW s \in Wrapping \ lapped', sample'[s].has
          PROVE  /\ since'[s] < Window
                 /\ counter'[s] = IF sample'[s].last + since'[s] < Window
                                  THEN sample'[s].last + since'[s]
                                  ELSE sample'[s].last + since'[s] - Window
      <4>1. s \in Sources /\ s \in Wrapping /\ s \notin lapped /\ Typed(s) /\ counter[s] < Window
        BY <1>9, <1>10, <2>3 DEF Sources
      <4>2. /\ since[s] < Window
            /\ counter[s] = IF sample[s].last + since[s] < Window
                            THEN sample[s].last + since[s]
                            ELSE sample[s].last + since[s] - Window
            /\ sample[s].last < Window
        BY <1>1, <1>10, <3>2, <4>1 DEF CounterInv
      <4>3. CASE s # x
        BY <1>4, <1>10, <2>1, <4>1, <4>2, <4>3
      <4>4. CASE s = x
        <5>1. since[s] + n < Window
          BY <1>2, <2>3, <4>1, <4>4, SMT
        <5>2. since'[s] = since[s] + n
          BY <2>1, <4>1, <4>4
        <5>3. counter'[s] = IF counter[s] + n >= Window THEN counter[s] + n - Window
                            ELSE counter[s] + n
          BY <1>4, <4>1, <4>4
        <5>4. QED
          BY <1>2, <1>10, <4>1, <4>2, <5>1, <5>2, <5>3, SMT
      <4>5. QED
        BY <4>3, <4>4
    <3>3. sample'["process"].has
            => counter'["process"] = sample'["process"].last + since'["process"]
      <4>1. "process" \in Sources /\ "process" \notin Wrapping
        BY DEF Sources, Wrapping
      <4>2. counter'["process"] = IF "process" # x THEN counter["process"] ELSE counter["process"] + n
        BY <1>4, <4>1
      <4>3. Typed("process")
        BY <1>9, <4>1
      <4>4. since'["process"] = IF "process" = x THEN since["process"] + n ELSE since["process"]
        BY <2>1, <4>1
      <4>5. sample["process"].has => counter["process"] = sample["process"].last + since["process"]
        BY <1>1 DEF CounterInv
      <4>6. QED
        BY <1>2, <1>10, <4>2, <4>3, <4>4, <4>5, SMT
    <3>4. QED
      BY <3>1, <3>2, <3>3 DEF CounterInv
  <2>6. UnsampledInv'
    <3>1. ASSUME NEW s \in Sources, ~sample[s].has
          PROVE  sample[s] = Fresh /\ since[s] = 0 /\ total[s] = 0 /\ s \notin lapped /\ s # x
      BY <1>1, <1>7, <3>1 DEF UnsampledInv
    <3>2. QED
      BY <1>10, <2>1, <2>3, <3>1 DEF UnsampledInv
  <2>7. TotalsExact'
    <3>1. ASSUME NEW s \in Sources \ lapped', sample[s].has
          PROVE  sample[s].acc + since'[s] = total'[s]
      <4>1. sample[s].acc + since[s] = total[s]
        BY <1>1, <2>3, <3>1 DEF TotalsExact
      <4>2. QED
        BY <1>2, <1>9, <2>1, <4>1, SMT
    <3>2. QED
      BY <1>10, <3>1 DEF TotalsExact
  <2>8. PayloadInv'
    BY <1>1, <1>3 DEF PayloadInv, core, Connected, Offered
  <2>9. QED
    BY <2>4, <2>5, <2>6, <2>7, <2>8 DEF TrafficInv
<1>8. QED
  BY <1>6, <1>7

-----------------------------------------------------------------------------
(* A payload.                                                              *)

\* The source a payload shows was read, and has something to show.
LEMMA SelectedShows ==
  ASSUME NEW read, Selected(read) # "none"
  PROVE  /\ Selected(read) \in Sources /\ Selected(read) \in read
         /\ Shows(Selected(read), read) = Taken(Selected(read)).acc
         /\ Taken(Selected(read)).acc > 0
<1>1. CASE Selected(read) = "tun"
  BY <1>1, SMT DEF Selected, Shows, Sources, Wrapping
<1>2. CASE Selected(read) = "process"
  BY <1>2, SMT DEF Selected, Shows, Sources, Wrapping
<1>3. CASE Selected(read) = "upstream"
  BY <1>3, SMT DEF Selected, Shows, Sources, Wrapping
<1>4. QED
  BY <1>1, <1>2, <1>3 DEF Selected

\* What BuildStatusPayload does, source by source, when it asks the sources in asked, reads
\* those in read and fails to read those in failed.
Building(asked, failed, read) ==
  /\ asked = read \cup failed /\ read \cap failed = {}
  /\ asked = Reads \cup IF NeedsUpstream(read \ {"upstream"}) THEN {"upstream"} ELSE {}
  /\ \A s \in Sources :
       /\ s \in read => sample'[s] = Taken(s) /\ since'[s] = 0 /\ total'[s] = total[s]
       /\ s \in failed => sample'[s] = Fresh /\ since'[s] = 0 /\ total'[s] = 0
       /\ s \notin asked => /\ sample'[s] = sample[s] /\ since'[s] = since[s]
                            /\ total'[s] = total[s]
  /\ sample' = [s \in Sources |-> sample'[s]] /\ since' = [s \in Sources |-> since'[s]]
  /\ total' = [s \in Sources |-> total'[s]] /\ lapped' = lapped \ failed
  /\ payload' = [state |-> EffectiveState, mode |-> mode, running |-> held /\ running,
                 source |-> Selected(read),
                 total |-> IF Selected(read) = "none" THEN 0 ELSE Shows(Selected(read), read),
                 phase |-> Phase(Selected(read), \E s \in Sources : sample'[s].has)]
  /\ taken'.session = session /\ taken'.ending = ending /\ taken'.failed = failed
  /\ UNCHANGED <<core, counter, moves>>

\* Every payload is built that way.
LEMMA BuildFacts ==
  ASSUME BuildStatusPayload
  PROVE  \E asked, failed, read \in SUBSET Sources : Building(asked, failed, read)
<1>1. PICK failing \in SUBSET Failing :
        LET first  == Reads \ failing
            asked  == Reads \cup IF NeedsUpstream(first) THEN {"upstream"} ELSE {}
            failed == asked \cap failing
            read   == asked \ failing
            source == Selected(read)
        IN
        /\ sample' = [s \in Sources |-> IF s \in read THEN Taken(s)
                                        ELSE IF s \in failed THEN Fresh ELSE sample[s]]
        /\ payload' = [state |-> EffectiveState, mode |-> mode, running |-> held /\ running,
                       source |-> source,
                       total |-> IF source = "none" THEN 0 ELSE Shows(source, read),
                       phase |-> Phase(source, \E s \in Sources : sample'[s].has)]
        /\ taken' = [session |-> session, ending |-> ending, failed |-> failed]
        /\ since' = [s \in Sources |-> IF s \in asked THEN 0 ELSE since[s]]
        /\ total' = [s \in Sources |-> IF s \in failed THEN 0 ELSE total[s]]
        /\ lapped' = lapped \ failed
        /\ UNCHANGED <<core, counter, moves>>
  BY DEF BuildStatusPayload
<1> DEFINE first  == Reads \ failing
<1> DEFINE asked  == Reads \cup IF NeedsUpstream(first) THEN {"upstream"} ELSE {}
<1> DEFINE failed == asked \cap failing
<1> DEFINE read   == asked \ failing
<1>2. "upstream" \notin Reads
  BY DEF Reads
<1>3. asked \subseteq Sources
  BY DEF Reads, Sources, Wrapping
<1>4. read \ {"upstream"} = first
  BY <1>2
<1>5. asked = Reads \cup IF NeedsUpstream(read \ {"upstream"}) THEN {"upstream"} ELSE {}
  BY <1>4
<1>6. read \cap failed = {} /\ asked = read \cup failed
  OBVIOUS
<1>7. /\ sample' = [s \in Sources |-> IF s \in read THEN Taken(s)
                                      ELSE IF s \in failed THEN Fresh ELSE sample[s]]
      /\ since' = [s \in Sources |-> IF s \in asked THEN 0 ELSE since[s]]
      /\ total' = [s \in Sources |-> IF s \in failed THEN 0 ELSE total[s]]
      /\ lapped' = lapped \ failed /\ UNCHANGED <<core, counter, moves>>
  BY <1>1
<1>8. /\ payload' = [state |-> EffectiveState, mode |-> mode, running |-> held /\ running,
                     source |-> Selected(read),
                     total |-> IF Selected(read) = "none" THEN 0 ELSE Shows(Selected(read), read),
                     phase |-> Phase(Selected(read), \E s \in Sources : sample'[s].has)]
      /\ taken'.session = session /\ taken'.ending = ending /\ taken'.failed = failed
  BY <1>1
<1> HIDE DEF asked, failed, read
<1>9. \A s \in Sources :
        /\ s \in read => sample'[s] = Taken(s) /\ since'[s] = 0 /\ total'[s] = total[s]
        /\ s \in failed => sample'[s] = Fresh /\ since'[s] = 0 /\ total'[s] = 0
        /\ s \notin asked => /\ sample'[s] = sample[s] /\ since'[s] = since[s]
                             /\ total'[s] = total[s]
  BY <1>6, <1>7
<1>10. /\ sample' = [s \in Sources |-> sample'[s]] /\ since' = [s \in Sources |-> since'[s]]
       /\ total' = [s \in Sources |-> total'[s]]
  BY <1>7
<1>11. failed \in SUBSET Sources /\ read \in SUBSET Sources /\ asked \in SUBSET Sources
  BY <1>3, <1>6
<1>12. Building(asked, failed, read)
  BY <1>5, <1>6, <1>7, <1>8, <1>9, <1>10 DEF Building
<1>13. QED
  BY <1>11, <1>12, Zenon

\* Reading the sources, whichever fail, keeps the invariant.
LEMMA BuildStep == TrafficInv /\ BuildStatusPayload => TrafficInv'
<1> SUFFICES ASSUME TrafficInv, BuildStatusPayload PROVE TrafficInv'
  OBVIOUS
<1>1. TrafficTypeOK /\ UnsampledInv /\ CounterInv /\ PayloadInv /\ TotalsExact
  BY DEF TrafficInv
<1>2. PICK asked, failed, read \in SUBSET Sources : Building(asked, failed, read)
  BY BuildFacts
<1>3. ASSUME NEW s \in Sources
      PROVE  \/ /\ s \in read /\ s \notin failed
                /\ sample'[s] = Taken(s) /\ since'[s] = 0 /\ total'[s] = total[s]
             \/ /\ s \in failed
                /\ sample'[s] = Fresh /\ since'[s] = 0 /\ total'[s] = 0
             \/ /\ s \notin read /\ s \notin failed
                /\ sample'[s] = sample[s] /\ since'[s] = since[s] /\ total'[s] = total[s]
  BY <1>2 DEF Building
<1>4. Fresh = [has |-> FALSE, last |-> 0, acc |-> 0]
  BY DEF Fresh
<1>5. ASSUME NEW s \in Sources
      PROVE  Taken(s) \in [has : BOOLEAN, last : Nat, acc : Nat]
             /\ Taken(s).has /\ Taken(s).last = counter[s]
             /\ Taken(s).acc = sample[s].acc + IF sample[s].has THEN Delta(s) ELSE 0
  BY <1>1, TakenType DEF Taken
<1>6. lapped' = lapped \ failed /\ UNCHANGED <<core, counter, moves>>
      /\ taken'.session = session /\ taken'.ending = ending
  BY <1>2 DEF Building
<1>7. TrafficTypeOK'
  <2>1. ASSUME NEW s \in Sources
        PROVE  /\ sample'[s] \in [has : BOOLEAN, last : Nat, acc : Nat]
               /\ since'[s] \in Nat /\ total'[s] \in Nat
    <3>1. /\ sample[s] \in [has : BOOLEAN, last : Nat, acc : Nat]
          /\ since[s] \in Nat /\ total[s] \in Nat
      BY <1>1 DEF TrafficTypeOK
    <3>2. Fresh \in [has : BOOLEAN, last : Nat, acc : Nat]
      BY <1>4
    <3>3. Taken(s) \in [has : BOOLEAN, last : Nat, acc : Nat]
      BY <1>5
    <3>4. 0 \in Nat
      OBVIOUS
    <3>5. sample'[s] \in {Taken(s), Fresh, sample[s]} /\ since'[s] \in {0, since[s]}
          /\ total'[s] \in {0, total[s]}
      BY <1>3
    <3>6. QED
      BY <3>1, <3>2, <3>3, <3>4, <3>5, Zenon
  <2>2. /\ sample' = [s \in Sources |-> sample'[s]] /\ since' = [s \in Sources |-> since'[s]]
        /\ total' = [s \in Sources |-> total'[s]]
    BY <1>2 DEF Building
  <2>3. /\ sample' \in [Sources -> [has : BOOLEAN, last : Nat, acc : Nat]]
        /\ since' \in [Sources -> Nat] /\ total' \in [Sources -> Nat]
    BY <2>1, <2>2, Zenon
  <2>4. QED
    BY <1>1, <1>6, <2>3 DEF TrafficTypeOK, core
<1>8. UnsampledInv'
  <2>1. ASSUME NEW s \in Sources, ~sample'[s].has
        PROVE  sample'[s] = Fresh /\ since'[s] = 0 /\ total'[s] = 0 /\ s \notin lapped'
    BY <1>1, <1>3, <1>5, <1>6, <2>1 DEF UnsampledInv
  <2>2. QED
    BY <2>1 DEF UnsampledInv
<1>9. CounterInv'
  <2>1. ASSUME NEW s \in Wrapping
        PROVE  sample'[s].last < Window
    BY <1>1, <1>3, <1>4, <1>5, Bounds DEF CounterInv, TrafficTypeOK, Sources
  <2>2. ASSUME NEW s \in Wrapping \ lapped', sample'[s].has
        PROVE  /\ since'[s] < Window
               /\ counter'[s] = IF sample'[s].last + since'[s] < Window
                                THEN sample'[s].last + since'[s]
                                ELSE sample'[s].last + since'[s] - Window
    <3>1. s \in Sources /\ counter[s] \in Nat /\ counter[s] < Window /\ counter'[s] = counter[s]
      BY <1>1, <1>6 DEF TrafficTypeOK, Sources
    <3>2. CASE s \in read /\ s \notin failed
               /\ sample'[s] = Taken(s) /\ since'[s] = 0 /\ total'[s] = total[s]
      BY <1>5, <3>1, <3>2, Bounds
    <3>3. CASE s \in failed /\ sample'[s] = Fresh
      BY <1>4, <2>2, <3>3
    <3>4. CASE s \notin read /\ s \notin failed
               /\ sample'[s] = sample[s] /\ since'[s] = since[s] /\ total'[s] = total[s]
      BY <1>1, <1>6, <2>2, <3>1, <3>4 DEF CounterInv
    <3>5. QED
      BY <1>3, <3>1, <3>2, <3>3, <3>4
  <2>3. sample'["process"].has
          => counter'["process"] = sample'["process"].last + since'["process"]
    <3>1. "process" \in Sources
      BY DEF Sources
    <3>2. QED
      BY <1>1, <1>3, <1>4, <1>5, <1>6, <3>1 DEF CounterInv, TrafficTypeOK
  <2>4. QED
    BY <1>1, <1>6, <2>1, <2>2, <2>3 DEF CounterInv
<1>10. TotalsExact'
  <2>1. ASSUME NEW s \in Sources \ lapped', sample'[s].has
        PROVE  sample'[s].acc + since'[s] = total'[s]
    <3>1. CASE s \in read /\ s \notin failed
               /\ sample'[s] = Taken(s) /\ since'[s] = 0 /\ total'[s] = total[s]
      <4>1. s \in Sources /\ s \notin lapped /\ total[s] \in Nat /\ sample[s].acc \in Nat
        BY <1>1, <1>6, <3>1 DEF TrafficTypeOK
      <4>2. CASE sample[s].has
        <5>1. Delta(s) = since[s] /\ sample[s].acc + since[s] = total[s]
          BY <1>1, <4>1, <4>2, DeltaIsSince DEF TotalsExact
        <5>2. QED
          BY <1>5, <3>1, <4>1, <4>2, <5>1
      <4>3. CASE ~sample[s].has
        BY <1>1, <1>4, <1>5, <3>1, <4>1, <4>3 DEF UnsampledInv
      <4>4. QED
        BY <4>2, <4>3
    <3>2. CASE s \in failed /\ sample'[s] = Fresh
      BY <1>4, <2>1, <3>2
    <3>3. CASE s \notin read /\ s \notin failed
               /\ sample'[s] = sample[s] /\ since'[s] = since[s] /\ total'[s] = total[s]
      BY <1>1, <1>6, <2>1, <3>3 DEF TotalsExact
    <3>4. QED
      BY <1>3, <3>1, <3>2, <3>3
  <2>2. QED
    BY <2>1 DEF TotalsExact
<1>11. PayloadInv'
  <2>1. taken'.session \in 0 .. session'
    BY <1>1, <1>6, SMT DEF core, TrafficTypeOK
  <2>2. payload'.phase = "ACTIVE" => payload'.source # "none"
    <3>1. payload'.source = Selected(read)
          /\ payload'.phase = Phase(Selected(read), \E s \in Sources : sample'[s].has)
      BY <1>2 DEF Building
    <3>2. QED
      BY <1>1, <3>1 DEF Phase, EffectiveState, TrafficTypeOK
  <2>3. ASSUME payload'.source # "none"
        PROVE  /\ payload'.source \in Sources /\ Offered(payload.source)'
               /\ sample'[payload'.source].has
               /\ sample'[payload'.source].acc = payload'.total /\ payload'.total > 0
    <3>1. payload'.source = Selected(read) /\ payload'.total = Shows(Selected(read), read)
          /\ asked = read \cup failed
          /\ asked = Reads \cup IF NeedsUpstream(read \ {"upstream"}) THEN {"upstream"} ELSE {}
      BY <1>2, <2>3 DEF Building
    <3>2. /\ Selected(read) \in Sources /\ Selected(read) \in read
          /\ Shows(Selected(read), read) = Taken(Selected(read)).acc
          /\ Taken(Selected(read)).acc > 0
      BY <2>3, <3>1, SelectedShows
    <3>3. sample'[Selected(read)] = Taken(Selected(read)) /\ Taken(Selected(read)).has
      BY <1>2, <1>5, <3>2 DEF Building
    <3>4. Offered(Selected(read))
      BY <3>1, <3>2 DEF Reads, NeedsUpstream
    <3>5. Offered(payload.source)'
      BY <1>6, <3>1, <3>4 DEF Offered, core, Connected
    <3>6. QED
      BY <3>1, <3>2, <3>3, <3>5
  <2>4. QED
    BY <2>1, <2>2, <2>3 DEF PayloadInv
<1>12. QED
  BY <1>7, <1>8, <1>9, <1>10, <1>11 DEF TrafficInv

-----------------------------------------------------------------------------
(* The specification.                                                      *)

\* One step.
LEMMA TrafficStep == TrafficInv /\ [TrafficNext]_trafficVars => TrafficInv'
<1> SUFFICES ASSUME TrafficInv, [TrafficNext]_trafficVars PROVE TrafficInv'
  OBVIOUS
<1>1. ASSUME NEW m \in Modes, Connect(m) PROVE TrafficInv'
  BY <1>1, ConnectStep
<1>2. CASE Settle("ERROR", FALSE)
  BY <1>2, SettleStep
<1>3. ASSUME NEW auto \in BOOLEAN, Settle("DISCONNECTED", auto) PROVE TrafficInv'
  BY <1>3, SettleStep
<1>4. CASE Cleanup
  BY <1>4, CleanupStep
<1>5. CASE Exit \/ Release
  BY <1>5, ProcessStep
<1>6. ASSUME NEW s \in Sources, NEW n \in Chunks, Move(s, n) PROVE TrafficInv'
  BY <1>6, MoveStep
<1>7. CASE BuildStatusPayload
  BY <1>7, BuildStep
<1>8. CASE UNCHANGED trafficVars
  BY <1>8 DEF trafficVars, core, samples, TrafficInv, TrafficTypeOK, UnsampledInv, CounterInv,
    PayloadInv, TotalsExact, Connected, Offered
<1>9. QED
  BY <1>1, <1>2, <1>3, <1>4, <1>5, <1>6, <1>7, <1>8 DEF TrafficNext

\* Whatever the width of the counters and however much they count, every reachable state of
\* the core's bookkeeping satisfies the invariant.
THEOREM TrafficInvariance == TrafficSpec => []TrafficInv
<1>1. TrafficInit => TrafficInv
  BY InitInv
<1>2. TrafficInv /\ [TrafficNext]_trafficVars => TrafficInv'
  BY TrafficStep
<1>3. QED
  BY <1>1, <1>2, PTL DEF TrafficSpec

\* The type invariant.
THEOREM TrafficTypeCorrect == TrafficSpec => []TrafficTypeOK
<1>1. TrafficInv => TrafficTypeOK
  BY DEF TrafficInv
<1>2. QED
  BY <1>1, TrafficInvariance, PTL

\* What a source of BuildStatusPayload has added up is what it counted between its first and
\* its last reading, however often the 32 bits of an interface counter wrapped in between.
THEOREM TotalsExactHolds == TrafficSpec => []TotalsExact
<1>1. TrafficInv => TotalsExact
  BY DEF TrafficInv
<1>2. QED
  BY <1>1, TrafficInvariance, PTL

\* A payload built in the session of the last one, which was ACTIVE, from a source that can
\* still be read, is ACTIVE, too, and shows no smaller total of that source.
LEMMA BuildSteady ==
  ASSUME TrafficInv, BuildStatusPayload,
         payload.phase = "ACTIVE", payload'.state = "CONNECTED", SameSession,
         payload.source \notin taken'.failed
  PROVE  /\ payload'.phase = "ACTIVE" \/ ~payload'.running
         /\ payload'.source = payload.source => payload'.total >= payload.total
<1>1. TrafficTypeOK /\ CounterInv /\ PayloadInv
  BY DEF TrafficInv
<1>2. PICK asked, failed, read \in SUBSET Sources : Building(asked, failed, read)
  BY BuildFacts
<1>3. /\ taken.session = session /\ ~ending /\ failed = taken'.failed
      /\ EffectiveState = "CONNECTED"
  BY <1>2 DEF Building, SameSession
<1>4. Connected
  BY <1>3 DEF EffectiveState, Connected
<1> DEFINE old == payload.source
<1>5. /\ old # "none" /\ old \in Sources /\ Offered(old) /\ old \notin failed
      /\ sample[old].has /\ sample[old].acc = payload.total /\ payload.total > 0
  BY <1>1, <1>3, <1>4 DEF PayloadInv
<1>6. Taken(old).acc >= payload.total /\ payload.total \in Nat /\ Taken(old).acc \in Nat
  <2>1. sample[old].acc \in Nat /\ Delta(old) \in Nat
    BY <1>1, <1>5, DeltaType DEF TrafficTypeOK
  <2>2. Taken(old).acc = sample[old].acc + Delta(old)
    BY <1>5 DEF Taken
  <2>3. QED
    BY <1>5, <2>1, <2>2, SMT
<1>7. /\ asked = read \cup failed
      /\ asked = Reads \cup IF NeedsUpstream(read \ {"upstream"}) THEN {"upstream"} ELSE {}
  BY <1>2 DEF Building
<1>8. Selected(read) # "none"
  <2>1. CASE old \in read
    <3>1. Shows(old, read) > 0
      BY <1>5, <1>6, <2>1, SMT DEF Shows
    <3>2. QED
      BY <1>5, <3>1 DEF Selected, Sources, Wrapping
  <2>2. CASE old \notin read
    <3>1. old = "upstream" /\ ~NeedsUpstream(read \ {"upstream"})
      BY <1>5, <1>7, <2>2 DEF Reads, Sources, Wrapping
    <3>2. Selected(read \ {"upstream"}) # "none"
      BY <1>5, <3>1 DEF NeedsUpstream
    <3>3. read \ {"upstream"} = read
      BY <2>2, <3>1
    <3>4. QED
      BY <3>2, <3>3
  <2>3. QED
    BY <2>1, <2>2
<1>9. /\ Selected(read) \in Sources /\ Selected(read) \in read
      /\ Shows(Selected(read), read) = Taken(Selected(read)).acc
  BY <1>8, SelectedShows
<1>10. sample'[Selected(read)].has
  BY <1>2, <1>9 DEF Building, Taken
<1>11. payload'.phase = "ACTIVE" \/ ~payload'.running
  <2>1. payload'.phase = Phase(Selected(read), \E s \in Sources : sample'[s].has)
        /\ payload'.running = (held /\ running)
    BY <1>2 DEF Building
  <2>2. \E s \in Sources : sample'[s].has
    BY <1>9, <1>10
  <2>3. QED
    BY <1>3, <1>8, <2>1, <2>2 DEF Phase
<1>12. ASSUME payload'.source = payload.source PROVE payload'.total >= payload.total
  <2>1. Selected(read) = old /\ payload'.total = Shows(Selected(read), read)
    BY <1>2, <1>8, <1>12 DEF Building
  <2>2. QED
    BY <1>6, <1>9, <2>1
<1>13. QED
  BY <1>11, <1>12

\* Within a session the figures are steady: the traffic phase does not fall back and no total
\* drops, as long as the source the last payload showed can be read.
THEOREM FiguresSteadyHolds == TrafficSpec => FiguresSteady
<1> DEFINE Step ==
      (/\ payload.phase = "ACTIVE" /\ payload'.state = "CONNECTED"
       /\ SameSession
       /\ payload.source \notin taken'.failed)
      => /\ payload'.phase = "ACTIVE" \/ ~payload'.running
         /\ payload'.source = payload.source => payload'.total >= payload.total
<1>1. TrafficInv /\ [TrafficNext]_trafficVars => [Step]_payload
  <2> SUFFICES ASSUME TrafficInv, TrafficNext, payload' # payload PROVE Step
    BY DEF trafficVars
  <2>1. BuildStatusPayload
    BY DEF TrafficNext, Connect, Settle, Cleanup, Exit, Release, Move
  <2>2. QED
    BY <2>1, BuildSteady
<1>2. QED
  BY <1>1, TrafficInvariance, PTL DEF TrafficSpec, FiguresSteady
-----------------------------------------------------------------------------
(* Where a total drops.                                                    *)

\* The source on the left is shown before the one on the right.
Outranks == {<<"tun", "process">>, <<"tun", "upstream">>, <<"process", "upstream">>}

\* A total drops within a session.
TotalDrops ==
  /\ payload.state = "CONNECTED" /\ payload'.state = "CONNECTED"
  /\ SameSession
  /\ payload'.total < payload.total

\* Its source could not be read, or gave way to one that comes before it.
DropExplained ==
  payload.source \in taken'.failed \/ <<payload'.source, payload.source>> \in Outranks

\* A payload without a source has no total.
NoneInv == payload.source = "none" => payload.total = 0

LEMMA NoneStep == NoneInv /\ [TrafficNext]_trafficVars => NoneInv'
<1> SUFFICES ASSUME NoneInv, [TrafficNext]_trafficVars PROVE NoneInv'
  OBVIOUS
<1>1. CASE BuildStatusPayload
  <2>1. PICK asked, failed, read \in SUBSET Sources : Building(asked, failed, read)
    BY <1>1, BuildFacts
  <2>2. QED
    BY <2>1 DEF Building, NoneInv
<1>2. CASE ~BuildStatusPayload
  <2>1. payload' = payload
    BY <1>2 DEF TrafficNext, Connect, Settle, Cleanup, Exit, Release, Move, trafficVars
  <2>2. QED
    BY <2>1 DEF NoneInv
<1>3. QED
  BY <1>1, <1>2

LEMMA BuildDrops ==
  ASSUME TrafficInv, NoneInv, BuildStatusPayload, TotalDrops
  PROVE  DropExplained
<1> SUFFICES ASSUME payload.source \notin taken'.failed
             PROVE  <<payload'.source, payload.source>> \in Outranks
  BY DEF DropExplained
<1>1. TrafficTypeOK /\ CounterInv /\ PayloadInv
  BY DEF TrafficInv
<1>2. PICK asked, failed, read \in SUBSET Sources : Building(asked, failed, read)
  BY BuildFacts
<1>3. /\ taken.session = session /\ ~ending /\ failed = taken'.failed
      /\ EffectiveState = "CONNECTED"
  BY <1>2 DEF Building, SameSession, TotalDrops
<1>4. Connected
  BY <1>3 DEF EffectiveState, Connected
<1>5. /\ payload'.source = Selected(read)
      /\ payload'.total = IF Selected(read) = "none" THEN 0 ELSE Shows(Selected(read), read)
      /\ asked = read \cup failed
      /\ asked = Reads \cup IF NeedsUpstream(read \ {"upstream"}) THEN {"upstream"} ELSE {}
  BY <1>2 DEF Building
<1>6. payload'.total \in Nat
  <2>1. CASE Selected(read) = "none"
    BY <1>5, <2>1
  <2>2. CASE Selected(read) # "none"
    <3>1. Selected(read) \in Sources /\ payload'.total = Taken(Selected(read)).acc
      BY <1>5, <2>2, SelectedShows
    <3>2. Taken(Selected(read)).acc \in Nat
      BY <1>1, <3>1, TakenType
    <3>3. QED
      BY <3>1, <3>2
  <2>3. QED
    BY <2>1, <2>2
<1> DEFINE old == payload.source
<1>7. old # "none"
  BY <1>6 DEF NoneInv, TotalDrops
<1>8. /\ old \in Sources /\ Offered(old) /\ old \notin failed
      /\ sample[old].has /\ sample[old].acc = payload.total /\ payload.total > 0
  BY <1>1, <1>3, <1>4, <1>7 DEF PayloadInv
<1>9. Taken(old).acc >= payload.total /\ payload.total \in Nat /\ Taken(old).acc \in Nat
  <2>1. sample[old].acc \in Nat /\ Delta(old) \in Nat
    BY <1>1, <1>8, DeltaType DEF TrafficTypeOK
  <2>2. Taken(old).acc = sample[old].acc + Delta(old)
    BY <1>8 DEF Taken
  <2>3. QED
    BY <1>8, <2>1, <2>2, SMT
<1> HIDE DEF old
<1>10. CASE old \in read
  <2>1. Shows(old, read) = Taken(old).acc /\ Shows(old, read) > 0
    BY <1>8, <1>9, <1>10, SMT DEF Shows
  <2>2. Selected(read) # old
    <3>1. ASSUME Selected(read) = old PROVE FALSE
      <4>1. payload'.total = Taken(old).acc
        BY <1>5, <1>7, <2>1, <3>1 DEF old
      <4>2. QED
        BY <1>6, <1>9, <4>1, SMT DEF TotalDrops
    <3>2. QED
      BY <3>1
  <2>3. <<Selected(read), old>> \in Outranks
    BY <1>8, <2>1, <2>2, Zenon DEF Selected, Outranks, Sources, Wrapping
  <2>4. QED
    BY <1>5, <2>3 DEF old
<1>11. CASE old \notin read
  <2>1. old = "upstream" /\ ~NeedsUpstream(read \ {"upstream"})
    BY <1>5, <1>8, <1>11 DEF Reads, Sources, Wrapping
  <2>2. Selected(read) # "none" /\ "upstream" \notin read
    <3>1. Selected(read \ {"upstream"}) # "none"
      BY <1>8, <2>1 DEF NeedsUpstream
    <3>2. read \ {"upstream"} = read
      BY <1>11, <2>1
    <3>3. QED
      BY <1>11, <2>1, <3>1, <3>2
  <2>3. Selected(read) \in {"tun", "process"}
    BY <2>2, SelectedShows DEF Sources, Wrapping
  <2>4. QED
    BY <1>5, <2>1, <2>3 DEF old, Outranks
<1>12. QED
  BY <1>10, <1>11

\* The total of BuildStatusPayload is not the session's, as TotalsNeverDrop says: it drops,
\* but only when its source cannot be read, or when another that ranks before it begins to
\* show traffic.  No wrap of a counter, and nobody else's reading, makes it drop.
THEOREM DropsExplained == TrafficSpec => [][TotalDrops => DropExplained]_payload
<1>1. TrafficInit => NoneInv
  BY DEF TrafficInit, NoneInv
<1>2. TrafficInv /\ NoneInv /\ [TrafficNext]_trafficVars => [TotalDrops => DropExplained]_payload
  <2> SUFFICES ASSUME TrafficInv, NoneInv, TrafficNext, payload' # payload, TotalDrops PROVE DropExplained
    BY DEF trafficVars
  <2>1. BuildStatusPayload
    BY DEF TrafficNext, Connect, Settle, Cleanup, Exit, Release, Move
  <2>2. QED
    BY <2>1, BuildDrops
<1>3. QED
  BY <1>1, <1>2, NoneStep, TrafficInvariance, PTL DEF TrafficSpec
=============================================================================
