--------------------------- MODULE PersistentProofs ---------------------------
(***************************************************************************)
(* Theorems about PersistentStatus: who is left listening after a stop(),  *)
(* and how many polls are under way, for any statuses and any number of    *)
(* starts, stops, subscriptions, messages and failures.                    *)
(***************************************************************************)
EXTENDS PersistentStatus, FiniteSetTheorems, SequenceTheorems, TLAPS

CallKinds == {"listen", "cancel", "diagnostics"}
Messages  == [kind : {"event", "reply", "failure"}, status : Statuses]

\* The types the invariant leans on.
TypeOK ==
  /\ sub \in Nat \cup {None} /\ streams \in Nat
  /\ open \in BOOLEAN /\ inFlight \in BOOLEAN /\ overlap \in BOOLEAN
  /\ awaiting \in Seq({"stop", "dispose"}) /\ stops \in Nat
  /\ handler \in Nat \cup {None, Ui} /\ buffer \in Statuses \cup {None}
  /\ calls \in Seq(CallKinds) /\ events \in Seq(Messages)
  /\ sink \in BOOLEAN /\ native \in Statuses

\* As long as no call came while a stop() waited: one stop() waits at a time, a subscription
\* that is remembered is open or being cancelled, and only an open one is behind the handler.
ControllerInv ==
  ~overlap =>
    /\ awaiting # <<>> => Len(awaiting) = 1 /\ ~open
    /\ awaiting = <<>> => (open <=> sub # None)
    /\ ~open => handler \in {None, Ui}

\* The last listen or cancel on its way, or else the native side, knows of the handler.
IsLast(i) ==
  /\ calls[i] # "diagnostics"
  /\ \A j \in DOMAIN calls : j > i => calls[j] = "diagnostics"

SinkInv ==
  /\ \A i \in DOMAIN calls : IsLast(i) => (calls[i] = "listen" <=> handler # None)
  /\ (\A i \in DOMAIN calls : calls[i] = "diagnostics") => (sink <=> handler # None)

\* How many elements of a queue are in a set.
Count(s, T) == Cardinality({i \in DOMAIN s : s[i] \in T})

Answers  == [kind : {"reply", "failure"}, status : Statuses]
UnderWay == Count(calls, {"diagnostics"}) + Count(events, Answers)

\* Without the flag every poll under way was left behind by a stop().
PollsInv == UnderWay <= stops + 1 /\ (~inFlight => UnderWay <= stops)

PersistentInv == TypeOK /\ ControllerInv /\ SinkInv /\ PollsInv

-----------------------------------------------------------------------------
(* Counting the elements of a queue.                                       *)

LEMMA CountType ==
  ASSUME NEW S, NEW s \in Seq(S), NEW T
  PROVE  Count(s, T) \in Nat /\ IsFiniteSet({i \in DOMAIN s : s[i] \in T})
  <1>1. DOMAIN s = 1..Len(s) /\ Len(s) \in Nat
    BY LenProperties
  <1>2. IsFiniteSet(DOMAIN s)
    BY <1>1, FS_Interval
  <1>3. IsFiniteSet({i \in DOMAIN s : s[i] \in T})
    BY <1>2, FS_Subset
  <1> QED BY <1>3, FS_CardinalityType DEF Count

\* A message that is added counts if it is in the set.
LEMMA CountAppend ==
  ASSUME NEW S, NEW s \in Seq(S), NEW e \in S, NEW T
  PROVE  Count(Append(s, e), T) = Count(s, T) + (IF e \in T THEN 1 ELSE 0)
  <1> DEFINE I == {i \in DOMAIN s : s[i] \in T}
             J == {i \in DOMAIN Append(s, e) : Append(s, e)[i] \in T}
             n == Len(s) + 1
  <1>1. /\ Len(s) \in Nat /\ DOMAIN s = 1..Len(s) /\ DOMAIN Append(s, e) = 1..n
        /\ Append(s, e)[n] = e /\ \A i \in 1..Len(s) : Append(s, e)[i] = s[i]
    BY AppendProperties, LenProperties
  <1>2. IsFiniteSet(I) /\ Cardinality(I) = Count(s, T) /\ Cardinality(I) \in Nat
    <2>1. IsFiniteSet({i \in DOMAIN s : s[i] \in T}) /\ Count(s, T) \in Nat
      BY CountType
    <2> QED BY <2>1 DEF Count
  <1>3. n \notin I
    BY <1>1
  <1>4. Cardinality(J) = Count(Append(s, e), T)
    BY DEF Count
  <1> HIDE DEF I, J
  <1>5. CASE e \in T
    <2>1. J = I \cup {n}
      BY <1>1, <1>5 DEF I, J
    <2>2. Cardinality(I \cup {n}) = Cardinality(I) + 1
      BY <1>2, <1>3, FS_AddElement
    <2> QED BY <2>1, <2>2, <1>2, <1>4, <1>5
  <1>6. CASE e \notin T
    <2>1. J = I
      BY <1>1, <1>6 DEF I, J
    <2> QED BY <2>1, <1>2, <1>4, <1>6
  <1> QED BY <1>5, <1>6

\* A message that is taken no longer counts.
LEMMA CountTail ==
  ASSUME NEW S, NEW s \in Seq(S), s # <<>>, NEW T
  PROVE  Count(s, T) = Count(Tail(s), T) + (IF Head(s) \in T THEN 1 ELSE 0)
  <1> DEFINE I == {i \in DOMAIN s : s[i] \in T}
             K == I \ {1}
             J == {i \in DOMAIN Tail(s) : Tail(s)[i] \in T}
             f == [i \in K |-> i - 1]
  <1>1. /\ Len(s) \in Nat \ {0} /\ DOMAIN s = 1..Len(s) /\ DOMAIN Tail(s) = 1..(Len(s) - 1)
        /\ Head(s) = s[1] /\ \A i \in 1..(Len(s) - 1) : Tail(s)[i] = s[i + 1]
    BY HeadTailProperties, LenProperties, EmptySeq
  <1>2. IsFiniteSet(I) /\ Cardinality(I) = Count(s, T) /\ Cardinality(I) \in Nat
    <2>1. IsFiniteSet({i \in DOMAIN s : s[i] \in T}) /\ Count(s, T) \in Nat
      BY CountType
    <2> QED BY <2>1 DEF Count
  <1>3. ExistsBijection(K, J)
    <2>1. \A i \in K : i \in 2..Len(s) /\ i - 1 \in 1..(Len(s) - 1) /\ Tail(s)[i - 1] = s[i]
      BY <1>1
    <2>2. f \in [K -> J]
      BY <2>1, <1>1
    <2>3. \A i, j \in K : f[i] = f[j] => i = j
      BY <2>1
    <2>4. \A j \in J : j + 1 \in K /\ f[j + 1] = j
      BY <1>1
    <2>5. f \in Bijection(K, J)
      BY <2>2, <2>3, <2>4 DEF Bijection, Injection, Surjection, IsInjective
    <2> QED BY <2>5 DEF ExistsBijection
  <1>4. Cardinality(J) = Count(Tail(s), T)
    BY DEF Count
  <1> HIDE DEF I, J, K, f
  <1>5. IsFiniteSet(K)
    BY <1>2, FS_RemoveElement DEF K
  <1>6. Cardinality(K) = Cardinality(J)
    BY <1>3, <1>5, FS_Bijection
  <1>7. CASE Head(s) \in T
    <2>1. 1 \in I
      BY <1>1, <1>7 DEF I
    <2>2. Cardinality(K) = Cardinality(I) - 1
      BY <2>1, <1>2, FS_RemoveElement DEF K
    <2> QED BY <2>2, <1>2, <1>4, <1>6, <1>7
  <1>8. CASE Head(s) \notin T
    <2>1. K = I
      BY <1>1, <1>8 DEF I, K
    <2> QED BY <2>1, <1>2, <1>4, <1>6, <1>8
  <1> QED BY <1>7, <1>8

\* So does one that is put in front.
LEMMA CountPush ==
  ASSUME NEW S, NEW s \in Seq(S), NEW e \in S, NEW T
  PROVE  /\ <<e>> \o s \in Seq(S)
         /\ Count(<<e>> \o s, T) = Count(s, T) + (IF e \in T THEN 1 ELSE 0)
  <1> DEFINE one   == <<e>>
             whole == one \o s
  <1>1. /\ one \in Seq(S) /\ Len(one) = 1 /\ one[1] = e
        /\ Len(s) \in Nat
    <2>1. one = Append(<<>>, e) /\ <<>> \in Seq(S) /\ Len(<<>>) = 0
      BY EmptySeq
    <2>2. one \in Seq(S) /\ Len(one) = 1 /\ one[1] = e
      BY <2>1, AppendProperties
    <2>3. Len(s) \in Nat
      BY LenProperties
    <2> QED BY <2>2, <2>3
  <1> HIDE DEF one
  <1>2. /\ whole \in Seq(S) /\ Len(whole) = Len(s) + 1
        /\ \A i \in 1 .. Len(s) + 1 : whole[i] = IF i = 1 THEN e ELSE s[i - 1]
    <2>1. /\ whole \in Seq(S) /\ Len(whole) = Len(one) + Len(s)
          /\ \A i \in 1 .. Len(one) + Len(s) :
               whole[i] = IF i <= Len(one) THEN one[i] ELSE s[i - Len(one)]
      <3> HIDE DEF whole
      <3>1. one \o s = whole
        BY DEF whole
      <3> QED BY <1>1, <3>1, ConcatProperties, Zenon
    <2> HIDE DEF whole
    <2>2. ASSUME NEW i \in 1 .. Len(s) + 1 PROVE whole[i] = IF i = 1 THEN e ELSE s[i - 1]
      BY <1>1, <2>1
    <2> QED BY <1>1, <2>1, <2>2
  <1> HIDE DEF whole
  <1>3. whole # <<>>
    BY <1>1, <1>2, EmptySeq
  <1>4. Head(whole) = e /\ Tail(whole) = s
    <2>1. /\ Head(whole) = whole[1]
          /\ Tail(whole) \in Seq(S) /\ Len(Tail(whole)) = Len(s)
          /\ \A i \in 1 .. Len(s) : Tail(whole)[i] = whole[i + 1]
      BY <1>1, <1>2, <1>3, HeadTailProperties
    <2>2. \A i \in 1 .. Len(s) : Tail(whole)[i] = s[i]
      BY <1>1, <1>2, <2>1
    <2> QED BY <1>1, <1>2, <2>1, <2>2, SeqEqual
  <1>5. whole \in Seq(S) /\ Count(whole, T) = Count(s, T) + (IF e \in T THEN 1 ELSE 0)
    BY <1>2, <1>3, <1>4, CountTail, CountType
  <1> QED BY <1>5 DEF whole, one

-----------------------------------------------------------------------------
(* The invariant.                                                          *)

LEMMA TypeInit == Init => TypeOK
  <1> SUFFICES ASSUME Init PROVE TypeOK
    OBVIOUS
  <1>1. <<>> \in Seq(CallKinds) /\ <<>> \in Seq(Messages) /\ <<>> \in Seq({"stop", "dispose"})
    BY EmptySeq
  <1>2. /\ open \in BOOLEAN /\ inFlight \in BOOLEAN /\ overlap \in BOOLEAN
        /\ sink \in BOOLEAN
    BY Zenon DEF Init
  <1>3. /\ sub = None /\ streams = 0 /\ awaiting = <<>> /\ stops = 0 /\ handler = None
        /\ buffer = None /\ calls = <<>> /\ events = <<>> /\ native \in Statuses
    BY DEF Init
  <1> QED BY <1>1, <1>2, <1>3 DEF TypeOK

LEMMA ListenType ==
  ASSUME TypeOK, NEW who \in Nat \cup {Ui}, Listen(who)
  PROVE  /\ handler' \in Nat \cup {None, Ui} /\ buffer' \in Statuses \cup {None}
         /\ calls' \in Seq(CallKinds) /\ events' \in Seq(Messages)
  <1>1. calls' \in Seq(CallKinds)
    BY AppendProperties DEF TypeOK, Listen, CallKinds
  <1>2. events' \in Seq(Messages)
    <2>1. CASE buffer = None
      BY <2>1 DEF TypeOK, Listen
    <2>2. CASE buffer # None
      <3>1. [kind |-> "event", status |-> buffer] \in Messages
        BY <2>2 DEF TypeOK, Messages
      <3> QED BY <2>2, <3>1, CountPush DEF TypeOK, Listen
    <2> QED BY <2>1, <2>2
  <1> QED BY <1>1, <1>2 DEF TypeOK, Listen

LEMMA CancelType ==
  ASSUME TypeOK, Cancel
  PROVE  /\ handler' \in Nat \cup {None, Ui} /\ buffer' \in Statuses \cup {None}
         /\ calls' \in Seq(CallKinds) /\ events' \in Seq(Messages)
  BY AppendProperties DEF TypeOK, Cancel, CallKinds

LEMMA TellType ==
  ASSUME TypeOK, NEW kind \in {"event", "reply", "failure"}, Tell(kind, native)
  PROVE  events' \in Seq(Messages)
  <1>1. [kind |-> kind, status |-> native] \in Messages
    BY DEF TypeOK, Messages
  <1> QED BY <1>1, AppendProperties DEF TypeOK, Tell

LEMMA TypeNext == TypeOK /\ [Next]_vars => TypeOK'
  <1> SUFFICES ASSUME TypeOK, [Next]_vars PROVE TypeOK'
    OBVIOUS
  <1> USE DEF dartVars, channelVars, nativeVars
  <1>1. CASE Start
    <2>1. CASE sub # None \/ closed
      BY <1>1, <2>1 DEF TypeOK, Start
    <2>2. CASE ~(sub # None \/ closed)
      <3>1. streams' \in Nat /\ Listen(streams')
        BY <1>1, <2>2 DEF TypeOK, Start
      <3> HIDE DEF Listen
      <3> QED BY <1>1, <2>2, <3>1, ListenType DEF TypeOK, Start
    <2> QED BY <2>1, <2>2
  <1>2. ASSUME NEW kind \in {"stop", "dispose"}, Stop(kind) PROVE TypeOK'
    <2>1. awaiting' \in Seq({"stop", "dispose"})
      BY <1>2, AppendProperties DEF TypeOK, Stop
    <2>2. /\ handler' \in Nat \cup {None, Ui} /\ buffer' \in Statuses \cup {None}
          /\ calls' \in Seq(CallKinds) /\ events' \in Seq(Messages)
      <3>1. CASE open
        BY <1>2, <3>1, CancelType DEF Stop
      <3>2. CASE ~open
        BY <1>2, <3>2 DEF TypeOK, Stop
      <3> QED BY <3>1, <3>2
    <2>3. /\ UNCHANGED <<sub, streams, sink, native>> /\ stops' \in Nat
          /\ overlap' \in BOOLEAN
      BY <1>2 DEF TypeOK, Stop
    <2>4. open' \in BOOLEAN /\ inFlight' \in BOOLEAN
      BY <1>2, Zenon DEF Stop
    <2> QED BY <2>1, <2>2, <2>3, <2>4 DEF TypeOK
  <1>3. CASE Stopped
    <2>1. awaiting' \in Seq({"stop", "dispose"})
      BY <1>3, HeadTailProperties DEF TypeOK, Stopped
    <2> QED BY <1>3, <2>1 DEF TypeOK, Stopped
  <1>4. CASE Polled
    <2>1. events' \in Seq(Messages)
      BY <1>4, HeadTailProperties DEF TypeOK, Polled, Received
    <2> QED BY <1>4, <2>1 DEF TypeOK, Polled
  <1>5. CASE PollFailed
    <2>1. events' \in Seq(Messages)
      BY <1>5, HeadTailProperties DEF TypeOK, PollFailed, Received
    <2> QED BY <1>5, <2>1 DEF TypeOK, PollFailed
  <1>6. CASE OnEvent
    <2>1. events' \in Seq(Messages) /\ Head(events) \in Messages
      BY <1>6, HeadTailProperties DEF TypeOK, OnEvent, Received
    <2>2. buffer' \in Statuses \cup {None}
      BY <1>6, <2>1 DEF TypeOK, OnEvent, Messages
    <2> QED BY <1>6, <2>1, <2>2 DEF TypeOK, OnEvent
  <1>7. CASE Poll
    <2>1. calls' \in Seq(CallKinds)
      BY <1>7, AppendProperties DEF TypeOK, Poll, CallKinds
    <2> QED BY <1>7, <2>1 DEF TypeOK, Poll
  <1>8. CASE Age
    BY <1>8 DEF TypeOK, Age
  <1>9. CASE UiListens
    <2>1. Listen(Ui)
      BY <1>9 DEF UiListens
    <2> QED BY <1>9, <2>1, ListenType DEF TypeOK, UiListens
  <1>10. CASE UiCancels
    BY <1>10, CancelType DEF TypeOK, UiCancels
  <1>11. CASE NativeTakes
    <2>1. calls' \in Seq(CallKinds) /\ Head(calls) \in CallKinds
      BY <1>11, HeadTailProperties DEF TypeOK, NativeTakes
    <2>2. /\ UNCHANGED events \/ \E kind \in {"event", "reply", "failure"} : Tell(kind, native)
          /\ sink' \in BOOLEAN
      BY <1>11, <2>1 DEF TypeOK, NativeTakes, CallKinds
    <2>3. events' \in Seq(Messages)
      BY <2>2, TellType DEF TypeOK
    <2> QED BY <1>11, <2>1, <2>2, <2>3 DEF TypeOK, NativeTakes
  <1>12. CASE NativeSends
    BY <1>12, TellType DEF TypeOK, NativeSends
  <1>13. CASE NativeChanges
    BY <1>13 DEF TypeOK, NativeChanges
  <1>14. CASE UNCHANGED vars
    BY <1>14 DEF TypeOK, vars
  <1> QED BY <1>1, <1>2, <1>3, <1>4, <1>5, <1>6, <1>7, <1>8, <1>9, <1>10, <1>11, <1>12, <1>13,
            <1>14 DEF Next, Dart

LEMMA ControllerInit == Init => ControllerInv
  BY StatusAssumption DEF Init, ControllerInv

LEMMA ControllerNext == TypeOK /\ ControllerInv /\ [Next]_vars => ControllerInv'
  <1> SUFFICES ASSUME TypeOK, ControllerInv, [Next]_vars, ~overlap' PROVE ControllerInv'
    BY DEF ControllerInv
  <1> USE DEF dartVars, channelVars, nativeVars
  <1>1. CASE Start
    <2>1. ~overlap /\ awaiting = <<>>
      BY <1>1 DEF Start, TypeOK
    <2>2. CASE sub # None \/ closed
      BY <1>1, <2>1, <2>2 DEF ControllerInv, Start
    <2>3. CASE ~(sub # None \/ closed)
      <3>1. sub' \in Nat /\ open' /\ awaiting' = <<>>
        BY <1>1, <2>1, <2>3 DEF TypeOK, Start
      <3> QED BY <3>1, StatusAssumption DEF ControllerInv
    <2> QED BY <2>2, <2>3
  <1>2. ASSUME NEW kind \in {"stop", "dispose"}, Stop(kind) PROVE ControllerInv'
    <2>1. ~overlap /\ awaiting = <<>>
      BY <1>2 DEF Stop, TypeOK
    <2>2. awaiting' # <<>> /\ Len(awaiting') = 1 /\ ~open'
      BY <1>2, <2>1 DEF Stop
    <2>3. handler' \in {None, Ui}
      BY <1>2, <2>1 DEF Stop, Cancel, ControllerInv
    <2> QED BY <2>2, <2>3 DEF ControllerInv
  <1>3. CASE Stopped
    <2>1. ~overlap /\ Len(awaiting) = 1 /\ handler \in {None, Ui} /\ UNCHANGED handler
      BY <1>3 DEF Stopped, ControllerInv
    <2>2. awaiting' = <<>> /\ sub' = None /\ ~open'
      BY <1>3, <2>1 DEF Stopped, TypeOK
    <2> QED BY <2>1, <2>2 DEF ControllerInv
  <1>4. ASSUME UNCHANGED <<sub, open, awaiting, overlap>>, handler' \in {handler, None, Ui}
        PROVE  ControllerInv'
    BY <1>4 DEF ControllerInv
  <1>5. CASE Dart \/ Poll \/ Age \/ NativeTakes \/ NativeSends \/ NativeChanges \/ UNCHANGED vars
    <2>1. Stopped \/ UNCHANGED <<sub, open, awaiting, overlap, handler>>
      BY <1>5 DEF Dart, Polled, PollFailed, OnEvent, Poll, Age, NativeTakes, NativeSends,
                  NativeChanges, vars
    <2> QED BY <2>1, <1>3, <1>4
  <1>6. CASE UiListens \/ UiCancels
    BY <1>4, <1>6 DEF UiListens, UiCancels, Listen, Cancel
  <1> QED BY <1>1, <1>2, <1>5, <1>6 DEF Next

LEMMA SinkInit == Init => SinkInv
  BY EmptySeq DEF Init, SinkInv

\* A message to the native side that fits what becomes of the handler.
LEMMA SinkSent ==
  ASSUME TypeOK, SinkInv, NEW call \in CallKinds, calls' = Append(calls, call), sink' = sink,
         call = "listen" => handler' # None,
         call = "cancel" => handler' = None,
         call = "diagnostics" => handler' = handler
  PROVE  SinkInv'
  <1> DEFINE n == Len(calls) + 1
  <1>1. /\ Len(calls) \in Nat /\ DOMAIN calls = 1..Len(calls) /\ DOMAIN calls' = 1..n
        /\ calls'[n] = call /\ \A i \in 1..Len(calls) : calls'[i] = calls[i]
    BY AppendProperties, LenProperties DEF TypeOK
  <1>2. CASE call = "diagnostics"
    <2>1. ASSUME NEW i \in DOMAIN calls', IsLast(i)'
          PROVE  calls'[i] = "listen" <=> handler' # None
      <3>1. i \in DOMAIN calls /\ IsLast(i)
        BY <1>1, <1>2, <2>1 DEF IsLast
      <3> QED BY <3>1, <1>1, <1>2 DEF SinkInv
    <2>2. (\A i \in DOMAIN calls' : calls'[i] = "diagnostics") => (sink' <=> handler' # None)
      BY <1>1, <1>2 DEF SinkInv
    <2> QED BY <2>1, <2>2 DEF SinkInv
  <1>3. CASE call # "diagnostics"
    <2>1. ASSUME NEW i \in DOMAIN calls', IsLast(i)'
          PROVE  calls'[i] = "listen" <=> handler' # None
      <3>1. i = n
        BY <1>1, <1>3, <2>1 DEF IsLast
      <3> QED BY <3>1, <1>1, <1>3 DEF CallKinds
    <2>2. \E i \in DOMAIN calls' : calls'[i] # "diagnostics"
      BY <1>1, <1>3
    <2> QED BY <2>1, <2>2 DEF SinkInv
  <1> QED BY <1>2, <1>3

\* The native side does as the message says.
LEMMA SinkTaken ==
  ASSUME TypeOK, SinkInv, NativeTakes
  PROVE  SinkInv'
  <1> DEFINE n == Len(calls) - 1
  <1>1. /\ n \in Nat /\ DOMAIN calls = 1..(n + 1) /\ DOMAIN calls' = 1..n
        /\ Head(calls) = calls[1] /\ \A i \in 1..n : calls'[i] = calls[i + 1]
    BY HeadTailProperties, LenProperties, EmptySeq DEF TypeOK, NativeTakes
  <1>2. Head(calls) \in CallKinds /\ handler' = handler
    BY HeadTailProperties DEF TypeOK, NativeTakes
  <1>3. ASSUME NEW i \in DOMAIN calls', IsLast(i)'
        PROVE  calls'[i] = "listen" <=> handler' # None
    <2>1. i + 1 \in DOMAIN calls /\ calls[i + 1] # "diagnostics"
      BY <1>1, <1>3 DEF IsLast
    <2>2. ASSUME NEW j \in DOMAIN calls, j > i + 1
          PROVE  calls[j] = "diagnostics"
      <3>1. j - 1 \in DOMAIN calls' /\ j - 1 > i /\ calls'[j - 1] = calls[j]
        BY <1>1, <1>3, <2>2
      <3> QED BY <3>1, <1>3 DEF IsLast
    <2> QED BY <2>1, <2>2, <1>1, <1>2 DEF SinkInv, IsLast
  <1>4. ASSUME \A i \in DOMAIN calls' : calls'[i] = "diagnostics"
        PROVE  sink' <=> handler' # None
    <2>1. \A j \in DOMAIN calls : j > 1 => calls[j] = "diagnostics"
      <3> SUFFICES ASSUME NEW j \in DOMAIN calls, j > 1 PROVE calls[j] = "diagnostics"
        OBVIOUS
      <3>1. j - 1 \in DOMAIN calls' /\ calls'[j - 1] = calls[j]
        BY <1>1
      <3> QED BY <3>1, <1>4
    <2>2. CASE Head(calls) = "diagnostics"
      <3>1. \A j \in DOMAIN calls : calls[j] = "diagnostics"
        BY <2>1, <2>2, <1>1
      <3>2. sink' = sink
        BY <2>2 DEF NativeTakes
      <3> QED BY <3>1, <3>2, <1>2 DEF SinkInv
    <2>3. CASE Head(calls) # "diagnostics"
      <3>1. Head(calls) = "listen" <=> handler # None
        BY <2>1, <2>3, <1>1 DEF SinkInv, IsLast
      <3>2. CASE Head(calls) = "listen"
        BY <3>1, <3>2, <1>2 DEF NativeTakes
      <3>3. CASE Head(calls) = "cancel"
        BY <3>1, <3>3, <1>2 DEF NativeTakes
      <3> QED BY <3>2, <3>3, <2>3, <1>2 DEF CallKinds
    <2> QED BY <2>2, <2>3
  <1> QED BY <1>3, <1>4 DEF SinkInv

LEMMA SinkNext == TypeOK /\ SinkInv /\ [Next]_vars => SinkInv'
  <1> SUFFICES ASSUME TypeOK, SinkInv, [Next]_vars PROVE SinkInv'
    OBVIOUS
  <1> USE DEF dartVars, channelVars, nativeVars
  <1>1. ASSUME NEW who \in Nat \cup {Ui}, Listen(who), sink' = sink PROVE SinkInv'
    <2>1. calls' = Append(calls, "listen") /\ handler' # None
      BY <1>1, StatusAssumption DEF Listen
    <2> QED BY <2>1, <1>1, SinkSent DEF CallKinds
  <1>2. ASSUME Cancel, sink' = sink PROVE SinkInv'
    <2>1. calls' = Append(calls, "cancel") /\ handler' = None
      BY <1>2 DEF Cancel
    <2> QED BY <2>1, <1>2, SinkSent DEF CallKinds
  <1>3. ASSUME UNCHANGED <<calls, sink, handler>> PROVE SinkInv'
    BY <1>3 DEF SinkInv, IsLast
  <1>4. CASE Start
    <2>1. CASE sub # None \/ closed
      BY <1>3, <1>4, <2>1 DEF Start
    <2>2. CASE ~(sub # None \/ closed)
      <3>1. streams' \in Nat /\ Listen(streams') /\ sink' = sink
        BY <1>4, <2>2 DEF TypeOK, Start
      <3> HIDE DEF Listen
      <3> QED BY <3>1, <1>1
    <2> QED BY <2>1, <2>2
  <1>5. ASSUME NEW kind \in {"stop", "dispose"}, Stop(kind) PROVE SinkInv'
    BY <1>2, <1>3, <1>5 DEF Stop
  <1>6. CASE Poll
    <2>1. calls' = Append(calls, "diagnostics") /\ UNCHANGED <<sink, handler>>
      BY <1>6 DEF Poll
    <2> QED BY <2>1, SinkSent DEF CallKinds
  <1>7. CASE UiListens
    BY <1>1, <1>7 DEF UiListens
  <1>8. CASE UiCancels
    BY <1>2, <1>8 DEF UiCancels
  <1>9. CASE NativeTakes
    BY <1>9, SinkTaken
  <1>10. CASE Dart \/ Age \/ NativeSends \/ NativeChanges \/ UNCHANGED vars
    BY <1>3, <1>10 DEF Dart, Stopped, Polled, PollFailed, OnEvent, Age, NativeSends,
                       NativeChanges, vars
  <1> QED BY <1>4, <1>5, <1>6, <1>7, <1>8, <1>9, <1>10 DEF Next

\* The two queues' shares of what is under way.
Asking    == Count(calls, {"diagnostics"})
Answering == Count(events, Answers)

LEMMA SharesType ==
  ASSUME TypeOK
  PROVE  Asking \in Nat /\ Answering \in Nat /\ UnderWay = Asking + Answering
  BY CountType DEF TypeOK, Asking, Answering, UnderWay

LEMMA PollsInit == Init => PollsInv
  <1> SUFFICES ASSUME Init PROVE PollsInv
    OBVIOUS
  <1>1. ASSUME NEW T PROVE Count(<<>>, T) = 0
    <2>1. {i \in DOMAIN << >> : << >>[i] \in T} = {}
      BY EmptySeq
    <2> QED BY <2>1, FS_EmptySet DEF Count
  <1>2. UnderWay = 0 /\ stops = 0
    BY <1>1 DEF Init, UnderWay
  <1> QED BY <1>2 DEF PollsInv

\* Listening and cancelling ask nothing, and an event that was kept answers nothing.
LEMMA ChannelPolls ==
  ASSUME TypeOK, NEW who, Listen(who) \/ Cancel
  PROVE  UnderWay' = UnderWay
  <1>1. Asking' = Asking
    <2>1. \E call \in {"listen", "cancel"} : calls' = Append(calls, call)
      BY DEF Listen, Cancel
    <2>2. PICK call \in {"listen", "cancel"} : calls' = Append(calls, call)
      BY <2>1
    <2>3. call \in CallKinds /\ call \notin {"diagnostics"}
      BY <2>2 DEF CallKinds
    <2>4. Count(Append(calls, call), {"diagnostics"})
            = Count(calls, {"diagnostics"}) + (IF call \in {"diagnostics"} THEN 1 ELSE 0)
      BY <2>3, CountAppend DEF TypeOK
    <2> QED BY <2>2, <2>3, <2>4, SharesType DEF Asking
  <1>2. Answering' = Answering
    <2>1. CASE UNCHANGED events
      BY <2>1 DEF Answering
    <2>2. CASE events' # events
      <3> DEFINE e == [kind |-> "event", status |-> buffer]
      <3>1. events' = <<e>> \o events /\ e \in Messages /\ e \notin Answers
        BY <2>2 DEF Listen, Cancel, TypeOK, Messages, Answers
      <3> HIDE DEF e
      <3>2. Count(<<e>> \o events, Answers)
              = Count(events, Answers) + (IF e \in Answers THEN 1 ELSE 0)
        BY <3>1, CountPush DEF TypeOK
      <3> QED BY <3>1, <3>2, SharesType DEF Answering
    <2> QED BY <2>1, <2>2
  <1> QED BY <1>1, <1>2 DEF UnderWay, Asking, Answering

\* A message told is one more under way exactly if it is an answer.
LEMMA TellPolls ==
  ASSUME TypeOK, NEW kind \in {"event", "reply", "failure"}, Tell(kind, native)
  PROVE  Answering' = Answering + (IF kind = "event" THEN 0 ELSE 1)
  <1> DEFINE e == [kind |-> kind, status |-> native]
  <1>1. e \in Messages /\ (e \in Answers <=> kind # "event")
    BY DEF TypeOK, Messages, Answers
  <1>2. events' = Append(events, e) /\ events \in Seq(Messages)
    BY DEF Tell, TypeOK
  <1> HIDE DEF e
  <1>3. Count(Append(events, e), Answers) = Count(events, Answers) + (IF e \in Answers THEN 1 ELSE 0)
    BY <1>1, <1>2, CountAppend
  <1> QED BY <1>1, <1>2, <1>3, SharesType DEF Answering

\* The native side's answer takes the place of its question.
LEMMA TakenPolls ==
  ASSUME TypeOK, NativeTakes
  PROVE  UnderWay' = UnderWay
  <1>1. calls # <<>> /\ calls' = Tail(calls) /\ Head(calls) \in CallKinds /\ Asking' \in Nat
    BY HeadTailProperties, CountType DEF TypeOK, NativeTakes, Asking
  <1>2. Asking = Asking' + (IF Head(calls) \in {"diagnostics"} THEN 1 ELSE 0)
    BY <1>1, CountTail DEF TypeOK, Asking
  <1>3. CASE Head(calls) = "listen"
    <2>1. Answering' = Answering
      BY <1>3, TellPolls, SharesType DEF NativeTakes
    <2> QED BY <2>1, <1>1, <1>2, <1>3 DEF UnderWay, Asking, Answering
  <1>4. CASE Head(calls) = "cancel"
    <2>1. Answering' = Answering
      BY <1>4 DEF NativeTakes, Answering
    <2> QED BY <2>1, <1>1, <1>2, <1>4 DEF UnderWay, Asking, Answering
  <1>5. CASE Head(calls) = "diagnostics"
    <2>1. Tell("reply", native) \/ Tell("failure", native)
      BY <1>5 DEF NativeTakes
    <2>2. Answering' = Answering + 1
      BY <2>1, TellPolls, SharesType
    <2> QED BY <2>2, <1>1, <1>2, <1>5, SharesType DEF UnderWay, Asking, Answering
  <1> QED BY <1>1, <1>3, <1>4, <1>5 DEF CallKinds

\* A message that Dart takes is one less under way exactly if it is an answer.
LEMMA ReceivedPolls ==
  ASSUME TypeOK, NEW kind, Received(kind), events' = Tail(events), calls' = calls
  PROVE  /\ UnderWay' \in Nat
         /\ UnderWay' = UnderWay - (IF kind = "event" THEN 0 ELSE 1)
  <1>1. events # <<>> /\ Head(events) \in Messages /\ Head(events).kind = kind
        /\ Tail(events) \in Seq(Messages)
    BY HeadTailProperties DEF TypeOK, Received
  <1>2. Head(events) \in Answers <=> kind # "event"
    BY <1>1 DEF Messages, Answers
  <1>3. /\ Answering \in Nat /\ Count(Tail(events), Answers) \in Nat
        /\ Answering = Count(Tail(events), Answers) + (IF Head(events) \in Answers THEN 1 ELSE 0)
    BY <1>1, CountTail, CountType DEF TypeOK, Answering
  <1>4. Answering' = Answering - (IF kind = "event" THEN 0 ELSE 1)
    <2>1. Answering' = Count(Tail(events), Answers)
      BY DEF Answering
    <2>2. Count(Tail(events), Answers) = Answering - (IF Head(events) \in Answers THEN 1 ELSE 0)
      BY <1>3
    <2> QED BY <1>2, <2>1, <2>2
  <1>5. Answering' \in Nat /\ Asking' = Asking /\ UnderWay' = Asking + Answering'
    BY <1>1, CountType DEF UnderWay, Answering, Asking
  <1>6. Answering \in Nat /\ Asking \in Nat /\ UnderWay = Asking + Answering
    BY SharesType
  <1> QED BY <1>4, <1>5, <1>6

LEMMA PollsNext == TypeOK /\ PollsInv /\ [Next]_vars => PollsInv'
  <1> SUFFICES ASSUME TypeOK, PollsInv, [Next]_vars PROVE PollsInv'
    OBVIOUS
  <1> USE DEF dartVars, channelVars, nativeVars
  <1>1. UnderWay \in Nat /\ stops \in Nat
    BY SharesType DEF TypeOK
  <1>2. ASSUME UnderWay' = UnderWay, UNCHANGED <<inFlight, stops>> PROVE PollsInv'
    BY <1>2 DEF PollsInv
  <1>3. ASSUME UNCHANGED <<calls, events>> PROVE UnderWay' = UnderWay
    BY <1>3 DEF UnderWay
  <1>4. CASE Start
    <2>1. UnderWay' = UnderWay
      BY <1>3, <1>4, ChannelPolls DEF Start
    <2> QED BY <2>1, <1>2, <1>4 DEF Start
  <1>5. ASSUME NEW kind \in {"stop", "dispose"}, Stop(kind) PROVE PollsInv'
    <2>1. UnderWay' = UnderWay
      BY <1>3, <1>5, ChannelPolls DEF Stop
    <2>2. stops' = stops + 1 /\ ~inFlight'
      BY <1>5 DEF Stop
    <2> QED BY <2>1, <2>2, <1>1 DEF PollsInv
  <1>6. CASE Polled \/ PollFailed
    <2>1. /\ Received("reply") \/ Received("failure")
          /\ events' = Tail(events) /\ UNCHANGED <<calls, stops>>
      BY <1>6 DEF Polled, PollFailed
    <2>2. UnderWay' \in Nat /\ UnderWay' = UnderWay - 1
      BY <2>1, ReceivedPolls
    <2>3. UnderWay' <= stops /\ stops' = stops
      BY <2>1, <2>2, <1>1 DEF PollsInv
    <2> QED BY <2>2, <2>3, <1>1 DEF PollsInv
  <1>7. CASE OnEvent
    <2>1. UnderWay' = UnderWay - 0
      BY <1>7, ReceivedPolls DEF OnEvent
    <2> QED BY <2>1, <1>1, <1>2, <1>7 DEF OnEvent
  <1>8. CASE Poll
    <2>1. /\ calls' = Append(calls, "diagnostics") /\ ~inFlight /\ inFlight'
          /\ UNCHANGED <<events, stops>>
      BY <1>8 DEF Poll
    <2>2. Asking' = Asking + 1
      BY <2>1, CountAppend, SharesType DEF TypeOK, CallKinds, Asking
    <2>3. UnderWay' = UnderWay + 1
      BY <2>1, <2>2, SharesType DEF UnderWay, Asking, Answering
    <2> QED BY <2>1, <2>3, <1>1 DEF PollsInv
  <1>9. CASE UiListens \/ UiCancels
    <2>1. UnderWay' = UnderWay
      BY <1>9, ChannelPolls DEF UiListens, UiCancels
    <2> QED BY <2>1, <1>2, <1>9 DEF UiListens, UiCancels
  <1>10. CASE NativeTakes
    BY <1>2, <1>10, TakenPolls DEF NativeTakes
  <1>11. CASE NativeSends
    <2>1. Answering' = Answering /\ Asking' = Asking
      BY <1>11, TellPolls, SharesType DEF NativeSends, Asking
    <2> QED BY <2>1, <1>2, <1>11 DEF NativeSends, UnderWay, Asking, Answering
  <1>12. CASE Stopped \/ Age \/ NativeChanges \/ UNCHANGED vars
    BY <1>2, <1>3, <1>12 DEF Stopped, Age, NativeChanges, vars
  <1> QED BY <1>4, <1>5, <1>6, <1>7, <1>8, <1>9, <1>10, <1>11, <1>12 DEF Next, Dart

-----------------------------------------------------------------------------
(* What start() asks for.                                                  *)

\* As long as no call came while a stop() waited, a start() that came last has its subscription;
\* as long as the app has not subscribed itself, the handler is that of the open one.
StartInv ==
  /\ ~overlap =>
       /\ awaiting # <<>> => asked = "stop"
       /\ awaiting = <<>> /\ asked = "start" /\ ~closed => sub # None
  /\ ui \in Nat
  /\ ui = 0 => ~uiOpen /\ (open => handler = sub)

LEMMA StartNext == TypeOK /\ ControllerInv /\ StartInv /\ [Next]_vars => StartInv'
  <1> SUFFICES ASSUME TypeOK, ControllerInv, StartInv, [Next]_vars PROVE StartInv'
    OBVIOUS
  <1> USE DEF dartVars, channelVars, nativeVars
  <1>1. CASE Start
    <2>1. ui' = ui /\ uiOpen' = uiOpen /\ asked' = "start" /\ overlap' = (overlap \/ awaiting # <<>>)
      BY <1>1 DEF Start
    <2>2. CASE sub # None \/ closed
      <3>1. UNCHANGED <<sub, open, closed, awaiting, handler>>
        BY <1>1, <2>2 DEF Start
      <3> QED BY <2>1, <2>2, <3>1 DEF StartInv
    <2>3. CASE ~(sub # None \/ closed)
      <3>1. /\ sub' = streams + 1 /\ handler' = sub' /\ awaiting' = awaiting
        BY <1>1, <2>3 DEF Start, Listen
      <3>2. sub' # None
        BY <3>1, StatusAssumption DEF TypeOK
      <3> QED BY <2>1, <3>1, <3>2 DEF StartInv
    <2> QED BY <2>2, <2>3
  <1>2. ASSUME NEW kind \in {"stop", "dispose"}, Stop(kind) PROVE StartInv'
    <2>1. asked' = "stop" /\ ~open' /\ UNCHANGED <<ui, uiOpen>>
      BY <1>2 DEF Stop
    <2> QED BY <2>1 DEF StartInv
  <1>3. CASE Stopped
    <2>1. ~open' /\ UNCHANGED <<ui, uiOpen, asked, overlap>> /\ awaiting # <<>>
      BY <1>3 DEF Stopped
    <2> QED BY <2>1 DEF StartInv
  <1>4. CASE UiListens \/ UiCancels
    <2>1. UNCHANGED <<sub, open, closed, awaiting, asked, overlap>>
      BY <1>4 DEF UiListens, UiCancels
    <2>2. ui' \in Nat /\ ui' # 0
      <3>1. UiListens => ui' = ui + 1
        BY DEF UiListens
      <3>2. UiCancels => ui' = ui /\ uiOpen
        BY DEF UiCancels
      <3> QED BY <1>4, <3>1, <3>2 DEF StartInv
    <2> QED BY <2>1, <2>2 DEF StartInv
  <1>5. CASE UNCHANGED <<sub, open, closed, awaiting, handler, ui, uiOpen, asked, overlap>>
    BY <1>5 DEF StartInv
  <1>6. Polled \/ PollFailed \/ OnEvent \/ Poll \/ Age \/ NativeTakes \/ NativeSends \/ NativeChanges
          \/ UNCHANGED vars
        => UNCHANGED <<sub, open, closed, awaiting, handler, ui, uiOpen, asked, overlap>>
    BY DEF Polled, PollFailed, OnEvent, Poll, Age, NativeTakes, NativeSends, NativeChanges, vars
  <1> QED BY <1>1, <1>2, <1>3, <1>4, <1>5, <1>6 DEF Next, Dart

-----------------------------------------------------------------------------
(* The theorems.                                                           *)

\* The invariant, in every reachable state.
THEOREM PersistentInvariant == Spec => []PersistentInv
  <1>1. Init => PersistentInv
    BY TypeInit, ControllerInit, SinkInit, PollsInit DEF PersistentInv
  <1>2. PersistentInv /\ [Next]_vars => PersistentInv'
    BY TypeNext, ControllerNext, SinkNext, PollsNext DEF PersistentInv
  <1> QED BY <1>1, <1>2, PTL DEF Spec

\* PersistentStatusController.stop(): once it has returned nobody listens for the
\* controller, and the native side ends with no listener that nobody is behind.
THEOREM StopIsSilent == Spec => []StoppedIsSilent
  <1>1. PersistentInv => StoppedIsSilent
    <2> SUFFICES ASSUME PersistentInv, ~overlap, sub = None, awaiting = <<>>
                 PROVE  /\ handler \in {None, Ui}
                        /\ calls = <<>> => sink = (handler = Ui)
      BY DEF StoppedIsSilent
    <2>1. handler \in {None, Ui}
      BY DEF PersistentInv, ControllerInv
    <2>2. ASSUME calls = <<>> PROVE sink = (handler = Ui)
      <3>1. sink <=> handler # None
        BY <2>2, EmptySeq DEF PersistentInv, SinkInv
      <3> QED BY <3>1, <2>1, StatusAssumption DEF PersistentInv, TypeOK
    <2> QED BY <2>1, <2>2
  <1> QED BY <1>1, PersistentInvariant, PTL

\* The Windows fallback: however slow the native side is, the polls under way are one and
\* those that a stop() left behind.
THEOREM FallbackIsBounded == Spec => []PollsBounded
  <1>1. PersistentInv => PollsBounded
    <2> SUFFICES ASSUME PersistentInv PROVE PollsBounded
      OBVIOUS
    <2>1. /\ calls \in Seq(CallKinds) /\ events \in Seq(Messages)
      BY DEF PersistentInv, TypeOK
    <2>2. {i \in DOMAIN calls : calls[i] = "diagnostics"}
            = {i \in DOMAIN calls : calls[i] \in {"diagnostics"}}
      OBVIOUS
    <2>3. {i \in DOMAIN events : events[i].kind # "event"} = {i \in DOMAIN events : events[i] \in Answers}
      <3>1. \A i \in DOMAIN events : events[i] \in Messages
        BY <2>1, ElementOfSeq, LenProperties
      <3> QED BY <3>1 DEF Messages, Answers
    <2> QED BY <2>2, <2>3 DEF PersistentInv, PollsInv, UnderWay, Count, PollsBounded
  <1> QED BY <1>1, PersistentInvariant, PTL

\* PersistentStatusController.start() listens as its comment says, unless one of two things
\* came in between: a call while a stop() awaited the cancel, or a subscription of the app's
\* own.  TLC refutes ListensAsAsked with each of them; there is no third way.
THEOREM StartListens == Spec => [](~overlap /\ ui = 0 => ListensAsAsked)
  <1>1. Init => StartInv
    BY DEF Init, StartInv
  <1>2. PersistentInv /\ StartInv /\ [Next]_vars => StartInv'
    BY StartNext DEF PersistentInv
  <1>3. PersistentInv /\ StartInv => (~overlap /\ ui = 0 => ListensAsAsked)
    <2> SUFFICES ASSUME PersistentInv, StartInv, ~overlap, ui = 0,
                        asked = "start", awaiting = <<>>, ~closed
                 PROVE  sub # None /\ handler = sub
      BY DEF ListensAsAsked
    <2>1. sub # None
      BY DEF StartInv
    <2>2. open
      BY <2>1 DEF PersistentInv, ControllerInv
    <2> QED BY <2>1, <2>2 DEF StartInv
  <1> QED BY <1>1, <1>2, <1>3, PersistentInvariant, PTL DEF Spec

=============================================================================
