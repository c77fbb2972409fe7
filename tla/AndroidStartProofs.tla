-------------------------- MODULE AndroidStartProofs --------------------------
(***************************************************************************)
(* Theorems about AndroidStart: who is answered, how often and on what     *)
(* news, for any number of calls, broadcasts, dialogs and activities.      *)
(***************************************************************************)
EXTENDS AndroidStart, SequenceTheorems, TLAPS

States     == {"DISCONNECTED", "CONNECTING", "CONNECTED", "ERROR", "AUTO_DISCONNECTED"}
Broadcasts == [state : States, to : SUBSET {"monitor", "sink"}]
Answers    == {"success", "error"}

\* The types the invariant leans on.
TypeOK ==
  /\ starts \in 0 .. MaxStarts /\ pending \in 1 .. starts \cup {None}
  /\ answers \in [Calls -> Seq(Answers)]
  /\ asked \in Nat /\ dialogs \in Nat /\ asking \in Nat \cup {None}
  /\ granted \in Seq(Nat)
  /\ news \in Seq(Broadcasts) /\ state \in States

\* A call not made yet, and the pending one, have no answer; every other has one while there
\* is an engine, and none has two.
AnswersInv ==
  \A c \in Calls :
    /\ c > starts \/ pending = c => answers[c] = <<>>
    /\ engine /\ c <= starts /\ pending # c => answers[c] # <<>>
    /\ Len(answers[c]) <= 1

\* The call on record is the last that asked, which is not answered yet and has a dialog; if
\* there is none on record the last one is answered.
GrantInv ==
  /\ \A i \in DOMAIN granted : granted[i] <= asked
  /\ \A i, j \in DOMAIN granted : granted[i] = granted[j] => i = j
  /\ asking # None =>
       /\ asking = asked /\ asked > 0 /\ dialogs > 0
       /\ \A i \in DOMAIN granted : granted[i] # asked
  /\ asking = None /\ asked > 0 => \E i \in DOMAIN granted : granted[i] = asked

\* A CONNECTED on its way to the monitor was sent since the pending start's call.
NewsInv ==
  \A i \in DOMAIN news :
    "monitor" \in news[i].to /\ news[i].state = "CONNECTED" => fresh

StartInv == TypeOK /\ AnswersInv /\ GrantInv /\ NewsInv

\* What is in a queue was in another one, to those receivers or more.
From(queue, whole) ==
  \A i \in DOMAIN queue : \E j \in DOMAIN whole :
    queue[i].state = whole[j].state /\ queue[i].to \subseteq whole[j].to

-----------------------------------------------------------------------------
(* What the operators do.                                                  *)

LEMMA DroppedFrom ==
  ASSUME NEW kind, NEW queue \in Seq(Broadcasts)
  PROVE  /\ Dropped(kind, queue) \in Seq(Broadcasts)
         /\ From(Dropped(kind, queue), queue)
         /\ \A i \in DOMAIN Dropped(kind, queue) : kind \notin Dropped(kind, queue)[i].to
  <1> DEFINE left == [i \in DOMAIN queue |-> [queue[i] EXCEPT !.to = @ \ {kind}]]
  <1>1. \A i \in DOMAIN queue :
          /\ queue[i] \in Broadcasts /\ left[i] \in Broadcasts
          /\ left[i].state = queue[i].state /\ left[i].to = queue[i].to \ {kind}
    <2> SUFFICES ASSUME NEW i \in DOMAIN queue
                 PROVE  /\ queue[i] \in Broadcasts /\ left[i] \in Broadcasts
                        /\ left[i].state = queue[i].state /\ left[i].to = queue[i].to \ {kind}
      OBVIOUS
    <2>1. queue[i] \in Broadcasts
      BY ElementOfSeq, LenProperties
    <2> QED BY <2>1 DEF Broadcasts
  <1>2. left \in Seq(Broadcasts)
    <2>1. DOMAIN left = 1 .. Len(queue) /\ Len(queue) \in Nat
      BY LenProperties
    <2>2. left \in [1 .. Len(queue) -> Broadcasts]
      BY <1>1, <2>1
    <2> QED BY <2>1, <2>2, SeqDef
  <1>3. Dropped(kind, queue) = left \/ Dropped(kind, queue) = <<>>
    BY DEF Dropped
  <1> HIDE DEF left
  <1>4. CASE Dropped(kind, queue) = left
    BY <1>1, <1>2, <1>4 DEF From, left
  <1>5. CASE Dropped(kind, queue) = <<>>
    BY <1>5, EmptySeq DEF From
  <1> QED BY <1>3, <1>4, <1>5

LEMMA TailFrom ==
  ASSUME NEW queue \in Seq(Broadcasts), queue # <<>>
  PROVE  Tail(queue) \in Seq(Broadcasts) /\ From(Tail(queue), queue)
  <1>1. /\ Tail(queue) \in Seq(Broadcasts)
        /\ \A i \in DOMAIN Tail(queue) : i + 1 \in DOMAIN queue /\ Tail(queue)[i] = queue[i + 1]
    BY HeadTailProperties, LenProperties, EmptySeq
  <1> QED BY <1>1 DEF From

LEMMA FromTransitive ==
  ASSUME NEW a, NEW b, NEW c, From(a, b), From(b, c)
  PROVE  From(a, c)
  <1> SUFFICES ASSUME NEW i \in DOMAIN a
               PROVE  \E k \in DOMAIN c : a[i].state = c[k].state /\ a[i].to \subseteq c[k].to
    BY DEF From
  <1>1. PICK j \in DOMAIN b : a[i].state = b[j].state /\ a[i].to \subseteq b[j].to
    BY DEF From
  <1>2. PICK k \in DOMAIN c : b[j].state = c[k].state /\ b[j].to \subseteq c[k].to
    BY DEF From
  <1> QED BY <1>1, <1>2

\* Less news keeps the invariant of the news.
LEMMA FromKeeps ==
  ASSUME NewsInv, From(news', news), fresh' = fresh
  PROVE  NewsInv'
  BY DEF NewsInv, From

\* A call that is pending, if there is one, gets its one answer; what is left of the news
\* goes to the sink.
LEMMA CompleteKeeps ==
  ASSUME TypeOK, AnswersInv, NEW answer \in Answers, NEW rest \in Seq(Broadcasts),
         Complete(answer, rest), UNCHANGED <<starts, engine>>
  PROVE  /\ pending' \in 1 .. starts' \cup {None} /\ answers' \in [Calls -> Seq(Answers)]
         /\ AnswersInv'
         /\ news' \in Seq(Broadcasts) /\ From(news', rest)
  <1>1. From(rest, rest)
    BY DEF From
  <1>2. CASE pending = None
    BY <1>1, <1>2 DEF Complete, TypeOK, AnswersInv
  <1>3. CASE pending # None
    <2>1. /\ pending \in Calls /\ answers[pending] = <<>> /\ pending' = None
          /\ answers' = [answers EXCEPT ![pending] = Append(@, answer)]
          /\ news' = Dropped("monitor", rest)
      <3>1. pending \in Calls
        BY <1>3, StartAssumption DEF TypeOK, Calls
      <3> QED BY <1>3, <3>1 DEF Complete, AnswersInv
    <2>2. answers' = [answers EXCEPT ![pending] = <<answer>>] /\ <<answer>> \in Seq(Answers)
          /\ Len(<<answer>>) = 1 /\ <<answer>> # <<>>
      BY <2>1
    <2>3. answers' \in [Calls -> Seq(Answers)]
      BY <2>1, <2>2 DEF TypeOK
    <2>4. AnswersInv'
      <3> SUFFICES ASSUME NEW c \in Calls
                   PROVE  /\ c > starts \/ pending' = c => answers'[c] = <<>>
                          /\ engine /\ c <= starts /\ pending' # c => answers'[c] # <<>>
                          /\ Len(answers'[c]) <= 1
        BY DEF AnswersInv
      <3>1. CASE c = pending
        <4>1. answers'[c] = <<answer>> /\ c <= starts /\ c \in Nat
          BY <1>3, <2>2, <3>1, <2>1, StartAssumption DEF TypeOK, Calls
        <4> QED BY <4>1, <2>1, <2>2, StartAssumption DEF TypeOK
      <3>2. CASE c # pending
        <4>1. answers'[c] = answers[c] /\ c # None
          BY <2>1, <2>2, <3>2, StartAssumption DEF TypeOK, Calls
        <4> QED BY <4>1, <2>1, <3>2 DEF AnswersInv
      <3> QED BY <3>1, <3>2
    <2> QED BY <2>1, <2>3, <2>4, DroppedFrom
  <1> QED BY <1>2, <1>3

\* A broadcast that is sent: one more in the queue, or none.
LEMMA SendKeeps ==
  ASSUME TypeOK, NewsInv, NEW s \in States, Send(s)
  PROVE  news' \in Seq(Broadcasts) /\ NewsInv'
  <1> DEFINE b == [state |-> s, to |-> Receivers]
             n == Len(news) + 1
  <1>1. b \in Broadcasts /\ ("monitor" \in b.to <=> monitor) /\ b.state = s
    BY DEF Broadcasts, Receivers
  <1>2. news' = news \/ news' = Append(news, b)
    BY DEF Send
  <1>3. fresh' <=> fresh \/ (monitor /\ s = "CONNECTED")
    BY DEF Send
  <1> HIDE DEF b
  <1>4. CASE news' = news
    BY <1>3, <1>4 DEF TypeOK, NewsInv
  <1>5. CASE news' = Append(news, b)
    <2>1. /\ news' \in Seq(Broadcasts) /\ DOMAIN news' = 1 .. n /\ DOMAIN news = 1 .. Len(news)
          /\ Len(news) \in Nat /\ news'[n] = b /\ \A i \in 1 .. Len(news) : news'[i] = news[i]
      BY <1>1, <1>5, AppendProperties, LenProperties DEF TypeOK
    <2> SUFFICES ASSUME NEW i \in DOMAIN news', "monitor" \in news'[i].to,
                        news'[i].state = "CONNECTED"
                 PROVE  fresh'
      BY <2>1 DEF NewsInv
    <2>2. CASE i = n
      BY <2>1, <2>2, <1>1, <1>3
    <2>3. CASE i # n
      <3>1. i \in DOMAIN news /\ news'[i] = news[i]
        BY <2>1, <2>3
      <3> QED BY <3>1, <1>3 DEF NewsInv
    <2> QED BY <2>2, <2>3
  <1> QED BY <1>2, <1>4, <1>5

-----------------------------------------------------------------------------
(* The invariant.                                                          *)

LEMMA StartInit == Init => StartInv
  <1> SUFFICES ASSUME Init PROVE StartInv
    OBVIOUS
  <1>1. /\ <<>> \in Seq(Answers) /\ <<>> \in Seq(Nat) /\ <<>> \in Seq(Broadcasts)
        /\ DOMAIN <<>> = {} /\ Len(<<>>) = 0
    BY EmptySeq
  <1>2. /\ pending = None /\ starts = 0 /\ answers = [c \in Calls |-> <<>>] /\ dialogs = 0
        /\ asked = 0 /\ asking = None /\ granted = <<>> /\ news = <<>> /\ state = "DISCONNECTED"
    BY DEF Init
  <1>3. TypeOK
    BY <1>1, <1>2, StartAssumption DEF TypeOK, States
  <1>4. AnswersInv
    BY <1>1, <1>2 DEF AnswersInv, Calls
  <1>5. GrantInv
    BY <1>1, <1>2 DEF GrantInv
  <1>6. NewsInv
    BY <1>1, <1>2 DEF NewsInv
  <1> QED BY <1>3, <1>4, <1>5, <1>6 DEF StartInv

\* The calls of startVless.
LEMMA CallsKeep ==
  ASSUME StartInv, StartVless \/ StartThrows
  PROVE  StartInv'
  <1> USE DEF StartInv
  <1>1. /\ starts' = starts + 1 /\ starts' \in 1 .. MaxStarts /\ starts' \in Calls /\ starts \in Nat
        /\ starts' # None /\ pending # starts' /\ answers[starts'] = <<>> /\ engine
        /\ UNCHANGED <<engine, asked, dialogs, asking, granted, state>>
    <2>1. starts < MaxStarts /\ starts' = starts + 1 /\ engine
          /\ UNCHANGED <<engine, asked, dialogs, asking, granted, state>>
      BY DEF StartVless, StartThrows, streamVars, grantVars, serviceVars
    <2>2. /\ starts' \in 1 .. MaxStarts /\ starts' \in Calls /\ starts \in Nat /\ starts' > starts
          /\ starts' # None /\ pending # starts'
      BY <2>1, StartAssumption DEF TypeOK, Calls
    <2>3. answers[starts'] = <<>>
      BY <2>2 DEF AnswersInv
    <2> QED BY <2>1, <2>2, <2>3
  <1>2. GrantInv'
    BY <1>1 DEF GrantInv
  <1>3. CASE pending = None /\ BeginStart
    <2>1. /\ pending' = starts' /\ answers' = answers
          /\ news' = Dropped("monitor", news)
      BY <1>3 DEF BeginStart
    <2>2. /\ news' \in Seq(Broadcasts)
          /\ \A i \in DOMAIN news' : "monitor" \notin news'[i].to
      BY <2>1, DroppedFrom DEF TypeOK
    <2>3. TypeOK'
      BY <1>1, <2>1, <2>2, StartAssumption DEF TypeOK
    <2>4. AnswersInv'
      <3> SUFFICES ASSUME NEW c \in Calls
                   PROVE  /\ c > starts' \/ pending' = c => answers'[c] = <<>>
                          /\ engine' /\ c <= starts' /\ pending' # c => answers'[c] # <<>>
                          /\ Len(answers'[c]) <= 1
        BY DEF AnswersInv
      <3>1. c \in Nat /\ c # None /\ c # pending
        BY <1>3, StartAssumption DEF Calls
      <3> QED BY <1>1, <2>1, <3>1 DEF AnswersInv
    <2> QED BY <1>2, <2>2, <2>3, <2>4 DEF NewsInv
  <1>4. CASE /\ answers' = [answers EXCEPT ![starts'] = Append(@, "error")]
             /\ UNCHANGED <<pending, newsVars>>
    <2>1. /\ answers' = [answers EXCEPT ![starts'] = <<"error">>] /\ <<"error">> \in Seq(Answers)
          /\ Len(<<"error">>) = 1 /\ <<"error">> # <<>>
      BY <1>1, <1>4 DEF Answers
    <2>2. TypeOK'
      BY <1>1, <1>4, <2>1, StartAssumption DEF TypeOK, newsVars
    <2>3. AnswersInv'
      <3> SUFFICES ASSUME NEW c \in Calls
                   PROVE  /\ c > starts' \/ pending' = c => answers'[c] = <<>>
                          /\ engine' /\ c <= starts' /\ pending' # c => answers'[c] # <<>>
                          /\ Len(answers'[c]) <= 1
        BY DEF AnswersInv
      <3>1. c \in Nat
        BY DEF Calls
      <3>2. CASE c = starts'
        BY <1>1, <1>4, <2>1, <3>1, <3>2 DEF TypeOK
      <3>3. CASE c # starts'
        <4>1. answers'[c] = answers[c] /\ (c > starts' => c > starts) /\ (c <= starts' => c <= starts)
          BY <1>1, <2>1, <3>1, <3>3 DEF TypeOK
        <4> QED BY <1>1, <1>4, <4>1 DEF AnswersInv
      <3> QED BY <3>2, <3>3
    <2>4. NewsInv'
      BY <1>4 DEF NewsInv, newsVars
    <2> QED BY <1>2, <2>2, <2>3, <2>4
  <1>5. CASE StartVless
    BY <1>3, <1>4, <1>5 DEF StartVless
  <1>6. CASE StartThrows
    <2>1. UNCHANGED <<pending, newsVars>>
      BY <1>6 DEF StartThrows
    <2> QED BY <1>4, <1>6, <2>1 DEF StartThrows
  <1> QED BY <1>5, <1>6

\* A stop, the timeout and a broadcast may complete the pending call.
LEMMA CompletionKeeps ==
  ASSUME StartInv, StopVless \/ StartTimeout \/ Deliver
  PROVE  StartInv'
  <1> USE DEF StartInv
  <1>1. UNCHANGED <<starts, engine, asked, dialogs, asking, granted, state, fresh>>
    BY DEF StopVless, StartTimeout, Deliver, streamVars, grantVars, serviceVars
  <1>2. ASSUME NEW answer \in Answers, NEW rest \in Seq(Broadcasts), From(rest, news),
               Complete(answer, rest)
        PROVE  StartInv'
    <2>1. /\ pending' \in 1 .. starts' \cup {None} /\ answers' \in [Calls -> Seq(Answers)]
          /\ AnswersInv'
          /\ news' \in Seq(Broadcasts) /\ From(news', rest)
      BY <1>1, <1>2, CompleteKeeps
    <2>2. NewsInv'
      BY <1>1, <1>2, <2>1, FromTransitive, FromKeeps
    <2>3. TypeOK'
      BY <1>1, <2>1 DEF TypeOK
    <2>4. GrantInv'
      BY <1>1 DEF GrantInv
    <2> QED BY <2>1, <2>2, <2>3, <2>4
  <1>3. CASE StopVless \/ StartTimeout
    <2>1. Complete("error", news) /\ "error" \in Answers /\ From(news, news)
      BY <1>3 DEF StopVless, StartTimeout, Answers, From
    <2> QED BY <2>1, <1>2 DEF TypeOK
  <1>4. CASE Deliver
    <2>1. Tail(news) \in Seq(Broadcasts) /\ From(Tail(news), news)
      BY <1>4, TailFrom DEF Deliver, TypeOK
    <2>2. CASE \E answer \in Answers : Complete(answer, Tail(news))
      BY <1>2, <2>1, <2>2
    <2>3. CASE news' = Tail(news) /\ UNCHANGED <<pending, answers>>
      <3>1. TypeOK' /\ AnswersInv' /\ GrantInv'
        BY <1>1, <2>1, <2>3 DEF TypeOK, AnswersInv, GrantInv
      <3> QED BY <1>1, <2>1, <2>3, <3>1, FromKeeps
    <2>4. \A t : AnswerTo(t) \in Answers
      BY DEF AnswerTo, Answers
    <2> QED BY <1>4, <2>2, <2>3, <2>4 DEF Deliver
  <1> QED BY <1>3, <1>4

\* The listener, the activity and the engine come and go: the news gets less.
LEMMA StreamKeeps ==
  ASSUME StartInv, OnCancel \/ DetachActivity \/ ConfigChange \/ DetachEngine
  PROVE  StartInv'
  <1> USE DEF StartInv
  <1>1. UNCHANGED <<starts, answers, asked, dialogs, asking, granted, state, fresh>>
    BY DEF OnCancel, DetachActivity, ConfigChange, DetachEngine, startVars, grantVars, serviceVars
  <1>2. \/ UNCHANGED <<pending, engine>>
        \/ pending' = None /\ ~engine'
    BY DEF OnCancel, DetachActivity, ConfigChange, DetachEngine, startVars
  <1>3. news' \in Seq(Broadcasts) /\ From(news', news)
    <2>1. news' = news \/ \E kind : news' = Dropped(kind, news)
      BY DEF OnCancel, DetachActivity, ConfigChange, DetachEngine
    <2>2. From(news, news)
      BY DEF From
    <2> QED BY <2>1, <2>2, DroppedFrom DEF TypeOK
  <1>4. NewsInv'
    BY <1>1, <1>3, FromKeeps
  <1>5. TypeOK'
    BY <1>1, <1>2, <1>3 DEF TypeOK
  <1>6. GrantInv'
    BY <1>1 DEF GrantInv
  <1>7. AnswersInv'
    <2>1. \A c \in Calls : c # None
      BY StartAssumption DEF Calls
    <2> QED BY <1>1, <1>2, <2>1 DEF AnswersInv
  <1> QED BY <1>4, <1>5, <1>6, <1>7

\* The service sends.
LEMMA ServiceKeeps ==
  ASSUME StartInv, ServiceStep
  PROVE  StartInv'
  <1> USE DEF StartInv
  <1>1. UNCHANGED <<starts, pending, answers, engine, asked, dialogs, asking, granted>>
    BY DEF ServiceStep, ServiceStarts, ServiceStops, ServiceTells, ServiceExpires, ServiceTicks,
           startVars, streamVars, grantVars
  <1>2. PICK s \in States : Send(s) /\ state' \in States
    <2>1. Ends \subseteq States /\ {"CONNECTING", "CONNECTED", "AUTO_DISCONNECTED"} \subseteq States
      BY StartAssumption DEF States
    <2>2. CASE ServiceStarts \/ ServiceExpires
      BY <2>1, <2>2 DEF ServiceStarts, ServiceExpires
    <2>3. CASE ServiceStops
      BY <2>1, <2>3 DEF ServiceStops
    <2>4. CASE ServiceTells
      BY <2>1, <2>4 DEF ServiceTells
    <2>5. CASE ServiceTicks
      BY <2>1, <2>5 DEF ServiceTicks, TypeOK, serviceVars
    <2> QED BY <2>2, <2>3, <2>4, <2>5 DEF ServiceStep
  <1>3. news' \in Seq(Broadcasts) /\ NewsInv'
    BY <1>2, SendKeeps
  <1>4. TypeOK'
    BY <1>1, <1>2, <1>3 DEF TypeOK
  <1>5. AnswersInv' /\ GrantInv'
    BY <1>1 DEF AnswersInv, GrantInv
  <1> QED BY <1>3, <1>4, <1>5

\* The dialogs.
LEMMA DialogsKeep ==
  ASSUME StartInv, RequestPermission \/ OnActivityResult
  PROVE  StartInv'
  <1> USE DEF StartInv
  <1>1. UNCHANGED <<starts, pending, answers, engine, news, fresh, state>>
    BY DEF RequestPermission, OnActivityResult, startVars, streamVars, newsVars, serviceVars
  <1>2. AnswersInv' /\ NewsInv'
    BY <1>1 DEF AnswersInv, NewsInv
  <1>3. CASE RequestPermission
    <2>1. /\ asked' = asked + 1 /\ asking' = asked' /\ dialogs' = dialogs + 1 /\ granted' = granted
          /\ asked \in Nat /\ dialogs \in Nat /\ granted \in Seq(Nat)
      BY <1>3 DEF RequestPermission, TypeOK
    <2>2. TypeOK'
      BY <1>1, <2>1 DEF TypeOK
    <2>3. GrantInv'
      <3>1. \A i \in DOMAIN granted : granted[i] \in Nat /\ granted[i] <= asked
        BY <2>1, ElementOfSeq, LenProperties DEF GrantInv
      <3>2. \A i \in DOMAIN granted' : granted'[i] <= asked' /\ granted'[i] # asked'
        BY <2>1, <3>1
      <3>3. asking' = asked' /\ asked' > 0 /\ dialogs' > 0 /\ asking' # None
        BY <2>1, StartAssumption
      <3>4. \A i, j \in DOMAIN granted' : granted'[i] = granted'[j] => i = j
        BY <2>1 DEF GrantInv
      <3> QED BY <3>2, <3>3, <3>4 DEF GrantInv
    <2> QED BY <1>2, <2>2, <2>3
  <1>4. CASE OnActivityResult
    <2>1. /\ dialogs' = dialogs - 1 /\ dialogs > 0 /\ asking' = None /\ asked' = asked
          /\ asked \in Nat /\ dialogs \in Nat /\ granted \in Seq(Nat)
      BY <1>4 DEF OnActivityResult, TypeOK
    <2>2. CASE asking = None
      <3>1. granted' = granted
        BY <1>4, <2>2 DEF OnActivityResult
      <3>2. TypeOK' /\ GrantInv'
        BY <1>1, <2>1, <2>2, <3>1 DEF TypeOK, GrantInv
      <3> QED BY <1>2, <3>2
    <2>3. CASE asking # None
      <3> DEFINE n == Len(granted) + 1
      <3>1. granted' = Append(granted, asking) /\ asking = asked /\ asking \in Nat
        BY <1>4, <2>3 DEF OnActivityResult, GrantInv, TypeOK
      <3>2. /\ granted' \in Seq(Nat) /\ DOMAIN granted' = 1 .. n /\ DOMAIN granted = 1 .. Len(granted)
            /\ Len(granted) \in Nat /\ granted'[n] = asked
            /\ \A i \in 1 .. Len(granted) : granted'[i] = granted[i]
        BY <2>1, <3>1, AppendProperties, LenProperties
      <3>3. TypeOK'
        BY <1>1, <2>1, <3>2 DEF TypeOK
      <3>4. GrantInv'
        <4>1. \A i \in 1 .. Len(granted) : granted[i] <= asked /\ granted[i] # asked
          BY <2>3, <3>2 DEF GrantInv
        <4>2. \A i \in DOMAIN granted' : granted'[i] <= asked'
          BY <2>1, <3>2, <4>1
        <4>3. \A i, j \in DOMAIN granted' : granted'[i] = granted'[j] => i = j
          <5> SUFFICES ASSUME NEW i \in 1 .. n, NEW j \in 1 .. n, granted'[i] = granted'[j]
                       PROVE  i = j
            BY <3>2
          <5>1. CASE i = n \/ j = n
            BY <3>2, <4>1, <5>1
          <5>2. CASE i # n /\ j # n
            <6>1. i \in 1 .. Len(granted) /\ j \in 1 .. Len(granted)
              BY <3>2, <5>2
            <6> QED BY <3>2, <6>1 DEF GrantInv
          <5> QED BY <5>1, <5>2
        <4>4. n \in DOMAIN granted' /\ granted'[n] = asked'
          BY <2>1, <3>2
        <4> QED BY <2>1, <4>2, <4>3, <4>4 DEF GrantInv
      <3> QED BY <1>2, <3>3, <3>4
    <2> QED BY <2>2, <2>3
  <1> QED BY <1>3, <1>4

LEMMA StartNext == StartInv /\ [Next]_vars => StartInv'
  <1> SUFFICES ASSUME StartInv, [Next]_vars PROVE StartInv'
    OBVIOUS
  <1>1. CASE OnListen \/ AttachActivity \/ CancelAutoDisconnect \/ UNCHANGED vars
    <2>1. UNCHANGED <<starts, pending, answers, engine, asked, dialogs, asking, granted, news,
                      fresh, state>>
      BY <1>1 DEF OnListen, AttachActivity, CancelAutoDisconnect, vars, startVars, streamVars,
                  grantVars, serviceVars, newsVars
    <2> QED BY <2>1 DEF StartInv, TypeOK, AnswersInv, GrantInv, NewsInv
  <1> QED BY <1>1, CallsKeep, CompletionKeeps, StreamKeeps, ServiceKeeps, DialogsKeep
          DEF Next, AppStep

-----------------------------------------------------------------------------
(* The theorems.                                                           *)

\* The invariant, in every reachable state.
THEOREM StartInvariant == Spec => []StartInv
  BY StartInit, StartNext, PTL DEF Spec

\* startVless and requestPermission: every call that is not pending any more was answered
\* once, a pending one never, and no dialog's result answers a call twice.
THEOREM AnsweredOnce == Spec => []OneAnswer
  <1>1. StartInv => OneAnswer
    <2> SUFFICES ASSUME StartInv PROVE OneAnswer
      OBVIOUS
    <2>1. \A c \in 1 .. starts : c \in Calls /\ c \in Nat
      BY StartAssumption DEF StartInv, TypeOK, Calls
    <2>2. ASSUME NEW c \in 1 .. starts
          PROVE  /\ Len(answers[c]) <= 1
                 /\ engine => (answers[c] = <<>>) = (pending = c)
      BY <2>1, <2>2 DEF StartInv, AnswersInv, TypeOK
    <2>3. dialogs = 0 => asking = None
      BY DEF StartInv, GrantInv
    <2> QED BY <2>2, <2>3 DEF StartInv, GrantInv, OneAnswer
  <1> QED BY <1>1, StartInvariant, PTL

\* The start monitor: only a CONNECTED that was broadcast after the call makes it a success.
THEOREM SuccessOnlyFresh == Spec => SuccessIsFresh
  <1>1. ASSUME StartInv, [Next]_vars, NEW c \in Calls, answers'[c] # answers[c],
               answers'[c] = <<"success">>
        PROVE  fresh
    <2> USE DEF StartInv
    <2>1. ASSUME NEW d, answers' = [answers EXCEPT ![d] = Append(@, "error")]
          PROVE  FALSE
      <3>1. d = c /\ answers[c] \in Seq(Answers)
        BY <1>1, <2>1 DEF TypeOK
      <3>2. answers'[c] = Append(answers[c], "error")
        BY <1>1, <2>1, <3>1 DEF TypeOK
      <3>3. Len(answers'[c]) = Len(answers[c]) + 1 /\ answers'[c][Len(answers[c]) + 1] = "error"
        BY <3>1, <3>2, AppendProperties
      <3>4. Len(answers[c]) = 0
        BY <1>1, <3>1, <3>3, LenProperties
      <3> QED BY <1>1, <3>3, <3>4
    <2>2. answers' # answers
      BY <1>1
    <2>3. CASE Deliver
      <3>1. CASE "monitor" \in Head(news).to /\ Head(news).state = "CONNECTED"
        <4>1. news # <<>> /\ news \in Seq(Broadcasts)
          BY <1>1, <2>3 DEF Deliver, TypeOK
        <4>2. 1 \in DOMAIN news /\ Head(news) = news[1]
          BY <4>1, HeadTailProperties, LenProperties, EmptySeq
        <4> QED BY <1>1, <3>1, <4>2 DEF NewsInv
      <3>2. CASE ~("monitor" \in Head(news).to /\ Head(news).state = "CONNECTED")
        <4>1. Complete("error", Tail(news))
          BY <2>2, <2>3, <3>2 DEF Deliver, AnswerTo
        <4> QED BY <2>1, <2>2, <4>1 DEF Complete
      <3> QED BY <3>1, <3>2
    <2>4. CASE StopVless \/ StartTimeout
      BY <2>1, <2>2, <2>4 DEF StopVless, StartTimeout, Complete
    <2>5. CASE StartVless \/ StartThrows
      BY <2>1, <2>2, <2>5 DEF StartVless, StartThrows, BeginStart
    <2>6. CASE ServiceStep
      BY <2>2, <2>6 DEF ServiceStep, ServiceStarts, ServiceStops, ServiceTells, ServiceExpires,
                        ServiceTicks, startVars
    <2>7. CASE \/ OnListen \/ OnCancel \/ AttachActivity \/ DetachActivity \/ ConfigChange
               \/ DetachEngine \/ RequestPermission \/ OnActivityResult
               \/ CancelAutoDisconnect \/ UNCHANGED vars
      BY <2>2, <2>7 DEF OnListen, OnCancel, AttachActivity, DetachActivity, ConfigChange,
                        DetachEngine, RequestPermission, OnActivityResult, CancelAutoDisconnect,
                        vars, startVars
    <2> QED BY <1>1, <2>3, <2>4, <2>5, <2>6, <2>7 DEF Next, AppStep
  <1>2. StartInv /\ [Next]_vars
          => [\A c \in Calls : answers'[c] # answers[c] /\ answers'[c] = <<"success">> => fresh]_vars
    BY <1>1
  <1> QED BY <1>2, StartInvariant, PTL DEF Spec, SuccessIsFresh

=============================================================================
