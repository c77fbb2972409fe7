----------------------------- MODULE AndroidStart -----------------------------
(***************************************************************************)
(* DartV2rayPlugin.kt, in the app's process: method calls, broadcasts,     *)
(* timers and lifecycle callbacks, all on the main thread and one after    *)
(* another.                                                                *)
(*                                                                         *)
(* The service is another process (AndroidService): here it takes the      *)
(* Intents in the order sent and, between them, may broadcast any state at *)
(* any time or none at all, whatever it does inside.  A broadcast goes to  *)
(* the receivers registered when it is sent, and arrives at those that     *)
(* are still registered then.                                              *)
(***************************************************************************)
EXTENDS Integers, Sequences, FiniteSets

CONSTANTS
  None,        \* null
  MaxStarts,   \* bound: startVless calls
  MaxStops,    \* bound: stopVless calls
  MaxNews,     \* bound: broadcasts under way
  MaxDialogs,  \* bound: requestPermission calls that ask the user
  MaxMoves,    \* bound: changes of the activity
  Ends         \* bound: the terminal states the service tells besides AUTO_DISCONNECTED

ASSUME StartAssumption ==
  /\ {MaxStarts, MaxStops, MaxNews, MaxDialogs, MaxMoves} \subseteq Nat
  /\ Ends \subseteq {"DISCONNECTED", "ERROR"}
  /\ None \notin Nat

Calls == 1 .. MaxStarts

VARIABLES
  pending,    \* pendingStartResult, as the number of its call
  monitor,    \* startMonitorReceiver is registered
  timeout,    \* startTimeoutRunnable is posted
  starts,     \* startVless calls so far
  answers,    \* per call: the answers given to it, "success" or an error of any code
  stops,      \* stopVless calls so far
  engine,     \* the plugin is attached to its engine
  activity,   \* an activity is attached
  sink,       \* vpnStatusSink
  receiver,   \* xrayReceiver is registered
  shown,      \* the state in the last event to the sink, None if it has had none
  dialogs,    \* permission dialogs that are open
  asked,      \* requestPermission calls that asked the user, so far
  asking,     \* pendingResult, as the number of its call
  granted,    \* the requestPermission calls that were answered
  moves,      \* changes of the activity so far
  counting,   \* autoDisconnectEnabled, in this process
  intents,    \* Intents on their way to the service
  state,      \* what the service broadcasts now
  limited,    \* autoDisconnectEnabled, in the service's process
  news,       \* broadcasts under way: the state, and which receivers they go to
  fresh,      \* history: CONNECTED was broadcast since the pending start's call
  cancelled   \* history: cancelAutoDisconnect returned, for the session that is up

startVars    == <<pending, monitor, timeout, starts, answers, stops>>
streamVars   == <<engine, activity, sink, receiver, shown, moves>>
grantVars    == <<dialogs, asked, asking, granted>>
serviceVars  == <<intents, state, limited>>
countVars    == <<counting, cancelled>>
newsVars     == <<news, fresh>>
vars == <<startVars, streamVars, grantVars, serviceVars, countVars, newsVars>>

-----------------------------------------------------------------------------
(* The start call.                                                         *)

\* What is under way to a receiver that is unregistered does not get there.  (Broadcasts that
\* go to nobody any more are left in the queue while another does.)
Dropped(kind, queue) ==
  LET left == [i \in DOMAIN queue |-> [queue[i] EXCEPT !.to = @ \ {kind}]]
  IN  IF \A i \in DOMAIN left : left[i].to = {} THEN <<>> ELSE left

\* completeStartSuccess and completeStartWithError, given what is left of the news.
Complete(answer, rest) ==
  IF pending = None
  THEN UNCHANGED <<pending, monitor, timeout, answers>> /\ news' = rest
  ELSE /\ answers' = [answers EXCEPT ![pending] = Append(@, answer)]
       /\ pending' = None
       /\ monitor' = FALSE /\ timeout' = FALSE
       /\ news' = Dropped("monitor", rest)

\* beginStartMonitoring and the START Intent.
BeginStart ==
  /\ pending' = starts' /\ monitor' = TRUE /\ timeout' = TRUE
  /\ intents' = Append(intents, "START")
  /\ news' = Dropped("monitor", news) /\ fresh' = FALSE
  /\ cancelled' = FALSE
  /\ UNCHANGED answers

\* Faulty variant: a start may replace one that is pending.
StartVlessAgain ==
  /\ engine /\ starts < MaxStarts
  /\ starts' = starts + 1
  /\ BeginStart
  /\ UNCHANGED <<stops, streamVars, grantVars, state, limited, counting>>

\* Faulty variant: only the monitor ends the wait.
StartVlessUntimed ==
  /\ engine /\ starts < MaxStarts /\ pending = None
  /\ starts' = starts + 1
  /\ pending' = starts' /\ monitor' = TRUE
  /\ intents' = Append(intents, "START")
  /\ news' = Dropped("monitor", news) /\ fresh' = FALSE
  /\ cancelled' = FALSE
  /\ UNCHANGED <<timeout, answers, stops, streamVars, grantVars, state, limited, counting>>

\* startVless, BUSY while another start is pending.
StartVless ==
  /\ engine /\ starts < MaxStarts
  /\ starts' = starts + 1
  /\ IF pending = None
     THEN BeginStart
     ELSE /\ answers' = [answers EXCEPT ![starts'] = Append(@, "error")]
          /\ UNCHANGED <<pending, monitor, timeout, intents, newsVars, cancelled>>
  /\ UNCHANGED <<stops, streamVars, grantVars, state, limited, counting>>

\* startForegroundService threw (or the config is missing): answered at once.
StartThrows ==
  /\ engine /\ starts < MaxStarts /\ pending = None
  /\ starts' = starts + 1
  /\ answers' = [answers EXCEPT ![starts'] = Append(@, "error")]
  /\ UNCHANGED <<pending, monitor, timeout, stops, streamVars, grantVars, serviceVars,
                 countVars, newsVars>>

\* stopVless: a pending start is cancelled first.  If the STOP_SERVICE Intent is refused,
\* stopService does the same to a service there is.
StopVless ==
  /\ engine /\ stops < MaxStops
  /\ stops' = stops + 1
  /\ Complete("error", news)
  /\ intents' \in {intents, Append(intents, "STOP")}
  /\ UNCHANGED <<starts, streamVars, grantVars, state, limited, countVars, fresh>>

StartTimeout ==
  /\ timeout
  /\ Complete("error", news)
  /\ UNCHANGED <<starts, stops, streamVars, grantVars, serviceVars, countVars, fresh>>

\* The monitor's answer to a broadcast.
AnswerTo(s) == IF s = "CONNECTED" THEN "success" ELSE "error"

\* Faulty variant: what comes is what the receivers of now get, whenever it was sent.
DeliverToAll ==
  /\ news # <<>>
  /\ LET s == Head(news).state
     IN /\ shown' = IF sink THEN s ELSE shown
        /\ IF monitor /\ s # "CONNECTING"
           THEN Complete(AnswerTo(s), Tail(news))
           ELSE news' = Tail(news) /\ UNCHANGED <<pending, monitor, timeout, answers>>
  /\ UNCHANGED <<starts, stops, engine, activity, sink, receiver, moves, grantVars,
                 serviceVars, countVars, fresh>>

\* A broadcast arrives: an event for the sink; CONNECTED and the terminal states complete
\* the pending start, whosever they are.
Deliver ==
  /\ news # <<>>
  /\ LET b == Head(news)
     IN /\ shown' = IF "sink" \in b.to /\ sink THEN b.state ELSE shown
        /\ IF "monitor" \in b.to /\ b.state # "CONNECTING"
           THEN Complete(AnswerTo(b.state), Tail(news))
           ELSE news' = Tail(news) /\ UNCHANGED <<pending, monitor, timeout, answers>>
  /\ UNCHANGED <<starts, stops, engine, activity, sink, receiver, moves, grantVars,
                 serviceVars, countVars, fresh>>

-----------------------------------------------------------------------------
(* The status stream and the activity.                                     *)

\* onListen: registerReceiver does nothing without an activity; the snapshot is of this
\* process, in which V2RAY_STATE is never anything but DISCONNECTED.
OnListen ==
  /\ engine /\ ~sink
  /\ sink' = TRUE
  /\ receiver' = activity
  /\ shown' = "DISCONNECTED"
  /\ UNCHANGED <<startVars, engine, activity, moves, grantVars, serviceVars, countVars, newsVars>>

OnCancel ==
  /\ sink
  /\ sink' = FALSE /\ shown' = None
  /\ receiver' = (receiver /\ ~activity)
  /\ news' = IF activity THEN Dropped("sink", news) ELSE news
  /\ UNCHANGED <<startVars, engine, activity, moves, grantVars, serviceVars, countVars, fresh>>

\* Faulty variant: the receiver is left to the next listener.
AttachActivityUnheard ==
  /\ engine /\ ~activity /\ moves < MaxMoves
  /\ activity' = TRUE /\ moves' = moves + 1
  /\ UNCHANGED <<startVars, engine, sink, receiver, shown, grantVars, serviceVars, countVars, newsVars>>

\* onAttachedToActivity: a listener that came before the activity is registered now.
AttachActivity ==
  /\ engine /\ ~activity /\ moves < MaxMoves
  /\ activity' = TRUE /\ moves' = moves + 1
  /\ receiver' = sink
  /\ UNCHANGED <<startVars, engine, sink, shown, grantVars, serviceVars, countVars, newsVars>>

DetachActivity ==
  /\ activity /\ moves < MaxMoves
  /\ activity' = FALSE /\ moves' = moves + 1
  /\ receiver' = FALSE
  /\ news' = Dropped("sink", news)
  /\ UNCHANGED <<startVars, engine, sink, shown, grantVars, serviceVars, countVars, fresh>>

\* A new activity in place of the old one, with which its receivers go: what is under way
\* to them is lost, and a listener's is registered again.
ConfigChange ==
  /\ activity /\ moves < MaxMoves
  /\ moves' = moves + 1
  /\ receiver' = sink
  /\ news' = Dropped("sink", news)
  /\ UNCHANGED <<startVars, engine, activity, sink, shown, grantVars, serviceVars, countVars,
                 fresh>>

\* onDetachedFromEngine, after the activity and the listener are gone: a pending start is
\* forgotten, like the Dart side that awaits it.
DetachEngine ==
  /\ engine /\ ~activity /\ ~sink
  /\ engine' = FALSE
  /\ pending' = None /\ monitor' = FALSE /\ timeout' = FALSE
  /\ news' = Dropped("monitor", news)
  /\ UNCHANGED <<starts, answers, stops, activity, sink, receiver, shown, moves, grantVars,
                 serviceVars, countVars, fresh>>

-----------------------------------------------------------------------------
(* Permission.                                                             *)

\* requestPermission while the user has not granted it: a dialog for the activity.
RequestPermission ==
  /\ engine /\ activity /\ asked < MaxDialogs
  /\ asked' = asked + 1
  /\ asking' = asked'
  /\ dialogs' = dialogs + 1
  /\ UNCHANGED <<startVars, streamVars, granted, serviceVars, countVars, newsVars>>

\* onActivityResult: whichever dialog it is, the call on record gets its answer.
OnActivityResult ==
  /\ engine /\ activity /\ dialogs > 0
  /\ dialogs' = dialogs - 1
  /\ granted' = IF asking = None THEN granted ELSE Append(granted, asking)
  /\ asking' = None
  /\ UNCHANGED <<startVars, streamVars, asked, serviceVars, countVars, newsVars>>

-----------------------------------------------------------------------------
(* Auto-disconnect.                                                        *)

\* cancelAutoDisconnect: XrayCoreManager's fields of this process.
CancelAutoDisconnect ==
  /\ engine
  /\ counting' = FALSE
  /\ cancelled' = (limited /\ state = "CONNECTED" /\ intents = <<>>)
  /\ UNCHANGED <<startVars, streamVars, grantVars, serviceVars, newsVars>>

-----------------------------------------------------------------------------
(* The service.                                                            *)

Receivers ==
  {r \in {"monitor", "sink"} : IF r = "monitor" THEN monitor ELSE receiver}

Send(s) ==
  /\ news' = IF Receivers = {} THEN news ELSE Append(news, [state |-> s, to |-> Receivers])
  /\ fresh' = (fresh \/ (monitor /\ s = "CONNECTED"))

\* A START: CONNECTING.
ServiceStarts ==
  /\ intents # <<>> /\ Head(intents) = "START" /\ Len(news) < MaxNews
  /\ intents' = Tail(intents)
  /\ state' = "CONNECTING" /\ Send("CONNECTING")
  /\ UNCHANGED <<startVars, streamVars, grantVars, limited, countVars>>

\* A STOP: a terminal state.
ServiceStops ==
  /\ intents # <<>> /\ Head(intents) = "STOP" /\ Len(news) < MaxNews
  /\ intents' = Tail(intents)
  /\ \E s \in Ends : state' = s /\ Send(s)
  /\ limited' = FALSE
  /\ UNCHANGED <<startVars, streamVars, grantVars, countVars>>

\* Any other news: it is connected, with a countdown or without one, or it has failed.
ServiceTells ==
  /\ Len(news) < MaxNews
  /\ \E s \in (Ends \cup {"CONNECTING", "CONNECTED"}) \ {state} : state' = s /\ Send(s)
  /\ limited' \in (IF state' = "CONNECTED" THEN BOOLEAN
                    ELSE {limited /\ state' = "CONNECTING"})
  /\ UNCHANGED <<startVars, streamVars, grantVars, intents, countVars>>

\* The countdown ends.
ServiceExpires ==
  /\ limited /\ Len(news) < MaxNews
  /\ intents = <<>>    \* bound: nothing else is on its way
  /\ state' = "AUTO_DISCONNECTED" /\ Send("AUTO_DISCONNECTED")
  /\ limited' = FALSE
  /\ intents' = Append(intents, "STOP")
  /\ UNCHANGED <<startVars, streamVars, grantVars, countVars>>

\* A broadcast again of what it has told: the tick of a connected session.
ServiceTicks ==
  /\ state = "CONNECTED" /\ Len(news) < MaxNews
  /\ Send(state)
  /\ UNCHANGED <<startVars, streamVars, grantVars, serviceVars, countVars>>

-----------------------------------------------------------------------------
Init ==
  /\ pending = None /\ monitor = FALSE /\ timeout = FALSE /\ starts = 0 /\ stops = 0
  /\ answers = [c \in Calls |-> <<>>]
  /\ engine = TRUE /\ activity = FALSE /\ sink = FALSE /\ receiver = FALSE /\ shown = None /\ moves = 0
  /\ dialogs = 0 /\ asked = 0 /\ asking = None /\ granted = <<>>
  /\ counting = FALSE /\ cancelled = FALSE
  /\ intents = <<>> /\ state = "DISCONNECTED" /\ limited = FALSE /\ news = <<>> /\ fresh = FALSE

AppStep ==
  \/ StartVless \/ StartThrows \/ StopVless \/ StartTimeout \/ Deliver
  \/ OnListen \/ OnCancel \/ AttachActivity \/ DetachActivity \/ ConfigChange \/ DetachEngine
  \/ RequestPermission \/ OnActivityResult
  \/ CancelAutoDisconnect

ServiceStep ==
  \/ ServiceStarts \/ ServiceStops \/ ServiceTells \/ ServiceExpires \/ ServiceTicks

Next == AppStep \/ ServiceStep

Spec == Init /\ [][Next]_vars

\* The main thread runs its timeouts and takes its broadcasts, and a connected service
\* ticks; neither the app nor the user nor any other Intent owes anything.
Fairness == WF_vars(StartTimeout) /\ WF_vars(Deliver) /\ WF_vars(ServiceTicks)

FairSpec == Spec /\ Fairness

-----------------------------------------------------------------------------
(* Properties.                                                             *)

\* Whatever the service broadcasts and whoever else calls, a startVless has been answered
\* exactly once when it is no longer the pending one, and never before; and however many
\* dialogs overlap, no requestPermission is answered twice, and the last has its answer when
\* all are closed.  A second answer throws, a missing one leaves the caller waiting.
OneAnswer ==
  /\ \A c \in 1 .. starts :
       /\ Len(answers[c]) <= 1
       /\ engine => (answers[c] = <<>>) = (pending = c)
  /\ \A i, j \in DOMAIN granted : granted[i] = granted[j] => i = j
  /\ dialogs = 0 /\ asked > 0 => \E i \in DOMAIN granted : granted[i] = asked

\* A start is reported up only on a CONNECTED the service sent after the call, not on what
\* was still under way from before.
SuccessIsFresh ==
  [][\A c \in Calls : answers'[c] # answers[c] /\ answers'[c] = <<"success">>
                        => fresh]_vars

\* A start does not stay pending, even if the service never says a word.
StartAnswered == \A c \in Calls : pending = c ~> pending # c

\* A listener of a session that stays connected gets to know, although its snapshot says
\* DISCONNECTED, whether it came before or after the activity.
Watching       == sink /\ activity /\ state = "CONNECTED"
ListenerHears  == Watching ~> (shown = "CONNECTED" \/ ~Watching)

-----------------------------------------------------------------------------
(* What the repository says, and the code does not do.                     *)

\* "Cancels auto-disconnect - VPN stays connected indefinitely."
\* (XrayCoreManager.kt:594)
CancelHolds == [][cancelled /\ limited => state' # "AUTO_DISCONNECTED"]_state
=============================================================================
