--------------------------- MODULE PersistentStatus ---------------------------
(***************************************************************************)
(* PersistentStatusController (lib/src/core/status) and what is under it:  *)
(* the event channel, the Windows fallback, which polls the diagnostics,   *)
(* and the native side.                                                    *)
(*                                                                         *)
(* Dart runs one callback at a time; an await lets others in.  Messages to *)
(* the native side, and back from it, keep their order.  The channel has   *)
(* one handler: a stream that is listened to takes it over, and one that   *)
(* is cancelled removes it, whoever else listens.  An event without a      *)
(* handler is kept, one at most, for the next.                             *)
(***************************************************************************)
EXTENDS Integers, Sequences, FiniteSets

CONSTANTS
  None,       \* null
  Ui,         \* a subscription of the app's own to onStatusChanged
  Statuses,   \* what the native side may send: [state, phase, running, total]
  MaxStarts,  \* bound: streams of the controller
  MaxStops,   \* bound: stop() and dispose() calls
  MaxUi,      \* bound: times the app subscribes to onStatusChanged itself
  MaxEvents,  \* bound: messages on their way to Dart
  MaxFails    \* bound: diagnostics calls that fail

ASSUME StatusAssumption ==
  /\ {MaxStarts, MaxStops, MaxUi, MaxEvents, MaxFails} \subseteq Nat
  /\ Ui \notin Nat /\ None \notin Nat \cup {Ui} \cup Statuses

VARIABLES
  sub,       \* _nativeStatusSubscription, as the number of its stream
  streams,   \* streams of the controller so far
  open,      \* that subscription is not cancelled
  timer,     \* _windowsStatusFallbackTimer is set
  inFlight,  \* _windowsStatusFallbackPollInFlight
  lastAt,    \* _lastNativeStatusAt: null, within six seconds, or older
  latest,    \* _latestStatus
  closed,    \* _statusController is closed
  awaiting,  \* the stop() and dispose() calls that await the cancel
  stops,     \* stop() and dispose() calls so far
  handler,   \* the subscription whose handler is on the channel
  buffer,    \* the event that came without one
  ui,        \* times the app has subscribed itself
  uiOpen,    \* that subscription is open
  calls,     \* messages to the native side
  sink,      \* the native side has a listener
  native,    \* the status there is
  events,    \* messages from the native side
  fails,     \* diagnostics calls that have failed
  asked,     \* history: the last of start() and stop() to be called
  overlap    \* history: a call came while a stop() awaited the cancel

dartVars    == <<sub, streams, open, timer, inFlight, lastAt, latest, closed, awaiting, stops>>
channelVars == <<handler, buffer, ui, uiOpen, calls, events>>
nativeVars  == <<sink, native, fails>>
vars == <<dartVars, channelVars, nativeVars, asked, overlap>>

-----------------------------------------------------------------------------
(* Statuses.                                                               *)

\* VpnStatus.resolveState, of the states and phases the native sides send.
ResolveState(state, phase) ==
  IF "ERROR" \in {state, phase} THEN "ERROR"
  ELSE IF "AUTO_DISCONNECTED" \in {state, phase} THEN "AUTO_DISCONNECTED"
  ELSE IF state = "CONNECTED" /\ phase \in {"VERIFYING", "CONNECTING"} THEN "CONNECTING"
  ELSE state

\* StatusEventParser.parse and WindowsStatusFallbackMapper.fromDiagnostics.
Parsed(s) == [state |-> ResolveState(s.state, s.phase), running |-> s.running, total |-> s.total]

-----------------------------------------------------------------------------
(* The channel.                                                            *)

\* A stream is listened to: its handler replaces the one there is, and gets what was kept.
Listen(who) ==
  /\ handler' = who
  /\ calls' = Append(calls, "listen")
  /\ buffer' = None
  /\ events' = IF buffer = None THEN events
               ELSE <<[kind |-> "event", status |-> buffer]>> \o events

\* A stream loses its only listener: no handler is left on the channel.
Cancel ==
  /\ handler' = None
  /\ calls' = Append(calls, "cancel")
  /\ UNCHANGED <<buffer, events>>

-----------------------------------------------------------------------------
(* The controller.                                                         *)

\* start(), and the getter stream: nothing while there is a subscription.
Start ==
  /\ streams < MaxStarts
  /\ asked' = "start" /\ overlap' = (overlap \/ awaiting # <<>>)
  /\ IF sub # None \/ closed
     THEN UNCHANGED <<dartVars, channelVars>>
     ELSE /\ streams' = streams + 1
          /\ sub' = streams' /\ open' = TRUE
          /\ lastAt' = "null"
          /\ timer' = TRUE
          /\ Listen(streams')
          /\ UNCHANGED <<inFlight, latest, closed, awaiting, stops, ui, uiOpen>>
  /\ UNCHANGED nativeVars

\* Faulty variant: the subscription is dropped without a cancel.
StopUncancelled(kind) ==
  /\ stops < MaxStops
  /\ stops' = stops + 1
  /\ asked' = "stop" /\ overlap' = (overlap \/ awaiting # <<>>)
  /\ timer' = FALSE /\ inFlight' = FALSE
  /\ awaiting' = Append(awaiting, kind)
  /\ open' = FALSE
  /\ UNCHANGED <<sub, streams, lastAt, latest, closed, channelVars, nativeVars>>

\* stop() and dispose() up to the await: the timer, the flag under a poll that may still
\* run, and the cancel.
Stop(kind) ==
  /\ stops < MaxStops
  /\ stops' = stops + 1
  /\ asked' = "stop" /\ overlap' = (overlap \/ awaiting # <<>>)
  /\ timer' = FALSE /\ inFlight' = FALSE
  /\ awaiting' = Append(awaiting, kind)
  /\ open' = FALSE
  /\ IF open THEN Cancel ELSE UNCHANGED <<handler, buffer, calls, events>>
  /\ UNCHANGED <<sub, streams, lastAt, latest, closed, ui, uiOpen, nativeVars>>

\* After it: whatever subscription there is by now is forgotten.
Stopped ==
  /\ awaiting # <<>>
  /\ awaiting' = Tail(awaiting)
  /\ sub' = None /\ open' = FALSE
  /\ lastAt' = "null"
  /\ closed' = (closed \/ Head(awaiting) = "dispose")
  /\ UNCHANGED <<streams, timer, inFlight, latest, stops, channelVars, nativeVars, asked,
                 overlap>>

\* Faulty variant: polls do not look at the flag.
PollUnguarded ==
  /\ timer /\ sub # None /\ ~closed /\ Len(calls) < MaxEvents
  /\ inFlight' = TRUE
  /\ calls' = Append(calls, "diagnostics")
  /\ UNCHANGED <<sub, streams, open, timer, lastAt, latest, closed, awaiting, stops, handler,
                 buffer, ui, uiOpen, events, nativeVars, asked, overlap>>

\* The timer's callback, every three seconds, up to its await.
Poll ==
  /\ timer /\ sub # None /\ ~closed /\ ~inFlight
  /\ inFlight' = TRUE
  /\ calls' = Append(calls, "diagnostics")
  /\ UNCHANGED <<sub, streams, open, timer, lastAt, latest, closed, awaiting, stops, handler,
                 buffer, ui, uiOpen, events, nativeVars, asked, overlap>>

Received(kind) == events # <<>> /\ Head(events).kind = kind

\* An answer is shown if it is news, and the stream looks stale or the state differs.
Shown(answer) ==
  /\ answer # latest
  /\ \/ lastAt # "recent"
     \/ answer.state # latest.state
     \/ answer.running # latest.running

\* Faulty variant: an answer that is not shown leaves the flag.
PolledFlagged ==
  /\ Received("reply")
  /\ events' = Tail(events)
  /\ LET answer == Parsed(Head(events).status)
     IN /\ latest' = IF Shown(answer) THEN answer ELSE latest
        /\ inFlight' = (inFlight /\ ~Shown(answer))
  /\ UNCHANGED <<sub, streams, open, timer, lastAt, closed, awaiting, stops, handler, buffer, ui,
                 uiOpen, calls, nativeVars, asked, overlap>>

\* After its await: there is no look at whether there still is a subscription; the flag is
\* cleared in any case.
Polled ==
  /\ Received("reply")
  /\ events' = Tail(events)
  /\ LET answer == Parsed(Head(events).status)
     IN latest' = IF Shown(answer) THEN answer ELSE latest
  /\ inFlight' = FALSE
  /\ UNCHANGED <<sub, streams, open, timer, lastAt, closed, awaiting, stops, handler, buffer, ui,
                 uiOpen, calls, nativeVars, asked, overlap>>

\* The diagnostics call failed: only the flag.
PollFailed ==
  /\ Received("failure")
  /\ events' = Tail(events)
  /\ inFlight' = FALSE
  /\ UNCHANGED <<sub, streams, open, timer, lastAt, latest, closed, awaiting, stops, handler,
                 buffer, ui, uiOpen, calls, nativeVars, asked, overlap>>

\* An event: to the controller's listener, to the app's own, or kept.
OnEvent ==
  /\ Received("event")
  /\ events' = Tail(events)
  /\ IF handler \in Nat
     THEN latest' = Parsed(Head(events).status) /\ lastAt' = "recent"
     ELSE UNCHANGED <<latest, lastAt>>
  /\ buffer' = IF handler = None THEN Head(events).status ELSE buffer
  /\ UNCHANGED <<sub, streams, open, timer, inFlight, closed, awaiting, stops, handler, ui,
                 uiOpen, calls, nativeVars, asked, overlap>>

\* Six seconds without an event.
Age ==
  /\ lastAt = "recent"
  /\ lastAt' = "old"
  /\ UNCHANGED <<sub, streams, open, timer, inFlight, latest, closed, awaiting, stops,
                 channelVars, nativeVars, asked, overlap>>

-----------------------------------------------------------------------------
(* The app beside the controller.                                          *)

UiListens ==
  /\ ui < MaxUi /\ ~uiOpen
  /\ ui' = ui + 1 /\ uiOpen' = TRUE
  /\ Listen(Ui)
  /\ UNCHANGED <<dartVars, nativeVars, asked, overlap>>

UiCancels ==
  /\ uiOpen
  /\ uiOpen' = FALSE
  /\ Cancel
  /\ UNCHANGED <<dartVars, ui, nativeVars, asked, overlap>>

-----------------------------------------------------------------------------
(* The native side.                                                        *)

Tell(kind, status) == events' = Append(events, [kind |-> kind, status |-> status])

\* listen answers with a first event, cancel ends them; the diagnostics are answered with
\* what the payload says, or the call fails.
NativeTakes ==
  /\ calls # <<>> /\ Len(events) < MaxEvents
  /\ calls' = Tail(calls)
  /\ CASE Head(calls) = "listen" -> sink' = TRUE /\ Tell("event", native) /\ UNCHANGED fails
       [] Head(calls) = "cancel" -> sink' = FALSE /\ UNCHANGED <<events, fails>>
       [] OTHER -> /\ \/ Tell("reply", native) /\ UNCHANGED fails
                      \/ fails < MaxFails /\ Tell("failure", native) /\ fails' = fails + 1
                   /\ UNCHANGED sink
  /\ UNCHANGED <<dartVars, handler, buffer, ui, uiOpen, native, asked, overlap>>

\* A status event, at a tick.
NativeSends ==
  /\ sink /\ events = <<>>
  /\ Tell("event", native)
  /\ UNCHANGED <<dartVars, handler, buffer, ui, uiOpen, calls, nativeVars, asked, overlap>>

NativeChanges ==
  /\ native' \in Statuses \ {native}
  /\ UNCHANGED <<dartVars, channelVars, sink, fails, asked, overlap>>

-----------------------------------------------------------------------------
Init ==
  /\ sub = None /\ streams = 0 /\ open = FALSE /\ timer = FALSE /\ inFlight = FALSE
  /\ lastAt = "null" /\ latest = [state |-> "DISCONNECTED", running |-> FALSE, total |-> 0] /\ closed = FALSE
  /\ awaiting = <<>> /\ stops = 0
  /\ handler = None /\ buffer = None /\ ui = 0 /\ uiOpen = FALSE
  /\ calls = <<>> /\ events = <<>>
  /\ sink = FALSE /\ native \in Statuses /\ fails = 0
  /\ asked = "stop" /\ overlap = FALSE

Dart == Stopped \/ Polled \/ PollFailed \/ OnEvent

Next ==
  \/ Start \/ \E kind \in {"stop", "dispose"} : Stop(kind)
  \/ Dart \/ Poll \/ Age
  \/ UiListens \/ UiCancels
  \/ NativeTakes \/ NativeSends \/ NativeChanges

Spec == Init /\ [][Next]_vars

\* Dart's queue and timers and the native side's queue go on, and time passes from one event
\* of the controller's to the next; neither app nor tunnel owes anything.  The native side
\* takes its turn however often the bound on messages holds it up.
Fairness ==
  /\ WF_vars(Dart) /\ WF_vars(Poll) /\ SF_vars(NativeTakes)
  /\ WF_vars(Age \/ (OnEvent /\ handler \in Nat))

FairSpec == Spec /\ Fairness

-----------------------------------------------------------------------------
(* Properties.                                                             *)

\* Once a stop() has returned no native event reaches the controller, and the native side
\* is not left with a listener nobody is behind, unless a call came while it waited.
StoppedIsSilent ==
  ~overlap /\ sub = None /\ awaiting = <<>> =>
    /\ handler \in {None, Ui}
    /\ calls = <<>> => sink = (handler = Ui)

\* A slow native side is not flooded: there is one poll under way, and one more for each
\* stop() that cleared the flag under it.
PollsBounded ==
  Cardinality({i \in DOMAIN calls : calls[i] = "diagnostics"})
    + Cardinality({i \in DOMAIN events : events[i].kind # "event"}) <= stops + 1

\* On Windows the controller shows what there is, in the end, even when its events go to
\* the app's own subscription, or were cancelled with that.
Follows(s)  == sub # None /\ timer /\ ~closed /\ native = s
CatchesUp   == \A s \in Statuses : Follows(s) ~> (latest = Parsed(s) \/ ~Follows(s))

-----------------------------------------------------------------------------
(* What the repository says, and the code does not do.                     *)

\* "Starts listening to native status updates." (persistent_status_controller.dart:42)
\* "Starts a persistent status listener that survives UI subscription changes."
\* (dart_v2ray_client.dart:219)
ListensAsAsked ==
  asked = "start" /\ awaiting = <<>> /\ ~closed => sub # None /\ handler = sub
=============================================================================
