----------------------------- MODULE ApplePlugin -----------------------------
(***************************************************************************)
(* The plugin of iOS and macOS after initializeVless: DartV2rayPlugin,     *)
(* which runs on the main queue, PacketTunnelManager, whose tasks run      *)
(* beside it, AutoDisconnectHelper, and the tunnel, which belongs to the   *)
(* system and whose state and expiry come from the network extension.      *)
(*                                                                         *)
(* A change reaches the plugin in two turns of the main queue: the         *)
(* notification, for which PacketTunnelManager has to be subscribed, and   *)
(* objectWillChange, after which the plugin reads what the state is by     *)
(* then.  A manager that is loaded is published before it is set.          *)
(***************************************************************************)
EXTENDS Naturals

CONSTANTS
  MaxCalls,    \* bound: startVless and requestPermission calls
  MaxMoves,    \* bound: changes of the tunnel's state
  MaxListens,  \* bound: listeners of the status stream
  MaxFlight,   \* bound: ticks that await the extension
  Faults       \* what may fail: "save", "load", "start"

ASSUME AppleAssumption ==
  /\ {MaxCalls, MaxMoves, MaxListens, MaxFlight} \subseteq Nat
  /\ Faults \subseteq {"save", "load", "start"}

VARIABLES
  vpn,       \* NEVPNStatus: reasserting as connecting, invalid as disconnected
  stamp,     \* the expiry's timestamp in the UserDefaults
  manager,   \* PacketTunnelManager.manager is set
  subs,      \* cancellables holds the subscriptions
  pc,        \* where the task of init, and that of a call, is
  starting,  \* isStarting
  notes,     \* status notifications on the main queue
  changes,   \* objectWillChange, and other calls of handleStatusChange, on the main queue
  timer,     \* the timer runs
  flight,    \* its ticks that await the extension: all have read CONNECTED
  last,      \* lastStatus
  sink,      \* eventSink is set
  told,      \* the last event the listener has got
  spoiled,   \* history: the listener may have been told wrong, or not at all
  calls, moves, listens

task   == <<manager, subs, pc, starting>>
plugin == <<timer, last, told>>
count  == <<calls, moves, listens>>
vars   == <<vpn, stamp, task, notes, changes, plugin, flight, sink, spoiled, count>>

Emit(status) == told' = IF sink THEN status ELSE told

-----------------------------------------------------------------------------
(* The main queue.                                                         *)

\* The sink of NEVPNStatusDidChange.
Notified ==
  /\ notes > 0
  /\ notes' = notes - 1 /\ changes' = changes + 1
  /\ UNCHANGED <<vpn, stamp, task, plugin, flight, sink, spoiled, count>>

\* The state as the plugin puts it (checkAndHandleDisconnect for the last).
StatusNow ==
  CASE vpn = "connected"     -> "CONNECTED"
    [] vpn = "connecting"    -> "CONNECTING"
    [] vpn = "disconnecting" -> "DISCONNECTED"
    [] OTHER                 -> IF stamp THEN "AUTO_DISCONNECTED" ELSE "DISCONNECTED"

\* Faulty variant: a state that is already lastStatus is not told again.
HandleNewStatus ==
  /\ changes > 0
  /\ changes' = changes - 1
  /\ IF manager
     THEN /\ last' = StatusNow
          /\ timer' = (vpn \in {"connecting", "connected"})
          /\ IF last # StatusNow THEN Emit(StatusNow) ELSE UNCHANGED told
          /\ spoiled' = FALSE
     ELSE UNCHANGED <<plugin, spoiled>>
  /\ UNCHANGED <<vpn, stamp, task, notes, flight, sink, count>>

\* handleStatusChange: nothing without a manager.
HandleStatusChange ==
  /\ changes > 0
  /\ changes' = changes - 1
  /\ IF manager
     THEN /\ last' = StatusNow
          /\ timer' = (vpn \in {"connecting", "connected"})
          /\ Emit(StatusNow)
          /\ spoiled' = FALSE
     ELSE UNCHANGED <<plugin, spoiled>>
  /\ UNCHANGED <<vpn, stamp, task, notes, flight, sink, count>>

\* The timer: CONNECTED is told only after the extension was asked.
TimerTick ==
  /\ timer
  /\ IF last = "CONNECTED"
     THEN flight < MaxFlight /\ flight' = flight + 1 /\ UNCHANGED told
     ELSE Emit(last) /\ UNCHANGED flight
  /\ UNCHANGED <<vpn, stamp, task, notes, changes, timer, last, sink, spoiled, count>>

\* It has answered, or failed to: the state the tick had read is told.
TickEmits ==
  /\ flight > 0
  /\ flight' = flight - 1
  /\ Emit("CONNECTED")
  /\ spoiled' = (spoiled \/ last # "CONNECTED")
  /\ UNCHANGED <<vpn, stamp, task, notes, changes, timer, last, sink, count>>

OnListen ==
  /\ ~sink /\ listens < MaxListens
  /\ sink' = TRUE /\ listens' = listens + 1 /\ told' = "none"
  /\ changes' = changes + 1
  /\ UNCHANGED <<vpn, stamp, task, notes, timer, last, flight, spoiled, calls, moves>>

OnCancel ==
  /\ sink
  /\ sink' = FALSE
  /\ UNCHANGED <<vpn, stamp, task, notes, changes, plugin, flight, spoiled, count>>

\* stopVless: the tunnel's own changes follow, or not.
StopVless ==
  /\ timer' = FALSE
  /\ UNCHANGED <<vpn, stamp, task, notes, changes, last, told, flight, sink, spoiled, count>>

ClearAutoDisconnectFlag ==
  /\ stamp
  /\ stamp' = FALSE
  /\ UNCHANGED <<vpn, task, notes, changes, plugin, flight, sink, spoiled, count>>

-----------------------------------------------------------------------------
(* The tasks.                                                              *)

\* startVless, if no other is under way, and requestPermission: both save the profile.
Call(start) ==
  /\ pc["call"] = "off" /\ calls < MaxCalls
  /\ calls' = calls + 1
  /\ starting' = start /\ pc' = [pc EXCEPT !["call"] = "save"]
  /\ UNCHANGED <<vpn, stamp, manager, subs, notes, changes, plugin, flight, sink, spoiled,
                 moves, listens>>

\* saveToPreferences, and reload up to its await: who has subscribed to the old profile's
\* changes hears of this one; then the subscriptions go, with what they have not delivered.
Save ==
  /\ pc["call"] = "save"
  /\ \/ /\ pc' = [pc EXCEPT !["call"] = "load"]
        /\ subs' = FALSE /\ notes' = 0
        /\ changes' \in {changes, changes + (IF subs THEN 1 ELSE 0)}
        /\ spoiled' = (spoiled \/ notes > 0)
     \/ /\ "save" \in Faults
        /\ pc' = [pc EXCEPT !["call"] = "fail"]
        /\ UNCHANGED <<subs, notes, changes, spoiled>>
  /\ UNCHANGED <<vpn, stamp, manager, starting, plugin, flight, sink, count>>

\* The profile is loaded, or is not: publishing the manager is what the plugin hears of.
Load(t) ==
  /\ pc[t] = "load"
  /\ \E found \in {"found", "lost"} :
       /\ found = "lost" => "load" \in Faults
       /\ pc' = [pc EXCEPT ![t] = found]
  /\ changes' = changes + 1
  /\ UNCHANGED <<vpn, stamp, manager, subs, starting, notes, plugin, flight, sink, spoiled, count>>

SetManager(t) ==
  /\ pc[t] \in {"found", "lost"}
  /\ manager' = (pc[t] = "found")
  /\ spoiled' = (spoiled \/ (~manager /\ manager'))
  /\ pc' = [pc EXCEPT ![t] = "subscribe"]
  /\ UNCHANGED <<vpn, stamp, subs, starting, notes, changes, plugin, flight, sink, count>>

\* reload subscribes; a start goes on, and init publishes isProcessing.
Subscribe(t) ==
  /\ pc[t] = "subscribe"
  /\ subs' = TRUE
  /\ pc' = [pc EXCEPT ![t] = IF t = "call" /\ starting THEN "start" ELSE "off"]
  /\ changes' = IF t = "init" THEN changes + 1 ELSE changes
  /\ UNCHANGED <<vpn, stamp, manager, starting, notes, plugin, flight, sink, spoiled, count>>

\* A change of the tunnel is heard by who has subscribed.
Moves(to) ==
  /\ vpn' = to
  /\ IF subs
     THEN notes' = notes + 1 /\ UNCHANGED spoiled
     ELSE spoiled' = TRUE /\ UNCHANGED notes

\* PacketTunnelManager.start and its answer: a tunnel that is there is left alone.
Start ==
  /\ pc["call"] = "start"
  /\ \/ /\ manager
        /\ IF vpn = "disconnected" THEN Moves("connecting")
                                   ELSE UNCHANGED <<vpn, notes, spoiled>>
        /\ starting' = FALSE /\ pc' = [pc EXCEPT !["call"] = "off"]
     \/ /\ ~manager \/ "start" \in Faults
        /\ pc' = [pc EXCEPT !["call"] = "fail"]
        /\ UNCHANGED <<vpn, notes, starting, spoiled>>
  /\ UNCHANGED <<stamp, manager, subs, changes, plugin, flight, sink, count>>

\* The catch of startVless; a permission is just denied.
Fail ==
  /\ pc["call"] = "fail"
  /\ pc' = [pc EXCEPT !["call"] = "off"]
  /\ starting' = FALSE
  /\ IF starting
     THEN /\ last' = "ERROR" /\ timer' = FALSE
          /\ Emit("ERROR")
          /\ spoiled' = TRUE
     ELSE UNCHANGED <<plugin, spoiled>>
  /\ UNCHANGED <<vpn, stamp, manager, subs, notes, changes, flight, sink, count>>

-----------------------------------------------------------------------------
(* The system and the extension.                                           *)

Goes == {<<"connecting", "connected">>, <<"connected", "connecting">>,
         <<"connecting", "disconnecting">>, <<"connected", "disconnecting">>,
         <<"disconnecting", "disconnected">>}

\* The tunnel changes, after a stop or by itself.
TunnelMoves ==
  /\ moves < MaxMoves
  /\ moves' = moves + 1
  /\ \E way \in Goes : way[1] = vpn /\ Moves(way[2])
  /\ UNCHANGED <<stamp, task, changes, plugin, flight, sink, calls, listens>>

\* The countdown in the extension ends the session, and leaves a timestamp.
Expires ==
  /\ vpn = "connected" /\ moves < MaxMoves
  /\ moves' = moves + 1
  /\ stamp' = TRUE
  /\ Moves("disconnecting")
  /\ UNCHANGED <<task, changes, plugin, flight, sink, calls, listens>>

-----------------------------------------------------------------------------
\* Just after initializeVless: its reload is on its way, and its first check.
Init ==
  /\ vpn \in {"disconnected", "connected"} /\ stamp \in BOOLEAN
  /\ manager = FALSE /\ subs = FALSE
  /\ pc = [init |-> "load", call |-> "off"] /\ starting = FALSE
  /\ notes = 0 /\ changes = 1
  /\ timer = FALSE /\ flight = 0 /\ last = "DISCONNECTED"
  /\ sink = FALSE /\ told = "none" /\ spoiled = FALSE
  /\ calls = 0 /\ moves = 0 /\ listens = 0

MainQueue == Notified \/ HandleStatusChange \/ TimerTick \/ TickEmits

Next ==
  \/ MainQueue
  \/ OnListen \/ OnCancel \/ StopVless \/ ClearAutoDisconnectFlag
  \/ \E start \in BOOLEAN : Call(start)
  \/ Save \/ Start \/ Fail
  \/ \E t \in {"init", "call"} : Load(t) \/ SetManager(t) \/ Subscribe(t)
  \/ TunnelMoves \/ Expires

Spec == Init /\ [][Next]_vars

-----------------------------------------------------------------------------
(* Properties.                                                             *)

\* Nothing of the tunnel's last change is left on the queue.
Delivered == sink /\ manager /\ notes = 0 /\ changes = 0

Told ==
  CASE vpn = "connected"     -> {"CONNECTED"}
    [] vpn = "connecting"    -> {"CONNECTING"}
    [] vpn = "disconnecting" -> {"DISCONNECTED"}
    [] OTHER                 -> IF stamp THEN {"AUTO_DISCONNECTED"}
                                ELSE {"DISCONNECTED", "AUTO_DISCONNECTED"}

\* A listener knows what state the tunnel is in, with an expiry told apart from a stop,
\* unless one of these came after the plugin last looked: a change while reload() had no
\* subscription, a manager published before it was set, a start that failed, or a tick that
\* had read CONNECTED before it awaited the extension.
ListenerKnows == Delivered /\ ~spoiled => told \in Told

\* The inductive invariant of AppleProofs: lastStatus, which a tick tells again, is as good
\* as what was told, listener or not.
KnowsInv ==
  /\ notes \in Nat /\ changes \in Nat
  /\ manager /\ notes = 0 /\ changes = 0 /\ ~spoiled
       => last \in Told /\ (sink => told \in Told)

-----------------------------------------------------------------------------
(* What the repository says, and the code does not do.                     *)

\* "`CONNECTED`: session active." (README.md:108): once every task and tick is done, that is
\* not what a listener is left with after the session has ended.
ConnectedIsActive ==
  Delivered /\ flight = 0 /\ ~timer /\ pc = [init |-> "off", call |-> "off"]
    => ~(told = "CONNECTED" /\ vpn = "disconnected")
=============================================================================
