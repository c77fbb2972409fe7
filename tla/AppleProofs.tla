----------------------------- MODULE AppleProofs -----------------------------
(***************************************************************************)
(* Theorems about ApplePlugin: what a listener knows, for any number of    *)
(* calls, listeners, changes of the tunnel and ticks in flight.            *)
(***************************************************************************)
EXTENDS ApplePlugin, TLAPS

\* What handleStatusChange tells is what the tunnel's state is.
LEMMA StatusNowTold == StatusNow \in Told
  BY DEF StatusNow, Told

\* CONNECTED is right only of a tunnel that is connected, whatever the timestamp is.
LEMMA ConnectedTold == "CONNECTED" \in Told <=> vpn = "connected"
  <1>1. vpn = "connected" => "CONNECTED" \in Told
    BY DEF Told
  <1>2. vpn # "connected" => "CONNECTED" \notin Told
    BY DEF Told
  <1> QED BY <1>1, <1>2

\* A step that leaves the plugin, the tunnel and the stamp alone, takes nothing off the
\* queue and sets no manager keeps the invariant.
LEMMA Bystander ==
  ASSUME KnowsInv, UNCHANGED <<vpn, stamp, plugin, sink>>,
         notes' \in Nat, changes' \in Nat,
         manager' /\ notes' = 0 /\ changes' = 0 /\ ~spoiled'
           => manager /\ notes = 0 /\ changes = 0 /\ ~spoiled
  PROVE  KnowsInv'
  BY DEF KnowsInv, Told, plugin

\* A change of the tunnel: heard, or the listener counts as told wrong.
LEMMA MovesKeeps ==
  ASSUME KnowsInv, NEW to, Moves(to), changes' = changes
  PROVE  KnowsInv'
  BY DEF KnowsInv, Moves

LEMMA KnowsInit == Init => KnowsInv
  BY DEF Init, KnowsInv

LEMMA KnowsNext == KnowsInv /\ [Next]_vars => KnowsInv'
  <1> SUFFICES ASSUME KnowsInv, [Next]_vars PROVE KnowsInv'
    OBVIOUS
  <1>1. CASE Notified
    BY <1>1 DEF Notified, KnowsInv
  <1>2. CASE HandleStatusChange
    <2>1. CASE manager
      <3>1. /\ last' = StatusNow /\ (sink' => told' = StatusNow)
            /\ Told' = Told /\ notes' \in Nat /\ changes' \in Nat
        BY <1>2, <2>1 DEF HandleStatusChange, Emit, Told, KnowsInv
      <3> QED BY <3>1, StatusNowTold DEF KnowsInv
    <2>2. CASE ~manager
      BY <1>2, <2>2 DEF HandleStatusChange, KnowsInv, task
    <2> QED BY <2>1, <2>2
  <1>3. CASE TimerTick
    <2>1. /\ Told' = Told /\ (told' = told \/ told' = last) /\ UNCHANGED <<last, sink>>
          /\ UNCHANGED <<manager, notes, changes, spoiled>>
      BY <1>3 DEF TimerTick, Emit, Told, task
    <2> QED BY <2>1 DEF KnowsInv
  <1>4. CASE TickEmits
    <2>1. /\ Told' = Told /\ UNCHANGED <<last, sink, manager, notes, changes>>
          /\ told' = told \/ told' = "CONNECTED"
          /\ ~spoiled' => ~spoiled /\ last = "CONNECTED"
      BY <1>4 DEF TickEmits, Emit, Told, task
    <2> QED BY <2>1 DEF KnowsInv
  <1>5. CASE OnListen
    BY <1>5 DEF OnListen, KnowsInv
  <1>6. CASE OnCancel
    <2>1. /\ Told' = Told /\ ~sink' /\ UNCHANGED <<last, manager, notes, changes, spoiled>>
      BY <1>6 DEF OnCancel, Told, task, plugin
    <2> QED BY <2>1 DEF KnowsInv
  <1>7. CASE StopVless
    <2>1. /\ Told' = Told
          /\ UNCHANGED <<last, told, sink, manager, notes, changes, spoiled>>
      BY <1>7 DEF StopVless, Told, task
    <2> QED BY <2>1 DEF KnowsInv
  <1>8. CASE ClearAutoDisconnectFlag
    <2>1. /\ Told \subseteq Told'
          /\ UNCHANGED <<last, told, sink, manager, notes, changes, spoiled>>
      BY <1>8 DEF ClearAutoDisconnectFlag, Told, task, plugin
    <2> QED BY <2>1 DEF KnowsInv
  <1>9. ASSUME NEW start \in BOOLEAN, Call(start) PROVE KnowsInv'
    BY <1>9, Bystander DEF Call, KnowsInv
  <1>10. CASE Save
    <2>1. /\ UNCHANGED <<vpn, stamp, plugin, sink>>
          /\ manager' = manager /\ notes' \in Nat /\ changes' \in Nat
      BY <1>10 DEF Save, KnowsInv
    <2>2. changes' = 0 => changes = 0
      BY <1>10 DEF Save, KnowsInv
    <2>3. notes' = 0 /\ ~spoiled' => notes = 0 /\ ~spoiled
      <3>1. CASE notes > 0
        BY <1>10, <3>1 DEF Save
      <3>2. CASE notes = 0
        BY <1>10, <3>2 DEF Save
      <3> QED BY <3>1, <3>2 DEF KnowsInv
    <2> QED BY <2>1, <2>2, <2>3, Bystander
  <1>11. CASE Start
    <2>1. CASE Moves("connecting")
      BY <1>11, <2>1, MovesKeeps DEF Start
    <2>2. CASE UNCHANGED <<vpn, notes, spoiled>>
      BY <1>11, <2>2, Bystander DEF Start, KnowsInv
    <2> QED BY <1>11, <2>1, <2>2 DEF Start
  <1>12. CASE Fail
    <2>1. CASE starting
      BY <1>12, <2>1 DEF Fail, KnowsInv
    <2>2. CASE ~starting
      BY <1>12, <2>2, Bystander DEF Fail, KnowsInv
    <2> QED BY <2>1, <2>2
  <1>13. ASSUME NEW t \in {"init", "call"}, Load(t) PROVE KnowsInv'
    BY <1>13 DEF Load, KnowsInv
  <1>14. ASSUME NEW t \in {"init", "call"}, SetManager(t) PROVE KnowsInv'
    BY <1>14, Bystander DEF SetManager, KnowsInv
  <1>15. ASSUME NEW t \in {"init", "call"}, Subscribe(t) PROVE KnowsInv'
    BY <1>15, Bystander DEF Subscribe, KnowsInv
  <1>16. CASE TunnelMoves
    BY <1>16, MovesKeeps DEF TunnelMoves
  <1>17. CASE Expires
    BY <1>17, MovesKeeps DEF Expires
  <1>18. CASE UNCHANGED vars
    BY <1>18, Bystander DEF vars, task, KnowsInv
  <1> QED
    BY <1>1, <1>2, <1>3, <1>4, <1>5, <1>6, <1>7, <1>8, <1>9, <1>10, <1>11, <1>12, <1>13,
       <1>14, <1>15, <1>16, <1>17, <1>18 DEF Next, MainQueue

\* A listener of the status stream knows the state of the tunnel, except after the four
\* things ListenerKnows names, for any number of everything.
THEOREM ListenerKnowsHolds == Spec => []ListenerKnows
  <1>1. KnowsInv => ListenerKnows
    BY DEF KnowsInv, ListenerKnows, Delivered
  <1> QED BY <1>1, KnowsInit, KnowsNext, PTL DEF Spec
=============================================================================
