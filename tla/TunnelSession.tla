---------------------------- MODULE TunnelSession ----------------------------
(***************************************************************************)
(* What a tunnel session promises to whoever watches it, whatever threads  *)
(* serve it: there is at most one xray process, it is launched only while  *)
(* the session announces CONNECTING and holds no process, CONNECTED is     *)
(* announced only while a process is held, and a terminal status           *)
(* (DISCONNECTED, AUTO_DISCONNECTED, ERROR) only once the process has been *)
(* let go.  README.md:106-111 of the repository names the statuses.        *)
(***************************************************************************)
VARIABLES
  status,   \* the canonical connection state an observer reads
  tunnel    \* "none": no process held; "live": held and running; "dead": held, exited

sessionVars == <<status, tunnel>>

Terminal == {"DISCONNECTED", "AUTO_DISCONNECTED", "ERROR"}
Status   == Terminal \cup {"CONNECTING", "CONNECTED"}
Tunnel   == {"none", "live", "dead"}

Init ==
  /\ status = "DISCONNECTED"
  /\ tunnel = "none"

\* A start announces itself, or a start that has not launched settles again.
Begin ==
  /\ tunnel = "none"
  /\ status \in Terminal
  /\ status' = "CONNECTING"
  /\ UNCHANGED tunnel

Launch ==
  /\ status = "CONNECTING"
  /\ tunnel = "none"
  /\ tunnel' = "live"
  /\ UNCHANGED status

\* The process exits by itself, or is terminated by whoever tears the session down.
Die ==
  /\ tunnel = "live"
  /\ tunnel' = "dead"
  /\ UNCHANGED status

\* CONNECTED may be announced for a process that has just exited: nobody looked yet.
Establish ==
  /\ status = "CONNECTING"
  /\ tunnel # "none"
  /\ status' = "CONNECTED"
  /\ UNCHANGED tunnel

\* Only an exited process is let go: dropping a live one would orphan it.
Release ==
  /\ tunnel = "dead"
  /\ tunnel' = "none"
  /\ UNCHANGED status

Settle ==
  /\ tunnel = "none"
  /\ status' \in Terminal
  /\ UNCHANGED tunnel

Next == Begin \/ Launch \/ Die \/ Establish \/ Release \/ Settle

Spec == Init /\ [][Next]_sessionVars
=============================================================================
