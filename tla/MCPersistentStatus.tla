-------------------------- MODULE MCPersistentStatus --------------------------
(* The instance of PersistentStatus that TLC checks.                        *)
EXTENDS PersistentStatus

\* Idle, and connected with and without more traffic.
MCStatuses ==
  {[state |-> "DISCONNECTED", phase |-> "DISCONNECTED", running |-> FALSE, total |-> 0]}
    \cup [state : {"CONNECTED"}, phase : {"READY"}, running : {TRUE}, total : {0, 1}]
=============================================================================
