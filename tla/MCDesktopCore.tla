---------------------------- MODULE MCDesktopCore ----------------------------
(* Small instances of DesktopCore for TLC. *)
EXTENDS DesktopCore

\* No deadline asked for, or one a tick and two ticks away.
MCAutoSeconds == {0, 1, 2}

\* "Adds or subtracts seconds".
MCAdjustments == {-1, 2}
=============================================================================
