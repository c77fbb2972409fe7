--------------------------- MODULE MCAndroidService ---------------------------
(* Small instances of AndroidService for TLC. *)
EXTENDS AndroidService

\* No auto-disconnect, or one after two ticks.
MCDurations == {0, 2}

\* An update that is honoured, and one that is dropped.
MCExtra == {-1, 1}

MCAllFaults   == FaultKinds
MCStartFaults == {"exit", "vpn", "tun"}

\* What can go wrong before and after a session is up, with a TUN interface that works.
MCLiveFaults  == {"exit", "vpn"}

\* Two sessions' worth of service objects and countdowns meet no TUN interface, and a
\* session with one has no countdown: the two halves of the run.
MCHalves == tunsMade = 0 \/ (asked["START"] <= 1 /\ ~auto)
=============================================================================
