---------------------------- MODULE MCApplePlugin ----------------------------
(* The instance of ApplePlugin that TLC checks: its bounds are numbers, given in the *)
(* configurations.                                                                   *)
EXTENDS ApplePlugin
=============================================================================
