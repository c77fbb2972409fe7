---------------------------- MODULE MCAndroidStart ----------------------------
(* The instance of AndroidStart that TLC checks: its bounds are numbers, given in the *)
(* configurations.                                                                    *)
EXTENDS AndroidStart
=============================================================================
