--------------------------- MODULE MCPlcScheduler ---------------------------
(* Task tables for PlcScheduler: one task at every cycle, one with a phase  *)
(* and a period that is no multiple of the base cycle, one added at run     *)
(* time.                                                                    *)
EXTENDS PlcScheduler

ThreePeriods == <<2, 3, 4>>
ThreePhases == <<0, 1, 1>>
ThreePolicies == <<ALWAYS_RUN, ALWAYS_RUN, SKIP_ON_FAULT>>

OnePeriod == <<2>>
OnePhase == <<0>>
OneAlways == <<ALWAYS_RUN>>
=============================================================================
