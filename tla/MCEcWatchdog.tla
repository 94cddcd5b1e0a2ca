---------------------------- MODULE MCEcWatchdog ----------------------------
(***************************************************************************)
(* EcWatchdog for TLC.  With two input values each bus frame carries       *)
(* another value than the one before it, which is when a buffer that mixes *)
(* two frames shows.                                                       *)
(***************************************************************************)
EXTENDS EcWatchdog

MCNext ==
    \/ (RtQuiet \/ Plc) /\ UNCHANGED runs
    \/ \E w \in 0 .. ExpectedWkc, op \in BOOLEAN, f \in InValues \ {iomap_in} :
            WatchedExchange(w, op, f)

MCSpec == WatchInit /\ [][MCNext]_<<vars, runs>>
=============================================================================
