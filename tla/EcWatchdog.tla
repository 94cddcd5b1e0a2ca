----------------------------- MODULE EcWatchdog -----------------------------
(***************************************************************************)
(* How fast, and how surely, the RT thread of EcProcessImage notices a bad *)
(* bus.  The three history variables record what the bus really did in the *)
(* latest cycles; the thread itself sees the slaves' state only every      *)
(* StatePeriod cycles and judges nothing during the warm-up.               *)
(***************************************************************************)
EXTENDS EcProcessImage

VARIABLES
    short_run,  \* latest consecutive cycles with a short working counter
    lost_run,   \* latest consecutive cycles with slaves out of OP
    good_run    \* latest consecutive cycles with neither

runs == <<short_run, lost_run, good_run>>

\* Cycles within which a lasting failure must have been latched.
ShortLatency == WarmupCycles + FailThreshold
LostLatency == FailThreshold + IF WarmupCycles > StatePeriod - 1
                               THEN WarmupCycles ELSE StatePeriod - 1

Run(n, holds, top) == IF holds THEN Saturate(n + 1, top) ELSE 0

WatchInit == Init /\ short_run = 0 /\ lost_run = 0 /\ good_run = 0

WatchedExchange(w, op, f) ==
    LET short == ExpectedWkc > 0 /\ w < ExpectedWkc IN
    /\ RtExchange(w, op, f)
    /\ short_run' = Run(short_run, short, ShortLatency)
    /\ lost_run' = Run(lost_run, ~op, LostLatency)
    /\ good_run' = Run(good_run, ~short /\ op, StatePeriod)

WatchNext ==
    \/ (RtQuiet \/ Plc) /\ UNCHANGED runs
    \/ \E w \in 0 .. ExpectedWkc, op \in BOOLEAN, f \in InValues :
            WatchedExchange(w, op, f)

WatchSpec == WatchInit /\ [][WatchNext]_<<vars, runs>>
-----------------------------------------------------------------------------
\* A working counter that stays short is latched as a fault after exactly the
\* configured number of cycles, the warm-up included.
ShortFramesLatch ==
    rt_pc = "load" /\ short_run >= ShortLatency => fault_latched

\* Slaves that leave OP and stay out are latched although their state is read
\* once in StatePeriod cycles (ec_backend.c:476-481, :490-513).
LostSlavesLatch ==
    rt_pc = "load" /\ lost_run >= LostLatency => fault_latched

\* After a transient failure the status returns to operational once the bus has
\* been good for one state-check period: nothing stale keeps in_op false.
GoodBusIsOperational ==
    rt_pc = "load" /\ good_run >= StatePeriod => in_op /\ dowkccheck = 0

\* With the warn threshold below the fail threshold the PLC is told before the
\* outputs are cut: no cycle latches a fault while in_op is still true.
WarnedBeforeLatch ==
    [][~fault_latched /\ fault_latched' => ~in_op]_vars
=============================================================================
