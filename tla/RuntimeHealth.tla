--------------------------- MODULE RuntimeHealth ---------------------------
(***************************************************************************)
(* How a fault on one of several buses reaches the tasks.  Each backend's  *)
(* RT thread (ethercat_rt_thread) raises and lowers its own flags;         *)
(* plc_cycle_begin of main.c lets runtime_get_health_level of              *)
(* core/runtime/runtime.c put them together, two loads per backend, while  *)
(* the RT threads go on; core/plc/plc_scheduler.c chooses the tasks by the *)
(* level.                                                                  *)
(*                                                                         *)
(* What makes an RT cycle bad is EcProcessImage's subject; here it is a    *)
(* choice.  The scheduler's timing is PlcScheduler's, where the level is a *)
(* choice.                                                                 *)
(***************************************************************************)
EXTENDS Naturals

CONSTANTS
    Count,          \* rt->backend_count
    WarnThreshold,  \* impl->wkc_warn_threshold, after the default
    FailThreshold   \* impl->wkc_fail_threshold, after the default

ASSUME CountAssumption == Count \in Nat
ASSUME ThresholdAssumption == /\ WarnThreshold \in Nat \ {0}
                              /\ FailThreshold \in Nat \ {0}

Backend == 1 .. Count
ALWAYS_RUN == "always"
SKIP_ON_FAULT == "skip_on_fault"
Policy == {ALWAYS_RUN, SKIP_ON_FAULT}
Health == {"ok", "warn", "fault"}

VARIABLES
    rt_pc, warming, lost, dowkccheck,   \* by backend: the RT thread's own
    fault_latched, in_op,       \* by backend: what ethercat_get_status loads
    plc_pc, i, status, level,   \* the PLC thread, in plc_cycle_begin
    health_level,               \* s->health_level
    \* History, of the PLC cycle: whether a fault was latched when its begin
    \* hook began to ask, the backends that have since been in OP and those
    \* that have been out of it, and the policies of the tasks it ran.
    fault_before, was_in, was_out, ran

flags == <<fault_latched, in_op>>
rt == <<rt_pc, warming, lost, dowkccheck, flags>>
scan == <<i, status, level>>
seen == <<was_in, was_out>>
vars == <<rt, plc_pc, scan, health_level, fault_before, seen, ran>>

\* The state that ethercat_start and main leave: the scheduler starts last.
Init == /\ rt_pc = [b \in Backend |-> "judge"]
        /\ warming = [b \in Backend |-> TRUE]
        /\ lost = [b \in Backend |-> FALSE]
        /\ dowkccheck = [b \in Backend |-> 0]
        /\ fault_latched = [b \in Backend |-> FALSE]
        /\ in_op = [b \in Backend |-> TRUE]
        /\ plc_pc = "begin" /\ i = 1 /\ status = TRUE /\ level = "ok"
        /\ health_level = "ok"
        /\ fault_before = FALSE /\ was_in = {} /\ was_out = {} /\ ran = {}
-----------------------------------------------------------------------------
(* The RT threads. *)

\* The counter saturates at UINT32_MAX; here beyond the last comparison.
Top == IF WarnThreshold > FailThreshold THEN WarnThreshold ELSE FailThreshold
BadCount(bad, n) == IF ~bad THEN 0 ELSE IF n = Top THEN n ELSE n + 1

Latched(before, n) == before \/ n >= FailThreshold

\* A cycle is bad when the working counter is short, or when the slaves have
\* left OP; in the warm-up it never is.
RtJudge(b, short, off) ==
    /\ rt_pc[b] = "judge"
    /\ lost' = [lost EXCEPT ![b] = off]
    /\ dowkccheck' = [dowkccheck EXCEPT
                         ![b] = BadCount(~warming[b] /\ (short \/ off), @)]
    /\ fault_latched' = [fault_latched EXCEPT ![b] = Latched(@, dowkccheck'[b])]
    /\ rt_pc' = [rt_pc EXCEPT ![b] = "finish"]
    /\ UNCHANGED <<warming, in_op, plc_pc, scan, health_level, fault_before,
                   seen, ran>>

\* The end of the warm-up is any cycle's end.
RtFinish(b, warm) ==
    /\ rt_pc[b] = "finish"
    /\ warm => warming[b]
    /\ warming' = [warming EXCEPT ![b] = warm]
    /\ in_op' = [in_op EXCEPT ![b] = ~lost[b] /\ dowkccheck[b] < WarnThreshold]
    /\ was_in' = IF in_op'[b] THEN was_in \cup {b} ELSE was_in
    /\ was_out' = IF in_op'[b] THEN was_out ELSE was_out \cup {b}
    /\ rt_pc' = [rt_pc EXCEPT ![b] = "judge"]
    /\ UNCHANGED <<lost, dowkccheck, fault_latched, plc_pc, scan, health_level,
                   fault_before, ran>>
-----------------------------------------------------------------------------
(* The PLC thread. *)

MoreBackends(n) == n <= Count
NextBackend(n) == IF MoreBackends(n) THEN "in_op" ELSE "publish"

\* plc_cycle_begin calls runtime_get_health_level.
ScanBegin ==
    /\ plc_pc = "begin"
    /\ i' = 1 /\ level' = "ok"
    /\ plc_pc' = NextBackend(1)
    /\ fault_before' = \E b \in Backend : fault_latched[b]
    /\ was_in' = {b \in Backend : in_op[b]}
    /\ was_out' = {b \in Backend : ~in_op[b]}
    /\ ran' = {}
    /\ UNCHANGED <<rt, status, health_level>>

\* ethercat_get_status, first load.
ScanInOp ==
    /\ plc_pc = "in_op"
    /\ status' = in_op[i]
    /\ plc_pc' = "fault"
    /\ UNCHANGED <<rt, i, level, health_level, fault_before, seen, ran>>

\* A fault ends the scan, a warning does not.
LevelAfter_LastOne(before, up) == IF up THEN "ok" ELSE "warn"
LevelAfter(before, up) == IF up THEN before ELSE "warn"

AfterFault_GoesOn(n) == NextBackend(n + 1)
AfterFault(n) == "publish"

\* Its second load, and the verdict on the backend.
ScanFault ==
    /\ plc_pc = "fault"
    /\ i' = i + 1
    /\ IF fault_latched[i]
       THEN level' = "fault" /\ plc_pc' = AfterFault(i)
       ELSE level' = LevelAfter(level, status) /\ plc_pc' = NextBackend(i + 1)
    /\ UNCHANGED <<rt, status, health_level, fault_before, seen, ran>>

\* plc_scheduler_set_health.
Publish ==
    /\ plc_pc = "publish"
    /\ health_level' = level
    /\ plc_pc' = "tasks"
    /\ UNCHANGED <<rt, scan, fault_before, seen, ran>>

\* A task that is due runs if the level lets it.
MayRun(policy) == health_level = "fault" => policy = ALWAYS_RUN

RunTask(policy) ==
    /\ plc_pc = "tasks" /\ MayRun(policy)
    /\ ran' = ran \cup {policy}
    /\ UNCHANGED <<rt, plc_pc, scan, health_level, fault_before, seen>>

EndCycle ==
    /\ plc_pc = "tasks"
    /\ plc_pc' = "begin"
    /\ UNCHANGED <<rt, scan, health_level, fault_before, seen, ran>>
-----------------------------------------------------------------------------
Rt == \E b \in Backend :
         \/ \E warm \in BOOLEAN : RtFinish(b, warm)
         \/ \E short, off \in BOOLEAN : RtJudge(b, short, off)
Scan == ScanBegin \/ ScanInOp \/ ScanFault \/ Publish
Plc == Scan \/ EndCycle

Next == Rt \/ Plc \/ \E policy \in Policy : RunTask(policy)

Spec == Init /\ [][Next]_vars
-----------------------------------------------------------------------------
\* Every variable keeps its range.
TypeOK ==
    /\ rt_pc \in [Backend -> {"judge", "finish"}]
    /\ warming \in [Backend -> BOOLEAN] /\ lost \in [Backend -> BOOLEAN]
    /\ dowkccheck \in [Backend -> 0 .. Top]
    /\ fault_latched \in [Backend -> BOOLEAN] /\ in_op \in [Backend -> BOOLEAN]
    /\ plc_pc \in {"begin", "in_op", "fault", "publish", "tasks"}
    /\ i \in 1 .. Count + 1 /\ status \in BOOLEAN
    /\ level \in Health /\ health_level \in Health
    /\ fault_before \in BOOLEAN /\ ran \subseteq Policy
    /\ was_in \subseteq Backend /\ was_out \subseteq Backend

\* A fault latched before a cycle's begin hook asks keeps the tasks of that
\* cycle that skip faults from running, whichever bus it is on and whatever
\* the other backends report while they are asked.
FaultStopsTasks == fault_before => SKIP_ON_FAULT \notin ran

\* The level is no snapshot of the backends, but each value of it says something
\* that was true during the scan: "ok", that no fault was latched before it and
\* that each backend was in OP at some moment of it; "warn", that one was not;
\* "fault", that one is latched.
LevelTells ==
    plc_pc = "tasks" =>
        /\ health_level = "ok" => was_in = Backend
        /\ health_level = "warn" => was_out # {}
        /\ health_level = "fault" => \E b \in Backend : fault_latched[b]
        /\ fault_before => health_level = "fault"

\* Only a restart clears a fault: the scheduler's level never leaves it.
FaultStays == [][health_level = "fault" => health_level' = "fault"]_vars
=============================================================================
