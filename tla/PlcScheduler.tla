---------------------------- MODULE PlcScheduler ----------------------------
(***************************************************************************)
(* core/plc/plc_scheduler.c: the thread that runs the PLC cycle every      *)
(* base_cycle_ms and, in each cycle, every task whose period is over.      *)
(* Time is the monotonic millisecond clock, a 64-bit number; a task's      *)
(* last_run_ms is 32 bits wide.                                            *)
(*                                                                         *)
(* The cycle's own work is PlcCycle's subject: here its begin hook decides *)
(* the health level and a task only takes time.  Tasks handed over by      *)
(* other threads arrive in Drain; SchedPending models the hand-over.       *)
(***************************************************************************)
EXTENDS Integers

CONSTANTS
    Base,           \* s->base_cycle_ms
    Tasks,          \* 1 .. Tasks are the tasks, in the order of s->tasks
    Initial,        \* how many of them are added before the start
    Period, Phase, Policy,  \* the tasks' descriptors
    Boot,           \* the clock when the scheduler may be started
    RunTime,        \* plc_runtime_run has stopped the scheduler by then
    Wrap            \* 2^32, the range of last_run_ms

ALWAYS_RUN == "always"
SKIP_ON_FAULT == "skip_on_fault"
ONLY_WHEN_OK == "only_when_ok"
Health == {"ok", "warn", "fault"}
Task == 1 .. Tasks

ASSUME TaskAssumption ==
    /\ Tasks \in Nat /\ Initial \in 0 .. Tasks
    /\ Period \in [Task -> Nat \ {0}] /\ Phase \in [Task -> Nat]
    /\ Policy \in [Task -> {ALWAYS_RUN, SKIP_ON_FAULT, ONLY_WHEN_OK}]
ASSUME TimeAssumption ==
    /\ Base \in Nat \ {0} /\ Boot \in Nat /\ RunTime \in Nat
    /\ Wrap \in Nat \ {0}

VARIABLES
    clock,                  \* plat_time_monotonic_ms()
    running, health_level,  \* shared with the main thread
    pc, start_ms, next_tick_ms, now_ms, i,  \* locals of the thread
    task_count, last_run_ms,                \* s->tasks
    stopper,                \* the main thread: not stopping, joining, returned
    \* History: cycles begun, and the slot of each task's latest execution.
    cycles, ran_slot

main == <<running, stopper>>
times == <<start_ms, next_tick_ms, now_ms>>
table == <<task_count, last_run_ms>>
thread == <<pc, times, i, table>>
hist == <<cycles, ran_slot>>
vars == <<clock, main, health_level, thread, hist>>

\* A task's time line is divided into periods that begin at its phase.
Slot(t, time) == (time - (start_ms + Phase[t])) \div Period[t]

Init == /\ clock = Boot
        /\ running = FALSE /\ health_level = "ok"
        /\ pc = "off" /\ start_ms = 0 /\ next_tick_ms = 0 /\ now_ms = 0 /\ i = 1
        /\ task_count = Initial /\ last_run_ms = [t \in Task |-> 0]
        /\ stopper = "no"
        /\ cycles = 0 /\ ran_slot = [t \in Task |-> -1]
-----------------------------------------------------------------------------
(* The main thread and the clock. *)

\* plc_scheduler_start; when the thread cannot be created nothing has changed.
Start == /\ pc = "off" /\ stopper = "no"
         /\ running' = TRUE
         /\ pc' = "init"
         /\ UNCHANGED <<clock, health_level, times, i, table, stopper, hist>>

\* plc_scheduler_stop: without a running thread it returns at once.
Stop == /\ stopper = "no" /\ pc # "off"
        /\ running' = FALSE
        /\ stopper' = "joining"
        /\ UNCHANGED <<clock, health_level, thread, hist>>

Joined == /\ stopper = "joining" /\ pc = "exited"
          /\ stopper' = "returned"
          /\ UNCHANGED <<clock, running, health_level, thread,
                         hist>>

\* The thread reads the clock once in a cycle, so the time that a cycle takes
\* may as well pass at its end.  The bound on time: plc_runtime_run has called
\* Stop when RunTime is over.
Tick == /\ pc \in {"init", "sleep", "end"}
        /\ clock < RunTime \/ (~running /\ pc = "sleep" /\ clock < next_tick_ms)
        /\ clock' = clock + 1
        /\ UNCHANGED <<main, health_level, thread, hist>>
-----------------------------------------------------------------------------
(* plc_scheduler_thread *)

\* The first run of a task is due at its phase: one period before it counts as
\* the previous run, or 0 when the clock has not yet run that long.
FirstLastRun_Late(t, start) == (start + Phase[t]) % Wrap
FirstLastRun_Signed(t, start) == start + Phase[t] - Period[t]
FirstLastRun(t, start) ==
    LET phase_start == start + Phase[t]
    IN (IF phase_start >= Period[t] THEN phase_start - Period[t] ELSE 0) % Wrap

ThreadStart ==
    /\ pc = "init"
    /\ start_ms' = clock
    /\ next_tick_ms' = clock + Base
    /\ last_run_ms' = [t \in Task |-> IF t <= task_count
                                      THEN FirstLastRun(t, clock) ELSE 0]
    /\ pc' = "test"
    /\ UNCHANGED <<clock, main, health_level, now_ms, i, task_count, hist>>

LoopTest == /\ pc = "test"
            /\ pc' = IF running THEN "read" ELSE "exited"
            /\ UNCHANGED <<clock, main, health_level, times, i, table, hist>>

ReadClock ==
    /\ pc = "read"
    /\ now_ms' = clock
    /\ IF clock < next_tick_ms
       THEN pc' = "sleep" /\ UNCHANGED cycles
       ELSE pc' = "drain" /\ cycles' = cycles + 1
    /\ UNCHANGED <<clock, main, health_level, start_ms, next_tick_ms, i,
                   table, ran_slot>>

Wake == /\ pc = "sleep" /\ clock >= next_tick_ms
        /\ pc' = "test"
        /\ UNCHANGED <<clock, main, health_level, times, i, table, hist>>

\* Tasks queued at run time join the table with last_run_ms = 0.
Drain == /\ pc = "drain"
         /\ task_count' \in task_count .. Tasks
         /\ pc' = "hook"
         /\ UNCHANGED <<clock, main, health_level, times, i, last_run_ms,
                        hist>>

\* plc_cycle_begin publishes what runtime_get_health_level found.
BeginHook == /\ pc = "hook"
             /\ health_level' \in Health
             /\ i' = 1
             /\ pc' = "task"
             /\ UNCHANGED <<clock, main, times, table, hist>>

Behind(t) == now_ms - last_run_ms[t] >= Period[t]
Due(t) == now_ms >= start_ms + Phase[t] /\ Behind(t)

\* One iteration of the task loop: pass over a task that is not due ...
SkipTask == /\ pc = "task" /\ i <= task_count /\ ~Due(i)
            /\ i' = i + 1
            /\ UNCHANGED <<clock, main, health_level, pc, times, table, hist>>

TakeTask == /\ pc = "task" /\ i <= task_count /\ Due(i)
            /\ pc' = "catch_up"
            /\ UNCHANGED <<clock, main, health_level, times, i, table, hist>>

Advance_Narrow(t) == (last_run_ms[t] + Period[t]) % (Wrap \div 8)
Advance(t) == (last_run_ms[t] + Period[t]) % Wrap

\* ... or account for all its periods that have gone by, one at a time ...
CatchUp_Once == /\ pc = "catch_up"
                /\ last_run_ms' = [last_run_ms EXCEPT ![i] = Advance(i)]
                /\ pc' = "run"
                /\ UNCHANGED <<clock, main, health_level, times, i,
                               task_count, hist>>
CatchUp == /\ pc = "catch_up"
           /\ IF Behind(i)
              THEN /\ last_run_ms' = [last_run_ms EXCEPT ![i] = Advance(i)]
                   /\ UNCHANGED pc
              ELSE pc' = "run" /\ UNCHANGED last_run_ms
           /\ UNCHANGED <<clock, main, health_level, times, i, task_count,
                          hist>>

\* (plc_task.h keeps the meaning of ONLY_WHEN_OK for the future.)
MayRun(t) == health_level = "fault" => Policy[t] = ALWAYS_RUN

\* ... and run it once, if the health level lets it.
RunTask == /\ pc = "run"
           /\ ran_slot' = IF MayRun(i)
                          THEN [ran_slot EXCEPT ![i] = Slot(i, now_ms)]
                          ELSE ran_slot
           /\ i' = i + 1
           /\ pc' = "task"
           /\ UNCHANGED <<clock, main, health_level, times, table, cycles>>

TasksDone == /\ pc = "task" /\ i > task_count
             /\ pc' = "end"
             /\ UNCHANGED <<clock, main, health_level, times, i, table, hist>>

\* A late scheduler makes up for at most five base cycles, then resynchronises.
NextTick_Overtake(tick, now) ==
    IF now > tick + Base THEN tick ELSE tick + Base
NextTick(tick, now) ==
    IF now > tick + Base /\ now - (tick + Base) > 5 * Base
    THEN now + Base ELSE tick + Base

EndHook == /\ pc = "end"
           /\ next_tick_ms' = NextTick(next_tick_ms, now_ms)
           /\ pc' = "test"
           /\ UNCHANGED <<clock, main, health_level, start_ms, now_ms, i,
                          table, hist>>
-----------------------------------------------------------------------------
Cycle == \/ Drain \/ BeginHook \/ SkipTask \/ TakeTask \/ CatchUp \/ RunTask
         \/ TasksDone \/ EndHook
Thread == ThreadStart \/ LoopTest \/ ReadClock \/ Wake \/ Cycle
Main == Start \/ Stop \/ Joined

Next == Main \/ Thread \/ Tick

Spec == Init /\ [][Next]_vars
FairSpec == Spec /\ WF_vars(Thread) /\ WF_vars(Tick) /\ WF_vars(Stop \/ Joined)
-----------------------------------------------------------------------------
\* Every variable keeps its range.
TypeOK ==
    /\ clock \in Nat /\ start_ms \in Nat /\ next_tick_ms \in Nat
    /\ now_ms \in Nat /\ now_ms <= clock
    /\ running \in BOOLEAN /\ health_level \in Health
    /\ pc \in {"off", "init", "test", "read", "sleep", "drain", "hook", "task",
               "catch_up", "run", "end", "exited"}
    /\ i \in 1 .. Tasks + 1
    /\ task_count \in Initial .. Tasks
    /\ last_run_ms \in [Task -> 0 .. Wrap - 1]
    /\ stopper \in {"no", "joining", "returned"}
    /\ cycles \in Nat /\ ran_slot \in [Task -> Int]

InCycle == pc \in {"drain", "hook", "task", "catch_up", "run", "end"}

\* Tasks whose first period the clock could express (plc_scheduler.c:175-183).
Aligned(t) == t <= Initial /\ start_ms + Phase[t] >= Period[t]

\* A late cycle, or several cycles in a row after an overrun, never run a task
\* twice for one of its periods: periods that were missed, or skipped during a
\* fault, are dropped and not made up for (plc_scheduler.c:230-233).
NoBurst ==
    pc = "run" /\ MayRun(i) /\ Aligned(i) => Slot(i, now_ms) > ran_slot[i]

\* No period is overlooked: when the task loop of a cycle is done, every task
\* that runs at all health levels has run in the period the cycle falls into.
EverySlotServed ==
    pc = "end" => \A t \in Task :
        Aligned(t) /\ Policy[t] = ALWAYS_RUN /\ now_ms >= start_ms + Phase[t]
            => ran_slot[t] = Slot(t, now_ms)

\* Catching up never makes the scheduler faster than the clock: the n-th cycle
\* does not begin before n base cycles have passed since the start.
CycleRate == InCycle => now_ms >= start_ms + cycles * Base

\* "PLC scheduler running periodic PLC tasks in a dedicated thread"
\* (plc_scheduler.h:1): a cycle that begins ends.
EveryCycleEnds == InCycle ~> ~InCycle

\* plc_scheduler_stop returns: the thread sees the flag and can be joined.
StopReturns == stopper = "joining" ~> stopper = "returned"
=============================================================================
