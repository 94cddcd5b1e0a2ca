------------------------- MODULE PlcScheduler_proofs -------------------------
(***************************************************************************)
(* The rhythm of core/plc/plc_scheduler.c is right for any base cycle, any *)
(* task table, any delay of the thread and any hand-over at run time: no   *)
(* burst of cycles, and as long as the clock fits into last_run_ms every   *)
(* period of every task is accounted for once.                             *)
(***************************************************************************)
EXTENDS PlcScheduler, TLAPS

Started == pc \notin {"off", "init"}

\* next_tick_ms is ahead of the cycles that have begun.
RateInv ==
    /\ ~Started => cycles = 0
    /\ Started /\ ~InCycle => next_tick_ms >= start_ms + (cycles + 1) * Base
    /\ InCycle => /\ next_tick_ms >= start_ms + cycles * Base
                  /\ now_ms >= next_tick_ms

\* The task loop has caught up with every task that it has passed.
Visited(t) == now_ms >= start_ms + Phase[t] => ~Behind(t)
LoopInv ==
    /\ pc \in {"task", "catch_up", "run"} => \A t \in Task : t < i => Visited(t)
    /\ pc = "end" => \A t \in 1 .. task_count : Visited(t)
    /\ pc \in {"catch_up", "run"} =>
         /\ i <= task_count /\ now_ms >= start_ms + Phase[i]
         /\ pc = "run" => ~Behind(i)

\* The task loop is at t, which is due.
Serving(t) == pc \in {"catch_up", "run"} /\ i = t

\* Task t has been accounted for up to the beginning of its slot k.
UpTo(t, k) ==
    /\ k >= -1 /\ last_run_ms[t] = start_ms + Phase[t] + k * Period[t]
    /\ k >= 0 => last_run_ms[t] <= now_ms
    /\ ran_slot[t] <= k
    /\ Serving(t) => ran_slot[t] < k \/ (pc = "catch_up" /\ Behind(t))
    /\ ~Serving(t) /\ Policy[t] = ALWAYS_RUN => ran_slot[t] = k

\* last_run_ms can hold the task's first value.
Fits(t) == Aligned(t) /\ start_ms + Phase[t] - Period[t] < Wrap

SlotsInv == /\ ~Started => ran_slot = [t \in Task |-> -1]
            /\ Started => \A t \in Task : Fits(t) => \E k \in Int : UpTo(t, k)

SchedInv == TypeOK /\ RateInv /\ LoopInv /\ (clock < Wrap => SlotsInv)
-----------------------------------------------------------------------------
\* A number below the wrap is not changed by it.
LEMMA SmallMod ==
    ASSUME NEW n \in Nat \ {0}, NEW x \in Nat, x < n PROVE x % n = x
  BY SMT

\* The quotient is where the multiples of n say it is.
LEMMA QuotientIs ==
    ASSUME NEW n \in Nat \ {0}, NEW a \in Nat, NEW q \in Int,
           n * q <= a, a < n * q + n
    PROVE  a \div n = q
<1>1. PICK p \in Int, r \in 0 .. n - 1 : p = a \div n /\ a = n * p + r
  BY SMT
<1>2. PICK d \in Int : d = p - q /\ n * d = a - n * q - r
  BY <1>1, SMT
<1>3. d <= 0 /\ d >= 0
  BY <1>1, <1>2, SMT
<1> QED BY <1>1, <1>2, <1>3, SMT

\* One multiple more.
LEMMA OneMore == ASSUME NEW k \in Int, NEW n \in Int PROVE (k + 1) * n = k * n + n
  BY SMT

\* Every variable of PlcScheduler keeps its range.
LEMMA TypeInit == Init => TypeOK
<1> SUFFICES ASSUME Init PROVE TypeOK
  OBVIOUS
<1>1. /\ 0 \in 0 .. Wrap - 1 /\ 1 \in 1 .. Tasks + 1 /\ Initial \in Initial .. Tasks
      /\ Boot \in Nat /\ 0 <= Boot
  BY TaskAssumption, TimeAssumption, SMT
<1>2. last_run_ms \in [Task -> 0 .. Wrap - 1] /\ ran_slot \in [Task -> Int]
  BY <1>1 DEF Init
<1> QED BY <1>1, <1>2 DEF Init, TypeOK, Health

\* (The task loop serves a task of the table.)
LEMMA TypeNext == TypeOK /\ LoopInv /\ [Next]_vars => TypeOK'
<1> SUFFICES ASSUME TypeOK, LoopInv, [Next]_vars PROVE TypeOK'
  OBVIOUS
<1> USE DEF TypeOK, main, times, table, thread, hist
<1>0. /\ Initial \in Nat /\ Tasks \in Nat /\ Base \in Nat \ {0}
      /\ Wrap \in Nat \ {0}
      /\ \A t \in Task : Period[t] \in Nat \ {0} /\ Phase[t] \in Nat
  BY TaskAssumption, TimeAssumption
<1>1. CASE Main
  BY <1>1 DEF Main, Start, Stop, Joined
<1>2. CASE Tick
  BY <1>2 DEF Tick
<1>3. CASE ThreadStart
  <2>1. \A t \in Task : FirstLastRun(t, clock) \in 0 .. Wrap - 1
    BY <1>0, SMT DEF FirstLastRun
  <2>2. 0 \in 0 .. Wrap - 1
    BY <1>0, SMT
  <2>3. last_run_ms' \in [Task -> 0 .. Wrap - 1]
    BY <1>3, <2>1, <2>2 DEF ThreadStart
  <2> QED BY <1>0, <1>3, <2>3 DEF ThreadStart
<1>4. CASE LoopTest \/ ReadClock \/ Wake \/ EndHook
  BY <1>0, <1>4 DEF LoopTest, ReadClock, Wake, EndHook, NextTick
<1>5. CASE Drain \/ BeginHook \/ SkipTask \/ TakeTask \/ TasksDone
  BY <1>0, <1>5 DEF Drain, BeginHook, SkipTask, TakeTask, TasksDone
<1>6. CASE CatchUp
  <2>1. i \in Task
    BY <1>0, <1>6, SMT DEF CatchUp, LoopInv, Task
  <2>2. last_run_ms[i] + Period[i] \in Nat
    BY <1>0, <2>1, SMT
  <2>3. Advance(i) \in 0 .. Wrap - 1
    BY <1>0, <2>2, SMT DEF Advance
  <2>4. last_run_ms' \in [Task -> 0 .. Wrap - 1]
    BY <1>6, <2>3 DEF CatchUp
  <2> QED BY <1>6, <2>4 DEF CatchUp
<1>7. CASE RunTask
  <2>1. i \in Task
    BY <1>0, <1>7, SMT DEF RunTask, LoopInv, Task
  <2>2. now_ms - (start_ms + Phase[i]) \in Int
    BY <1>0, <2>1, SMT
  <2>3. Slot(i, now_ms) \in Int
    BY <1>0, <2>1, <2>2, SMT DEF Slot
  <2>4. ran_slot' \in [Task -> Int] /\ i' \in 1 .. Tasks + 1
    BY <1>0, <1>7, <2>1, <2>3, SMT DEF RunTask, Task
  <2> QED BY <1>7, <2>4 DEF RunTask
<1>8. CASE UNCHANGED vars
  BY <1>8 DEF vars
<1> QED BY <1>1, <1>2, <1>3, <1>4, <1>5, <1>6, <1>7, <1>8 DEF Next, Thread, Cycle

\* The thread cannot get ahead of its own rhythm: next_tick_ms grows by a base
\* cycle, at least, for each cycle.
LEMMA RateNext == TypeOK /\ RateInv /\ [Next]_vars => RateInv'
<1> SUFFICES ASSUME TypeOK, RateInv, [Next]_vars PROVE RateInv'
  OBVIOUS
<1> USE DEF TypeOK, RateInv, Started, InCycle, main, times, table, thread, hist
<1>0. Base \in Nat \ {0} /\ (cycles + 1) * Base = cycles * Base + Base
      /\ cycles * Base \in Nat
  BY TimeAssumption, OneMore, SMT
<1>1. CASE Main \/ Tick
  BY <1>1 DEF Main, Start, Stop, Joined, Tick
<1>2. CASE ThreadStart
  <2>1. cycles' = 0 /\ (0 + 1) * Base = Base
    BY <1>0, <1>2, SMT DEF ThreadStart
  <2> QED BY <1>2, <2>1 DEF ThreadStart
<1>3. CASE LoopTest \/ Wake
  BY <1>3 DEF LoopTest, Wake
<1>4. CASE ReadClock
  BY <1>0, <1>4 DEF ReadClock
<1>5. CASE EndHook
  <2>1. /\ NextTick(next_tick_ms, now_ms) \in Int
        /\ NextTick(next_tick_ms, now_ms) >= next_tick_ms + Base
    BY <1>0, <1>5, SMT DEF NextTick, EndHook
  <2>2. /\ pc = "end" /\ pc' = "test" /\ start_ms' = start_ms /\ cycles' = cycles
        /\ next_tick_ms' = NextTick(next_tick_ms, now_ms)
    BY <1>5 DEF EndHook
  <2>3. next_tick_ms' >= start_ms + (cycles + 1) * Base
    BY <1>0, <2>1, <2>2
  <2> QED BY <2>2, <2>3
<1>6. CASE \/ Drain \/ BeginHook \/ SkipTask \/ TakeTask \/ CatchUp \/ RunTask
           \/ TasksDone
  BY <1>6 DEF Drain, BeginHook, SkipTask, TakeTask, CatchUp, RunTask, TasksDone
<1>7. CASE UNCHANGED vars
  BY <1>7 DEF vars
<1> QED BY <1>1, <1>2, <1>3, <1>4, <1>5, <1>6, <1>7 DEF Next, Thread, Cycle

\* The task loop leaves no task behind that it has passed.
LEMMA LoopNext == TypeOK /\ LoopInv /\ [Next]_vars => LoopInv'
<1> SUFFICES ASSUME TypeOK, LoopInv, [Next]_vars PROVE LoopInv'
  OBVIOUS
<1> USE DEF LoopInv, Visited, Behind, main, times, table, thread, hist
<1>1. CASE Main \/ Tick \/ UNCHANGED vars
  BY <1>1 DEF Main, Start, Stop, Joined, Tick, vars
<1>2. CASE ThreadStart \/ LoopTest \/ ReadClock \/ Wake \/ EndHook \/ Drain
  BY <1>2 DEF ThreadStart, LoopTest, ReadClock, Wake, EndHook, Drain
<1>3. CASE BeginHook
  <2>1. \A t \in Task : ~(t < 1)
    BY TaskAssumption, SMT DEF Task
  <2> QED BY <1>3, <2>1 DEF BeginHook
<1>4. CASE TakeTask
  BY <1>4 DEF TakeTask, Due
<1>5. CASE SkipTask \/ RunTask
  <2>1. /\ i \in Int /\ i' = i + 1 /\ pc' = "task" /\ Visited(i)
        /\ UNCHANGED <<now_ms, start_ms, last_run_ms>>
        /\ pc \in {"task", "run"}
    BY <1>5 DEF SkipTask, RunTask, Due, TypeOK
  <2>2. \A t \in Task : t < i + 1 => t < i \/ t = i
    BY <2>1, SMT DEF Task
  <2> QED BY <2>1, <2>2
<1>6. CASE CatchUp
  <2>1. \A t \in Task : t < i => last_run_ms'[t] = last_run_ms[t]
    BY <1>6, TaskAssumption DEF CatchUp, TypeOK, Task
  <2> QED BY <1>6, <2>1 DEF CatchUp
<1>7. CASE TasksDone
  <2>1. \A t \in 1 .. task_count : t \in Task /\ t < i
    BY <1>7, TaskAssumption, SMT DEF TasksDone, TypeOK, Task
  <2> QED BY <1>7, <2>1 DEF TasksDone
<1> QED BY <1>1, <1>2, <1>3, <1>4, <1>5, <1>6, <1>7 DEF Next, Thread, Cycle
-----------------------------------------------------------------------------
\* The slot that a caught-up task is in is the one it is accounted for.
LEMMA SlotIs ==
    ASSUME TypeOK, NEW t \in Task, NEW k \in Int, UpTo(t, k),
           now_ms >= start_ms + Phase[t], ~Behind(t)
    PROVE  Slot(t, now_ms) = k
<1>1. /\ start_ms \in Nat /\ now_ms \in Nat /\ last_run_ms[t] \in Nat
      /\ Phase[t] \in Nat /\ Period[t] \in Nat \ {0}
  BY TaskAssumption, TimeAssumption, SMT DEF TypeOK
<1> DEFINE a == now_ms - (start_ms + Phase[t])
           m == Period[t] * k
<1>2. m \in Int /\ k * Period[t] = m /\ a \in Nat
  BY <1>1, SMT
<1>3. last_run_ms[t] = start_ms + Phase[t] + m
  BY <1>2 DEF UpTo
<1>4. a < m + Period[t]
  BY <1>1, <1>2, <1>3, SMT DEF Behind
<1>5. m <= a
  <2>1. CASE k >= 0
    BY <1>1, <1>2, <1>3, <2>1, SMT DEF UpTo
  <2>2. CASE k = -1
    BY <1>1, <1>2, <2>2, SMT
  <2> QED BY <2>1, <2>2, SMT DEF UpTo
<1> QED BY <1>1, <1>2, <1>4, <1>5, QuotientIs DEF Slot

\* Steps that touch neither the task's last_run_ms nor its executions.
LEMMA UpToStays ==
    ASSUME NEW t \in Task, NEW k \in Int, UpTo(t, k), TypeOK,
           last_run_ms'[t] = last_run_ms[t], ran_slot'[t] = ran_slot[t],
           start_ms' = start_ms, now_ms' \in Nat, now_ms <= now_ms',
           \/ ~Serving(t) /\ ~Serving(t)'
           \/ UNCHANGED <<pc, i, now_ms>>
    PROVE  UpTo(t, k)'
<1>1. last_run_ms[t] \in Nat
  BY TimeAssumption, SMT DEF TypeOK
<1>2. k >= 0 => last_run_ms'[t] <= now_ms'
  BY <1>1, SMT DEF UpTo, TypeOK
<1>3. CASE ~Serving(t) /\ ~Serving(t)'
  BY <1>2, <1>3 DEF UpTo
<1>4. CASE UNCHANGED <<pc, i, now_ms>>
  BY <1>2, <1>4 DEF UpTo, Serving, Behind
<1> QED BY <1>3, <1>4

\* The task that the loop catches up with, or runs, is one of the tasks.
LEMMA ServedIsTask ==
    ASSUME TypeOK, LoopInv, pc \in {"catch_up", "run"}
    PROVE  i \in Task
<1>1. i <= task_count
  BY DEF LoopInv
<1>2. i \in 1 .. Tasks + 1 /\ task_count \in Initial .. Tasks
  BY DEF TypeOK
<1> QED BY <1>1, <1>2, TaskAssumption, SMT DEF Task

\* While the clock fits into last_run_ms, every step keeps every task on the
\* line of its periods.
LEMMA SlotsNext ==
    ASSUME TypeOK, LoopInv, SlotsInv, TypeOK', [Next]_vars, clock < Wrap
    PROVE  SlotsInv'
<1> USE DEF main, times, table, thread, hist
<1>1. ASSUME Started, Started', start_ms' = start_ms,
             \A t \in Task, k \in Int :
                Fits(t) /\ UpTo(t, k) => \E l \in Int : UpTo(t, l)'
      PROVE  SlotsInv'
  <2>1. \A t \in Task : Fits(t)' => Fits(t)
    BY <1>1 DEF Fits, Aligned
  <2> QED BY <1>1, <2>1 DEF SlotsInv
<1>2. CASE ~Started /\ (Main \/ Tick \/ UNCHANGED vars)
  <2>1. ~Started' /\ ran_slot' = ran_slot
    BY <1>2 DEF Main, Start, Stop, Joined, Tick, vars, Started
  <2> QED BY <1>2, <2>1 DEF SlotsInv
<1>3. CASE ThreadStart
  <2>1. /\ ~Started /\ Started' /\ start_ms' = clock /\ pc' = "test"
        /\ now_ms' = now_ms /\ ran_slot' = ran_slot /\ task_count \in Initial .. Tasks
        /\ last_run_ms' = [t \in Task |-> IF t <= task_count
                                          THEN FirstLastRun(t, clock) ELSE 0]
    BY <1>3 DEF ThreadStart, Started, TypeOK
  <2>2. ASSUME NEW t \in Task, Fits(t)' PROVE UpTo(t, -1)'
    <3>1. /\ clock \in Nat /\ Phase[t] \in Nat /\ Period[t] \in Nat \ {0}
          /\ Wrap \in Nat \ {0} /\ Initial \in Nat /\ Tasks \in Nat
      BY TaskAssumption, TimeAssumption DEF TypeOK
    <3> DEFINE first == clock + Phase[t] - Period[t]
    <3>2. first \in Nat /\ first < Wrap /\ clock + Phase[t] >= Period[t] /\ t <= Initial
      BY <2>1, <2>2, <3>1, SMT DEF Fits, Aligned
    <3>3. FirstLastRun(t, clock) = first
      BY <3>1, <3>2, SmallMod DEF FirstLastRun
    <3>4. t <= task_count
      BY <2>1, <3>1, <3>2, SMT DEF Task
    <3>5. last_run_ms'[t] = first
      BY <2>1, <3>3, <3>4
    <3>6. first = clock + Phase[t] + (-1) * Period[t]
      BY <3>1, SMT
    <3>7. ran_slot'[t] = -1 /\ ~Serving(t)'
      BY <2>1 DEF SlotsInv, Serving
    <3> QED BY <2>1, <3>5, <3>6, <3>7 DEF UpTo
  <2> QED BY <2>1, <2>2 DEF SlotsInv
<1>4. CASE \/ LoopTest \/ ReadClock \/ Wake \/ EndHook \/ Drain \/ BeginHook
           \/ SkipTask \/ TasksDone
  <2>1. /\ Started /\ Started'
        /\ UNCHANGED <<last_run_ms, ran_slot, start_ms>>
        /\ now_ms' = now_ms \/ now_ms' = clock
        /\ pc \notin {"catch_up", "run"} /\ pc' \notin {"catch_up", "run"}
    BY <1>4 DEF LoopTest, ReadClock, Wake, EndHook, Drain, BeginHook, SkipTask,
       TasksDone, Started
  <2>2. \A t : ~Serving(t) /\ ~Serving(t)'
    BY <2>1 DEF Serving
  <2>3. now_ms <= now_ms' /\ now_ms' \in Nat
    BY <2>1, SMT DEF TypeOK
  <2> QED BY <1>1, <2>1, <2>2, <2>3, UpToStays
<1>5. CASE Started /\ (Main \/ Tick \/ UNCHANGED vars)
  <2>1. /\ Started' /\ UNCHANGED <<last_run_ms, ran_slot, start_ms, now_ms, pc, i>>
    BY <1>5 DEF Main, Start, Stop, Joined, Tick, vars, Started
  <2>2. now_ms <= now_ms' /\ now_ms' \in Nat
    BY <2>1, SMT DEF TypeOK
  <2> QED BY <1>1, <1>5, <2>1, <2>2, UpToStays
<1>6. CASE TakeTask
  <2>1. /\ Started /\ Started' /\ pc = "task" /\ pc' = "catch_up" /\ Behind(i)
        /\ UNCHANGED <<last_run_ms, ran_slot, start_ms, now_ms, i>>
    BY <1>6 DEF TakeTask, Started, Due
  <2>2. ASSUME NEW t \in Task, NEW k \in Int, UpTo(t, k) PROVE UpTo(t, k)'
    <3>1. CASE t = i
      BY <2>1, <2>2, <3>1 DEF UpTo, Serving, Behind
    <3>2. CASE t # i
      BY <2>1, <2>2, <3>2 DEF UpTo, Serving, Behind
    <3> QED BY <3>1, <3>2
  <2> QED BY <1>1, <2>1, <2>2
<1>7. CASE CatchUp
  <2>0. i \in Task
    BY <1>7, ServedIsTask DEF CatchUp
  <2>1. /\ Started /\ Started' /\ pc = "catch_up" /\ pc' \in {"catch_up", "run"}
        /\ UNCHANGED <<ran_slot, start_ms, now_ms, i>>
        /\ i \in Task
    BY <1>7, <2>0 DEF CatchUp, Started
  <2>2. ASSUME NEW t \in Task, NEW k \in Int, UpTo(t, k)
        PROVE  \E l \in Int : UpTo(t, l)'
    <3>1. /\ start_ms \in Nat /\ now_ms \in Nat /\ last_run_ms[t] \in Nat
          /\ Phase[t] \in Nat /\ Period[t] \in Nat \ {0} /\ now_ms <= clock
          /\ clock \in Nat /\ ran_slot[t] \in Int /\ Wrap \in Nat \ {0}
      BY TaskAssumption, TimeAssumption, SMT DEF TypeOK
    <3>2. CASE t # i
      <4>1. last_run_ms'[t] = last_run_ms[t] /\ ~Serving(t) /\ ~Serving(t)'
        BY <1>7, <2>1, <3>2 DEF CatchUp, TypeOK, Serving
      <4> QED BY <2>1, <2>2, <3>1, <4>1, UpToStays
    <3>3. CASE t = i /\ ~Behind(i)
      <4>1. pc' = "run" /\ last_run_ms' = last_run_ms
        BY <1>7, <3>3 DEF CatchUp
      <4> QED BY <2>1, <2>2, <3>3, <4>1 DEF UpTo, Serving
    <3>4. CASE t = i /\ Behind(i)
      <4>1. pc' = "catch_up" /\ last_run_ms'[t] = Advance(t)
        BY <1>7, <2>1, <3>4 DEF CatchUp, TypeOK
      <4>2. /\ last_run_ms[t] + Period[t] \in Nat
            /\ last_run_ms[t] + Period[t] < Wrap
            /\ last_run_ms[t] + Period[t] <= now_ms
        BY <3>1, <3>4, SMT DEF Behind
      <4>3. last_run_ms'[t] = last_run_ms[t] + Period[t]
        BY <3>1, <4>1, <4>2, SmallMod DEF Advance
      <4>4. last_run_ms'[t] = start_ms + Phase[t] + (k + 1) * Period[t]
        <5>1. /\ last_run_ms[t] = start_ms + Phase[t] + k * Period[t]
              /\ (k + 1) * Period[t] = k * Period[t] + Period[t]
              /\ k * Period[t] \in Int
          BY <2>2, <3>1, OneMore, SMT DEF UpTo
        <5> QED BY <3>1, <4>3, <5>1
      <4>5. k + 1 \in Int /\ k + 1 >= -1 /\ ran_slot[t] < k + 1
        BY <2>2, <3>1, SMT DEF UpTo
      <4>6. ran_slot[t] <= k + 1 /\ last_run_ms'[t] <= now_ms'
        BY <2>1, <3>1, <4>2, <4>3, <4>5, SMT
      <4>7. UpTo(t, k + 1)'
        BY <2>1, <3>4, <4>1, <4>4, <4>5, <4>6 DEF UpTo, Serving
      <4> QED BY <4>5, <4>7
    <3> QED BY <3>2, <3>3, <3>4
  <2> QED BY <1>1, <2>1, <2>2
<1>8. CASE RunTask
  <2>0. i \in Task
    BY <1>8, ServedIsTask DEF RunTask
  <2>1. /\ Started /\ Started' /\ pc = "run" /\ pc' = "task"
        /\ UNCHANGED <<last_run_ms, start_ms, now_ms>>
        /\ ran_slot' = IF MayRun(i) THEN [ran_slot EXCEPT ![i] = Slot(i, now_ms)]
                       ELSE ran_slot
        /\ i \in Task
    BY <1>8, <2>0 DEF RunTask, Started
  <2>2. ASSUME NEW t \in Task, NEW k \in Int, UpTo(t, k) PROVE UpTo(t, k)'
    <3>1. ~Serving(t)'
      BY <2>1 DEF Serving
    <3>2. CASE t # i
      <4>1. ran_slot'[t] = ran_slot[t] /\ ~Serving(t)
        BY <2>1, <3>2 DEF TypeOK, Serving
      <4> QED BY <2>1, <2>2, <3>1, <4>1 DEF UpTo
    <3>3. CASE t = i
      <4>1. Slot(t, now_ms) = k
        BY <2>1, <2>2, <3>3, SlotIs DEF LoopInv
      <4>2. ran_slot'[t] = IF MayRun(t) THEN k ELSE ran_slot[t]
        BY <2>1, <3>3, <4>1 DEF TypeOK
      <4>3. Policy[t] = ALWAYS_RUN => MayRun(t)
        BY DEF MayRun
      <4> QED BY <2>1, <2>2, <3>1, <4>2, <4>3 DEF UpTo
    <3> QED BY <3>2, <3>3
  <2> QED BY <1>1, <2>1, <2>2
<1> QED BY <1>2, <1>3, <1>4, <1>5, <1>6, <1>7, <1>8 DEF Next, Thread, Cycle

\* Before the start no task has run.
LEMMA SchedInit == Init => SchedInv
<1> SUFFICES ASSUME Init PROVE SchedInv
  OBVIOUS
<1>1. RateInv /\ LoopInv /\ SlotsInv
  BY DEF Init, RateInv, Started, InCycle, LoopInv, SlotsInv
<1> QED BY <1>1, TypeInit DEF SchedInv

\* Every step keeps every part of the invariant.
LEMMA SchedNext == SchedInv /\ [Next]_vars => SchedInv'
<1> SUFFICES ASSUME SchedInv, [Next]_vars PROVE SchedInv'
  OBVIOUS
<1>1. TypeOK' /\ RateInv' /\ LoopInv'
  BY TypeNext, RateNext, LoopNext DEF SchedInv
<1>2. clock' < Wrap => clock < Wrap
  <2>1. clock' = clock \/ clock' = clock + 1
    BY DEF Next, Main, Start, Stop, Joined, Thread, ThreadStart, LoopTest,
       ReadClock, Wake, Cycle, Drain, BeginHook, SkipTask, TakeTask, CatchUp,
       RunTask, TasksDone, EndHook, Tick, vars
  <2> QED BY <2>1, TimeAssumption, SMT DEF SchedInv, TypeOK
<1> QED BY <1>1, <1>2, SlotsNext DEF SchedInv

\* The thread's rhythm and its accounts, in every state.
THEOREM SchedulerCorrect == Spec => []SchedInv
BY SchedInit, SchedNext, PTL DEF Spec

\* Every variable of PlcScheduler keeps its range: last_run_ms never leaves its
\* 32 bits, and i never leaves the table.
THEOREM SchedulerTypes == Spec => []TypeOK
<1>1. SchedInv => TypeOK
  BY DEF SchedInv
<1> QED BY <1>1, SchedulerCorrect, PTL

\* However late the thread gets, and however it catches up, its n-th cycle does
\* not begin before n base cycles have passed.
THEOREM RateIsBounded == Spec => []CycleRate
<1>1. SchedInv => CycleRate
  BY TimeAssumption, SMT DEF SchedInv, RateInv, TypeOK, CycleRate
<1> QED BY <1>1, SchedulerCorrect, PTL

\* As long as the uptime fits into last_run_ms no task runs twice for one of its
\* periods, whatever the periods, the phases and the delays are.
THEOREM NoTaskRunsTwice == Spec => [](clock < Wrap => NoBurst)
<1>1. SchedInv => (clock < Wrap => NoBurst)
  <2> SUFFICES ASSUME SchedInv, clock < Wrap, pc = "run", Aligned(i)
               PROVE  Slot(i, now_ms) > ran_slot[i]
    BY DEF NoBurst
  <2>1. /\ TypeOK /\ i \in Task /\ ~Behind(i) /\ Started
        /\ now_ms >= start_ms + Phase[i]
    BY TaskAssumption, SMT DEF SchedInv, LoopInv, TypeOK, Task, Started
  <2>2. Fits(i)
    BY <2>1, TaskAssumption, TimeAssumption, SMT DEF TypeOK, Fits
  <2>3. PICK k \in Int : UpTo(i, k)
    BY <2>1, <2>2 DEF SchedInv, SlotsInv
  <2>4. Slot(i, now_ms) = k
    BY <2>1, <2>3, SlotIs
  <2>5. ran_slot[i] < k /\ ran_slot[i] \in Int
    BY <2>1, <2>3 DEF UpTo, Serving, TypeOK
  <2> QED BY <2>4, <2>5, SMT
<1> QED BY <1>1, SchedulerCorrect, PTL

\* As long as the uptime fits into last_run_ms every cycle serves every task
\* that runs at all health levels, for the period that the cycle falls into.
THEOREM NoSlotIsMissed == Spec => [](clock < Wrap => EverySlotServed)
<1>1. SchedInv => (clock < Wrap => EverySlotServed)
  <2> SUFFICES ASSUME SchedInv, clock < Wrap, pc = "end", NEW t \in Task,
                      Aligned(t), Policy[t] = ALWAYS_RUN,
                      now_ms >= start_ms + Phase[t]
               PROVE  ran_slot[t] = Slot(t, now_ms)
    BY DEF EverySlotServed
  <2>1. TypeOK /\ Started /\ ~Serving(t)
    BY DEF SchedInv, Started, Serving
  <2>2. t \in 1 .. task_count
    BY <2>1, TaskAssumption, SMT DEF TypeOK, Task, Aligned
  <2>3. ~Behind(t)
    BY <2>2 DEF SchedInv, LoopInv, Visited
  <2>4. Fits(t)
    BY <2>1, TaskAssumption, TimeAssumption, SMT DEF TypeOK, Fits
  <2>5. PICK k \in Int : UpTo(t, k)
    BY <2>1, <2>4 DEF SchedInv, SlotsInv
  <2>6. ran_slot[t] = k
    BY <2>1, <2>5 DEF UpTo
  <2> QED BY <2>1, <2>3, <2>5, <2>6, SlotIs
<1> QED BY <1>1, SchedulerCorrect, PTL
=============================================================================
