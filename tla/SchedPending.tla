---------------------------- MODULE SchedPending ----------------------------
(***************************************************************************)
(* Adding tasks to the scheduler (core/plc/plc_scheduler.c) from any       *)
(* thread, while main starts and stops it.                                 *)
(*                                                                         *)
(* plc_scheduler_add_task_runtime puts a task directly into the table as   *)
(* long as the scheduler is not running.  Afterwards it queues the task:   *)
(* plc_scheduler_queue_task claims a slot with a compare-and-swap, fills   *)
(* it and raises its ready flag; plc_scheduler_drain_pending, at the       *)
(* beginning of every cycle, moves ready slots to the table in the order   *)
(* in which they were claimed.                                             *)
(***************************************************************************)
EXTENDS Integers, Sequences, FiniteSets, SequencesExt

CONSTANTS
    Producers,  \* the threads that call plc_scheduler_add_task_runtime
    Calls,      \* how often each of them may call it
    Slots,      \* the size of s->pending_tasks
    TableSize   \* the size of s->tasks

ASSUME SizeAssumption ==
    /\ Calls \in Nat /\ Slots \in Nat \ {0} /\ TableSize \in Nat

\* The n-th task that p adds; NoTask is a slot of the zeroed array.
Task == Producers \X (1 .. Calls)
NoTask == <<>>
Slot == 0 .. Slots - 1
SlotOf(i) == i % Slots

VARIABLES
    main_pc, running,                   \* plc_scheduler_start and _stop
    pending_write, pending_read, pending_ready, pending_tasks,
    tasks, task_count,                  \* the table
    p_pc, p_calls, p_read, p_write,     \* locals of add_task_runtime, by producer
    c_pc, c_read, c_write, c_task,      \* locals of drain_pending
    at,                                 \* the index at which each thread adds
    \* History: tasks whose call returned 0, tasks printed as dropped; two
    \* threads were in plc_scheduler_add_task_internal at once.
    accepted, dropped, overlap

main == <<main_pc, running>>
table == <<tasks, task_count>>
queue == <<pending_write, pending_read, pending_ready, pending_tasks>>
pvars == <<p_pc, p_calls, p_read, p_write>>
cvars == <<c_pc, c_read, c_write, c_task>>
hist == <<accepted, dropped, overlap>>
vars == <<main, queue, table, pvars, cvars, at, hist>>

\* The scheduler's thread, as one that adds.
Drainer == "drain"
Adder == Producers \cup {Drainer}

ASSUME DrainerAssumption == Drainer \notin Producers

Init == /\ main_pc = "init" /\ running = FALSE
        /\ pending_write = 0 /\ pending_read = 0
        /\ pending_ready = [s \in Slot |-> FALSE]
        /\ pending_tasks = [s \in Slot |-> NoTask]
        /\ tasks = [k \in 1 .. TableSize |-> NoTask] /\ task_count = 0
        /\ p_pc = [p \in Producers |-> "idle"]
        /\ p_calls = [p \in Producers |-> 0]
        /\ p_read = [p \in Producers |-> 0] /\ p_write = [p \in Producers |-> 0]
        /\ c_pc = "none" /\ c_read = 0 /\ c_write = 0 /\ c_task = NoTask
        /\ at = [x \in Adder |-> 0]
        /\ accepted = {} /\ dropped = {} /\ overlap = FALSE

\* The entries in use.
Table == SubSeq(tasks, 1, task_count)
-----------------------------------------------------------------------------
(* Main starts the scheduler, and stops it. *)

Start == /\ main_pc = "init"
         /\ running' = TRUE /\ main_pc' = "starting"
         /\ UNCHANGED <<queue, table, pvars, cvars, at, hist>>

\* When there is no thread to be had, the scheduler is not running after all.
CreateThread(ok) ==
    /\ main_pc = "starting"
    /\ running' = ok
    /\ main_pc' = IF ok THEN "run" ELSE "stopped"
    /\ c_pc' = IF ok THEN "idle" ELSE "none"
    /\ UNCHANGED <<queue, table, pvars, c_read, c_write, c_task, at, hist>>

Stop == /\ main_pc = "run"
        /\ running' = FALSE /\ main_pc' = "stopped"
        /\ UNCHANGED <<queue, table, pvars, cvars, at, hist>>
-----------------------------------------------------------------------------
(* plc_scheduler_add_task_internal, by producer or drain, in three steps:   *)
(* the test for room, the entry, the count.                                 *)

Adding(pc) == pc \in {"store", "count"}
\* Whether a second thread is inside when x enters.
Overlaps(x) == \/ x # Drainer /\ Adding(c_pc)
               \/ \E p \in Producers \ {x} : Adding(p_pc[p])

StoreTask(x, t) == /\ tasks' = [tasks EXCEPT ![at[x] + 1] = t]
                   /\ UNCHANGED task_count
CountTask(x) == task_count' = at[x] + 1 /\ UNCHANGED tasks
-----------------------------------------------------------------------------
(* plc_scheduler_add_task_runtime before the start. *)

\* The first look at running decides between table and queue.
AddRuntime(p) ==
    /\ p_pc[p] = "idle" /\ p_calls[p] < Calls
    /\ p_calls' = [p_calls EXCEPT ![p] = @ + 1]
    /\ p_pc' = [p_pc EXCEPT ![p] = IF running THEN "load_read" ELSE "direct"]
    /\ UNCHANGED <<main, queue, table, p_read, p_write, cvars, at, hist>>

\* plc_scheduler_add_task looks again: a start in between refuses the task.
AddDirect(p) ==
    /\ p_pc[p] = "direct"
    /\ p_pc' = [p_pc EXCEPT ![p] = IF running THEN "idle" ELSE "room"]
    /\ UNCHANGED <<main, queue, table, p_calls, p_read, p_write, cvars, at, hist>>

DirectRoom(p) ==
    /\ p_pc[p] = "room"
    /\ IF task_count < TableSize
       THEN /\ p_pc' = [p_pc EXCEPT ![p] = "store"]
            /\ at' = [at EXCEPT ![p] = task_count]
            /\ overlap' = (overlap \/ Overlaps(p))
       ELSE p_pc' = [p_pc EXCEPT ![p] = "idle"] /\ UNCHANGED <<at, overlap>>
    /\ UNCHANGED <<main, queue, table, p_calls, p_read, p_write, cvars,
                   accepted, dropped>>

DirectStore(p) ==
    /\ p_pc[p] = "store"
    /\ StoreTask(p, <<p, p_calls[p]>>)
    /\ p_pc' = [p_pc EXCEPT ![p] = "count"]
    /\ UNCHANGED <<main, queue, p_calls, p_read, p_write, cvars, at, hist>>

DirectCount(p) ==
    /\ p_pc[p] = "count"
    /\ CountTask(p)
    /\ accepted' = accepted \cup {<<p, p_calls[p]>>}
    /\ p_pc' = [p_pc EXCEPT ![p] = "idle"]
    /\ UNCHANGED <<main, queue, p_calls, p_read, p_write, cvars, at, dropped,
                   overlap>>
-----------------------------------------------------------------------------
(* plc_scheduler_queue_task, run by producer p. *)

QueueLoadRead(p) ==
    /\ p_pc[p] = "load_read"
    /\ p_read' = [p_read EXCEPT ![p] = pending_read]
    /\ p_pc' = [p_pc EXCEPT ![p] = "load_write"]
    /\ UNCHANGED <<main, queue, table, p_calls, p_write, cvars, at, hist>>

QueueFull_OffByOne(w, r) == w - r > Slots
QueueFull(w, r) == w - r >= Slots

QueueLoadWrite(p) ==
    /\ p_pc[p] = "load_write"
    /\ p_write' = [p_write EXCEPT ![p] = pending_write]
    /\ p_pc' = [p_pc EXCEPT ![p] =
                    IF QueueFull(pending_write, p_read[p]) THEN "idle" ELSE "cas"]
    /\ UNCHANGED <<main, queue, table, p_calls, p_read, cvars, at, hist>>

Claimed_PlainStore(p) == TRUE
Claimed(p) == pending_write = p_write[p]

\* The compare-and-swap; a lost race starts over.
QueueClaim(p) ==
    /\ p_pc[p] = "cas"
    /\ IF Claimed(p)
       THEN /\ pending_write' = p_write[p] + 1
            /\ p_pc' = [p_pc EXCEPT ![p] = "fill"]
       ELSE p_pc' = [p_pc EXCEPT ![p] = "load_read"] /\ UNCHANGED pending_write
    /\ UNCHANGED <<main, pending_read, pending_ready, pending_tasks, table,
                   p_calls, p_read, p_write, cvars, at, hist>>

QueueFill(p) ==
    /\ p_pc[p] = "fill"
    /\ pending_tasks' = [pending_tasks EXCEPT ![SlotOf(p_write[p])] =
                            <<p, p_calls[p]>>]
    /\ p_pc' = [p_pc EXCEPT ![p] = "ready"]
    /\ UNCHANGED <<main, pending_write, pending_read, pending_ready, table,
                   p_calls, p_read, p_write, cvars, at, hist>>

QueueReady(p) ==
    /\ p_pc[p] = "ready"
    /\ pending_ready' = [pending_ready EXCEPT ![SlotOf(p_write[p])] = TRUE]
    /\ accepted' = accepted \cup {<<p, p_calls[p]>>}
    /\ p_pc' = [p_pc EXCEPT ![p] = "idle"]
    /\ UNCHANGED <<main, pending_write, pending_read, pending_tasks, table,
                   p_calls, p_read, p_write, cvars, at, dropped, overlap>>
-----------------------------------------------------------------------------
(* plc_scheduler_drain_pending, run by the scheduler thread. *)

\* The loop's test: a cycle begins with the drain.
DrainBegin ==
    /\ c_pc = "idle" /\ running
    /\ c_read' = pending_read /\ c_write' = pending_write
    /\ c_pc' = "check"
    /\ UNCHANGED <<main, queue, table, pvars, c_task, at, hist>>

ThreadExit ==
    /\ c_pc = "idle" /\ ~running
    /\ c_pc' = "exited"
    /\ UNCHANGED <<main, queue, table, pvars, c_read, c_write, c_task, at, hist>>

SlotReady_Unchecked == TRUE
SlotReady == pending_ready[SlotOf(c_read)]

\* Stop at the end of what was written, or at a slot still being filled.
DrainCheck ==
    /\ c_pc = "check"
    /\ c_pc' = IF c_read < c_write /\ SlotReady THEN "copy" ELSE "idle"
    /\ UNCHANGED <<main, queue, table, pvars, c_read, c_write, c_task, at, hist>>

DrainCopy ==
    /\ c_pc = "copy"
    /\ c_task' = pending_tasks[SlotOf(c_read)]
    /\ c_pc' = "clear"
    /\ UNCHANGED <<main, queue, table, pvars, c_read, c_write, at, hist>>

\* The flag is lowered before the slot is given back.
DrainClear ==
    /\ c_pc = "clear"
    /\ pending_ready' = [pending_ready EXCEPT ![SlotOf(c_read)] = FALSE]
    /\ c_pc' = "advance"
    /\ UNCHANGED <<main, pending_write, pending_read, pending_tasks, table,
                   pvars, c_read, c_write, c_task, at, hist>>

DrainAdvance ==
    /\ c_pc = "advance"
    /\ pending_read' = c_read + 1 /\ c_read' = c_read + 1
    /\ c_pc' = "add"
    /\ UNCHANGED <<main, pending_write, pending_ready, pending_tasks, table,
                   pvars, c_write, c_task, at, hist>>

\* A task beyond the table is dropped.
DrainRoom ==
    /\ c_pc = "add"
    /\ IF task_count < TableSize
       THEN /\ c_pc' = "store" /\ at' = [at EXCEPT ![Drainer] = task_count]
            /\ overlap' = (overlap \/ Overlaps(Drainer))
            /\ UNCHANGED <<c_task, dropped>>
       ELSE /\ c_pc' = "check" /\ c_task' = NoTask
            /\ dropped' = dropped \cup {c_task}
            /\ UNCHANGED <<at, overlap>>
    /\ UNCHANGED <<main, queue, table, pvars, c_read, c_write, accepted>>

DrainStore ==
    /\ c_pc = "store"
    /\ StoreTask(Drainer, c_task)
    /\ c_pc' = "count"
    /\ UNCHANGED <<main, queue, pvars, c_read, c_write, c_task, at, hist>>

DrainCount ==
    /\ c_pc = "count"
    /\ CountTask(Drainer)
    /\ c_pc' = "check" /\ c_task' = NoTask
    /\ UNCHANGED <<main, queue, pvars, c_read, c_write, at, hist>>
-----------------------------------------------------------------------------
Produce(p) == \/ AddRuntime(p) \/ AddDirect(p)
              \/ DirectRoom(p) \/ DirectStore(p) \/ DirectCount(p)
              \/ QueueLoadRead(p) \/ QueueLoadWrite(p) \/ QueueClaim(p)
              \/ QueueFill(p) \/ QueueReady(p)
Drain == \/ DrainBegin \/ DrainCheck \/ DrainCopy \/ DrainClear \/ DrainAdvance
         \/ DrainRoom \/ DrainStore \/ DrainCount \/ ThreadExit
Main == Start \/ (\E ok \in BOOLEAN : CreateThread(ok)) \/ Stop

Next == Main \/ Drain \/ \E p \in Producers : Produce(p)

Spec == Init /\ [][Next]_vars
FairSpec == /\ Spec /\ WF_vars(Drain)
            /\ WF_vars(\E ok \in BOOLEAN : CreateThread(ok))
            /\ \A p \in Producers : WF_vars(QueueFill(p) \/ QueueReady(p))
-----------------------------------------------------------------------------
Filling(p) == p_pc[p] \in {"fill", "ready"}

\* Between the claim of a slot and its ready flag nobody else uses the slot:
\* not another producer, not the drain, and not the task it held before.
SlotOwned ==
    \A p \in Producers : Filling(p) =>
        /\ \A q \in Producers \ {p} :
              Filling(q) => SlotOf(p_write[p]) # SlotOf(p_write[q])
        /\ c_pc \in {"copy", "clear", "advance"} =>
              SlotOf(p_write[p]) # SlotOf(c_read)
        /\ ~pending_ready[SlotOf(p_write[p])]

\* Tasks in ready slots that the drain has not yet taken over.
Waiting == {pending_tasks[SlotOf(i)] : i \in {k \in pending_read ..
                pending_write - 1 : pending_ready[SlotOf(k)]}}

\* A task whose call returned 0 is never lost and never added twice: it waits
\* in a slot, is in the drain's hands, is in the table, or was reported dropped
\* because the table is full.  All the more when main starts or stops the
\* scheduler meanwhile: unless two threads are in add_task_internal at once,
\* which nothing prevents when a task is added directly.
AcceptedKept ==
    ~overlap =>
        /\ accepted = Waiting \cup ({c_task} \ {NoTask}) \cup ToSet(Table)
                       \cup dropped
        /\ IsInjective(Table)
        /\ dropped # {} => task_count = TableSize

\* One thread's tasks enter the table in the order of its calls, before and
\* after the start and whichever slots its calls won; until the scheduler is
\* stopped, when those in the queue are overtaken.
CallOrderKept ==
    ~overlap /\ main_pc # "stopped" =>
        \A j, k \in 1 .. task_count :
            j < k /\ Table[j][1] = Table[k][1] => Table[j][2] < Table[k][2]

\* A queued task reaches the table, or is dropped: a slot that is claimed but
\* not yet ready delays the ones behind it, but not for ever.  It stays in the
\* queue when the scheduler is stopped, or could not be started.
QueuedTaskTaken ==
    \A t \in Task : t \in accepted ~>
        t \in ToSet(Table) \cup dropped \/ overlap \/ main_pc = "stopped"
=============================================================================
