# Verification of PLCMaster

PLCMaster is a small programmable logic controller in C: a scheduler thread runs
periodic tasks, an EtherCAT backend exchanges their inputs and outputs with the
bus from a real-time thread, and a TCP server lets a client read and write tags.
Most of what can go wrong in it goes wrong *between* its threads, which talk to
each other through atomic indices and lock-free queues and take no lock anywhere.
This directory holds TLA+ models of that core, the TLC runs that check them, and
TLAPS proofs. All source paths below are relative to `src/PLCMaster/src/`.

## The system

| Component | Source | State it keeps | Operations |
|---|---|---|---|
| SPSC ring | `core/ipc/spsc_ring.c` | storage, two wrapping 32-bit indices | push, pop |
| Tag RPC channel | `core/ipc/tag_rpc.c` | a request ring and a response ring | send and receive on each |
| RPC server side | `core/ipc/tag_rpc_plc.c` | none | poll: look a tag up, read or write it, answer |
| TCP tag server | `services/tcp/tag_tcp_server.c` | sockets, stop flag, next request id | accept, receive lines, handle a request, stop |
| PLC scheduler | `core/plc/plc_scheduler.c` | task table, run-time task queue, running flag, health level | start, stop, the cycle, add a task before or during the run |
| PLC cycle | `main.c` | the cycle context | cycle begin (poll, factory reset, backends begin, health), cycle end |
| Orchestration | `app/plc/plc_runtime.c` | none | start and stop of server, backends and scheduler |
| Platform sockets | `core/platform/platform_socket.c` | handle and valid flag of a socket | listen, accept, receive, send all, close |
| Runtime | `core/runtime/runtime.c` | stores, tag table, backends | start (with rollback), stop, begin, sync outputs, health |
| EtherCAT backend | `backends/ethercat/ec_backend.c` | two input and two output buffers, four indices, fault flag, counters | RT cycle, cycle begin, cycle end, start, stop, bind, finalize |
| EtherCAT states | `backends/ethercat/ec_soem_lifecycle.c` | the SOEM context | bounded retries towards SAFE_OP and OP |
| Tags | `core/tag/*` | tag table | add, find, resolve aliases, read, write |
| Builder | `system/builder/*`, `core/backend/*`, `core/device/*` | none of its own | checks the configuration, fills tag table, stores and backends, cleans up what failed |
| Views | `app/user_entry.c`, `app/io/*` | tag ids by view | bind to the tag table |
| Stores | `app/plc/store_init.c` | process and HMI variables | initial values at start and factory reset |
| Rest | other platform wrappers, device descriptors, diagnostics, stubs | constants or none | - |

Four threads run: **main** starts everything, sleeps for 50 minutes and stops
everything; the **PLC thread** (scheduler); the **RT thread** (one per EtherCAT
backend); the **TCP thread**. They interact like this:

```
 client -- TCP thread ==req ring==> PLC thread ==output buffers==> RT thread -- bus
                      <==rsp ring==            <==input buffers==
 main: start/stop flags and joins     any thread ==pending queue==> PLC thread
```

### What is hard about it, and what makes each part correct

* **Ring.** Each side works with a stale copy of the other's index, elements are
  copied word by word, and indices wrap. Correct: a bounded first-in first-out
  queue of whole elements.
* **Output buffers.** The PLC thread swaps the two buffers while the RT thread may
  be copying one of them and may be zeroing both. Correct: a frame carries one
  PLC cycle's outputs (the code keeps this only as long as no PLC cycle both ends and is
  followed by the next one's first write during one copy, see below); outputs that no task
  writes keep their value; nothing but zeros leaves after a fault.
* **Input buffers.** The RT thread alternates between two buffers and the PLC
  thread latches the active one. Correct: a cycle reads one bus frame.
* **Watchdog.** Four thresholds on three counters, one of the inputs sampled once
  in 40 cycles. Correct: a lasting failure is latched within a known number of
  cycles, a transient one is forgotten, the warning comes before the fault.
* **Scheduler time.** Phases, periods that are no multiple of the base cycle, late
  cycles, overruns, 32-bit and 64-bit times. Correct: each task once in each of
  its periods, never a burst, never faster than the clock, every cycle ends.
* **Health.** The level that selects the tasks is put together from two flags of each
  backend, one load after the other, while the RT threads change them. Correct: a
  fault is never hidden by another backend's answer, and each level says something that
  was true.
* **Run-time tasks.** Several producers, one consumer, slots that are claimed
  before they are filled, and a start or stop at any moment of a call. Correct: no
  accepted task is lost or doubled.
* **Sockets.** The server thread and `tag_tcp_server_stop` close the same two sockets
  without a lock, one of them while the other may be blocked in it; lines come in
  any portions. Correct: each client gets the answers to its own lines, no handle is
  lost, the stop returns.
* **Tags.** Names are resolved through tables, indices and chains of aliases that the
  builder filled from a configuration long before, counting devices and variables
  more than once. Correct: each name stands for what the configuration says, and a
  configuration that makes no sense is refused and leaves nothing behind.
* **Requests.** The TCP thread waits for the PLC cycle without a timeout, the
  results of sends are ignored, shutdown stops the answering thread first.
  Correct: each request is answered, the answer tells what happened, clients
  cannot keep the PLC from its tasks.

`PROJECT.json` lists the hazards one by one with their lines and properties.

## The modules

| Module | Models | How it corresponds to the code |
|---|---|---|
| `BoundedFifo` | what a ring promises | `Put` and `Take` in one step |
| `SpscRing` | `spsc_ring.c` | each atomic load or store and each copied word is an action; locals of the two functions are variables with `w_` and `r_` prefixes; `Modulus` is the index range, a multiple of `Capacity` (2^32 and 64 in the code) |
| `EcProcessImage` | `ec_backend.c`, RT cycle against `cycle_begin`/tasks/`cycle_end` | `Rt...` actions follow `ethercat_rt_thread` line by line, `Plc...` actions the PLC side; buffers are copied one word per step; `taken` and `since` remember what was published when the RT thread began to copy, and how far the PLC thread has come during the copy; the bus answers `RtExchange` with any working counter, state and inputs |
| `EcProcessImage_proofs` | - | TLAPS proofs about `EcProcessImage` and `EcWatchdog` |
| `EcWatchdog`, `MCEcWatchdog` | the same, watched | adds history variables that count what the bus did; conjoined to `RtExchange`, they constrain nothing. `MCEcWatchdog` has the bus change its value in each frame |
| `PlcScheduler`, `MCPlcScheduler` | `plc_scheduler.c`, start, stop and thread | the thread's program counter, its local times, `last_run_ms` modulo `Wrap`; `Tick` is the clock; the hook chooses the health level; `Drain` lets queued tasks in |
| `PlcScheduler_proofs` | - | TLAPS proofs about `PlcScheduler` |
| `SchedPending` | `plc_scheduler_add_task_runtime` with all it calls, `plc_scheduler_drain_pending`, start and stop | each atomic access an action, for any set of producer threads; the entry of a task into the table is three steps (room, entry, count), so that two threads can be inside at once; `overlap` remembers that they were |
| `SchedPending_proofs` | - | TLAPS proofs about `SchedPending`: its queue; where each accepted task is; the order of each thread's tasks |
| `RuntimeHealth` | `runtime_get_health_level`, `ethercat_get_status`, the flags of the RT threads, the task policy | `Rt...` actions are one RT thread per backend, `Scan...` the PLC thread's loop over the backends, one load per step; `was_in` and `was_out` remember what was the case during a scan |
| `RuntimeHealth_proofs` | - | TLAPS proofs about `RuntimeHealth` |
| `MCAtomics` | - | `SpscRing` and `RuntimeHealth` for one run: they have no variable in common, and `checked` says which of the two takes the steps of a behaviour |
| `TcpServer` | `tag_tcp_server.c` without `handle_request`, `platform_socket.c` | `t_pc` and `main_pc` walk through the thread and the stop; a socket is a handle and a valid flag, `open` is the kernel's view of a handle; closing is three steps (test, close, invalidate); clients connect, send and leave at any time |
| `TcpServer_proofs` | - | TLAPS proofs about `TcpServer`: its sockets, and its answers |
| `SystemBuilder`, `MCSystemBuilder` | `system_build`, `tag_table_add`, `resolve_entry` and the checks of `tag_read` and `tag_write`, `handle_read`, `handle_write`, `proc_init`, `hmi_init`, `user_bind` | `phase`, `i`, `j` walk through the loops of `system_build`, one entry per step; `table`, `proc_store`, `hmi_store` and `backends` are what it fills; then remote writes and factory resets. `MCSystemBuilder` has the configurations |
| `SystemBuilder_proofs` | - | TLAPS proofs about `SystemBuilder` |
| `PlcCycle`, `MCPlcCycle` | `main.c` cycle, `tag_rpc_plc.c`, `handle_request`, stop order of `plc_runtime.c` | composes two instances of `BoundedFifo` with the TCP thread, the PLC cycle and main; an output is a pair of images, staging and published |
| `TagRpc_proofs` | - | TLAPS proofs about `SpscRing`, its refinement of `BoundedFifo` included, and about `PlcCycle`, which stands on two such rings |
| `PlcLifecycle` | `main`, the backends' part of `system_build`, `plc_runtime_run`, `runtime_backends_start/stop`, `ethercat_start/stop`, the RT thread's start and end | main's program counter walks through the calls; each call that can fail does so or not; `back` says which loop called `ethercat_stop`; outputs are `zero` or `live`; `server` and `sched` are the states of the two threads that main tells to stop and then joins, with what `TcpServer` and `PlcScheduler` know to keep them from ending (a late client; the catch-up loop past 2^32 ms) |
| `PlcLifecycle_proofs` | - | TLAPS proofs about `PlcLifecycle` |

Composition: `PlcCycle` stands on `BoundedFifo`, which `SpscRing` implements.
`PlcScheduler` leaves the contents of a cycle to `PlcCycle`, and the contents of
`Drain` to `SchedPending`. `PlcCycle` takes lines and tags as given: `TcpServer` says how
a line comes about, `SystemBuilder` what a name stands for. `PlcCycle` reduces the output buffers to two images;
`EcProcessImage` is the detail of the two steps `BackendsBegin` and `BackendsEnd`.
`RuntimeHealth` takes from `EcProcessImage` when an RT cycle is bad (any cycle may be), and tells
`PlcScheduler`, whose begin hook chooses the level, what a level means.

`PlcLifecycle` stands beside the others: it keeps of the RT thread only what starting
and stopping need, of the PLC thread that it publishes outputs while it runs, and of the tag server when it ends.

An operator `X_Slip` next to an operator `X` is a plausible slip in `X`. No
specification uses it: replacing `X` by it shows that a property notices.

## The runs

| Run | Shows | Bounds, and why they are enough |
|---|---|---|
| `atomics` | `NoSlotRace`, refinement of `BoundedFifo`, delivery; `FaultStopsTasks`, `LevelTells` | of the ring: capacity 3 (not a power of two), two words, two values, index range 6, so indices wrap after two laps; of the health level: two backends, warn 1, fail 2, so that a backend can be out of OP, faulted, or recovered while the other is asked; the proofs cover every size and every number of backends |
| `ec_image` | `StagingApart`, `FrameIsOneCycle`, `SafeAfterFault`, `OutputsPreserved`, `LatchedInputWhole`, `ShortFramesLatch`, `LostSlavesLatch`, `GoodBusIsOperational`, `WarnedBeforeLatch` | two words and a value that changes with each bus frame make a torn copy visible; warm-up 1, state period 2, warn 2, fail 3: a state read late, a warning before the fault as in the configuration (2 and 10); any interleaving depth; the proofs cover all words, values and thresholds |
| `ec_frame` | finding: `FrameNotMixed` is violated | two words of two values: one word is copied before the swap, one after it |
| `ec_snapshot` | finding: `SnapshotStable` is violated | one word is enough |
| `scheduler` | `NoBurst`, `EverySlotServed`, `CycleRate`, `EveryCycleEnds`, `StopReturns` | periods 2, 3, 4 on a base of 2 with phases 0 and 1; 19 ms are nine base cycles, more than the five an overrun makes up for; start at 1 ms, before one period has passed, or later |
| `scheduler_uptime` | finding: `EveryCycleEnds` is violated once the clock exceeds `Wrap` | `Wrap` 16 instead of 2^32 |
| `pending_tasks` | `SlotOwned`, `AcceptedKept`, `CallOrderKept`, `QueuedTaskTaken` | two producers with two calls each on two slots: full queue, slot reuse and lost races occur; table of 3, so a task is dropped; the scheduler starts, fails to start or stops at any moment |
| `tcp_server` | `ClientsAnswered`, `NothingLeaks`, `StopReturns` | two connections after each other, three bytes between them, lines of at most one character: a line too long, a line in several portions, two lines in one, a rest that is left to the next client; four handles, one more than are in use at once |
| `system_builder` | `NamesMeanVariables`, `WriteReachesItsVariable`, `IoTagsFindTheirDevice`, `OnlySoundIsBuilt` | every list of three HMI tags (variables, aliases of each other, of themselves, of a process variable, of an input; read-only or not), three devices in every distribution over one to three backends (with the same name twice, of a type without a factory, too many), and single faults; two alias hops where the code has five; types of 1, 2 and 3 bits and an unsigned long of 4, so that ranges and wrapping are few numbers |
| `plc_cycle` | `OneInFlight`, `ReplyTellsEffect`, `ResetBeforeTasks`, `EveryRequestAnswered`, `PollEnds` | one client (the server serves one at a time), two requests per poll, rings of two, ids modulo 2 |
| `lifecycle` | `ZeroAfterStop`, `BusOwned`, `NothingLeftRunning`, `ExitCodeTells`, `MainReturns` | three backends (the configuration has one, the code allows four), so that a rollback has more than one to stop; each step may fail |
| `remote_output` | finding: `StagedOutputApplied` is violated | as `plc_cycle` |

Counters in `EcProcessImage` stop at the value beyond which no comparison tells
them apart (`Saturate`); the clock in `PlcScheduler` stops after `RunTime`, when main
has called stop; ids in `PlcCycle` are taken modulo `IdRange`; producers in
`SchedPending` make `Calls` calls. There are no other bounds.

Deadlock is checked in every run except those of the scheduler (`pending_tasks` included),
of `PlcCycle`, of `PlcLifecycle` and of `TcpServer`, which come to rest when main has stopped
them, and of `SystemBuilder`, which does so when a build has failed.

**Fairness.** The ring's consumer polls for ever (`tag_rpc_plc_poll` runs in each
cycle, the TCP thread loops). In `PlcScheduler` the thread, the clock and main's
call of stop are weakly fair: the thread is an ordinary thread that nobody blocks, time passes,
and main's loop is bounded by its elapsed time. In `PlcCycle` the PLC thread's own steps are
fair (tasks return), the TCP thread's wait loop is fair (it polls each
millisecond), main goes on once it has begun to stop, while nothing obliges a client to send or main to stop.
In `PlcLifecycle` main and each RT thread are fair: main waits for nothing but its joins
(the 50 minutes pass), and the RT threads are scheduled. The PLC thread and the tag server's end
once they have been told to, unless the one gets stuck in its catch-up loop or the other takes a late
client before; nothing obliges that client to leave, so `MainReturns` excepts just these two waits.
In `SchedPending` a producer that has claimed a slot fills it, the drain recurs, and a start
that has begun creates its thread or fails.
In `TcpServer` the server thread and main's stop are fair once they can move; nothing obliges
a client to connect, to send or to leave, so a thread blocked in `recv` stays there until its
socket is closed.

## What is proved

`TagRpc_proofs` proves of the ring, for every capacity, number of words, set of values and index range
of at least two laps:

* `IndexSafety`: `RingSpec => []IndexInv`. `IndexInv` is inductive: types; at most
  `Capacity` elements used; and what each side knows between its loads
  and its store - the pusher's stale read index only overestimates the use, the popper's
  own index is exact. Without the last two parts `NeverOverfull` is not inductive: the full
  test alone says nothing about a later state.
* `SlotSafety`: `RingSpec => []NoSlotRace`. From `IndexInv`: when both copy, the two
  indices are less than `Capacity` apart, and such indices have different
  remainders. The arithmetic of remainders at the wrap (`LapKeepsSlot`,
  `NearbyModDiffer`) is where `Modulus = Laps * Capacity` is needed; the code meets it
  with 64 and 2^32.
* `RingIsFifo`: `RingSpec => ImplementsFifo`. `DataSafety` adds to `IndexInv` that every
  published element is whole and that each copy is right as far as it has come
  (`DataInv`); then the store of `write_index` is `Put`, the store of `read_index` is
  `Take`, and every other step leaves the queue as it is, a word copied by `push` too,
  since it goes to a slot behind the published ones (`StoreBehind`). So what `PlcCycle`
  takes for granted of its two rings holds for rings of every size.

`EcProcessImage_proofs` proves, for every number of words, all value sets and all
thresholds, `ImageCorrect`: `Spec => []ImageInv`, and from it `StagingSafety`,
`FaultSafety`, `FrameConsistency`, `OutputPreservation`, `InputConsistency`, one for each
safety property of the run, and `ImageTypes`. Only `TypeOK` and, with
it, `StagingApart` are inductive as they stand; for the others `ImageInv` adds what each thread relies on between its loads and
its stores:

* `RtKnows`: the RT thread's zeroing flag agrees with the fault flag, and its output
  index with the published one unless a cycle has ended since it was loaded; while the one
  that has ended is not followed by another, the PLC thread has no buffer to write;
* `FrameSoFar`: the words copied so far are already those of one cycle, or zeros, and so
  are those still to be copied, wherever their buffer stands by now;
* `OutputsHeld`: before a fault the published buffer is what the last cycle published,
  and the copy of `cycle_begin` is right as far as it has come;
* `InputsHeld`: the active input buffer holds one frame and is not the one being filled.

`FrameConsistency` covers the frames during whose copy `ethercat_cycle_end` swaps the buffers:
the index has gone stale, but the buffer keeps its content until the PLC thread's next cycle. It ends
there, and has to: `ec_frame` shows what a frame carries when that cycle begins before the copy is done.

The proof splits along the parts that need each other (indices; outputs; the frame;
inputs), with one step per action in each.

The same module proves the watchdog's latencies, for all thresholds, warm-up lengths and
state-check periods: `ShortFramesAreCut`, `LostSlavesAreCut`, `GoodBusRecovers` and, if the warn
threshold is below the fail threshold (it is, 2 and 10, in `config_static.c`; the code does not check it),
`PlcIsWarned`. They rest on `WatchCorrect`: `WatchSpec => [](TypeOK /\ WatchInv)`. Each of the four
properties speaks of one moment of the loop and of a history that the code does not keep.
`WatchInv` follows them through the iteration: a run of `n` bad cycles is one that
`dowkccheck` has counted but for the first few, which fell into the warm-up or before the next
state check (`InStep`); a loss that is longer than the state check is old is
known to the thread (`LostInv`), and so is a recovery (`GoodInv`); and `in_op` is what the
count was when it was last written (`LatchInv`).

`SchedPending_proofs` proves, for any set of producers, any number of
slots, calls and table entries, with a start and a stop at any moment:

* `SlotSafety`: `Spec => []SlotOwned`, from `QueueCorrect`: `Spec => []QueueInv`. `SlotOwned`
  is not inductive, since nothing in it says why a successful compare-and-swap may trust
  a `pending_read` loaded long before. `QueueInv` adds that at most `Slots` entries are
  claimed (`Window`); that an old `pending_read` only makes the queue look fuller
  (`ClaimSafe`); that claimed slots are in the window, have their flag down and are
  claimed once (`ClaimHeld`); what the drain knows between its steps (`DrainKnows`); and that
  the slots about to be claimed have their flags down (`FreeLowered`), which is why
  the drain must lower the flag before it advances `pending_read`.
* `TasksKept`: `Spec => []AcceptedKept`, from `TasksCorrect`: `Spec => []TaskInv`. `TaskInv`
  has one conjunct for each of the four places a task can be in - waiting in a ready slot
  (`WaitOnce`), in the drain's hands (`CarryOnce`), in the table, dropped (`TableOnce`) - saying
  that it is in no other; that a new call's task is in none (`Fresh`); and that who
  is inside `plc_scheduler_add_task_internal` is there alone, at the end of the table
  (`OneAdds`). All of that is claimed, as in `AcceptedKept`, while `overlap` is false.
  There is one lemma per step that moves a task.
* `CallsInOrder`: `Spec => []CallOrderKept`, from `OrderCorrect`: `Spec => []OrderInv`. The order of
  the table is kept only because the order holds along the whole way: a thread's tasks in the table come before
  the one the drain carries, that one before those in the queue (`CarryOrder`, `CrossOrder`),
  those before the slot that the thread has claimed (`ClaimOrder`); and a thread adds to
  the table itself only while none of its tasks is on that way (`DirectFirst`). A stop ends
  that, as `CallOrderKept` says.

`PlcScheduler_proofs` proves, for any tasks, periods, phases, policies and base cycle, from
`SchedulerCorrect`: `Spec => []SchedInv`:

* `RateIsBounded`: `Spec => []CycleRate`. `RateInv` bounds the next deadline by the cycles that have begun; the
  resynchronisation after an overrun only moves it later.
* `NoTaskRunsTwice` and `NoSlotIsMissed`: `Spec => [](clock < Wrap => NoBurst)` and the same for
  `EverySlotServed`. Before `clock` has reached `Wrap` is the first 49.7 days; after them
  neither holds, and `scheduler_uptime` shows what happens instead. The run `scheduler` ends before that.
  `SlotsInv` says that `last_run_ms` is the beginning
  of one slot of the task, the one in `ran_slot` or, if that slot was skipped, a later one; `LoopInv` that the task
  loop has left no task behind that it has passed. Without the second, nothing would say at the
  end of a cycle what the catch-up did at its start.

`RuntimeHealth_proofs` proves, for any number of backends and any thresholds, `FaultsStopTasks`
(`[]FaultStopsTasks`), `LevelIsTrue` (`[]LevelTells`) and the action property `FaultIsKept`
(`Spec => FaultStays`), all from `HealthCorrect`: `Spec => []HealthInv`. The heart of `HealthInv`
is `LevelSoFar`: a fault that was latched before the scan and has not been found yet is
on a backend still to be asked. That is where both the early return of
`runtime_get_health_level` and the latch that nobody lowers are needed.

`TagRpc_proofs` proves of the requests, for any tags, aliases, access rights, values, ring capacities, requests
per poll and range of ids, `AtMostOneRequest` (`[]OneInFlight`) and `RepliesAreTrue`
(`[]ReplyTellsEffect`), from `RpcCorrect`: `Spec => []RpcInv`. `RpcInv` says where the one request
is - in the request ring (`Asked`), with the PLC thread (`Served`), answered in the
response ring (`Answered`) or done with (`Nowhere`) - and what it has done by then; and that the
server's stop comes after the end of the PLC thread (`StopComesLast`), without
which a request given up could still be answered. So the pushes whose results the code ignores
never fail, at any capacity. `ResetComesFirst` (`[]ResetBeforeTasks`) needs of `RpcInv` only the
types: between the poll and the end of the cycle nobody else sets the command.

`PlcLifecycle_proofs` proves, for any number of backends and every combination of steps that fail,
`BusGoesZero` (`[]ZeroAfterStop`), `BusHasOneUser` (`[]BusOwned`), `AllIsStopped`
(`[]NothingLeftRunning`) and `ExitCodeIsTrue` (`[]ExitCodeTells`), from `LifecycleCorrect`:
`Spec => []LifeInv`. The properties speak of the end; `LifeInv` says at each point of main which
backends exist, which have a thread and which loop is at work (`Place`, `Threads`), what that loop has
behind it (`Passed`), what `ethercat_stop` may conclude from the two flags it shares with the
thread (`StopKnows`), which copies of the outputs are zero already (`ZeroHeld`), that no failure
falls between the two return codes (`CodesTell`) and which slaves may be operational (`SlavesKnown`).

`TcpServer_proofs` proves, for any number of clients, bytes and line sizes, `NoHandleIsLost`
(`[]NothingLeaks`), from `SocketsCorrect`: `Spec => []SocketInv`. An open handle of a client is always the one
in the client socket, which is valid except between `accept` and the flag (`ClientHeld`); and from
when the stop has seen it valid until it has overwritten it, the thread takes no other client,
since it has read the stop flag before it could (`StopHolds`). Without that the stop could
overwrite a socket that it had not closed. `ListenerHeld` says the same of the listening socket.

It proves `EveryLineAnswered` (`[]ClientsAnswered`) from `AnswersCorrect`: `Spec => []AnswerInv`, which
says where each byte of a client is. Before its turn nothing of it is touched, and a client has
one turn (`Waiting`). During it (`Busy`) its bytes are, in their order, those the loop has passed,
those in the receive buffer and those the kernel holds (`Unread`); the lines among the first are
answered, and `line_buf` holds the rest cut at its size (`AnsweredTo`), at a newline that is being
answered all before it (`Progress`). No bytes stay in the receive buffer from one client to the
next (`Buffered`). `AnswersRight`, the property itself without its last part, is not inductive: an
answer is right only because `line_buf` is. It counts newlines instead of splitting the bytes
into lines, so the proof is arithmetic of cardinalities.

`SystemBuilder_proofs` proves, for any configurations, device registry, numbers of slaves and limits,
`OnlySoundBuilt` (`[]OnlySoundIsBuilt`), `IoTagsLeadToDevices` (`[]IoTagsFindTheirDevice`),
`NamesFindVariables` (`[]NamesMeanVariables`) and `WritesReachVariables` (`Spec =>
WriteReachesItsVariable`), from `BuildCorrect`: `Spec => []BuildInv`. The properties speak of the
finished table; `BuildInv` says of each point in the loops how far it is filled (`TableFilled`: variables, then
HMI tags, then the tags of the devices, in their order and under different names), what the stores have
by then (`StoresFilled`, `ValuesSet`) and which devices each backend has (`BackendsBound`).

* The code counts devices and HMI variables more than once, in different loops. `Rank` is that count, how many
  members a set has up to a number: the place at which `ethercat_bind_device` has put a device, and the
  index that the tag table gives it, are both its rank among the devices of its backend.
* `Blamed` is what makes a refusal fair: if the configuration makes sense, no check of the build
  fails. For the limit of the table that takes an argument about cardinalities: the entries so far
  and the one to be added have different names out of `Names \cup IoNames`, so there is room for it.
* A chain of aliases is, in `SystemBuilder`, the least set that the aliases do not lead out of
  (`Chains`). Since an alias's target stands before it in the table, a chain is that of the
  target and one name more (`ChainStep`), and `Leads` follows `resolve_entry` along it: which variable
  it comes to, after how many aliases, past which access rights. `EachLeads` proves that every
  name leads somewhere. This is an induction over places in the table; instead of an induction theorem
  it takes the least place without such a variable (`Least`, from the well-foundedness of `<`),
  which cannot exist.
* That a write changes no other variable is `ValuesDiffer`: different variables have different ranks.

The assumptions are those of the constants in the modules (sizes, counts and periods are in range,
a blank word is no element, the drain is no producer, an alias stands for a variable, tags of
different kinds are different, the tables of a configuration are arrays, variables are of the types
`BOOL`, `U8`, `U16` and `U32`, and an unsigned long holds more than the small ones of these), which TLC
evaluates on each run, and the hypothesis of `PlcIsWarned`. Proved, and checked only by way of the
properties that rest on them: the inductive invariants and `FaultStays`.

Only model-checked: everything about liveness (the prover has no rule for fairness): `Delivered`,
`EveryCycleEnds`, both `StopReturns`, `QueuedTaskTaken`, `EveryRequestAnswered`, `PollEnds` and
`MainReturns`. Every safety property of the passing runs is proved, `NoBurst` and `EverySlotServed`
up to the moment at which the clock reaches `Wrap`.

## What the code does differently from what it says

1. *A frame can mix two cycles' outputs* (`ec_frame`). The RT thread copies a buffer whose index it
   has loaded before. A PLC cycle that ends in between makes that buffer the PLC thread's staging buffer, and
   the next cycle writes it under the copy: with remote writes, with the copy of `cycle_begin`,
   with the tasks' outputs. It takes an RT thread that is held up during the copy, or cycles
   that follow each other at once, as the scheduler's catching up has them.
2. *Inputs are no stable snapshot* (`ec_snapshot`). The RT thread has only two
   input buffers; its second cycle within a PLC cycle rewrites the latched one.
3. *49.7 days of uptime stop the PLC* (`scheduler_uptime`). `last_run_ms` is
   32 bits wide and compared with a 64-bit clock.
4. *A remote write to an output is lost* (`remote_output`). The poll precedes
   `cycle_begin`, which overwrites the staging buffer.

Some more are no disagreements, but worth knowing. An RT thread that has not yet announced
itself is not joined by `ethercat_stop` and sends one frame, of zeros, after or beside it
(`BusOwned` says that this is the only case). When the slaves do not reach OP, or the RT
thread cannot be created, they are left as they are: operational perhaps, but with zero outputs,
and main ends with -1 (`NothingLeftRunning`). A client that is accepted just after the stop
has closed the client socket is not closed by anybody: the stop waits until that client sends or
leaves (`StopReturns` says that this is the only case). main waits with it (`MainReturns`), and since
`plc_runtime_run` stops the server before the backends, the RT threads go on sending the last
outputs of a PLC that has stopped. Tasks that two threads add directly to
the table at the same time, or while the scheduler starts, may overwrite each other
(`AcceptedKept` says so; no code of the program does it). A tag name of 64 characters or more
fits the table but not a request (`TAGRPC_NAME_MAX`). A negative number written to a small unsigned type is refused or stored
as its complement, depending on its size (`WriteReachesItsVariable`). A program that ends normally never
destroys its backends. `PLC_TASK_ONLY_WHEN_OK` is treated like
`PLC_TASK_SKIP_ON_FAULT`; `plc_task.h` calls it reserved.

## What is not modelled

The number of attempts within a state request to the slaves (one step with
every outcome in `PlcLifecycle`); registering the tasks of the configuration, which copies constants;
that a thread join can fail; lengths of names and null pointers, which the code checks where it
takes them; a wrap of `offset + size` at 32 bits (`system_builder.c:149`), which no descriptor comes near;
a driver without a start operation, as no driver of the program is. Sockets are modelled as Windows has them, the only platform
the repository has a project file for (`PLCMaster.vcxproj`): closing a socket ends a call blocked on it. On Linux
`close` need not wake a blocked `accept` or `recv`, and `StopReturns` would not follow.
The other platform wrappers are taken at their word: atomics are
sequentially consistent (`memory_order_seq_cst`, or the full barriers of `Interlocked...` on
Windows, in `core/platform/platform_atomic.h`), the
clock is monotonic, `join` waits. SOEM is an environment that answers anything. Text
conversions of the protocol are abstracted to success or failure, except the numbers of a
write, which `SystemBuilder` converts and cuts as the code does; variables of the type `REAL`, whose
numbers are not integers (`strtof`) and have no range to be checked, are left out. The static configuration,
the descriptors, diagnostics and stubs have no behaviour to check.

## Plan

1. *(done)* ring, process image, watchdog, scheduler, run-time tasks, PLC cycle,
   start and stop;
   proofs of the safety of the ring and of the process image.
2. *(done)* `TcpServer`: accept, receive, line assembly and stop with sockets closed under
   the thread.
3. *(done)* `SystemBuilder`: tag table, alias chains, validation, cleanup of a failed
   build, against a definition of what a configuration means; adding tasks while the
   scheduler starts and stops.
4. *(done)* `RuntimeHealth`: the aggregation of the backends' health over several backends, with
   the RT threads raising the flags it reads one after the other.
5. *(done)* Proofs of the refinement of `BoundedFifo` by `SpscRing` and of `SchedPending` (`SlotOwned`,
   `AcceptedKept`), of the health level and of the requests (`OneInFlight`, `ReplyTellsEffect`).
6. *(done)* Proofs about `EcWatchdog`, `PlcScheduler`, `PlcLifecycle`, the order of run-time tasks,
   the factory reset, and the sockets and answers of `TcpServer`.
7. *(done)* Proofs about `SystemBuilder`, chains of aliases included.
8. The retries of `ec_soem_lifecycle.c`.
