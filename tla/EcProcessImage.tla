--------------------------- MODULE EcProcessImage ---------------------------
(***************************************************************************)
(* backends/ethercat/ec_backend.c while the bus is running: the real-time  *)
(* thread (ethercat_rt_thread) and the PLC thread (ethercat_cycle_begin,   *)
(* the tasks, ethercat_cycle_end) exchange inputs and outputs through two  *)
(* pairs of buffers and three atomic indices, without a lock.              *)
(*                                                                         *)
(* Every atomic access, and every word a memcpy moves, is a step.  Starting*)
(* and stopping the thread is outside this module; jitter statistics and   *)
(* the sleep until the next deadline only choose when the next step comes. *)
(***************************************************************************)
EXTENDS Integers

CONSTANTS
    Words,          \* words of process data in each direction
    OutValues,      \* what a task may write to an output word, 0 included
    InValues,       \* what the bus may deliver
    ExpectedWkc,    \* impl->expected_wkc
    WarnThreshold,  \* impl->wkc_warn_threshold, after the default
    FailThreshold,  \* impl->wkc_fail_threshold, after the default
    WarmupCycles,   \* impl->warmup_cycles
    StatePeriod     \* impl->state_check_period_cycles

ASSUME SizeAssumption == Words \in Nat \ {0}
ASSUME ValueAssumption == 0 \in OutValues /\ 0 \in InValues
ASSUME WatchdogAssumption ==
    /\ ExpectedWkc \in Nat /\ WarmupCycles \in Nat
    /\ WarnThreshold \in Nat \ {0} /\ FailThreshold \in Nat \ {0}
    /\ StatePeriod \in Nat \ {0}

VARIABLES
    out_buf, in_buf,                \* dev->out_buffers, dev->in_buffers
    rt_out_idx, active_out_idx,     \* rt_out_buffer_idx, active_out_buffer_idx
    active_in_idx, plc_in_idx,      \* active_in_buffer_idx, plc_in_buffer_idx
    iomap_out, iomap_in,            \* what SOEM sends, what it received
    fault_latched, in_op, ec_state, \* health, read by ethercat_get_status
    dowkccheck, cycle_count, state_check_ctr,
    rt_pc, out_idx, next_in, zero_outputs, wkc, rt_copied,  \* RT locals
    plc_pc, plc_copied, prev_rt,    \* locals of cycle_begin and cycle_end
    \* History, read by no action: the outputs of the last completed PLC cycle,
    \* and those that were so when the RT thread began to copy them; how far
    \* the PLC thread has got with its cycle since then; the words this cycle's
    \* tasks have set; a newer input than the latched one is published.
    published, taken, since, written, newer

outs == <<out_buf, rt_out_idx, active_out_idx>>
ins == <<in_buf, active_in_idx, plc_in_idx>>
wire == <<iomap_out, iomap_in>>
health == <<fault_latched, in_op, ec_state, dowkccheck, cycle_count,
            state_check_ctr>>
rtvars == <<rt_pc, out_idx, next_in, zero_outputs, wkc, rt_copied>>
plcvars == <<plc_pc, plc_copied, prev_rt>>
hist == <<published, taken, since, written, newer>>
vars == <<outs, ins, wire, health, rtvars, plcvars, hist>>

Word == 1 .. Words
Buffer == {0, 1}
Zeros == [k \in Word |-> 0]

\* After ethercat_finalize_mapping and ethercat_start: zeroed images, the PLC
\* staging in buffer 1, the bus operational, the RT thread at its loop test.
Init == /\ out_buf = [b \in Buffer |-> Zeros] /\ in_buf = [b \in Buffer |-> Zeros]
        /\ rt_out_idx = 0 /\ active_out_idx = 1
        /\ active_in_idx = 0 /\ plc_in_idx = 0
        /\ iomap_out = Zeros /\ iomap_in = 0
        /\ fault_latched = FALSE /\ in_op = TRUE /\ ec_state = "op"
        /\ dowkccheck = 0 /\ cycle_count = 0 /\ state_check_ctr = 0
        /\ rt_pc = "load" /\ out_idx = 0 /\ next_in = 0
        /\ zero_outputs = FALSE /\ wkc = 0 /\ rt_copied = 0
        /\ plc_pc = "idle" /\ plc_copied = 0 /\ prev_rt = 0
        /\ published = Zeros /\ taken = Zeros /\ since = "nothing"
        /\ written = {} /\ newer = FALSE

\* A PLC cycle that ends, and the next one that begins to write outputs, while
\* the RT thread copies the published ones.
CopySees(before, after) ==
    since' = IF rt_pc = "copy_out" /\ since = before THEN after ELSE since
-----------------------------------------------------------------------------
(* The real-time thread, one loop iteration. *)

\* Load the index of the published outputs; the fault flag is this thread's own.
RtLoadOut ==
    /\ rt_pc = "load"
    /\ rt_pc' = "copy_out" /\ rt_copied' = 0
    /\ out_idx' = rt_out_idx
    /\ zero_outputs' = fault_latched
    /\ taken' = published /\ since' = "nothing"
    /\ UNCHANGED <<outs, ins, wire, health, next_in, wkc, plcvars,
                   published, written, newer>>

OutWord_NoZero(zero, b, k) == out_buf[b][k]
OutWord(zero, b, k) == IF zero THEN 0 ELSE out_buf[b][k]

RtCopyOut ==
    /\ rt_pc = "copy_out"
    /\ LET k == rt_copied + 1 IN
        /\ iomap_out' = [iomap_out EXCEPT ![k] = OutWord(zero_outputs, out_idx, k)]
        /\ rt_copied' = k
        /\ rt_pc' = IF k = Words THEN "exchange" ELSE "copy_out"
    /\ UNCHANGED <<outs, ins, iomap_in, health, out_idx, next_in,
                   zero_outputs, wkc, plcvars, hist>>

StateCheckDue_Late(ctr) == ctr > StatePeriod
StateCheckDue(ctr) == ctr >= StatePeriod

NextIn_Same(cur) == cur
NextIn(cur) == 1 - cur

\* Send and receive one frame: the bus answers with working counter w and
\* inputs f, and its slaves are, or are not, all operational.  The state is
\* read only every StatePeriod cycles.
RtExchange(w, op, f) ==
    /\ rt_pc = "exchange"
    /\ wkc' = w /\ iomap_in' = f
    /\ IF StateCheckDue(state_check_ctr + 1)
       THEN state_check_ctr' = 0 /\ ec_state' = IF op THEN "op" ELSE "not_op"
       ELSE state_check_ctr' = state_check_ctr + 1 /\ UNCHANGED ec_state
    /\ next_in' = NextIn(active_in_idx)
    /\ rt_pc' = "copy_in" /\ rt_copied' = 0
    /\ taken' = Zeros /\ since' = "nothing"
    /\ UNCHANGED <<outs, ins, iomap_out, fault_latched, in_op, dowkccheck,
                   cycle_count, out_idx, zero_outputs, plcvars, published,
                   written, newer>>

RtCopyIn ==
    /\ rt_pc = "copy_in" /\ rt_copied < Words
    /\ in_buf' = [in_buf EXCEPT ![next_in][rt_copied + 1] = iomap_in]
    /\ rt_copied' = rt_copied + 1
    /\ UNCHANGED <<outs, active_in_idx, plc_in_idx, wire, health, rt_pc,
                   out_idx, next_in, zero_outputs, wkc, plcvars, hist>>

RtPublishIn ==
    /\ rt_pc = "copy_in" /\ rt_copied = Words
    /\ active_in_idx' = next_in
    /\ newer' = TRUE
    /\ rt_pc' = "judge"
    /\ UNCHANGED <<outs, in_buf, plc_in_idx, wire, health, out_idx, next_in,
                   zero_outputs, wkc, rt_copied, plcvars, published, taken,
                   since, written>>

\* The cycle's verdict on the bus.
BadCycle == /\ cycle_count >= WarmupCycles
            /\ \/ ExpectedWkc > 0 /\ wkc < ExpectedWkc
               \/ ec_state # "op"

BadCount_Keep(bad, n) == IF bad THEN n + 1 ELSE n
BadCount(bad, n) == IF bad THEN n + 1 ELSE 0

MustLatch_Late(n) == n > FailThreshold
MustLatch_Early(n) == n >= WarnThreshold
MustLatch(n) == n >= FailThreshold

\* Counters stop at the values beyond which no comparison tells them apart
\* (the code's dowkccheck saturates at UINT32_MAX, its cycle_count is 64 bits).
Saturate(n, top) == IF n > top THEN top ELSE n
BadTop == IF WarnThreshold > FailThreshold THEN WarnThreshold ELSE FailThreshold

RtJudge ==
    /\ rt_pc = "judge"
    /\ dowkccheck' = Saturate(BadCount(BadCycle, dowkccheck), BadTop)
    /\ fault_latched' = (fault_latched \/ MustLatch(dowkccheck'))
    /\ zero_outputs' = (zero_outputs \/ MustLatch(dowkccheck'))
    /\ rt_pc' = IF fault_latched' # fault_latched THEN "zero_0" ELSE "finish"
    /\ rt_copied' = 0
    /\ UNCHANGED <<outs, ins, wire, in_op, ec_state, cycle_count,
                   state_check_ctr, out_idx, next_in, wkc, plcvars, hist>>

\* ethercat_zero_output_buffers on the first latch: buffer 0 then buffer 1 and
\* the process image of each device, while the PLC thread may be at work.
RtZeroBuffer0 ==
    /\ rt_pc = "zero_0"
    /\ out_buf' = [out_buf EXCEPT ![0][rt_copied + 1] = 0]
    /\ rt_pc' = "zero_1"
    /\ UNCHANGED <<ins, rt_out_idx, active_out_idx, wire, health, out_idx,
                   next_in, zero_outputs, wkc, rt_copied, plcvars, hist>>

RtZeroBuffer1 ==
    /\ rt_pc = "zero_1"
    /\ LET k == rt_copied + 1 IN
        /\ out_buf' = [out_buf EXCEPT ![1][k] = 0]
        /\ iomap_out' = [iomap_out EXCEPT ![k] = 0]
        /\ rt_copied' = k
        /\ rt_pc' = IF k = Words THEN "finish" ELSE "zero_0"
    /\ UNCHANGED <<ins, rt_out_idx, active_out_idx, iomap_in, health,
                   out_idx, next_in, zero_outputs, wkc, plcvars, hist>>

RtFinish ==
    /\ rt_pc = "finish"
    /\ in_op' = (ec_state = "op" /\ dowkccheck < WarnThreshold)
    /\ cycle_count' = Saturate(cycle_count + 1, WarmupCycles)
    /\ rt_pc' = "load"
    /\ UNCHANGED <<outs, ins, wire, fault_latched, ec_state, dowkccheck,
                   state_check_ctr, out_idx, next_in, zero_outputs, wkc,
                   rt_copied, plcvars, hist>>
-----------------------------------------------------------------------------
(* The PLC thread, one scheduler cycle. *)

\* Outside ethercat_cycle_begin .. ethercat_cycle_end a tag write reaches the
\* staging buffer too (tag_rpc_plc_poll runs before cycle_begin, main.c:62).
PlcEarlyWrite(k, v) ==
    /\ plc_pc = "idle"
    /\ out_buf' = [out_buf EXCEPT ![active_out_idx][k] = v]
    /\ CopySees("ended", "begun")
    /\ UNCHANGED <<ins, rt_out_idx, active_out_idx, wire, health, rtvars,
                   plcvars, published, taken, written, newer>>

\* ethercat_cycle_begin: latch the input buffer, then copy the published
\* outputs into the staging buffer.  Only this thread moves the two output
\* indices, so their loads are exact.
PlcBegin ==
    /\ plc_pc = "idle"
    /\ plc_in_idx' = active_in_idx
    /\ newer' = FALSE
    /\ written' = {}
    /\ plc_pc' = "preserve" /\ plc_copied' = 0
    /\ CopySees("ended", "begun")
    /\ UNCHANGED <<outs, in_buf, active_in_idx, wire, health, rtvars,
                   prev_rt, published, taken>>

PreservedWord_Dropped(src, dst, k) == out_buf[dst][k]
PreservedWord(src, dst, k) == out_buf[src][k]

PlcPreserve ==
    /\ plc_pc = "preserve"
    /\ LET k == plc_copied + 1 IN
        /\ out_buf' = [out_buf EXCEPT ![active_out_idx][k] =
                            PreservedWord(rt_out_idx, active_out_idx, k)]
        /\ plc_copied' = k
        /\ plc_pc' = IF k = Words THEN "tasks" ELSE "preserve"
    /\ UNCHANGED <<ins, rt_out_idx, active_out_idx, wire, health, rtvars,
                   prev_rt, hist>>

\* A task writes an output through its view or tag_write.
PlcWrite(k, v) ==
    /\ plc_pc = "tasks"
    /\ out_buf' = [out_buf EXCEPT ![active_out_idx][k] = v]
    /\ written' = written \cup {k}
    /\ UNCHANGED <<ins, rt_out_idx, active_out_idx, wire, health, rtvars,
                   plcvars, published, taken, since, newer>>

\* ethercat_cycle_end: the atomic exchange, then the store of the new staging
\* index.
PlcSwap ==
    /\ plc_pc = "tasks"
    /\ prev_rt' = rt_out_idx
    /\ rt_out_idx' = active_out_idx
    /\ published' = out_buf[active_out_idx]
    /\ plc_pc' = "restage"
    /\ CopySees("nothing", "ended")
    /\ UNCHANGED <<out_buf, ins, active_out_idx, wire, health, rtvars,
                   plc_copied, taken, written, newer>>

NextStaging_Same(prev) == 1 - prev
NextStaging(prev) == prev

PlcRestage ==
    /\ plc_pc = "restage"
    /\ active_out_idx' = NextStaging(prev_rt)
    /\ plc_pc' = "idle"
    /\ UNCHANGED <<out_buf, ins, rt_out_idx, wire, health, rtvars,
                   plc_copied, prev_rt, hist>>
-----------------------------------------------------------------------------
RtQuiet == RtLoadOut \/ RtCopyOut \/ RtCopyIn \/ RtPublishIn \/ RtJudge
             \/ RtZeroBuffer0 \/ RtZeroBuffer1 \/ RtFinish
RtBus == \E w \in 0 .. ExpectedWkc, op \in BOOLEAN, f \in InValues :
            RtExchange(w, op, f)
Plc == \/ PlcBegin \/ PlcPreserve \/ PlcSwap \/ PlcRestage
       \/ \E k \in Word, v \in OutValues : PlcEarlyWrite(k, v) \/ PlcWrite(k, v)

Next == RtQuiet \/ RtBus \/ Plc

Spec == Init /\ [][Next]_vars
-----------------------------------------------------------------------------
\* Every variable keeps its range, sorted by kind.
DataTypes ==
    /\ out_buf \in [Buffer -> [Word -> OutValues]]
    /\ in_buf \in [Buffer -> [Word -> InValues]]
    /\ iomap_out \in [Word -> OutValues] /\ iomap_in \in InValues
    /\ published \in [Word -> OutValues] /\ taken \in [Word -> OutValues]
    /\ written \subseteq Word
IndexTypes ==
    /\ rt_out_idx \in Buffer /\ active_out_idx \in Buffer
    /\ active_in_idx \in Buffer /\ plc_in_idx \in Buffer
    /\ out_idx \in Buffer /\ next_in \in Buffer /\ prev_rt \in Buffer
CounterTypes ==
    /\ dowkccheck \in 0 .. BadTop
    /\ cycle_count \in 0 .. WarmupCycles
    /\ state_check_ctr \in 0 .. StatePeriod - 1
    /\ wkc \in 0 .. ExpectedWkc
    /\ rt_copied \in 0 .. Words /\ plc_copied \in 0 .. Words
    /\ rt_pc \in {"copy_out", "zero_0", "zero_1"} => rt_copied < Words
    /\ plc_pc = "preserve" => plc_copied < Words
FlagTypes ==
    /\ fault_latched \in BOOLEAN /\ in_op \in BOOLEAN
    /\ zero_outputs \in BOOLEAN /\ newer \in BOOLEAN
ControlTypes ==
    /\ ec_state \in {"op", "not_op"}
    /\ rt_pc \in {"load", "copy_out", "exchange", "copy_in", "judge", "zero_0",
                  "zero_1", "finish"}
    /\ plc_pc \in {"idle", "preserve", "tasks", "restage"}
    /\ since \in {"nothing", "ended", "begun"}
TypeOK == DataTypes /\ IndexTypes /\ CounterTypes /\ FlagTypes /\ ControlTypes

\* The PLC thread never stages outputs in the buffer that is published to the
\* RT thread (ec_backend.c:652-656): the two output indices differ except
\* between the exchange and the store of ethercat_cycle_end.
StagingApart ==
    /\ plc_pc # "restage" => active_out_idx # rt_out_idx
    /\ plc_pc = "restage" => active_out_idx = rt_out_idx /\ prev_rt # rt_out_idx

\* A frame carries all the outputs of the PLC cycle that was the last one to be
\* completed when the RT thread loaded its index (ec_backend.c:465-469), and
\* nothing a task is still working on: also when ethercat_cycle_end swaps the
\* buffers in the middle of the copy, since what it gives back to the PLC
\* thread is left alone until that thread's next cycle.  If that cycle begins
\* before the copy is done, too, nothing protects the frame: see FrameNotMixed.
FrameIsOneCycle ==
    rt_pc = "exchange" /\ ~zero_outputs /\ since # "begun" => iomap_out = taken

\* Once the fault is latched every later frame carries zero outputs, whatever
\* the PLC thread goes on writing and publishing (ec_backend.c:467, :509-517).
SafeAfterFault == rt_pc = "exchange" /\ fault_latched => iomap_out = Zeros

\* Outputs that the tasks leave alone in a cycle keep their published value
\* ("Preserve outputs when PLC updates only a subset of fields",
\* ec_backend.c:675), although the two buffers are swapped every cycle.
OutputsPreserved ==
    plc_pc = "tasks" /\ ~fault_latched =>
        \A k \in Word \ written : out_buf[active_out_idx][k] = published[k]

\* The RT thread does not touch the input buffer that the PLC thread latched
\* before it has published a newer one: a cycle shorter than one RT period
\* sees one bus frame in all its reads.
LatchedInputWhole ==
    ~newer => /\ \A j, k \in Word : in_buf[plc_in_idx][j] = in_buf[plc_in_idx][k]
              /\ ~(rt_pc = "copy_in" /\ next_in = plc_in_idx)

\* The inductive strengthening: what the RT thread, the frame, the published
\* outputs and the inputs are known to be between any two steps.
RtKnows ==
    /\ rt_pc \in {"copy_out", "exchange", "copy_in", "judge"} =>
            zero_outputs = fault_latched
    /\ rt_pc = "copy_out" /\ since = "nothing" =>
            out_idx = rt_out_idx /\ taken = published
    /\ rt_pc = "copy_out" /\ since = "ended" => plc_pc \in {"restage", "idle"}
    /\ rt_pc \in {"zero_0", "zero_1"} => fault_latched

FrameSoFar ==
    rt_pc = "copy_out" =>
        /\ \A k \in 1 .. rt_copied :
              /\ zero_outputs => iomap_out[k] = 0
              /\ ~zero_outputs /\ since # "begun" => iomap_out[k] = taken[k]
        /\ ~zero_outputs /\ since # "begun" => out_buf[out_idx] = taken

OutputsHeld ==
    /\ ~fault_latched => out_buf[rt_out_idx] = published
    /\ plc_pc = "preserve" /\ ~fault_latched =>
            \A k \in 1 .. plc_copied : out_buf[active_out_idx][k] = published[k]

InputsHeld ==
    /\ \A j, k \in Word : in_buf[active_in_idx][j] = in_buf[active_in_idx][k]
    /\ rt_pc = "copy_in" =>
            /\ next_in # active_in_idx
            /\ \A k \in 1 .. rt_copied : in_buf[next_in][k] = iomap_in
    /\ ~newer => plc_in_idx = active_in_idx

\* All that is known about the image at once: it holds initially and every step
\* preserves it, and it implies each of the properties above.
ImageInv == /\ TypeOK /\ StagingApart /\ RtKnows
            /\ FrameSoFar /\ SafeAfterFault /\ FrameIsOneCycle
            /\ OutputsHeld /\ OutputsPreserved
            /\ InputsHeld

\* What ec_backend.c:468 ("outputs are visible this cycle and match
\* cycle_end()") and :655 say: no frame mixes the outputs of two PLC cycles, it
\* carries those published when the RT thread began to copy or the latest ones.
FrameNotMixed ==
    rt_pc = "exchange" /\ ~zero_outputs => iomap_out \in {taken, published}

\* What backend_iface.h:37 ("Input data is a stable snapshot for the current
\* cycle") and ec_backend.c:654 say: between ethercat_cycle_begin and
\* ethercat_cycle_end the inputs a task can read do not change.
SnapshotStable ==
    [][plc_pc = "tasks" /\ plc_pc' = "tasks"
        => in_buf'[plc_in_idx] = in_buf[plc_in_idx]]_vars
=============================================================================
