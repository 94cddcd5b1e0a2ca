---------------------------- MODULE PlcLifecycle ----------------------------
(***************************************************************************)
(* Building, starting and stopping the program, with every step that can   *)
(* fail: the backend part of system_build, main, plc_runtime_run,          *)
(* runtime_backends_start and _stop, ethercat_start and _stop, and the     *)
(* three kinds of threads as far as starting and stopping them goes.  What *)
(* the real-time thread does in one bus cycle is EcProcessImage; here it   *)
(* sends its outputs, which the running PLC makes "live", to the bus.  The *)
(* PLC thread and the tag server are PlcScheduler and TcpServer; here they *)
(* end once they have been told to, or what those modules know to keep     *)
(* them from it has happened.                                              *)
(***************************************************************************)
EXTENDS Integers

CONSTANT Count                  \* config->backend_count

ASSUME CountAssumption == Count \in Nat \ {0}

VARIABLES
    main_pc, cur, back,         \* main: step, backend, whom ethercat_stop serves
    registered, started,        \* rt->backend_count, started
    rc, stop_rc,                \* return codes: of the program, of stopping
    server, sched,              \* the tag server's and the PLC thread
    slaves,                     \* the state of each backend's slaves
    should_run, is_running, in_op,      \* rt_should_run, rt_is_running, in_op
    outputs, image, wire,       \* out_buffers, process image, last frame sent
    rt_pc, carry,               \* RT thread: step, word between load and store
    \* History, read by no action: ethercat_stop has returned; it came before
    \* the thread had announced itself; some step has failed.
    stopped, missed, failed

place == <<cur, back>>
counts == <<registered, started>>
codes == <<rc, stop_rc>>
threads == <<server, sched>>
flags == <<should_run, is_running, in_op>>
data == <<outputs, image, wire>>
rt == <<rt_pc, carry>>
hist == <<stopped, missed, failed>>
vars == <<main_pc, place, counts, codes, threads, slaves, flags, data, rt, hist>>

Backends == 1 .. Count
All(v) == [b \in Backends |-> v]

Init == /\ main_pc = "create" /\ cur = 1 /\ back = "none"
        /\ registered = 0 /\ started = 0 /\ rc = 0 /\ stop_rc = 0
        /\ server = "none" /\ sched = "none" /\ slaves = All("init")
        /\ should_run = All(FALSE) /\ is_running = All(FALSE)
        /\ in_op = All(FALSE)
        /\ outputs = All("zero") /\ image = All("zero") /\ wire = All("zero")
        /\ rt_pc = All("none") /\ carry = All("zero")
        /\ stopped = All(FALSE) /\ missed = All(FALSE) /\ failed = FALSE

\* Stop the backends from b on, one by one, on behalf of caller.
StopFrom(b, caller) == main_pc' = "stop_tell" /\ cur' = b /\ back' = caller

\* Go on to the next step, here and with nothing gone wrong.
Proceed(pc) == main_pc' = pc /\ UNCHANGED <<place, rc, failed>>

\* Slaves that were asked for state s reach it, or are given up somewhere
\* between their old state and that one.
Asked(s, ok, limbo) ==
    \E t \in IF ok THEN {s} ELSE limbo : slaves' = [slaves EXCEPT ![cur] = t]

\* Whether a loop over the registered backends goes on after b.
HasNext_OffByOne(b) == b <= registered
HasNext(b) == b < registered
-----------------------------------------------------------------------------
(* system_build: create, initialise, bind and finalize each backend. *)

\* The cleanup label: destroy what is registered, if anything is.
Cleanup == /\ rc' = -1 /\ failed' = TRUE
           /\ IF registered > 0 THEN StopFrom(1, "destroy")
                                ELSE main_pc' = "exit" /\ UNCHANGED place

CreateBackend(ok) ==
    /\ main_pc = "create"
    /\ IF ok THEN Proceed("init") /\ registered' = cur
             ELSE Cleanup /\ UNCHANGED registered
    /\ UNCHANGED <<started, stop_rc, threads, slaves, flags, data, rt,
                   stopped, missed>>

\* ethercat_init scans the bus, ethercat_bind_device checks the positions.
InitBackend(ok) ==
    /\ main_pc = "init"
    /\ Asked("pre_op", ok, {"init", "pre_op"})
    /\ IF ok THEN Proceed("finalize") ELSE Cleanup
    /\ UNCHANGED <<counts, stop_rc, threads, flags, data, rt, stopped, missed>>

\* ethercat_finalize_mapping maps and checks the slaves, and asks for SAFE_OP.
FinalizeBackend(ok) ==
    /\ main_pc = "finalize"
    /\ Asked("safe_op", ok, {"pre_op", "safe_op"})
    /\ IF ~ok THEN Cleanup
       ELSE /\ IF cur < Count THEN main_pc' = "create" /\ cur' = cur + 1
                              ELSE main_pc' = "tags" /\ UNCHANGED cur
            /\ UNCHANGED <<back, rc, failed>>
    /\ UNCHANGED <<counts, stop_rc, threads, flags, data, rt, stopped, missed>>

\* The rest of system_build fills the tag table.
BuildTags(ok) ==
    /\ main_pc = "tags"
    /\ IF ok THEN Proceed("prepare") ELSE Cleanup
    /\ UNCHANGED <<counts, stop_rc, threads, slaves, flags, data, rt,
                   stopped, missed>>

\* ethercat_backend_destroy closes the bus after backend_destroy's stop.
DestroyBackend ==
    /\ main_pc = "destroy"
    /\ slaves' = [slaves EXCEPT ![cur] = "init"]
    /\ IF HasNext(cur)
       THEN StopFrom(cur + 1, "destroy") /\ UNCHANGED registered
       ELSE main_pc' = "exit" /\ registered' = 0 /\ UNCHANGED place
    /\ UNCHANGED <<started, codes, threads, flags, data, rt, hist>>
-----------------------------------------------------------------------------
(* main and plc_runtime_run. *)

\* When a step fails before any backend has been started, main just returns.
ProceedOrExit(ok, pc) ==
    IF ok THEN Proceed(pc)
          ELSE main_pc' = "exit" /\ rc' = -1 /\ failed' = TRUE /\ UNCHANGED place

\* Binding the application, initialising the scheduler and the channel.
Prepare(ok) ==
    /\ main_pc = "prepare"
    /\ ProceedOrExit(ok, "server")
    /\ UNCHANGED <<counts, stop_rc, threads, slaves, flags, data, rt, stopped,
                   missed>>

\* What a successful plat_thread_create does to a thread, and an unsuccessful.
Created(ok) == IF ok THEN "up" ELSE "none"
\* A thread that still runs learns of the stop when it next looks.
Told(thread) == IF thread = "up" THEN "told" ELSE thread

StartServer(ok) ==
    /\ main_pc = "server"
    /\ server' = Created(ok)
    /\ ProceedOrExit(ok, "start_first")
    /\ UNCHANGED <<counts, stop_rc, sched, slaves, flags, data, rt, stopped,
                   missed>>

StartScheduler(ok) ==
    /\ main_pc = "sched"
    /\ sched' = Created(ok)
    /\ IF ok THEN Proceed("run")
             ELSE /\ main_pc' = "stop_server" /\ UNCHANGED place
                  /\ rc' = -1 /\ failed' = TRUE
    /\ UNCHANGED <<counts, stop_rc, server, slaves, flags, data, rt, stopped,
                   missed>>

\* plc_scheduler_stop: clear running, and join the PLC thread.
StopScheduler ==
    /\ main_pc = "run"
    /\ sched' = Told(sched) /\ main_pc' = "join_sched"
    /\ UNCHANGED <<place, counts, codes, server, slaves, flags, data, rt, hist>>

JoinScheduler ==
    /\ main_pc = "join_sched" /\ sched = "ended"
    /\ main_pc' = "stop_server"
    /\ UNCHANGED <<place, counts, codes, threads, slaves, flags, data, rt, hist>>

\* tag_tcp_server_stop: set stop_flag, close both sockets, and join the thread;
\* then runtime_backends_stop.
StopServer ==
    /\ main_pc = "stop_server"
    /\ server' = Told(server) /\ main_pc' = "join_server"
    /\ UNCHANGED <<place, counts, codes, sched, slaves, flags, data, rt, hist>>

JoinServer ==
    /\ main_pc = "join_server" /\ server = "ended"
    /\ StopFrom(1, "stop_all")
    /\ UNCHANGED <<counts, codes, threads, slaves, flags, data, rt, hist>>

\* The server is stopped after the backends failed to start, too.
AbortServer ==
    /\ main_pc = "abort_server"
    /\ server' = Told(server) /\ main_pc' = "join_abort"
    /\ UNCHANGED <<place, counts, codes, sched, slaves, flags, data, rt, hist>>

JoinAborted ==
    /\ main_pc = "join_abort" /\ server = "ended"
    /\ main_pc' = "exit"
    /\ UNCHANGED <<place, counts, codes, threads, slaves, flags, data, rt, hist>>
-----------------------------------------------------------------------------
(* runtime_backends_start and ethercat_start. *)

StartFirst ==
    /\ main_pc = "start_first"
    /\ main_pc' = "start_zero" /\ cur' = 1 /\ started' = 0
    /\ UNCHANGED <<back, registered, codes, threads, slaves, flags, data, rt,
                   hist>>

\* Stop the backends that were started, the last one first.
RollbackFrom_OneShort(n) == n - 1
RollbackFrom(n) == n

StartFails ==
    /\ rc' = -1 /\ failed' = TRUE
    /\ IF RollbackFrom(started) > 0
       THEN StopFrom(RollbackFrom(started), "rollback")
       ELSE main_pc' = "abort_server" /\ UNCHANGED place

ZeroOutputs == /\ outputs' = [outputs EXCEPT ![cur] = "zero"]
               /\ image' = [image EXCEPT ![cur] = "zero"]
               /\ UNCHANGED wire
SendFrame == wire' = [wire EXCEPT ![cur] = image[cur]] /\ UNCHANGED <<outputs, image>>

StartZero ==
    /\ main_pc = "start_zero"
    /\ ZeroOutputs /\ Proceed("start_send")
    /\ UNCHANGED <<counts, stop_rc, threads, slaves, flags, rt, stopped, missed>>

\* Three frames, so that the slaves have valid outputs before they go to OP.
StartSend ==
    /\ main_pc = "start_send"
    /\ SendFrame /\ Proceed("start_op")
    /\ UNCHANGED <<counts, stop_rc, threads, slaves, flags, rt, stopped, missed>>

\* ec_soem_request_op: when it gives up the slaves may yet be operational.
StartOp(ok) ==
    /\ main_pc = "start_op"
    /\ Asked("op", ok, {"safe_op", "op"})
    /\ IF ok THEN Proceed("start_flags") ELSE StartFails
    /\ UNCHANGED <<counts, stop_rc, threads, flags, data, rt, stopped, missed>>

StartFlags ==
    /\ main_pc = "start_flags"
    /\ in_op' = [in_op EXCEPT ![cur] = TRUE]
    /\ should_run' = [should_run EXCEPT ![cur] = TRUE]
    /\ is_running' = [is_running EXCEPT ![cur] = FALSE]
    /\ Proceed("create_rt")
    /\ UNCHANGED <<counts, stop_rc, threads, slaves, data, rt, stopped, missed>>

CreateThread(ok) ==
    /\ main_pc = "create_rt"
    /\ IF ok
       THEN /\ rt_pc' = [rt_pc EXCEPT ![cur] = "born"]
            /\ started' = started + 1
            /\ IF cur < registered THEN main_pc' = "start_zero" /\ cur' = cur + 1
                                   ELSE main_pc' = "sched" /\ UNCHANGED cur
            /\ UNCHANGED <<back, rc, in_op, should_run, failed>>
       ELSE /\ in_op' = [in_op EXCEPT ![cur] = FALSE]
            /\ should_run' = [should_run EXCEPT ![cur] = FALSE]
            /\ StartFails
            /\ UNCHANGED <<started, rt_pc>>
    /\ UNCHANGED <<registered, stop_rc, threads, slaves, is_running, data,
                   carry, stopped, missed>>
-----------------------------------------------------------------------------
(* ethercat_stop, and the loops that call it. *)

AfterTell_Forgets(runs) == runs
AfterTell(runs) == FALSE

StopTell ==
    /\ main_pc = "stop_tell"
    /\ should_run' = [should_run EXCEPT ![cur] = AfterTell(@)]
    /\ Proceed("stop_look")
    /\ UNCHANGED <<counts, stop_rc, threads, slaves, is_running, in_op, data,
                   rt, stopped, missed>>

\* The thread is joined only if it has announced itself.
MustJoin_Never(announced) == FALSE
MustJoin(announced) == announced

StopLook ==
    /\ main_pc = "stop_look"
    /\ Proceed(IF MustJoin(is_running[cur]) THEN "stop_join" ELSE "stop_zero")
    /\ missed' = [missed EXCEPT ![cur] = rt_pc[cur] = "born"]
    /\ UNCHANGED <<counts, stop_rc, threads, slaves, flags, data, rt, stopped>>

StopJoin ==
    /\ main_pc = "stop_join" /\ rt_pc[cur] = "ended"
    /\ Proceed("stop_zero")
    /\ UNCHANGED <<counts, stop_rc, threads, slaves, flags, data, rt, stopped,
                   missed>>

StopZero ==
    /\ main_pc = "stop_zero"
    /\ ZeroOutputs /\ Proceed("stop_send")
    /\ UNCHANGED <<counts, stop_rc, threads, slaves, flags, rt, stopped, missed>>

StopSend ==
    /\ main_pc = "stop_send"
    /\ SendFrame /\ Proceed("stop_request")
    /\ UNCHANGED <<counts, stop_rc, threads, slaves, flags, rt, stopped, missed>>

\* runtime_backends_stop remembers that any backend failed to stop.
StopRc_LastOnly(code, ok) == IF ok THEN 0 ELSE -1
StopRc(code, ok) == IF ok THEN code ELSE -1

\* The next backend of the loop that called ethercat_stop, or what follows it.
StopNext ==
    IF back = "stop_all" /\ HasNext(cur)
    THEN StopFrom(cur + 1, back) /\ UNCHANGED rc
    ELSE IF back = "rollback" /\ cur > 1
    THEN StopFrom(cur - 1, back) /\ UNCHANGED rc
    ELSE /\ \/ back = "stop_all" /\ main_pc' = "exit"
            \/ back = "rollback" /\ main_pc' = "abort_server"
            \/ back = "destroy" /\ main_pc' = "destroy"
         /\ rc' = IF rc = 0 /\ stop_rc' # 0 THEN -1 ELSE rc
         /\ UNCHANGED place

\* ec_soem_request_safe_op gives up after ten attempts.
StopRequest(ok) ==
    /\ main_pc = "stop_request"
    /\ Asked("safe_op", ok, {slaves[cur], "safe_op"})
    /\ in_op' = [in_op EXCEPT ![cur] = FALSE]
    /\ stop_rc' = IF back = "stop_all" THEN StopRc(stop_rc, ok) ELSE stop_rc
    /\ stopped' = [stopped EXCEPT ![cur] = TRUE]
    /\ failed' = (failed \/ ~ok)
    /\ StopNext
    /\ UNCHANGED <<counts, threads, should_run, is_running, data, rt, missed>>
-----------------------------------------------------------------------------
(* The threads.  What a running PLC publishes may be anything: "live". *)

others == <<main_pc, place, counts, codes, threads, slaves, hist>>

\* The tag server's thread gets from one state to another: it ends when it
\* cannot listen, and when it has been told to; but a client that it accepts
\* after stop has closed the client socket holds it until that client leaves.
ServerStep(from, to) ==
    /\ server = from /\ server' = to
    /\ UNCHANGED <<main_pc, place, counts, codes, sched, slaves, flags, data, rt,
                   hist>>

ServerFails == ServerStep("up", "ended")
ServerTakesLate == ServerStep("told", "held")
LateLeaves == ServerStep("held", "ended")
ServerEnds == ServerStep("told", "ended")

\* The PLC thread ends when it is told to; but past 2^32 ms a task's last_run_ms
\* never catches up (PlcScheduler), and no further cycle ends.
SchedStep(from, to) ==
    /\ sched = from /\ sched' = to
    /\ UNCHANGED <<main_pc, place, counts, codes, server, slaves, flags, data, rt,
                   hist>>

SchedSticks == \E from \in {"up", "told"} : SchedStep(from, "stuck")
SchedEnds == SchedStep("told", "ended")

PlcPublish(b) ==
    /\ sched \in {"up", "told"}
    /\ outputs' = [outputs EXCEPT ![b] = "live"]
    /\ UNCHANGED <<others, flags, image, wire, rt>>

RtStep(b, from, to) == rt_pc[b] = from /\ rt_pc' = [rt_pc EXCEPT ![b] = to]

RtAnnounce(b) ==
    /\ RtStep(b, "born", "test")
    /\ is_running' = [is_running EXCEPT ![b] = TRUE]
    /\ UNCHANGED <<others, should_run, in_op, data, carry>>

RtTest(b) ==
    /\ RtStep(b, "test", IF should_run[b] THEN "load" ELSE "zero")
    /\ UNCHANGED <<others, flags, data, carry>>

\* A copy to the process image reads and writes in two steps.
RtLoad(b) ==
    /\ RtStep(b, "load", "store")
    /\ carry' = [carry EXCEPT ![b] = outputs[b]]
    /\ UNCHANGED <<others, flags, data>>

RtStore(b) ==
    /\ RtStep(b, "store", "send")
    /\ image' = [image EXCEPT ![b] = carry[b]]
    /\ UNCHANGED <<others, flags, outputs, wire, carry>>

\* Exchange a frame, and say whether the bus is operational.
RtSend(b) ==
    /\ RtStep(b, "send", "test")
    /\ wire' = [wire EXCEPT ![b] = image[b]]
    /\ \E up \in BOOLEAN : in_op' = [in_op EXCEPT ![b] = up]
    /\ UNCHANGED <<others, should_run, is_running, outputs, image, carry>>

\* After its loop the thread zeroes everything and sends one last frame.
RtZero(b) ==
    /\ RtStep(b, "zero", "last")
    /\ outputs' = [outputs EXCEPT ![b] = "zero"]
    /\ image' = [image EXCEPT ![b] = "zero"]
    /\ UNCHANGED <<others, flags, wire, carry>>

RtLast(b) ==
    /\ RtStep(b, "last", "retire")
    /\ wire' = [wire EXCEPT ![b] = image[b]]
    /\ UNCHANGED <<others, flags, outputs, image, carry>>

RtRetire(b) ==
    /\ RtStep(b, "retire", "ended")
    /\ is_running' = [is_running EXCEPT ![b] = FALSE]
    /\ UNCHANGED <<others, should_run, in_op, data, carry>>
-----------------------------------------------------------------------------
Build(ok) == \/ CreateBackend(ok) \/ InitBackend(ok) \/ FinalizeBackend(ok)
             \/ BuildTags(ok)
Start(ok) == \/ StartFirst \/ StartZero \/ StartSend \/ StartFlags
             \/ StartOp(ok) \/ CreateThread(ok)
Stop(ok) == \/ StopTell \/ StopLook \/ StopJoin \/ StopZero \/ StopSend
            \/ StopRequest(ok)
Run(ok) == \/ Prepare(ok) \/ StartServer(ok) \/ StartScheduler(ok)
           \/ StopScheduler \/ JoinScheduler \/ StopServer \/ JoinServer
           \/ AbortServer \/ JoinAborted
Main == DestroyBackend
            \/ \E ok \in BOOLEAN : Build(ok) \/ Run(ok) \/ Start(ok) \/ Stop(ok)
Rt(b) == \/ RtAnnounce(b) \/ RtTest(b) \/ RtLoad(b) \/ RtStore(b) \/ RtSend(b)
         \/ RtZero(b) \/ RtLast(b) \/ RtRetire(b)
Workers == \/ ServerFails \/ ServerTakesLate \/ LateLeaves \/ ServerEnds
           \/ SchedSticks \/ SchedEnds
Next == Main \/ Workers \/ \E b \in Backends : PlcPublish(b) \/ Rt(b)

\* main waits only in its joins, and the threads are scheduled: a thread that is
\* told to end does so unless something keeps it.  No late client has to leave.
Spec == /\ Init /\ [][Next]_vars
        /\ WF_vars(Main) /\ \A b \in Backends : WF_vars(Rt(b))
        /\ WF_vars(ServerEnds) /\ WF_vars(SchedEnds)
-----------------------------------------------------------------------------
Level == {"zero", "live"}
SlaveStates == {"init", "pre_op", "safe_op", "op"}
MainSteps == {"create", "init", "finalize", "tags", "destroy", "prepare",
              "server", "start_first", "start_zero", "start_send", "start_op",
              "start_flags", "create_rt", "sched", "run", "join_sched",
              "stop_server", "join_server", "abort_server", "join_abort",
              "stop_tell", "stop_look", "stop_join", "stop_zero", "stop_send",
              "stop_request", "exit"}
RtSteps == {"none", "born", "test", "load", "store", "send", "zero", "last",
            "retire", "ended"}

\* Every variable keeps its range; main works on a backend that exists.
TypeOK ==
    /\ main_pc \in MainSteps /\ cur \in Backends
    /\ back \in {"none", "destroy", "rollback", "stop_all"}
    /\ registered \in 0 .. Count /\ started \in 0 .. Count
    /\ rc \in {0, -1} /\ stop_rc \in {0, -1}
    /\ server \in {"none", "up", "told", "held", "ended"}
    /\ sched \in {"none", "up", "told", "stuck", "ended"}
    /\ failed \in BOOLEAN
    /\ slaves \in [Backends -> SlaveStates]
    /\ should_run \in [Backends -> BOOLEAN] /\ is_running \in [Backends -> BOOLEAN]
    /\ in_op \in [Backends -> BOOLEAN]
    /\ outputs \in [Backends -> Level] /\ image \in [Backends -> Level]
    /\ wire \in [Backends -> Level] /\ carry \in [Backends -> Level]
    /\ rt_pc \in [Backends -> RtSteps]
    /\ stopped \in [Backends -> BOOLEAN] /\ missed \in [Backends -> BOOLEAN]

\* Once ethercat_stop has returned (ec_backend.c:614-643) the bus carries zero
\* outputs, and nothing that comes later puts others on it: neither the RT
\* thread, joined or not, nor a copy it had begun.
ZeroAfterStop == \A b \in Backends : stopped[b] => wire[b] = "zero"

\* SOEM's context has no lock: main and the RT thread use a bus at the same
\* time only if ethercat_stop came before the thread had announced itself
\* (ec_backend.c:622-626), and such a thread never enters its loop.
BusOwned ==
    \A b \in Backends :
        /\ /\ cur = b
           /\ main_pc \in {"start_zero", "start_send", "start_op", "stop_zero",
                           "stop_send", "stop_request"}
           /\ rt_pc[b] \in {"load", "store", "send", "zero", "last"}
           => missed[b]
        /\ missed[b] => rt_pc[b] \notin {"load", "store", "send"}

\* When main returns, both threads have ended, ethercat_stop has been called
\* for each backend that had been started, also after a start that failed
\* half-way, no RT thread has set in_op again since, and a failed build leaves
\* all slaves in INIT.  Slaves left operational (request_op gives up after
\* having asked, ec_backend.c:583, or request_safe_op does) are reported by the
\* return code, carry zero outputs, and are those of a stopped backend or of the
\* one backend whose own start failed.
NothingLeftRunning ==
    main_pc = "exit" =>
        /\ {server, sched} \subseteq {"none", "ended"}
        /\ \A b \in Backends : rt_pc[b] # "none" => stopped[b] /\ ~in_op[b]
        /\ registered = 0 => slaves = All("init")
        /\ \A b \in Backends : slaves[b] = "op" =>
              /\ rc = -1 /\ wire[b] = "zero"
              /\ stopped[b] \/ b = started + 1

\* The program returns 0 just if no step has failed: no failure to start or to
\* stop one of several backends is forgotten (runtime.c:84-111).
ExitCodeTells == main_pc = "exit" => (rc = 0 <=> ~failed)

\* main returns, whatever fails, and each of its joins ends; but for the two
\* that can wait for ever: that of the tag server (tag_tcp_server.c:318) for a
\* late client that stays, after the PLC has stopped or the backends have failed
\* to start, and that of a PLC thread that never leaves its catch-up loop.
MainReturns ==
    \/ <>(main_pc = "exit")
    \/ <>[](main_pc \in {"join_server", "join_abort"} /\ server = "held")
    \/ <>[](main_pc = "join_sched" /\ sched = "stuck")
=============================================================================
