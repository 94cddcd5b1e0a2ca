------------------------------ MODULE PlcCycle ------------------------------
(***************************************************************************)
(* One PLC cycle as main.c composes it - plc_cycle_begin (poll the remote  *)
(* tag requests, factory reset, latch the backends), the tasks,            *)
(* plc_cycle_end - together with the TCP thread that sends the requests    *)
(* (services/tcp/tag_tcp_server.c, handle_request) and the main thread     *)
(* that stops both (app/plc/plc_runtime.c).                                *)
(*                                                                         *)
(* The two rings between the threads are BoundedFifo, which SpscRing is    *)
(* shown to implement.  The scheduler's timing is in PlcScheduler, the     *)
(* buffers behind the outputs in EcProcessImage: here the staging buffer   *)
(* and the published one are two images that cycle_end swaps.              *)
(***************************************************************************)
EXTENDS Naturals, Sequences, FiniteSets

CONSTANTS
    Vars,           \* process and HMI variables, by the tag that owns them
    Aliases,        \* HMI tags that stand for one of them ...
    AliasOf,        \* ... which one
    ReadOnly,       \* HMI tags configured without write access
    ResetCmd,       \* hmi.FactoryResetCmd, one of Vars
    Outputs,        \* output tags of the backends' devices
    Unknown,        \* a name that is in no tag table
    Values,         \* tag values; 0 is a BOOL's false and every initial value
    MaxPerCycle,    \* 16 in plc_cycle_begin
    RingCapacity,   \* TAG_RPC_CAPACITY
    IdRange         \* request ids are uint32_t

ASSUME TagAssumption ==
    /\ AliasOf \in [Aliases -> Vars]
    /\ ReadOnly \subseteq Vars \cup Aliases /\ ResetCmd \in Vars \ ReadOnly
    /\ Vars \cap Outputs = {} /\ Aliases \cap (Vars \cup Outputs) = {}
    /\ Unknown \notin Vars \cup Aliases \cup Outputs
    /\ {0, 1} \subseteq Values
ASSUME RpcAssumption ==
    /\ MaxPerCycle \in Nat \ {0} /\ RingCapacity \in Nat \ {0}
    /\ IdRange \in Nat \ {0}

Tag == Vars \cup Aliases \cup Outputs
Request == [id : 0 .. IdRange - 1, op : {"read", "write"},
            tag : Tag \cup {Unknown}, val : Values]
\* What a client's line asks for: the value is a write's.
Line == {r \in [op : {"read", "write"}, tag : Tag \cup {Unknown}, val : Values] :
            r.op = "read" => r.val = 0}
Response == [id : 0 .. IdRange - 1, status : {"ok", "error"}, val : Values]
NoRequest == [id |-> 0, op |-> "read", tag |-> Unknown, val |-> 0]
NoResponse == [id |-> 0, status |-> "error", val |-> 0]

VARIABLES
    req_q, rsp_q,               \* TagRpcChannel_t
    tcp_pc, next_id, req, rsp, reply,   \* the TCP thread
    plc_pc, handled, plc_req,   \* the PLC thread
    store,                      \* proc_store and hmi_store
    staging, published,         \* the backends' outputs
    main_pc, sched_running, stop_flag,  \* plc_runtime_run
    \* History: how often the current request took effect, and the outputs a
    \* remote write has set in this cycle, if no task has set them since.
    effects, promised

rings == <<req_q, rsp_q>>
tcpvars == <<tcp_pc, next_id, req, rsp, reply>>
plcvars == <<plc_pc, handled, plc_req>>
image == <<store, staging, published>>
mainvars == <<main_pc, sched_running, stop_flag>>
hist == <<effects, promised>>
vars == <<rings, tcpvars, plcvars, image, mainvars, hist>>

ReqRing == INSTANCE BoundedFifo
    WITH Elements <- Request, Limit <- RingCapacity, Nothing <- NoRequest,
         queue <- req_q, taken <- plc_req
RspRing == INSTANCE BoundedFifo
    WITH Elements <- Response, Limit <- RingCapacity, Nothing <- NoResponse,
         queue <- rsp_q, taken <- rsp

Initial == [v \in Vars |-> 0]
NoPromise == [o \in {} |-> 0]

\* After proc_init and hmi_init with START_FACTORY, tag_rpc_init and the starts
\* of plc_runtime_run.
Init == /\ req_q = <<>> /\ rsp_q = <<>>
        /\ tcp_pc = "line" /\ next_id = 1 % IdRange
        /\ req = NoRequest /\ rsp = NoResponse /\ reply = "none"
        /\ plc_pc = "test" /\ handled = 0 /\ plc_req = NoRequest
        /\ store = Initial
        /\ staging = [o \in Outputs |-> 0] /\ published = [o \in Outputs |-> 0]
        /\ main_pc = "run" /\ sched_running = TRUE /\ stop_flag = FALSE
        /\ effects = 0 /\ promised = NoPromise
-----------------------------------------------------------------------------
(* The TCP thread: one line of the client at a time. *)

\* A line parsed to a request: push it, or answer queue_full.
TcpSend(line) ==
    /\ tcp_pc = "line"
    /\ req' = [id |-> next_id, op |-> line.op, tag |-> line.tag,
               val |-> line.val]
    /\ next_id' = (next_id + 1) % IdRange
    /\ rsp' = NoResponse
    /\ effects' = 0
    /\ IF Len(req_q) < RingCapacity
       THEN ReqRing!Put(req') /\ tcp_pc' = "await" /\ UNCHANGED reply
       ELSE reply' = "queue_full" /\ UNCHANGED <<tcp_pc, req_q, plc_req>>
    /\ UNCHANGED <<rsp_q, plc_pc, handled, image, mainvars, promised>>

GivesUp_Impatient == TRUE
GivesUp_Never == FALSE
GivesUp == stop_flag

TcpGiveUp ==
    /\ tcp_pc = "await" /\ GivesUp
    /\ reply' = "stopping" /\ tcp_pc' = "line"
    /\ UNCHANGED <<rings, next_id, req, rsp, plcvars, image, mainvars, hist>>

\* Take a response; only the one with this request's id answers it.
TcpReceive ==
    /\ tcp_pc = "await" /\ ~stop_flag
    /\ RspRing!Take
    /\ IF rsp'.id = req.id
       THEN reply' = rsp'.status /\ tcp_pc' = "line"
       ELSE UNCHANGED <<reply, tcp_pc>>
    /\ UNCHANGED <<req_q, next_id, req, plcvars, image, mainvars, hist>>

TcpExit == /\ tcp_pc = "line" /\ stop_flag
           /\ tcp_pc' = "exited"
           /\ UNCHANGED <<rings, next_id, req, rsp, reply, plcvars, image,
                          mainvars, hist>>
-----------------------------------------------------------------------------
(* The PLC thread. *)

LoopTest == /\ plc_pc = "test"
            /\ plc_pc' = IF sched_running THEN "poll" ELSE "exited"
            /\ handled' = 0
            /\ UNCHANGED <<rings, tcpvars, plc_req, image, mainvars, hist>>

PollMore_OneTooMany == handled <= MaxPerCycle
PollMore == handled < MaxPerCycle

PollReceive == /\ plc_pc = "poll" /\ PollMore
               /\ ReqRing!Take
               /\ plc_pc' = "handle"
               /\ UNCHANGED <<rsp_q, tcpvars, handled, image, mainvars, hist>>

\* resolve_entry: the tag an alias stands for; write access is checked at both.
Resolved(t) == IF t \in Aliases THEN AliasOf[t] ELSE t
MayWrite(t) == t \in Tag /\ {t, Resolved(t)} \cap ReadOnly = {}

\* tag_table_find_id, then tag_read or tag_write.
Status_Unchecked(r) == IF r.tag \in Tag THEN "ok" ELSE "error"
Status(r) == IF r.tag \in Tag /\ (r.op = "write" => MayWrite(r.tag))
             THEN "ok" ELSE "error"

\* An output tag is read from the staging buffer, like it is written.
TagValue(t) == IF t \in Vars THEN store[t] ELSE staging[t]

Handled_NotOnError(n, status) == IF status = "ok" THEN n + 1 ELSE n
Handled(n, status) == n + 1

\* handle_read and handle_write, with the response.  Its push may fail, and the
\* result is ignored.
PollAnswer ==
    /\ plc_pc = "handle"
    /\ LET r == plc_req
           status == Status(r)
           tag == Resolved(r.tag)
           writes(tags) == r.op = "write" /\ MayWrite(r.tag) /\ tag \in tags
           response == [id |-> r.id, status |-> status,
                        val |-> IF status = "ok" /\ r.op = "read"
                                THEN TagValue(tag) ELSE 0]
       IN /\ store' = IF writes(Vars) THEN [store EXCEPT ![tag] = r.val]
                                      ELSE store
          /\ IF writes(Outputs)
             THEN /\ staging' = [staging EXCEPT ![tag] = r.val]
                  /\ promised' = [o \in DOMAIN promised \cup {tag} |->
                                    IF o = tag THEN r.val ELSE promised[o]]
             ELSE UNCHANGED <<staging, promised>>
          /\ effects' = IF writes(Vars \cup Outputs) THEN effects + 1 ELSE effects
          /\ rsp_q' = IF Len(rsp_q) < RingCapacity
                      THEN Append(rsp_q, response) ELSE rsp_q
          /\ handled' = Handled(handled, status)
    /\ plc_pc' = "poll" /\ plc_req' = NoRequest
    /\ UNCHANGED <<req_q, tcpvars, published, mainvars>>

PollEnd == /\ plc_pc = "poll"
           /\ ~PollMore \/ req_q = <<>>
           /\ plc_pc' = "reset"
           /\ UNCHANGED <<rings, tcpvars, handled, plc_req, image, mainvars,
                          hist>>

\* The command is cleared, HMI variables and process variables get their
\* initial values; outputs keep theirs.
AfterReset_KeepsCommand == [Initial EXCEPT ![ResetCmd] = store[ResetCmd]]
AfterReset == Initial

FactoryReset ==
    /\ plc_pc = "reset"
    /\ store' = IF store[ResetCmd] # 0 THEN AfterReset ELSE store
    /\ plc_pc' = "begin"
    /\ UNCHANGED <<rings, tcpvars, handled, plc_req, staging, published,
                   mainvars, hist>>

\* runtime_backends_cycle_begin: the published outputs are the starting point
\* of the new cycle's.
BackendsBegin ==
    /\ plc_pc = "begin"
    /\ staging' = published
    /\ plc_pc' = "tasks"
    /\ UNCHANGED <<rings, tcpvars, handled, plc_req, store, published, mainvars,
                   hist>>

TaskSetVar(v, x) ==
    /\ plc_pc = "tasks"
    /\ store' = [store EXCEPT ![v] = x]
    /\ UNCHANGED <<rings, tcpvars, plcvars, staging, published, mainvars, hist>>

TaskSetOutput(o, x) ==
    /\ plc_pc = "tasks"
    /\ staging' = [staging EXCEPT ![o] = x]
    /\ promised' = [p \in DOMAIN promised \ {o} |-> promised[p]]
    /\ UNCHANGED <<rings, tcpvars, plcvars, store, published, mainvars, effects>>

TasksDone == /\ plc_pc = "tasks"
             /\ plc_pc' = "end"
             /\ UNCHANGED <<rings, tcpvars, handled, plc_req, image, mainvars,
                            hist>>

\* runtime_backends_sync_outputs: the images change roles.
BackendsEnd ==
    /\ plc_pc = "end"
    /\ published' = staging /\ staging' = published
    /\ promised' = NoPromise
    /\ plc_pc' = "test"
    /\ UNCHANGED <<rings, tcpvars, handled, plc_req, store, mainvars, effects>>
-----------------------------------------------------------------------------
(* plc_runtime_run: stop the scheduler, join it, then stop the TCP server. *)

StopScheduler == /\ main_pc = "run"
                 /\ sched_running' = FALSE /\ main_pc' = "join_plc"
                 /\ UNCHANGED <<rings, tcpvars, plcvars, image, stop_flag, hist>>

StopServer == /\ main_pc = "join_plc" /\ plc_pc = "exited"
              /\ stop_flag' = TRUE /\ main_pc' = "join_tcp"
              /\ UNCHANGED <<rings, tcpvars, plcvars, image, sched_running, hist>>

Finished == /\ main_pc = "join_tcp" /\ tcp_pc = "exited"
            /\ main_pc' = "done"
            /\ UNCHANGED <<rings, tcpvars, plcvars, image, sched_running,
                           stop_flag, hist>>
-----------------------------------------------------------------------------
TcpAnswer == TcpGiveUp \/ TcpReceive
Tcp == (\E line \in Line : TcpSend(line)) \/ TcpAnswer \/ TcpExit
Tasks == \/ \E v \in Vars \ {ResetCmd}, x \in Values : TaskSetVar(v, x)
         \/ \E o \in Outputs, x \in Values : TaskSetOutput(o, x)
PlcStep == \/ LoopTest \/ PollReceive \/ PollAnswer \/ PollEnd \/ FactoryReset
           \/ BackendsBegin \/ TasksDone \/ BackendsEnd
Main == StopScheduler \/ StopServer \/ Finished

Next == Tcp \/ PlcStep \/ Tasks \/ Main

Spec == Init /\ [][Next]_vars

\* The scheduler keeps the PLC thread cycling and tasks return; the TCP thread
\* polls for its answer; once the main thread has begun to stop, it goes on.
FairSpec == /\ Spec
            /\ WF_vars(PlcStep) /\ WF_vars(TcpAnswer)
            /\ WF_vars(StopServer) /\ WF_vars(Finished)
-----------------------------------------------------------------------------
\* Every variable keeps its range.
TypeOK ==
    /\ req_q \in Seq(Request) /\ rsp_q \in Seq(Response)
    /\ tcp_pc \in {"line", "await", "exited"} /\ next_id \in 0 .. IdRange - 1
    /\ req \in Request /\ rsp \in Response
    /\ reply \in {"none", "ok", "error", "queue_full", "stopping"}
    /\ plc_pc \in {"test", "poll", "handle", "reset", "begin", "tasks", "end",
                   "exited"}
    /\ handled \in 0 .. MaxPerCycle /\ plc_req \in Request
    /\ store \in [Vars -> Values]
    /\ staging \in [Outputs -> Values] /\ published \in [Outputs -> Values]
    /\ main_pc \in {"run", "join_plc", "join_tcp", "done"}
    /\ sched_running \in BOOLEAN /\ stop_flag \in BOOLEAN
    /\ effects \in Nat /\ DOMAIN promised \subseteq Outputs

\* Requests and responses in flight: in a ring or in the PLC thread's hands.
InFlight == Len(req_q) + Len(rsp_q) + IF plc_pc = "handle" THEN 1 ELSE 0

\* Until the server is told to stop, at most the one request the TCP thread
\* waits for is in flight: neither ring fills up, so no request is refused and
\* no response is dropped (the result of tag_rpc_send_response is ignored).
OneInFlight == ~stop_flag => InFlight = IF tcp_pc = "await" THEN 1 ELSE 0

\* A client that is told OK has had its write done, once; one that is told of
\* an error has not.  (One that is told "stopping" cannot know.)
ReplyTellsEffect ==
    tcp_pc = "line" /\ req.op = "write" =>
        /\ reply = "ok" => effects = 1
        /\ reply \in {"error", "queue_full"} => effects = 0

\* A factory reset takes effect before any task runs, and its command is gone
\* by then whatever requests came in with it: it cannot fire twice.
ResetBeforeTasks == plc_pc \in {"begin", "tasks", "end"} => store[ResetCmd] = 0

\* Every request the TCP thread waits for is answered, in the middle of a
\* shutdown too (tag_tcp_server.c:159-175 waits without a timeout).
EveryRequestAnswered == tcp_pc = "await" ~> tcp_pc = "line"

\* Remote requests cannot keep the PLC from its tasks: the poll ends however
\* fast the client sends the next request.
PollEnds == plc_pc = "poll" ~> plc_pc \in {"begin", "exited"}

\* "Output data is a staging buffer applied on the next cycle_end."
\* (backend_iface.h:39): an output set by a remote write, and by no task since,
\* is what the next cycle_end publishes.
StagedOutputApplied ==
    plc_pc = "end" => \A o \in DOMAIN promised : staging[o] = promised[o]
=============================================================================
