------------------------- MODULE PlcLifecycle_proofs -------------------------
(***************************************************************************)
(* Starting and stopping the backends (main.c, plc_runtime.c, runtime.c,   *)
(* ec_backend.c) is right for any number of them, whatever fails: LifeInv  *)
(* is inductive, and it implies each of the safety properties of           *)
(* PlcLifecycle.                                                           *)
(***************************************************************************)
EXTENDS PlcLifecycle, TLAPS

USE CountAssumption

\* The two halves of TypeOK: main's own state, and what there is per backend.
ControlOK ==
    /\ main_pc \in MainSteps /\ cur \in Backends
    /\ back \in {"none", "destroy", "rollback", "stop_all"}
    /\ registered \in 0 .. Count /\ started \in 0 .. Count
    /\ rc \in {0, -1} /\ stop_rc \in {0, -1}
    /\ server \in {"none", "up", "told", "held", "ended"}
    /\ sched \in {"none", "up", "told", "stuck", "ended"}
    /\ failed \in BOOLEAN
ArraysOK ==
    /\ slaves \in [Backends -> SlaveStates]
    /\ should_run \in [Backends -> BOOLEAN] /\ is_running \in [Backends -> BOOLEAN]
    /\ in_op \in [Backends -> BOOLEAN]
    /\ outputs \in [Backends -> Level] /\ image \in [Backends -> Level]
    /\ wire \in [Backends -> Level] /\ carry \in [Backends -> Level]
    /\ rt_pc \in [Backends -> RtSteps]
    /\ stopped \in [Backends -> BOOLEAN] /\ missed \in [Backends -> BOOLEAN]

Building == {"create", "init", "finalize", "tags"}
Ready == {"prepare", "server", "start_first"}
Starting == {"start_zero", "start_send", "start_op", "start_flags", "create_rt"}
Up == {"sched", "run", "join_sched", "stop_server", "join_server"}
Aborting == {"abort_server", "join_abort"}
Stopping == {"stop_tell", "stop_look", "stop_join", "stop_zero", "stop_send",
             "stop_request"}

\* Which backends there are, which have a thread, and whom main serves.
Place ==
    /\ main_pc = "create" => registered = cur - 1
    /\ main_pc \in {"init", "finalize"} => registered = cur
    /\ main_pc \in {"tags"} \cup Aborting \cup Ready \cup Starting \cup Up =>
            registered = Count
    /\ main_pc \in Building \cup Ready => started = 0
    /\ main_pc \in Starting => started = cur - 1
    /\ main_pc \in Up => started = Count
    /\ main_pc \in Building \cup Ready \cup Starting \cup Up => back = "none"
    /\ main_pc \in Stopping \cup {"destroy"} =>
         /\ cur <= registered
         /\ \/ back = "destroy" /\ started = 0
            \/ back = "rollback" /\ registered = Count /\ cur <= started
            \/ back = "stop_all" /\ registered = Count /\ started = Count
    /\ main_pc = "destroy" => back = "destroy"
    /\ main_pc = "exit" => registered = Count \/ (registered = 0 /\ started = 0)
    /\ sched \in {"none", "ended"} \/ main_pc \in {"run", "join_sched"}
    /\ \/ server \in {"none", "ended"}
       \/ main_pc \in {"start_first"} \cup Aborting \cup Starting \cup Up
       \/ main_pc \in Stopping /\ back = "rollback"

\* A backend has a thread once it is started, and what it announces is true.
Threads ==
    \A b \in Backends : /\ rt_pc[b] = "none" <=> b > started
                        /\ is_running[b] <=> rt_pc[b] \notin {"none", "born", "ended"}

\* The loops over the backends have stopped those that they have passed.
Passed ==
    /\ back = "none" => \A b \in Backends : ~stopped[b] /\ ~missed[b]
    /\ main_pc \in Stopping /\ back = "stop_all" =>
            \A b \in Backends : b < cur => stopped[b]
    /\ main_pc \in Stopping /\ back = "rollback" =>
            \A b \in Backends : cur < b /\ b <= started => stopped[b]
    /\ main_pc \in {"exit"} \cup Aborting =>
            \A b \in Backends : b <= started => stopped[b]

\* The RT thread is outside its loop, and will stay there.
Stilled(b) == ~should_run[b] /\ rt_pc[b] \notin {"load", "store", "send"}

\* What ethercat_stop knows of the thread, and what it leaves behind.
StopKnows ==
    /\ main_pc \in {"stop_look", "stop_join"} => ~should_run[cur]
    /\ main_pc = "stop_join" => rt_pc[cur] \notin {"none", "born"}
    /\ main_pc \in {"stop_zero", "stop_send", "stop_request"} =>
            Stilled(cur) /\ (rt_pc[cur] \in {"none", "ended"} \/ missed[cur])
    /\ \A b \in Backends : stopped[b] \/ missed[b] => Stilled(b)
    /\ \A b \in Backends : stopped[b] => ~in_op[b]

\* Where nothing but zeros can come from.
ZeroHeld ==
    /\ main_pc \in {"stop_send", "stop_request"} => image[cur] = "zero"
    /\ main_pc = "stop_request" => wire[cur] = "zero"
    /\ \A b \in Backends : stopped[b] \/ rt_pc[b] = "none" =>
            image[b] = "zero" /\ wire[b] = "zero"

\* No failure gets lost between the two return codes.
CodesTell ==
    /\ failed <=> rc = -1 \/ stop_rc = -1
    /\ back \in {"destroy", "rollback"} \/ main_pc \in Aborting => rc = -1
    /\ stop_rc = -1 => back = "stop_all"
    /\ stop_rc = -1 /\ main_pc \notin Stopping => rc = -1

\* The states of the slaves that main has asked for, or given up.
SlavesKnown ==
    /\ \A b \in Backends : b > registered => slaves[b] = "init"
    /\ main_pc \in Stopping \cup {"destroy"} /\ back = "destroy" =>
            \A b \in Backends : b < cur => slaves[b] = "init"
    /\ \A b \in Backends : slaves[b] = "op" =>
            /\ \/ b <= started
               \/ b = started + 1 /\ (main_pc \in {"start_flags", "create_rt"}
                                        \/ rc = -1)
            /\ stopped[b] => rc = -1 \/ stop_rc = -1

LifeInv == /\ TypeOK /\ Place /\ Threads /\ Passed /\ StopKnows /\ ZeroHeld
           /\ CodesTell /\ SlavesKnown
-----------------------------------------------------------------------------
\* What the threads leave alone: all that main decides.
LEMMA ThreadFrame ==
    ASSUME NEW b \in Backends, PlcPublish(b) \/ Rt(b)
    PROVE  UNCHANGED others
  BY DEF PlcPublish, Rt, RtStep, RtAnnounce, RtTest, RtLoad, RtStore, RtSend,
     RtZero, RtLast, RtRetire

\* Where main is says which backends there are, and whom it serves.
LEMMA MainPlace ==
    ASSUME TypeOK, Place, Main
    PROVE  Place'
<1> USE DEF Place, Building, Ready, Starting, Up, Aborting, Stopping, place,
            counts, threads, Proceed, StopFrom
<1>1. ASSUME NEW ok \in BOOLEAN, Build(ok) PROVE Place'
  BY <1>1 DEF Build, CreateBackend, InitBackend, FinalizeBackend, BuildTags,
     Cleanup, TypeOK, Backends
<1>2. ASSUME NEW ok \in BOOLEAN, Run(ok) PROVE Place'
  <2>1. CASE Prepare(ok) \/ StartServer(ok) \/ StartScheduler(ok)
    BY <2>1 DEF Prepare, StartServer, StartScheduler, ProceedOrExit, Created,
       TypeOK
  <2>2. CASE StopScheduler \/ JoinScheduler \/ StopServer \/ JoinServer
                \/ AbortServer \/ JoinAborted
    BY <2>2 DEF StopScheduler, JoinScheduler, StopServer, JoinServer,
       AbortServer, JoinAborted, Told, Created, TypeOK, Backends
  <2> QED BY <1>2, <2>1, <2>2 DEF Run
<1>3. ASSUME NEW ok \in BOOLEAN, Start(ok) PROVE Place'
  <2>1. CASE StartFirst \/ StartZero \/ StartSend \/ StartFlags
    BY <2>1 DEF StartFirst, StartZero, StartSend, StartFlags, TypeOK, Backends
  <2>2. CASE StartOp(ok)
    BY <2>2 DEF StartOp, StartFails, RollbackFrom, TypeOK, Backends
  <2>3. CASE CreateThread(ok)
    BY <2>3 DEF CreateThread, StartFails, RollbackFrom, TypeOK, Backends
  <2> QED BY <1>3, <2>1, <2>2, <2>3 DEF Start
<1>4. ASSUME NEW ok \in BOOLEAN, Stop(ok) PROVE Place'
  BY <1>4 DEF Stop, StopTell, StopLook, StopJoin, StopZero, StopSend,
     StopRequest, StopNext, HasNext, TypeOK, Backends
<1>5. CASE DestroyBackend
  BY <1>5 DEF DestroyBackend, HasNext, TypeOK, Backends
<1> QED BY <1>1, <1>2, <1>3, <1>4, <1>5 DEF Main

\* A failure, once told by a return code, stays told.
LEMMA MainCodes ==
    ASSUME TypeOK, Place, CodesTell, Main
    PROVE  CodesTell'
<1> USE DEF CodesTell, Place, Building, Ready, Starting, Up, Aborting, Stopping,
            place, codes, hist, Proceed, StopFrom
<1>1. ASSUME NEW ok \in BOOLEAN, Build(ok) PROVE CodesTell'
  BY <1>1 DEF Build, CreateBackend, InitBackend, FinalizeBackend, BuildTags,
     Cleanup, TypeOK, Backends
<1>2. ASSUME NEW ok \in BOOLEAN, Run(ok) PROVE CodesTell'
  BY <1>2 DEF Run, Prepare, StartServer, StartScheduler, StopScheduler,
     JoinScheduler, StopServer, JoinServer, AbortServer, JoinAborted,
     ProceedOrExit, TypeOK, Backends
<1>3. ASSUME NEW ok \in BOOLEAN, Start(ok) PROVE CodesTell'
  <2>1. CASE StartFirst \/ StartZero \/ StartSend \/ StartFlags
    BY <2>1 DEF StartFirst, StartZero, StartSend, StartFlags, TypeOK
  <2>2. CASE StartOp(ok) \/ CreateThread(ok)
    BY <2>2 DEF StartOp, CreateThread, StartFails, RollbackFrom, TypeOK
  <2> QED BY <1>3, <2>1, <2>2 DEF Start
<1>4. ASSUME NEW ok \in BOOLEAN, Stop(ok) PROVE CodesTell'
  <2>1. CASE StopTell \/ StopLook \/ StopJoin \/ StopZero \/ StopSend
    BY <2>1 DEF StopTell, StopLook, StopJoin, StopZero, StopSend, TypeOK
  <2>2. CASE StopRequest(ok)
    BY <2>2 DEF StopRequest, StopNext, StopRc, HasNext, TypeOK
  <2> QED BY <1>4, <2>1, <2>2 DEF Stop
<1>5. CASE DestroyBackend
  BY <1>5 DEF DestroyBackend, HasNext, TypeOK, Backends
<1> QED BY <1>1, <1>2, <1>3, <1>4, <1>5 DEF Main

\* main's steps keep the types of its own state, one conjunct at a time ...
LEMMA MainControl ==
    ASSUME TypeOK, Place, Main
    PROVE  ControlOK'
<1> SUFFICES ASSUME NEW ok \in BOOLEAN,
                    Build(ok) \/ Run(ok) \/ Start(ok) \/ Stop(ok) \/ DestroyBackend
             PROVE  ControlOK'
  BY DEF Main
<1> USE DEF TypeOK, ControlOK, Build, CreateBackend, InitBackend,
        FinalizeBackend, BuildTags, Cleanup, Run, Prepare, StartServer,
        StartScheduler, StopScheduler, JoinScheduler, StopServer, JoinServer,
        AbortServer, JoinAborted, Told, Created, ProceedOrExit, Start,
        StartFirst, StartZero, StartSend, StartOp, StartFlags, CreateThread,
        StartFails, RollbackFrom, Stop, StopTell, StopLook, StopJoin, StopZero,
        StopSend, StopRequest, StopNext, HasNext, StopRc, DestroyBackend, place,
        counts, codes, threads, hist, Proceed, StopFrom
<1>0. Count \in Int /\ Count >= 1
  BY CountAssumption
<1>1. main_pc' \in MainSteps
  BY DEF MainSteps
<1>2. cur' \in Backends
  BY <1>0 DEF Place, Building, Ready, Starting, Up, Aborting, Stopping, Backends
<1>3. back' \in {"none", "destroy", "rollback", "stop_all"}
  OBVIOUS
<1>4. registered' \in 0 .. Count /\ started' \in 0 .. Count
  BY <1>0 DEF Place, Building, Ready, Starting, Up, Aborting, Stopping, Backends
<1>5. rc' \in {0, -1} /\ stop_rc' \in {0, -1}
  OBVIOUS
<1>6. server' \in {"none", "up", "told", "held", "ended"}
  OBVIOUS
<1>7. sched' \in {"none", "up", "told", "stuck", "ended"} /\ failed' \in BOOLEAN
  OBVIOUS
<1> QED BY <1>1, <1>2, <1>3, <1>4, <1>5, <1>6, <1>7

\* ... and of what it stores for each backend.
LEMMA MainArrays ==
    ASSUME TypeOK, Main
    PROVE  ArraysOK'
<1> USE DEF ArraysOK, TypeOK, SlaveStates, Level, flags, data, rt, hist
<1>1. ASSUME NEW ok \in BOOLEAN, Build(ok) PROVE ArraysOK'
  <2>1. CASE CreateBackend(ok) \/ BuildTags(ok)
    BY <2>1 DEF CreateBackend, BuildTags
  <2>2. CASE InitBackend(ok)
    BY <2>2 DEF InitBackend, Asked
  <2>3. CASE FinalizeBackend(ok)
    BY <2>3 DEF FinalizeBackend, Asked
  <2> QED BY <1>1, <2>1, <2>2, <2>3 DEF Build
<1>2. ASSUME NEW ok \in BOOLEAN, Run(ok) PROVE ArraysOK'
  BY <1>2 DEF Run, Prepare, StartServer, StartScheduler, StopScheduler,
     JoinScheduler, StopServer, JoinServer, AbortServer, JoinAborted
<1>3. ASSUME NEW ok \in BOOLEAN, Start(ok) PROVE ArraysOK'
  <2>1. CASE StartFirst \/ StartFlags
    BY <2>1 DEF StartFirst, StartFlags
  <2>2. CASE StartZero \/ StartSend
    BY <2>2 DEF StartZero, StartSend, ZeroOutputs, SendFrame
  <2>3. CASE StartOp(ok)
    BY <2>3 DEF StartOp, Asked
  <2>4. CASE CreateThread(ok)
    BY <2>4 DEF CreateThread, RtSteps
  <2> QED BY <1>3, <2>1, <2>2, <2>3, <2>4 DEF Start
<1>4. ASSUME NEW ok \in BOOLEAN, Stop(ok) PROVE ArraysOK'
  <2>1. CASE StopTell \/ StopLook \/ StopJoin
    BY <2>1 DEF StopTell, StopLook, StopJoin, AfterTell
  <2>2. CASE StopZero \/ StopSend
    BY <2>2 DEF StopZero, StopSend, ZeroOutputs, SendFrame
  <2>3. CASE StopRequest(ok)
    BY <2>3 DEF StopRequest, Asked
  <2> QED BY <1>4, <2>1, <2>2, <2>3 DEF Stop
<1>5. CASE DestroyBackend
  BY <1>5 DEF DestroyBackend
<1> QED BY <1>1, <1>2, <1>3, <1>4, <1>5 DEF Main

\* main's steps keep the types.
LEMMA MainTypes ==
    ASSUME TypeOK, Place, Main
    PROVE  TypeOK'
BY MainControl, MainArrays DEF ControlOK, ArraysOK, TypeOK

\* The threads' steps keep the types.
LEMMA ThreadTypes ==
    ASSUME TypeOK, NEW b \in Backends, PlcPublish(b) \/ Rt(b)
    PROVE  TypeOK'
<1> USE DEF TypeOK, Level, RtSteps, others, place, counts, codes, threads,
        hist, flags, data, rt
<1>1. CASE PlcPublish(b)
  BY <1>1 DEF PlcPublish
<1>2. CASE RtAnnounce(b) \/ RtTest(b) \/ RtRetire(b)
  <2>1. CASE RtAnnounce(b)
    BY <2>1 DEF RtAnnounce, RtStep
  <2>2. CASE RtTest(b)
    BY <2>2 DEF RtTest, RtStep
  <2>3. CASE RtRetire(b)
    BY <2>3 DEF RtRetire, RtStep
  <2> QED BY <1>2, <2>1, <2>2, <2>3
<1>3. CASE RtLoad(b) \/ RtStore(b)
  BY <1>3 DEF RtLoad, RtStore, RtStep
<1>4. CASE RtSend(b)
  BY <1>4 DEF RtSend, RtStep
<1>5. CASE RtZero(b) \/ RtLast(b)
  BY <1>5 DEF RtZero, RtLast, RtStep
<1> QED BY <1>1, <1>2, <1>3, <1>4, <1>5 DEF Rt

\* Only CreateThread makes a thread.
LEMMA ThreadsKept ==
    ASSUME TypeOK, Place, Threads, Main
    PROVE  Threads'
<1> USE DEF Threads, TypeOK, Place, Building, Ready, Starting, Backends, counts,
        flags, rt
<1>1. ASSUME NEW ok \in BOOLEAN, Build(ok) \/ Run(ok) PROVE Threads'
  BY <1>1 DEF Build, CreateBackend, InitBackend, FinalizeBackend, BuildTags,
     Run, Prepare, StartServer, StartScheduler, StopScheduler, JoinScheduler,
     StopServer, JoinServer, AbortServer, JoinAborted
<1>2. ASSUME NEW ok \in BOOLEAN, Start(ok) PROVE Threads'
  <2>1. CASE StartFirst \/ StartZero \/ StartSend
    BY <2>1 DEF StartFirst, StartZero, StartSend
  <2>2. CASE CreateThread(ok)
    BY <2>2 DEF CreateThread
  <2>3. CASE StartFlags
    BY <2>3 DEF StartFlags
  <2>4. CASE StartOp(ok)
    BY <2>4 DEF StartOp
  <2> QED BY <1>2, <2>1, <2>2, <2>3, <2>4 DEF Start
<1>3. ASSUME NEW ok \in BOOLEAN, Stop(ok) PROVE Threads'
  BY <1>3 DEF Stop, StopTell, StopLook, StopJoin, StopZero, StopSend,
     StopRequest
<1>4. CASE DestroyBackend
  BY <1>4 DEF DestroyBackend
<1> QED BY <1>1, <1>2, <1>3, <1>4 DEF Main

\* No backend is passed over by the loops that stop them.
LEMMA PassedKept ==
    ASSUME TypeOK, Place, Threads, Passed, Main
    PROVE  Passed'
<1> USE DEF Passed, TypeOK, Place, Building, Ready, Starting, Up, Aborting,
            Stopping, Backends, place, counts, hist, Proceed, StopFrom
<1>1. ASSUME NEW ok \in BOOLEAN, Build(ok) PROVE Passed'
  BY <1>1 DEF Build, CreateBackend, InitBackend, FinalizeBackend, BuildTags,
     Cleanup
<1>2. ASSUME NEW ok \in BOOLEAN, Run(ok) PROVE Passed'
  <2>1. CASE Prepare(ok) \/ StartServer(ok) \/ StartScheduler(ok)
    BY <2>1 DEF Prepare, StartServer, StartScheduler, ProceedOrExit
  <2>2. CASE StopScheduler \/ JoinScheduler \/ StopServer \/ JoinServer
                \/ AbortServer \/ JoinAborted
    BY <2>2 DEF StopScheduler, JoinScheduler, StopServer, JoinServer,
       AbortServer, JoinAborted
  <2> QED BY <1>2, <2>1, <2>2 DEF Run
<1>3. ASSUME NEW ok \in BOOLEAN, Start(ok) PROVE Passed'
  <2>1. CASE StartFirst \/ StartZero \/ StartSend \/ StartFlags
    BY <2>1 DEF StartFirst, StartZero, StartSend, StartFlags
  <2>2. CASE StartOp(ok) \/ CreateThread(ok)
    BY <2>2 DEF StartOp, CreateThread, StartFails, RollbackFrom
  <2> QED BY <1>3, <2>1, <2>2 DEF Start
<1>4. ASSUME NEW ok \in BOOLEAN, Stop(ok) PROVE Passed'
  <2>1. CASE StopTell \/ StopLook \/ StopJoin \/ StopZero \/ StopSend
    BY <2>1 DEF StopTell, StopLook, StopJoin, StopZero, StopSend
  <2>2. CASE StopRequest(ok)
    BY <2>2 DEF StopRequest, StopNext, HasNext
  <2> QED BY <1>4, <2>1, <2>2 DEF Stop
<1>5. CASE DestroyBackend
  BY <1>5 DEF DestroyBackend, HasNext
<1> QED BY <1>1, <1>2, <1>3, <1>4, <1>5 DEF Main

\* What main knows when it takes a backend's outputs and bus over ...
LEMMA MainStopKnows ==
    ASSUME TypeOK, Place, Threads, Passed, StopKnows, Main
    PROVE  StopKnows'
<1> USE DEF StopKnows, Stilled, TypeOK, place, counts, flags, rt, hist, Proceed,
        StopFrom, Stopping
<1>1. ASSUME NEW ok \in BOOLEAN, Build(ok) PROVE StopKnows'
  BY <1>1 DEF Build, CreateBackend, InitBackend, FinalizeBackend, BuildTags,
     Cleanup
<1>2. ASSUME NEW ok \in BOOLEAN, Run(ok) PROVE StopKnows'
  BY <1>2 DEF Run, Prepare, StartServer, StartScheduler, StopScheduler,
     JoinScheduler, StopServer, JoinServer, AbortServer, JoinAborted,
     ProceedOrExit
<1>3. ASSUME NEW ok \in BOOLEAN, Start(ok) PROVE StopKnows'
  <2>1. \A b \in Backends : ~stopped[b] /\ ~missed[b]
    BY <1>3 DEF Start, StartFirst, StartZero, StartSend, StartFlags, StartOp,
       CreateThread, Place, Passed, Ready, Starting
  <2>2. CASE StartFirst \/ StartZero \/ StartSend \/ StartFlags
    BY <2>1, <2>2 DEF StartFirst, StartZero, StartSend, StartFlags
  <2>3. CASE StartOp(ok) \/ CreateThread(ok)
    BY <2>1, <2>3 DEF StartOp, CreateThread, StartFails
  <2> QED BY <1>3, <2>2, <2>3 DEF Start
<1>4. ASSUME NEW ok \in BOOLEAN, Stop(ok) PROVE StopKnows'
  <2>1. CASE StopTell
    BY <2>1 DEF StopTell, AfterTell
  <2>2. CASE StopLook
    BY <2>2 DEF StopLook, MustJoin, Threads, RtSteps
  <2>3. CASE StopJoin \/ StopZero \/ StopSend
    BY <2>3 DEF StopJoin, StopZero, StopSend
  <2>4. CASE StopRequest(ok)
    BY <2>4 DEF StopRequest, StopNext
  <2> QED BY <1>4, <2>1, <2>2, <2>3, <2>4 DEF Stop
<1>5. CASE DestroyBackend
  BY <1>5 DEF DestroyBackend
<1> QED BY <1>1, <1>2, <1>3, <1>4, <1>5 DEF Main

\* ... and what it leaves in the process image and on the bus.
LEMMA MainZeroHeld ==
    ASSUME TypeOK, Place, Threads, ZeroHeld, Main
    PROVE  ZeroHeld'
<1> USE DEF ZeroHeld, TypeOK, place, counts, data, rt, hist, Proceed, StopFrom
<1>1. ASSUME NEW ok \in BOOLEAN, Build(ok) PROVE ZeroHeld'
  BY <1>1 DEF Build, CreateBackend, InitBackend, FinalizeBackend, BuildTags,
     Cleanup
<1>2. ASSUME NEW ok \in BOOLEAN, Run(ok) PROVE ZeroHeld'
  BY <1>2 DEF Run, Prepare, StartServer, StartScheduler, StopScheduler,
     JoinScheduler, StopServer, JoinServer, AbortServer, JoinAborted,
     ProceedOrExit
<1>3. ASSUME NEW ok \in BOOLEAN, Start(ok) PROVE ZeroHeld'
  <2>1. CASE StartFirst \/ StartZero \/ StartFlags
    BY <2>1 DEF StartFirst, StartZero, StartFlags, ZeroOutputs
  <2>2. CASE StartSend
    <3>1. rt_pc[cur] = "none"
      BY <2>2 DEF StartSend, Place, Starting, Threads, Backends
    <3> QED BY <2>2, <3>1 DEF StartSend, SendFrame
  <2>3. CASE StartOp(ok) \/ CreateThread(ok)
    BY <2>3 DEF StartOp, CreateThread, StartFails
  <2> QED BY <1>3, <2>1, <2>2, <2>3 DEF Start
<1>4. ASSUME NEW ok \in BOOLEAN, Stop(ok) PROVE ZeroHeld'
  <2>1. CASE StopTell \/ StopLook \/ StopJoin
    BY <2>1 DEF StopTell, StopLook, StopJoin
  <2>2. CASE StopZero \/ StopSend
    BY <2>2 DEF StopZero, StopSend, ZeroOutputs, SendFrame
  <2>3. CASE StopRequest(ok)
    BY <2>3 DEF StopRequest, StopNext
  <2> QED BY <1>4, <2>1, <2>2, <2>3 DEF Stop
<1>5. CASE DestroyBackend
  BY <1>5 DEF DestroyBackend
<1> QED BY <1>1, <1>2, <1>3, <1>4, <1>5 DEF Main

\* Operational slaves belong to a started backend, or to a failure that is told.
LEMMA MainSlaves ==
    ASSUME TypeOK, Place, Passed, CodesTell, SlavesKnown, Main
    PROVE  SlavesKnown'
<1> USE DEF SlavesKnown, TypeOK, SlaveStates, place, counts, codes, hist,
        Proceed, StopFrom, Stopping, Backends
<1>1. ASSUME NEW ok \in BOOLEAN, Build(ok) PROVE SlavesKnown'
  <2> USE DEF Place, Building
  <2>1. CASE CreateBackend(ok)
    BY <2>1 DEF CreateBackend, Cleanup
  <2>2. CASE InitBackend(ok)
    BY <2>2 DEF InitBackend, Asked, Cleanup
  <2>3. CASE FinalizeBackend(ok)
    BY <2>3 DEF FinalizeBackend, Asked, Cleanup
  <2>4. CASE BuildTags(ok)
    BY <2>4 DEF BuildTags, Cleanup
  <2> QED BY <1>1, <2>1, <2>2, <2>3, <2>4 DEF Build
<1>2. ASSUME NEW ok \in BOOLEAN, Run(ok) PROVE SlavesKnown'
  BY <1>2 DEF Run, Prepare, StartServer, StartScheduler, StopScheduler,
     JoinScheduler, StopServer, JoinServer, AbortServer, JoinAborted,
     ProceedOrExit
<1>3. ASSUME NEW ok \in BOOLEAN, Start(ok) PROVE SlavesKnown'
  <2>1. CASE StartFirst \/ StartZero \/ StartSend \/ StartFlags
    BY <2>1 DEF StartFirst, StartZero, StartSend, StartFlags, Place, Ready
  <2>2. CASE StartOp(ok)
    BY <2>2 DEF StartOp, Asked, StartFails, RollbackFrom, Place, Passed,
       Starting
  <2>3. CASE CreateThread(ok)
    BY <2>3 DEF CreateThread, StartFails, RollbackFrom, Place, Passed, Starting
  <2> QED BY <1>3, <2>1, <2>2, <2>3 DEF Start
<1>4. ASSUME NEW ok \in BOOLEAN, Stop(ok) PROVE SlavesKnown'
  <2>1. CASE StopTell \/ StopLook \/ StopJoin \/ StopZero \/ StopSend
    BY <2>1 DEF StopTell, StopLook, StopJoin, StopZero, StopSend
  <2>2. CASE StopRequest(ok)
    BY <2>2 DEF StopRequest, Asked, StopNext, StopRc, HasNext, CodesTell, Place
  <2> QED BY <1>4, <2>1, <2>2 DEF Stop
<1>5. CASE DestroyBackend
  BY <1>5 DEF DestroyBackend, HasNext, Place
<1> QED BY <1>1, <1>2, <1>3, <1>4, <1>5 DEF Main

\* What main decides is true whatever the threads do.
LEMMA ThreadKeepsMain ==
    ASSUME Place, CodesTell, SlavesKnown, Passed,
           NEW b \in Backends, PlcPublish(b) \/ Rt(b)
    PROVE  Place' /\ CodesTell' /\ SlavesKnown' /\ Passed'
<1>1. /\ UNCHANGED <<main_pc, cur, back, registered, started, rc, stop_rc>>
      /\ UNCHANGED <<server, sched, slaves, stopped, missed, failed>>
  BY ThreadFrame DEF others, place, counts, codes, threads, hist
<1>2. Place'
  BY <1>1 DEF Place, Building, Ready, Starting, Up, Aborting, Stopping
<1>3. CodesTell' /\ SlavesKnown' /\ Passed'
  BY <1>1 DEF CodesTell, SlavesKnown, Passed, Stopping
<1> QED BY <1>2, <1>3

\* A thread that has been told to stop, and is not in its loop, never enters it
\* again: it has only zeros to send.
LEMMA ThreadStopped ==
    ASSUME TypeOK, Threads, StopKnows, ZeroHeld,
           NEW b \in Backends, PlcPublish(b) \/ Rt(b)
    PROVE  Threads' /\ StopKnows' /\ ZeroHeld'
<1> USE DEF Threads, StopKnows, Stilled, ZeroHeld, TypeOK, RtSteps, others,
        place, counts, codes, threads, hist, flags, data, rt
<1>1. CASE PlcPublish(b)
  BY <1>1 DEF PlcPublish
<1>2. CASE RtAnnounce(b) \/ RtTest(b) \/ RtRetire(b)
  BY <1>2 DEF RtAnnounce, RtTest, RtRetire, RtStep
<1>3. CASE RtLoad(b) \/ RtStore(b) \/ RtSend(b)
  BY <1>3 DEF RtLoad, RtStore, RtSend, RtStep
<1>4. CASE RtZero(b) \/ RtLast(b)
  BY <1>4 DEF RtZero, RtLast, RtStep
<1> QED BY <1>1, <1>2, <1>3, <1>4 DEF Rt

\* The tag server's and the PLC thread come and go without touching the rest.
LEMMA WorkersKeep ==
    ASSUME LifeInv, Workers
    PROVE  LifeInv'
<1>1. /\ UNCHANGED <<main_pc, place, counts, codes, slaves, flags, data, rt, hist>>
      /\ \/ server' = server
         \/ server' = "held" /\ server = "told"
         \/ server' = "ended"
      /\ \/ sched' = sched
         \/ sched' = "stuck" /\ sched \in {"up", "told"}
         \/ sched' = "ended"
  BY DEF Workers, ServerFails, ServerTakesLate, LateLeaves, ServerEnds,
     SchedSticks, SchedEnds, ServerStep, SchedStep
<1> USE <1>1 DEF LifeInv, place, counts, codes, flags, data, rt, hist
<1>2. TypeOK'
  BY DEF TypeOK
<1>3. Place'
  BY DEF Place
<1>4. Threads' /\ Passed' /\ StopKnows' /\ ZeroHeld'
  BY DEF Threads, Passed, StopKnows, Stilled, ZeroHeld
<1>5. CodesTell' /\ SlavesKnown'
  BY DEF CodesTell, SlavesKnown
<1> QED BY <1>2, <1>3, <1>4, <1>5

\* At the start there are no backends, no threads and no failures.
LEMMA LifeInit == Init => LifeInv
<1> SUFFICES ASSUME Init PROVE LifeInv
  OBVIOUS
<1> USE DEF Init, All
<1>0. 1 \in Backends /\ 0 \in 0 .. Count
  BY CountAssumption DEF Backends
<1>1. TypeOK
  <2>1. ControlOK
    <3>1. main_pc \in MainSteps
      BY DEF MainSteps
    <3> QED BY <1>0, <3>1 DEF ControlOK
  <2>2. ArraysOK
    BY DEF ArraysOK, SlaveStates, Level, RtSteps
  <2> QED BY <2>1, <2>2 DEF TypeOK, ControlOK, ArraysOK
<1>2. Place /\ CodesTell
  BY DEF Place, CodesTell, Building, Ready, Starting, Up, Aborting, Stopping
<1>3. Threads /\ Passed /\ StopKnows
  BY DEF Threads, Passed, StopKnows, Stilled, Backends, Stopping
<1>4. ZeroHeld /\ SlavesKnown
  BY DEF ZeroHeld, SlavesKnown, Backends, Stopping
<1> QED BY <1>1, <1>2, <1>3, <1>4 DEF LifeInv

\* Every step keeps every part of the invariant.
LEMMA LifeNext == LifeInv /\ [Next]_vars => LifeInv'
<1> SUFFICES ASSUME LifeInv, [Next]_vars PROVE LifeInv'
  OBVIOUS
<1>1. CASE Main
  BY <1>1, MainPlace, MainCodes, MainTypes, ThreadsKept, PassedKept,
     MainStopKnows, MainZeroHeld, MainSlaves DEF LifeInv
<1>2. ASSUME NEW b \in Backends, PlcPublish(b) \/ Rt(b) PROVE LifeInv'
  BY <1>2, ThreadTypes, ThreadKeepsMain, ThreadStopped DEF LifeInv
<1>3. CASE Workers
  BY <1>3, WorkersKeep
<1>4. CASE UNCHANGED vars
  BY <1>4 DEF vars, place, counts, codes, threads, flags, data, rt, hist,
     LifeInv, TypeOK, Place, Building, Ready, Starting, Up, Aborting, Stopping,
     Threads, Passed, StopKnows, Stilled, ZeroHeld, CodesTell, SlavesKnown
<1> QED BY <1>1, <1>2, <1>3, <1>4 DEF Next

\* The start and stop sequence, its failures and its threads keep all of it.
THEOREM LifecycleCorrect == Spec => []LifeInv
BY LifeInit, LifeNext, PTL DEF Spec

\* Every variable of PlcLifecycle keeps its range.
THEOREM LifecycleTypes == Spec => []TypeOK
<1>1. LifeInv => TypeOK
  BY DEF LifeInv
<1> QED BY <1>1, LifecycleCorrect, PTL

\* No output but zero is on the bus of a backend that ethercat_stop has left,
\* whether or not the RT thread was joined, for any number of backends.
THEOREM BusGoesZero == Spec => []ZeroAfterStop
<1>1. LifeInv => ZeroAfterStop
  BY DEF LifeInv, ZeroHeld, ZeroAfterStop
<1> QED BY <1>1, LifecycleCorrect, PTL

\* main and an RT thread share a bus only when ethercat_stop came before the
\* thread had announced itself, and that thread never enters its loop.
THEOREM BusHasOneUser == Spec => []BusOwned
<1>1. LifeInv => BusOwned
  <2> SUFFICES ASSUME LifeInv, NEW b \in Backends
               PROVE  /\ /\ cur = b
                         /\ main_pc \in {"start_zero", "start_send", "start_op",
                                         "stop_zero", "stop_send", "stop_request"}
                         /\ rt_pc[b] \in {"load", "store", "send", "zero", "last"}
                         => missed[b]
                      /\ missed[b] => rt_pc[b] \notin {"load", "store", "send"}
    BY DEF BusOwned
  <2>1. main_pc \in {"start_zero", "start_send", "start_op"} => rt_pc[cur] = "none"
    BY DEF LifeInv, TypeOK, Place, Starting, Threads, Backends
  <2> QED BY <2>1 DEF LifeInv, StopKnows, Stilled
<1> QED BY <1>1, LifecycleCorrect, PTL

\* Whatever step fails, main leaves nothing running that it had started.
THEOREM AllIsStopped == Spec => []NothingLeftRunning
<1>1. LifeInv => NothingLeftRunning
  <2> SUFFICES ASSUME LifeInv, main_pc = "exit" PROVE NothingLeftRunning
    BY DEF NothingLeftRunning
  <2>1. {server, sched} \subseteq {"none", "ended"}
    BY DEF LifeInv, Place, Starting, Up, Aborting, Stopping
  <2>2. \A b \in Backends : rt_pc[b] # "none" => stopped[b] /\ ~in_op[b]
    BY DEF LifeInv, TypeOK, Threads, Passed, StopKnows, Backends
  <2>3. registered = 0 => slaves = All("init")
    BY DEF LifeInv, TypeOK, SlavesKnown, Backends, All
  <2>4. ASSUME NEW b \in Backends, slaves[b] = "op"
        PROVE  rc = -1 /\ wire[b] = "zero" /\ (stopped[b] \/ b = started + 1)
    <3>1. b <= started \/ (b = started + 1 /\ rc = -1)
      BY <2>4 DEF LifeInv, SlavesKnown
    <3>2. CASE b <= started
      BY <2>4, <3>2 DEF LifeInv, SlavesKnown, Passed, ZeroHeld, CodesTell,
         Stopping
    <3>3. CASE b = started + 1 /\ rc = -1
      BY <3>3 DEF LifeInv, TypeOK, Threads, ZeroHeld, Backends
    <3> QED BY <3>1, <3>2, <3>3
  <2> QED BY <2>1, <2>2, <2>3, <2>4 DEF NothingLeftRunning
<1> QED BY <1>1, LifecycleCorrect, PTL

\* The exit code is zero just if every step has succeeded.
THEOREM ExitCodeIsTrue == Spec => []ExitCodeTells
<1>1. LifeInv => ExitCodeTells
  BY DEF LifeInv, TypeOK, CodesTell, Stopping, ExitCodeTells
<1> QED BY <1>1, LifecycleCorrect, PTL
=============================================================================
