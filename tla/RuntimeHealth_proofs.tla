------------------------ MODULE RuntimeHealth_proofs ------------------------
(***************************************************************************)
(* What the level of core/runtime/runtime.c says of the backends, for any  *)
(* number of them and any thresholds.                                      *)
(***************************************************************************)
EXTENDS RuntimeHealth, TLAPS

USE CountAssumption, ThresholdAssumption

Scanning == plc_pc \in {"in_op", "fault", "publish"}

\* Where the scan is; no task runs meanwhile.
ScanPlace ==
    /\ plc_pc \in {"in_op", "fault"} => i <= Count /\ level # "fault"
    /\ plc_pc = "publish" => level = "fault" \/ i = Count + 1
    /\ Scanning => ran = {}

\* What was seen since the scan began includes what is the case now.
SeenNow == plc_pc # "begin" =>
    \A b \in Backend : IF in_op[b] THEN b \in was_in ELSE b \in was_out

\* The level so far: a fault that was there before is found yet, and the
\* status loaded for the current backend has been true.
LevelSoFar == Scanning =>
    /\ level = "ok" => \A b \in 1 .. i - 1 : b \in was_in
    /\ level = "warn" => was_out # {}
    /\ level = "fault" => \E b \in Backend : fault_latched[b]
    /\ fault_before /\ level # "fault" =>
          \E b \in Backend : b >= i /\ fault_latched[b]
    /\ plc_pc = "fault" => IF status THEN i \in was_in ELSE i \in was_out

\* A published fault was there before each later scan.
FaultKnown ==
    /\ health_level = "fault" => \E b \in Backend : fault_latched[b]
    /\ health_level = "fault" /\ Scanning => fault_before

HealthInv == /\ TypeOK /\ ScanPlace /\ SeenNow /\ LevelSoFar /\ FaultKnown
             /\ FaultStopsTasks /\ LevelTells
-----------------------------------------------------------------------------
\* The counters have a top.
LEMMA TopFacts == Top \in Nat \ {0}
  BY SMT DEF Top

\* Before the first cycle.
LEMMA InitHealth == Init => HealthInv
<1> SUFFICES ASSUME Init PROVE HealthInv
  OBVIOUS
<1>1. 0 \in 0 .. Top /\ 1 \in 1 .. Count + 1
  BY TopFacts, SMT
<1>2. TypeOK
  BY <1>1 DEF Init, TypeOK, Health
<1>3. ScanPlace /\ SeenNow /\ LevelSoFar /\ FaultKnown /\ LevelTells
  BY DEF Init, ScanPlace, SeenNow, LevelSoFar, FaultKnown, LevelTells, Scanning
<1>4. FaultStopsTasks
  BY DEF Init, FaultStopsTasks
<1> QED BY <1>2, <1>3, <1>4 DEF HealthInv

\* A verdict of an RT thread can only latch more faults.
LEMMA JudgeKeepsHealth ==
    ASSUME HealthInv, NEW b \in Backend, NEW short \in BOOLEAN,
           NEW off \in BOOLEAN, RtJudge(b, short, off)
    PROVE  HealthInv'
<1>1. TypeOK'
  <2>1. ASSUME NEW n \in 0 .. Top, NEW bad \in BOOLEAN
        PROVE  BadCount(bad, n) \in 0 .. Top
    BY TopFacts, SMT DEF BadCount
  <2>2. dowkccheck' \in [Backend -> 0 .. Top]
    BY <2>1 DEF HealthInv, TypeOK, RtJudge
  <2>3. fault_latched' \in [Backend -> BOOLEAN]
    BY <2>2 DEF HealthInv, TypeOK, RtJudge, Latched
  <2> QED BY <2>2, <2>3 DEF HealthInv, TypeOK, RtJudge, scan, seen
<1>2. \A c \in Backend : fault_latched[c] => fault_latched'[c]
  BY DEF HealthInv, TypeOK, RtJudge, Latched
<1>3. UNCHANGED <<in_op, plc_pc, scan, health_level, fault_before, seen, ran>>
  BY DEF RtJudge
<1>4. ScanPlace' /\ SeenNow' /\ FaultStopsTasks'
  BY <1>3 DEF HealthInv, ScanPlace, SeenNow, FaultStopsTasks, Scanning, scan, seen
<1>5. LevelSoFar' /\ FaultKnown' /\ LevelTells'
  BY <1>2, <1>3 DEF HealthInv, LevelSoFar, FaultKnown, LevelTells, Scanning,
     scan, seen
<1> QED BY <1>1, <1>4, <1>5 DEF HealthInv

\* The end of an RT cycle: what becomes the case is also seen.
LEMMA FinishKeepsHealth ==
    ASSUME HealthInv, NEW b \in Backend, NEW warm \in BOOLEAN, RtFinish(b, warm)
    PROVE  HealthInv'
<1>1. TypeOK'
  <2>1. in_op'[b] \in BOOLEAN /\ in_op' \in [Backend -> BOOLEAN]
    BY DEF HealthInv, TypeOK, RtFinish
  <2> QED BY <2>1 DEF HealthInv, TypeOK, RtFinish, scan
<1>2. /\ was_in \subseteq was_in' /\ was_out \subseteq was_out'
      /\ IF in_op'[b] THEN b \in was_in' ELSE b \in was_out'
      /\ \A c \in Backend \ {b} : in_op'[c] = in_op[c]
  BY DEF HealthInv, TypeOK, RtFinish
<1>3. UNCHANGED <<fault_latched, plc_pc, scan, health_level, fault_before, ran>>
  BY DEF RtFinish
<1>4. SeenNow'
  BY <1>2, <1>3 DEF HealthInv, SeenNow
<1>5. ScanPlace' /\ FaultStopsTasks' /\ FaultKnown'
  BY <1>3 DEF HealthInv, ScanPlace, FaultStopsTasks, FaultKnown, Scanning, scan
<1>6. LevelSoFar' /\ LevelTells'
  BY <1>1, <1>2, <1>3 DEF HealthInv, LevelSoFar, LevelTells, TypeOK, Scanning, scan
<1> QED BY <1>1, <1>4, <1>5, <1>6 DEF HealthInv

\* A scan begins with what is the case.
LEMMA BeginKeepsHealth == HealthInv /\ ScanBegin => HealthInv'
<1> SUFFICES ASSUME HealthInv, ScanBegin PROVE HealthInv'
  OBVIOUS
<1>1. TypeOK'
  BY SMT DEF HealthInv, TypeOK, ScanBegin, NextBackend, rt, flags, Health, Policy
<1>2. ScanPlace' /\ FaultStopsTasks' /\ LevelTells'
  BY SMT DEF ScanBegin, NextBackend, MoreBackends, ScanPlace, FaultStopsTasks,
     LevelTells, Scanning
<1>3. SeenNow'
  BY DEF ScanBegin, SeenNow, rt, flags
<1>4. LevelSoFar'
  <2>1. \A b \in Backend : b >= 1
    BY SMT DEF Backend
  <2>2. ~(\E b \in 1 .. 1 - 1 : TRUE)
    BY SMT
  <2> QED BY <2>1, <2>2, SMT
          DEF ScanBegin, LevelSoFar, NextBackend, rt, flags, Backend
<1>5. FaultKnown'
  BY DEF HealthInv, FaultKnown, ScanBegin, rt, flags
<1> QED BY <1>1, <1>2, <1>3, <1>4, <1>5 DEF HealthInv

\* The loads of ethercat_get_status.
LEMMA LoadKeepsHealth == HealthInv /\ ScanInOp => HealthInv'
<1> SUFFICES ASSUME HealthInv, ScanInOp PROVE HealthInv'
  OBVIOUS
<1>1. i \in Backend
  BY SMT DEF HealthInv, TypeOK, ScanPlace, ScanInOp, Backend
<1>2. TypeOK' /\ ScanPlace' /\ SeenNow' /\ FaultKnown' /\ FaultStopsTasks'
      /\ LevelTells'
  BY <1>1 DEF HealthInv, TypeOK, ScanPlace, SeenNow, FaultKnown,
     FaultStopsTasks, LevelTells, ScanInOp, Scanning, rt, flags, seen
<1>3. LevelSoFar'
  BY <1>1 DEF HealthInv, SeenNow, LevelSoFar, ScanInOp, Scanning, rt, flags, seen
<1> QED BY <1>2, <1>3 DEF HealthInv

\* The verdict on one backend.
LEMMA VerdictKeepsHealth == HealthInv /\ ScanFault => HealthInv'
<1> SUFFICES ASSUME HealthInv, ScanFault PROVE HealthInv'
  OBVIOUS
<1>1. i \in Backend /\ i \in Nat /\ i <= Count /\ level # "fault"
  BY SMT DEF HealthInv, TypeOK, ScanPlace, ScanFault, Backend
<1>2. UNCHANGED <<rt, status, health_level, fault_before, seen, ran>>
      /\ i' = i + 1 /\ plc_pc = "fault"
  BY DEF ScanFault
<1>3. /\ plc_pc' \in {"in_op", "publish"}
      /\ plc_pc' = "in_op" => i' <= Count /\ level' # "fault"
      /\ plc_pc' = "publish" => level' = "fault" \/ i' = Count + 1
      /\ level' = IF fault_latched[i] THEN "fault"
                  ELSE IF status THEN level ELSE "warn"
  BY <1>1, SMT DEF ScanFault, AfterFault, LevelAfter, NextBackend, MoreBackends
<1>4. TypeOK'
  BY <1>1, <1>2, <1>3, SMT DEF HealthInv, TypeOK, rt, flags, seen, Health, Backend
<1>5. ScanPlace' /\ SeenNow' /\ FaultStopsTasks' /\ LevelTells'
  BY <1>2, <1>3 DEF HealthInv, ScanPlace, SeenNow, FaultStopsTasks, LevelTells,
     Scanning, rt, flags, seen
<1>6. FaultKnown'
  BY <1>2, <1>3 DEF HealthInv, FaultKnown, Scanning, rt, flags
<1>7. LevelSoFar'
  <2>1. \A b \in 1 .. i' - 1 : b \in 1 .. i - 1 \/ b = i
    BY <1>1, <1>2, SMT
  <2>2. \A b \in Backend : b >= i /\ b # i => b >= i'
    BY <1>1, <1>2, SMT DEF Backend
  <2>3. LevelSoFar /\ Scanning
    BY <1>2 DEF HealthInv, Scanning
  <2>4. level' = "ok" => \A b \in 1 .. i' - 1 : b \in was_in'
    BY <1>2, <1>3, <2>1, <2>3 DEF LevelSoFar, seen
  <2>5. level' = "warn" => was_out' # {}
    BY <1>1, <1>2, <1>3, <2>3 DEF LevelSoFar, seen
  <2>6. level' = "fault" => \E b \in Backend : fault_latched'[b]
    BY <1>1, <1>2, <1>3 DEF rt, flags
  <2>7. fault_before' /\ level' # "fault" =>
            \E b \in Backend : b >= i' /\ fault_latched'[b]
    BY <1>1, <1>2, <1>3, <2>2, <2>3 DEF LevelSoFar, rt, flags
  <2> QED BY <1>3, <2>4, <2>5, <2>6, <2>7 DEF LevelSoFar
<1> QED BY <1>4, <1>5, <1>6, <1>7 DEF HealthInv

\* The level is published, and what it tells is known.
LEMMA PublishKeepsHealth == HealthInv /\ Publish => HealthInv'
<1> SUFFICES ASSUME HealthInv, Publish PROVE HealthInv'
  OBVIOUS
<1>1. level = "fault" \/ i = Count + 1
  BY DEF HealthInv, ScanPlace, Publish
<1>2. TypeOK' /\ ScanPlace' /\ SeenNow' /\ LevelSoFar' /\ FaultStopsTasks'
  BY DEF HealthInv, TypeOK, ScanPlace, SeenNow, LevelSoFar, FaultStopsTasks,
     Publish, Scanning, rt, flags, scan, seen
<1>3. LevelSoFar
  BY DEF HealthInv
<1>4. fault_before => level = "fault"
  <2>1. \A b \in Backend : ~(b >= Count + 1)
    BY SMT DEF Backend
  <2> QED BY <1>1, <1>3, <2>1 DEF LevelSoFar, Scanning, Publish
<1>5. level = "ok" => was_in = Backend
  <2>1. level = "ok" => Backend = 1 .. i - 1
    BY <1>1, SMT DEF Backend
  <2>2. was_in \subseteq Backend
    BY DEF HealthInv, TypeOK
  <2> QED BY <1>3, <2>1, <2>2 DEF LevelSoFar, Scanning, Publish
<1>6. LevelTells' /\ FaultKnown'
  BY <1>3, <1>4, <1>5 DEF LevelTells, FaultKnown, LevelSoFar, Scanning, Publish,
     rt, flags, scan, seen
<1> QED BY <1>2, <1>6 DEF HealthInv

\* Tasks run at the published level.
LEMMA TasksKeepHealth ==
    ASSUME HealthInv, NEW policy \in Policy, RunTask(policy) \/ EndCycle
    PROVE  HealthInv'
<1>1. TypeOK' /\ ScanPlace' /\ SeenNow' /\ LevelSoFar' /\ FaultKnown' /\ LevelTells'
  BY DEF HealthInv, TypeOK, ScanPlace, SeenNow, LevelSoFar, FaultKnown, LevelTells,
     RunTask, EndCycle, Scanning, rt, flags, scan, seen, Policy
<1>2. FaultStopsTasks'
  <2>1. CASE RunTask(policy)
    <3>1. fault_before => health_level = "fault"
      BY <2>1 DEF HealthInv, LevelTells, RunTask
    <3>2. fault_before => policy # SKIP_ON_FAULT
      BY <2>1, <3>1 DEF RunTask, MayRun, SKIP_ON_FAULT, ALWAYS_RUN
    <3> QED BY <2>1, <3>2 DEF HealthInv, FaultStopsTasks, RunTask
  <2>2. CASE EndCycle
    BY <2>2 DEF HealthInv, FaultStopsTasks, EndCycle
  <2> QED BY <2>1, <2>2
<1> QED BY <1>1, <1>2 DEF HealthInv
-----------------------------------------------------------------------------
\* All that is known of the backends' health, in every state.
THEOREM HealthCorrect == Spec => []HealthInv
<1>1. HealthInv /\ [Next]_vars => HealthInv'
  <2> SUFFICES ASSUME HealthInv, [Next]_vars PROVE HealthInv'
    OBVIOUS
  <2>1. CASE UNCHANGED vars
    BY <2>1 DEF vars, HealthInv, TypeOK, ScanPlace, SeenNow, LevelSoFar,
       FaultKnown, FaultStopsTasks, LevelTells, Scanning, rt, flags, scan, seen
  <2>2. SKIP_ON_FAULT \in Policy
    BY DEF Policy
  <2> QED BY <2>1, <2>2, JudgeKeepsHealth, FinishKeepsHealth, BeginKeepsHealth,
             LoadKeepsHealth, VerdictKeepsHealth, PublishKeepsHealth,
             TasksKeepHealth DEF Next, Rt, Plc, Scan
<1> QED BY <1>1, InitHealth, PTL DEF Spec

\* A fault latched before a cycle's scan keeps its tasks that skip faults from
\* running, however many backends there are and on whichever the fault is.
THEOREM FaultsStopTasks == Spec => []FaultStopsTasks
<1>1. HealthInv => FaultStopsTasks
  BY DEF HealthInv
<1> QED BY <1>1, HealthCorrect, PTL

\* Each value of the published level says something that was true of the
\* backends during the scan.
THEOREM LevelIsTrue == Spec => []LevelTells
<1>1. HealthInv => LevelTells
  BY DEF HealthInv
<1> QED BY <1>1, HealthCorrect, PTL

\* The level never leaves "fault".
THEOREM FaultIsKept == Spec => FaultStays
<1>1. HealthInv /\ [Next]_vars =>
          [health_level = "fault" => health_level' = "fault"]_vars
  <2> SUFFICES ASSUME HealthInv, Next, health_level = "fault"
               PROVE  health_level' = "fault"
    OBVIOUS
  <2>1. CASE Publish
    <3>1. fault_before
      BY <2>1 DEF HealthInv, FaultKnown, Publish, Scanning
    <3>2. level = "fault" \/ \A b \in Backend : ~(b >= i)
      BY <2>1, SMT DEF HealthInv, ScanPlace, Publish, Backend
    <3>3. level = "fault"
      BY <2>1, <3>1, <3>2 DEF HealthInv, LevelSoFar, Publish, Scanning
    <3> QED BY <2>1, <3>3 DEF Publish
  <2>2. CASE ~Publish
    BY <2>2 DEF Next, Rt, Plc, Scan, RtJudge, RtFinish, ScanBegin, ScanInOp,
       ScanFault, EndCycle, RunTask
  <2> QED BY <2>1, <2>2
<1> QED BY <1>1, HealthCorrect, PTL DEF Spec, FaultStays
=============================================================================
