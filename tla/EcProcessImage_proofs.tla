------------------------ MODULE EcProcessImage_proofs ------------------------
(***************************************************************************)
(* The exchange of process data in backends/ethercat/ec_backend.c is       *)
(* correct for every number of words, all values and all thresholds:       *)
(* ImageInv of EcProcessImage is inductive.  So is, for the runs that      *)
(* EcWatchdog observes, what their lengths say of the thread's counters:   *)
(* the watchdog is as fast as it should be.                                *)
(***************************************************************************)
EXTENDS EcWatchdog, TLAPS

USE SizeAssumption, ValueAssumption, WatchdogAssumption
USE DEF outs, ins, wire, health, rtvars, plcvars, hist, CopySees

\* The smaller of a counter and its top stays in the counter's range.
LEMMA SaturateRange ==
    ASSUME NEW n \in Nat, NEW top \in Nat
    PROVE  Saturate(n, top) \in 0 .. top
  BY DEF Saturate

LEMMA BadTopRange == BadTop \in Nat \ {0}
  BY DEF BadTop

\* Buffers, process image and outputs hold values of their kinds.
LEMMA DataStep ==
    ASSUME TypeOK, [Next]_vars
    PROVE  DataTypes'
<1>1. CASE RtLoadOut
  BY <1>1 DEF RtLoadOut, TypeOK, DataTypes, IndexTypes, CounterTypes, Word
<1>2. CASE RtCopyOut
  BY <1>2 DEF RtCopyOut, OutWord, TypeOK, DataTypes, IndexTypes, CounterTypes,
     Word
<1>3. CASE RtCopyIn
  BY <1>3 DEF RtCopyIn, TypeOK, DataTypes, IndexTypes, CounterTypes, Word
<1>4. CASE RtPublishIn
  BY <1>4 DEF RtPublishIn, TypeOK, DataTypes, IndexTypes, CounterTypes, Word
<1>5. CASE RtJudge
  BY <1>5 DEF RtJudge, TypeOK, DataTypes, IndexTypes, CounterTypes, Word
<1>6. CASE RtZeroBuffer0
  BY <1>6 DEF RtZeroBuffer0, TypeOK, DataTypes, IndexTypes, CounterTypes, Word
<1>7. CASE RtZeroBuffer1
  BY <1>7 DEF RtZeroBuffer1, TypeOK, DataTypes, IndexTypes, CounterTypes, Word
<1>8. CASE RtFinish
  BY <1>8 DEF RtFinish, TypeOK, DataTypes, IndexTypes, CounterTypes, Word
<1>9. ASSUME NEW w \in 0 .. ExpectedWkc, NEW op \in BOOLEAN,
           NEW f \in InValues, RtExchange(w, op, f)
    PROVE  DataTypes'
  BY <1>9 DEF RtExchange, StateCheckDue, NextIn, TypeOK, DataTypes,
     IndexTypes, CounterTypes, Word, Zeros
<1>10. CASE PlcBegin
  BY <1>10 DEF PlcBegin, TypeOK, DataTypes, IndexTypes, CounterTypes, Word
<1>11. CASE PlcPreserve
  <2>1. plc_copied + 1 \in Word
    BY <1>11 DEF PlcPreserve, TypeOK, CounterTypes, Word
  <2>2. out_buf[rt_out_idx][plc_copied + 1] \in OutValues
    BY <2>1 DEF TypeOK, DataTypes, IndexTypes
  <2> QED
    BY <1>11, <2>1, <2>2 DEF PlcPreserve, PreservedWord, TypeOK, DataTypes,
       IndexTypes
<1>12. CASE PlcSwap
  BY <1>12 DEF PlcSwap, TypeOK, DataTypes, IndexTypes, CounterTypes, Word
<1>13. CASE PlcRestage
  BY <1>13 DEF PlcRestage, NextStaging, TypeOK, DataTypes, IndexTypes,
     CounterTypes, Word
<1>14. ASSUME NEW k \in Word, NEW v \in OutValues, PlcEarlyWrite(k, v)
     PROVE  DataTypes'
  BY <1>14 DEF PlcEarlyWrite, TypeOK, DataTypes, IndexTypes, CounterTypes,
     Word
<1>15. ASSUME NEW k \in Word, NEW v \in OutValues, PlcWrite(k, v)
     PROVE  DataTypes'
  BY <1>15 DEF PlcWrite, TypeOK, DataTypes, IndexTypes, CounterTypes, Word
<1>16. CASE UNCHANGED vars
  BY <1>16 DEF vars, TypeOK, DataTypes, IndexTypes, CounterTypes, Word
<1> QED
  BY <1>1, <1>2, <1>3, <1>4, <1>5, <1>6, <1>7, <1>8, <1>9, <1>10, <1>11,
     <1>12, <1>13, <1>14, <1>15, <1>16 DEF Next, RtQuiet, RtBus, Plc

\* Each buffer index is 0 or 1: the fallback of ethercat_load_buffer_index is
\* never taken.
LEMMA IndexStep ==
    ASSUME TypeOK, [Next]_vars
    PROVE  IndexTypes'
<1>1. CASE RtLoadOut
  BY <1>1 DEF RtLoadOut, TypeOK, IndexTypes
<1>2. CASE RtCopyOut
  BY <1>2 DEF RtCopyOut, OutWord, TypeOK, IndexTypes
<1>3. CASE RtCopyIn
  BY <1>3 DEF RtCopyIn, TypeOK, IndexTypes
<1>4. CASE RtPublishIn
  BY <1>4 DEF RtPublishIn, TypeOK, IndexTypes
<1>5. CASE RtJudge
  BY <1>5 DEF RtJudge, TypeOK, IndexTypes
<1>6. CASE RtZeroBuffer0
  BY <1>6 DEF RtZeroBuffer0, TypeOK, IndexTypes
<1>7. CASE RtZeroBuffer1
  BY <1>7 DEF RtZeroBuffer1, TypeOK, IndexTypes
<1>8. CASE RtFinish
  BY <1>8 DEF RtFinish, TypeOK, IndexTypes
<1>9. ASSUME NEW w \in 0 .. ExpectedWkc, NEW op \in BOOLEAN,
           NEW f \in InValues, RtExchange(w, op, f)
    PROVE  IndexTypes'
  BY <1>9 DEF RtExchange, StateCheckDue, NextIn, Buffer, TypeOK, IndexTypes
<1>10. CASE PlcBegin
  BY <1>10 DEF PlcBegin, TypeOK, IndexTypes
<1>11. CASE PlcPreserve
  BY <1>11 DEF PlcPreserve, PreservedWord, TypeOK, IndexTypes
<1>12. CASE PlcSwap
  BY <1>12 DEF PlcSwap, TypeOK, IndexTypes
<1>13. CASE PlcRestage
  BY <1>13 DEF PlcRestage, NextStaging, TypeOK, IndexTypes
<1>14. ASSUME NEW k \in Word, NEW v \in OutValues, PlcEarlyWrite(k, v)
     PROVE  IndexTypes'
  BY <1>14 DEF PlcEarlyWrite, TypeOK, IndexTypes
<1>15. ASSUME NEW k \in Word, NEW v \in OutValues, PlcWrite(k, v)
     PROVE  IndexTypes'
  BY <1>15 DEF PlcWrite, TypeOK, IndexTypes
<1>16. CASE UNCHANGED vars
  BY <1>16 DEF vars, TypeOK, IndexTypes
<1> QED
  BY <1>1, <1>2, <1>3, <1>4, <1>5, <1>6, <1>7, <1>8, <1>9, <1>10, <1>11,
     <1>12, <1>13, <1>14, <1>15, <1>16 DEF Next, RtQuiet, RtBus, Plc

\* Counters stay below the bounds at which they are reset, and no copy runs
\* past the last word.
LEMMA CounterStep ==
    ASSUME TypeOK, [Next]_vars
    PROVE  CounterTypes'
<1>1. CASE RtLoadOut
  BY <1>1 DEF RtLoadOut, TypeOK, CounterTypes
<1>2. CASE RtCopyOut
  BY <1>2 DEF RtCopyOut, OutWord, TypeOK, CounterTypes
<1>3. CASE RtCopyIn
  BY <1>3 DEF RtCopyIn, TypeOK, CounterTypes
<1>4. CASE RtPublishIn
  BY <1>4 DEF RtPublishIn, TypeOK, CounterTypes
<1>5. CASE RtJudge
  <2>1. BadCount(BadCycle, dowkccheck) \in Nat
    BY BadTopRange DEF BadCount, TypeOK, CounterTypes
  <2>2. dowkccheck' \in 0 .. BadTop
    BY <1>5, <2>1, SaturateRange, BadTopRange DEF RtJudge
  <2>3. rt_pc' \in {"zero_0", "finish"} /\ rt_copied' = 0 /\ rt_copied' < Words
    BY <1>5 DEF RtJudge
  <2> QED
    BY <1>5, <2>2, <2>3 DEF RtJudge, TypeOK, CounterTypes
<1>6. CASE RtZeroBuffer0
  BY <1>6 DEF RtZeroBuffer0, TypeOK, CounterTypes
<1>7. CASE RtZeroBuffer1
  BY <1>7 DEF RtZeroBuffer1, TypeOK, CounterTypes
<1>8. CASE RtFinish
  <2>1. cycle_count' \in 0 .. WarmupCycles
    BY <1>8, SaturateRange DEF RtFinish, TypeOK, CounterTypes
  <2> QED
    BY <1>8, <2>1 DEF RtFinish, TypeOK, CounterTypes
<1>9. ASSUME NEW w \in 0 .. ExpectedWkc, NEW op \in BOOLEAN,
           NEW f \in InValues, RtExchange(w, op, f)
    PROVE  CounterTypes'
  BY <1>9 DEF RtExchange, StateCheckDue, NextIn, TypeOK, CounterTypes
<1>10. CASE PlcBegin
  BY <1>10 DEF PlcBegin, TypeOK, CounterTypes
<1>11. CASE PlcPreserve
  BY <1>11 DEF PlcPreserve, PreservedWord, TypeOK, CounterTypes
<1>12. CASE PlcSwap
  BY <1>12 DEF PlcSwap, TypeOK, CounterTypes
<1>13. CASE PlcRestage
  BY <1>13 DEF PlcRestage, NextStaging, TypeOK, CounterTypes
<1>14. ASSUME NEW k \in Word, NEW v \in OutValues, PlcEarlyWrite(k, v)
     PROVE  CounterTypes'
  BY <1>14 DEF PlcEarlyWrite, TypeOK, CounterTypes
<1>15. ASSUME NEW k \in Word, NEW v \in OutValues, PlcWrite(k, v)
     PROVE  CounterTypes'
  BY <1>15 DEF PlcWrite, TypeOK, CounterTypes
<1>16. CASE UNCHANGED vars
  BY <1>16 DEF vars, TypeOK, CounterTypes
<1> QED
  BY <1>1, <1>2, <1>3, <1>4, <1>5, <1>6, <1>7, <1>8, <1>9, <1>10, <1>11,
     <1>12, <1>13, <1>14, <1>15, <1>16 DEF Next, RtQuiet, RtBus, Plc

\* Flags are Boolean.
LEMMA FlagStep ==
    ASSUME TypeOK, [Next]_vars
    PROVE  FlagTypes'
<1>1. CASE RtLoadOut
  BY <1>1 DEF RtLoadOut, TypeOK, FlagTypes
<1>2. CASE RtCopyOut
  BY <1>2 DEF RtCopyOut, OutWord, TypeOK, FlagTypes
<1>3. CASE RtCopyIn
  BY <1>3 DEF RtCopyIn, TypeOK, FlagTypes
<1>4. CASE RtPublishIn
  BY <1>4 DEF RtPublishIn, TypeOK, FlagTypes
<1>5. CASE RtJudge
  BY <1>5 DEF RtJudge, TypeOK, FlagTypes
<1>6. CASE RtZeroBuffer0
  BY <1>6 DEF RtZeroBuffer0, TypeOK, FlagTypes
<1>7. CASE RtZeroBuffer1
  BY <1>7 DEF RtZeroBuffer1, TypeOK, FlagTypes
<1>8. CASE RtFinish
  BY <1>8 DEF RtFinish, TypeOK, FlagTypes
<1>9. ASSUME NEW w \in 0 .. ExpectedWkc, NEW op \in BOOLEAN,
           NEW f \in InValues, RtExchange(w, op, f)
    PROVE  FlagTypes'
  BY <1>9 DEF RtExchange, StateCheckDue, NextIn, TypeOK, FlagTypes
<1>10. CASE PlcBegin
  BY <1>10 DEF PlcBegin, TypeOK, FlagTypes
<1>11. CASE PlcPreserve
  BY <1>11 DEF PlcPreserve, PreservedWord, TypeOK, FlagTypes
<1>12. CASE PlcSwap
  BY <1>12 DEF PlcSwap, TypeOK, FlagTypes
<1>13. CASE PlcRestage
  BY <1>13 DEF PlcRestage, NextStaging, TypeOK, FlagTypes
<1>14. ASSUME NEW k \in Word, NEW v \in OutValues, PlcEarlyWrite(k, v)
     PROVE  FlagTypes'
  BY <1>14 DEF PlcEarlyWrite, TypeOK, FlagTypes
<1>15. ASSUME NEW k \in Word, NEW v \in OutValues, PlcWrite(k, v)
     PROVE  FlagTypes'
  BY <1>15 DEF PlcWrite, TypeOK, FlagTypes
<1>16. CASE UNCHANGED vars
  BY <1>16 DEF vars, TypeOK, FlagTypes
<1> QED
  BY <1>1, <1>2, <1>3, <1>4, <1>5, <1>6, <1>7, <1>8, <1>9, <1>10, <1>11,
     <1>12, <1>13, <1>14, <1>15, <1>16 DEF Next, RtQuiet, RtBus, Plc

\* Each thread is at one of its steps.
LEMMA ControlStep ==
    ASSUME TypeOK, [Next]_vars
    PROVE  ControlTypes'
<1>1. CASE RtLoadOut
  BY <1>1 DEF RtLoadOut, TypeOK, ControlTypes
<1>2. CASE RtCopyOut
  BY <1>2 DEF RtCopyOut, OutWord, TypeOK, ControlTypes
<1>3. CASE RtCopyIn
  BY <1>3 DEF RtCopyIn, TypeOK, ControlTypes
<1>4. CASE RtPublishIn
  BY <1>4 DEF RtPublishIn, TypeOK, ControlTypes
<1>5. CASE RtJudge
  BY <1>5 DEF RtJudge, TypeOK, ControlTypes
<1>6. CASE RtZeroBuffer0
  BY <1>6 DEF RtZeroBuffer0, TypeOK, ControlTypes
<1>7. CASE RtZeroBuffer1
  BY <1>7 DEF RtZeroBuffer1, TypeOK, ControlTypes
<1>8. CASE RtFinish
  BY <1>8 DEF RtFinish, TypeOK, ControlTypes
<1>9. ASSUME NEW w \in 0 .. ExpectedWkc, NEW op \in BOOLEAN,
           NEW f \in InValues, RtExchange(w, op, f)
    PROVE  ControlTypes'
  BY <1>9 DEF RtExchange, StateCheckDue, NextIn, TypeOK, ControlTypes
<1>10. CASE PlcBegin
  BY <1>10 DEF PlcBegin, TypeOK, ControlTypes
<1>11. CASE PlcPreserve
  BY <1>11 DEF PlcPreserve, PreservedWord, TypeOK, ControlTypes
<1>12. CASE PlcSwap
  BY <1>12 DEF PlcSwap, TypeOK, ControlTypes
<1>13. CASE PlcRestage
  BY <1>13 DEF PlcRestage, NextStaging, TypeOK, ControlTypes
<1>14. ASSUME NEW k \in Word, NEW v \in OutValues, PlcEarlyWrite(k, v)
     PROVE  ControlTypes'
  BY <1>14 DEF PlcEarlyWrite, TypeOK, ControlTypes
<1>15. ASSUME NEW k \in Word, NEW v \in OutValues, PlcWrite(k, v)
     PROVE  ControlTypes'
  BY <1>15 DEF PlcWrite, TypeOK, ControlTypes
<1>16. CASE UNCHANGED vars
  BY <1>16 DEF vars, TypeOK, ControlTypes
<1> QED
  BY <1>1, <1>2, <1>3, <1>4, <1>5, <1>6, <1>7, <1>8, <1>9, <1>10, <1>11,
     <1>12, <1>13, <1>14, <1>15, <1>16 DEF Next, RtQuiet, RtBus, Plc

\* No variable leaves its range.
LEMMA TypeStep == TypeOK /\ [Next]_vars => TypeOK'
  BY DataStep, IndexStep, CounterStep, FlagStep, ControlStep DEF TypeOK

\* The two output indices are exchanged, never merged: ethercat_cycle_end stores
\* the index that its atomic exchange returned.
LEMMA StagingStep ==
    ASSUME TypeOK, StagingApart, [Next]_vars
    PROVE  StagingApart'
<1>1. CASE RtLoadOut
  BY <1>1 DEF RtLoadOut, TypeOK, IndexTypes, StagingApart, Buffer
<1>2. CASE RtCopyOut
  BY <1>2 DEF RtCopyOut, OutWord, TypeOK, IndexTypes, StagingApart, Buffer
<1>3. CASE RtCopyIn
  BY <1>3 DEF RtCopyIn, TypeOK, IndexTypes, StagingApart, Buffer
<1>4. CASE RtPublishIn
  BY <1>4 DEF RtPublishIn, TypeOK, IndexTypes, StagingApart, Buffer
<1>5. CASE RtJudge
  BY <1>5 DEF RtJudge, TypeOK, IndexTypes, StagingApart, Buffer
<1>6. CASE RtZeroBuffer0
  BY <1>6 DEF RtZeroBuffer0, TypeOK, IndexTypes, StagingApart, Buffer
<1>7. CASE RtZeroBuffer1
  BY <1>7 DEF RtZeroBuffer1, TypeOK, IndexTypes, StagingApart, Buffer
<1>8. CASE RtFinish
  BY <1>8 DEF RtFinish, TypeOK, IndexTypes, StagingApart, Buffer
<1>9. ASSUME NEW w \in 0 .. ExpectedWkc, NEW op \in BOOLEAN,
           NEW f \in InValues, RtExchange(w, op, f)
    PROVE  StagingApart'
  BY <1>9 DEF RtExchange, StateCheckDue, NextIn, TypeOK, IndexTypes,
     StagingApart, Buffer
<1>10. CASE PlcBegin
  BY <1>10 DEF PlcBegin, TypeOK, IndexTypes, StagingApart, Buffer
<1>11. CASE PlcPreserve
  BY <1>11 DEF PlcPreserve, PreservedWord, TypeOK, IndexTypes, StagingApart,
     Buffer
<1>12. CASE PlcSwap
  BY <1>12 DEF PlcSwap, TypeOK, IndexTypes, StagingApart, Buffer
<1>13. CASE PlcRestage
  BY <1>13 DEF PlcRestage, NextStaging, TypeOK, IndexTypes, StagingApart,
     Buffer
<1>14. ASSUME NEW k \in Word, NEW v \in OutValues, PlcEarlyWrite(k, v)
     PROVE  StagingApart'
  BY <1>14 DEF PlcEarlyWrite, TypeOK, IndexTypes, StagingApart, Buffer
<1>15. ASSUME NEW k \in Word, NEW v \in OutValues, PlcWrite(k, v)
     PROVE  StagingApart'
  BY <1>15 DEF PlcWrite, TypeOK, IndexTypes, StagingApart, Buffer
<1>16. CASE UNCHANGED vars
  BY <1>16 DEF vars, TypeOK, IndexTypes, StagingApart, Buffer
<1> QED
  BY <1>1, <1>2, <1>3, <1>4, <1>5, <1>6, <1>7, <1>8, <1>9, <1>10, <1>11,
     <1>12, <1>13, <1>14, <1>15, <1>16 DEF Next, RtQuiet, RtBus, Plc

\* What the real-time thread has loaded agrees with what it will use it for.
LEMMA RtKnowsStep ==
    ASSUME TypeOK, RtKnows, [Next]_vars
    PROVE  RtKnows'
<1>1. CASE RtLoadOut
  BY <1>1 DEF RtLoadOut, TypeOK, FlagTypes, ControlTypes, RtKnows
<1>2. CASE RtCopyOut
  BY <1>2 DEF RtCopyOut, OutWord, TypeOK, FlagTypes, ControlTypes, RtKnows
<1>3. CASE RtCopyIn
  BY <1>3 DEF RtCopyIn, TypeOK, FlagTypes, ControlTypes, RtKnows
<1>4. CASE RtPublishIn
  BY <1>4 DEF RtPublishIn, TypeOK, FlagTypes, ControlTypes, RtKnows
<1>5. CASE RtJudge
  BY <1>5 DEF RtJudge, TypeOK, FlagTypes, ControlTypes, RtKnows
<1>6. CASE RtZeroBuffer0
  BY <1>6 DEF RtZeroBuffer0, TypeOK, FlagTypes, ControlTypes, RtKnows
<1>7. CASE RtZeroBuffer1
  BY <1>7 DEF RtZeroBuffer1, TypeOK, FlagTypes, ControlTypes, RtKnows
<1>8. CASE RtFinish
  BY <1>8 DEF RtFinish, TypeOK, FlagTypes, ControlTypes, RtKnows
<1>9. ASSUME NEW w \in 0 .. ExpectedWkc, NEW op \in BOOLEAN,
           NEW f \in InValues, RtExchange(w, op, f)
    PROVE  RtKnows'
  BY <1>9 DEF RtExchange, StateCheckDue, NextIn, TypeOK, FlagTypes,
     ControlTypes, RtKnows
<1>10. CASE PlcBegin
  BY <1>10 DEF PlcBegin, TypeOK, FlagTypes, ControlTypes, RtKnows
<1>11. CASE PlcPreserve
  BY <1>11 DEF PlcPreserve, PreservedWord, TypeOK, FlagTypes, ControlTypes,
     RtKnows
<1>12. CASE PlcSwap
  BY <1>12 DEF PlcSwap, TypeOK, FlagTypes, ControlTypes, RtKnows
<1>13. CASE PlcRestage
  BY <1>13 DEF PlcRestage, NextStaging, TypeOK, FlagTypes, ControlTypes,
     RtKnows
<1>14. ASSUME NEW k \in Word, NEW v \in OutValues, PlcEarlyWrite(k, v)
     PROVE  RtKnows'
  BY <1>14 DEF PlcEarlyWrite, TypeOK, FlagTypes, ControlTypes, RtKnows
<1>15. ASSUME NEW k \in Word, NEW v \in OutValues, PlcWrite(k, v)
     PROVE  RtKnows'
  BY <1>15 DEF PlcWrite, TypeOK, FlagTypes, ControlTypes, RtKnows
<1>16. CASE UNCHANGED vars
  BY <1>16 DEF vars, TypeOK, FlagTypes, ControlTypes, RtKnows
<1> QED
  BY <1>1, <1>2, <1>3, <1>4, <1>5, <1>6, <1>7, <1>8, <1>9, <1>10, <1>11,
     <1>12, <1>13, <1>14, <1>15, <1>16 DEF Next, RtQuiet, RtBus, Plc

\* Before the fault, the published buffer holds the last completed cycle's
\* outputs and the staging buffer those that no task has set since.
LEMMA OutputsStep ==
    ASSUME TypeOK, StagingApart, RtKnows,
           OutputsHeld, OutputsPreserved, [Next]_vars
    PROVE  (OutputsHeld /\ OutputsPreserved)'
<1>1. CASE RtLoadOut
  BY <1>1 DEF RtLoadOut, TypeOK, DataTypes, IndexTypes, FlagTypes,
     ControlTypes, CounterTypes, StagingApart, RtKnows, OutputsHeld,
     OutputsPreserved, Word
<1>2. CASE RtCopyOut
  BY <1>2 DEF RtCopyOut, OutWord, TypeOK, DataTypes, IndexTypes, FlagTypes,
     ControlTypes, CounterTypes, StagingApart, RtKnows, OutputsHeld,
     OutputsPreserved, Word
<1>3. CASE RtCopyIn
  BY <1>3 DEF RtCopyIn, TypeOK, DataTypes, IndexTypes, FlagTypes,
     ControlTypes, CounterTypes, StagingApart, RtKnows, OutputsHeld,
     OutputsPreserved, Word
<1>4. CASE RtPublishIn
  BY <1>4 DEF RtPublishIn, TypeOK, DataTypes, IndexTypes, FlagTypes,
     ControlTypes, CounterTypes, StagingApart, RtKnows, OutputsHeld,
     OutputsPreserved, Word
<1>5. CASE RtJudge
  BY <1>5 DEF RtJudge, TypeOK, DataTypes, IndexTypes, FlagTypes, ControlTypes,
     CounterTypes, StagingApart, RtKnows, OutputsHeld, OutputsPreserved, Word
<1>6. CASE RtZeroBuffer0
  BY <1>6 DEF RtZeroBuffer0, TypeOK, DataTypes, IndexTypes, FlagTypes,
     ControlTypes, CounterTypes, StagingApart, RtKnows, OutputsHeld,
     OutputsPreserved, Word
<1>7. CASE RtZeroBuffer1
  BY <1>7 DEF RtZeroBuffer1, TypeOK, DataTypes, IndexTypes, FlagTypes,
     ControlTypes, CounterTypes, StagingApart, RtKnows, OutputsHeld,
     OutputsPreserved, Word
<1>8. CASE RtFinish
  BY <1>8 DEF RtFinish, TypeOK, DataTypes, IndexTypes, FlagTypes,
     ControlTypes, CounterTypes, StagingApart, RtKnows, OutputsHeld,
     OutputsPreserved, Word
<1>9. ASSUME NEW w \in 0 .. ExpectedWkc, NEW op \in BOOLEAN,
           NEW f \in InValues, RtExchange(w, op, f)
    PROVE  (OutputsHeld /\ OutputsPreserved)'
  BY <1>9 DEF RtExchange, StateCheckDue, NextIn, TypeOK, DataTypes,
     IndexTypes, FlagTypes, ControlTypes, CounterTypes, StagingApart, RtKnows,
     OutputsHeld, OutputsPreserved, Word
<1>10. CASE PlcBegin
  BY <1>10 DEF PlcBegin, TypeOK, DataTypes, IndexTypes, FlagTypes,
     ControlTypes, CounterTypes, StagingApart, RtKnows, OutputsHeld,
     OutputsPreserved, Word
<1>11. CASE PlcPreserve
  BY <1>11 DEF PlcPreserve, PreservedWord, TypeOK, DataTypes, IndexTypes,
     FlagTypes, ControlTypes, CounterTypes, StagingApart, RtKnows,
     OutputsHeld, OutputsPreserved, Word
<1>12. CASE PlcSwap
  BY <1>12 DEF PlcSwap, TypeOK, DataTypes, IndexTypes, FlagTypes,
     ControlTypes, CounterTypes, StagingApart, RtKnows, OutputsHeld,
     OutputsPreserved, Word
<1>13. CASE PlcRestage
  BY <1>13 DEF PlcRestage, NextStaging, TypeOK, DataTypes, IndexTypes,
     FlagTypes, ControlTypes, CounterTypes, StagingApart, RtKnows,
     OutputsHeld, OutputsPreserved, Word
<1>14. ASSUME NEW k \in Word, NEW v \in OutValues, PlcEarlyWrite(k, v)
     PROVE  (OutputsHeld /\ OutputsPreserved)'
  BY <1>14 DEF PlcEarlyWrite, TypeOK, DataTypes, IndexTypes, FlagTypes,
     ControlTypes, CounterTypes, StagingApart, RtKnows, OutputsHeld,
     OutputsPreserved, Word
<1>15. ASSUME NEW k \in Word, NEW v \in OutValues, PlcWrite(k, v)
     PROVE  (OutputsHeld /\ OutputsPreserved)'
  BY <1>15 DEF PlcWrite, TypeOK, DataTypes, IndexTypes, FlagTypes,
     ControlTypes, CounterTypes, StagingApart, RtKnows, OutputsHeld,
     OutputsPreserved, Word
<1>16. CASE UNCHANGED vars
  BY <1>16 DEF vars, TypeOK, DataTypes, IndexTypes, FlagTypes, ControlTypes,
     CounterTypes, StagingApart, RtKnows, OutputsHeld, OutputsPreserved, Word
<1> QED
  BY <1>1, <1>2, <1>3, <1>4, <1>5, <1>6, <1>7, <1>8, <1>9, <1>10, <1>11,
     <1>12, <1>13, <1>14, <1>15, <1>16 DEF Next, RtQuiet, RtBus, Plc

\* The words copied so far, and then the frame, are zero if they must be, and are
\* one cycle's outputs as long as no further cycle has begun meanwhile.
LEMMA FrameStep ==
    ASSUME TypeOK, StagingApart, RtKnows, OutputsHeld,
           FrameSoFar, SafeAfterFault, FrameIsOneCycle, [Next]_vars
    PROVE  (FrameSoFar /\ SafeAfterFault /\ FrameIsOneCycle)'
<1>0. /\ rt_pc = "copy_out"
      /\ \/ since # "begun" /\ plc_pc \in {"preserve", "tasks"}
         \/ since = "nothing" /\ plc_pc = "idle"
      => out_idx # active_out_idx
  BY DEF TypeOK, ControlTypes, StagingApart, RtKnows
<1> USE DEF ControlTypes
<1>1. CASE RtLoadOut
  BY <1>1 DEF RtLoadOut, TypeOK, DataTypes, IndexTypes, CounterTypes, RtKnows,
     OutputsHeld, FrameSoFar, SafeAfterFault, FrameIsOneCycle, Word, Zeros
<1>2. CASE RtCopyOut
  <2> DEFINE c == rt_copied + 1
  <2>1. /\ c \in Word /\ rt_copied \in Nat /\ rt_copied' = c
        /\ 1 .. c = (1 .. rt_copied) \cup {c}
    BY <1>2 DEF RtCopyOut, TypeOK, CounterTypes, Word
  <2>2. /\ zero_outputs = fault_latched
        /\ since # "begun" /\ ~zero_outputs => out_buf[out_idx] = taken
    BY <1>2 DEF RtCopyOut, RtKnows, FrameSoFar
  <2>3. /\ iomap_out' =
              [iomap_out EXCEPT ![c] = OutWord(zero_outputs, out_idx, c)]
        /\ iomap_out \in [Word -> OutValues] /\ taken \in [Word -> OutValues]
        /\ UNCHANGED <<taken, since, zero_outputs, fault_latched, out_idx, out_buf>>
        /\ rt_pc' = IF c = Words THEN "exchange" ELSE "copy_out"
    BY <1>2 DEF RtCopyOut, TypeOK, DataTypes
  <2> HIDE DEF c
  <2>4. ASSUME NEW k \in 1 .. c
        PROVE  /\ zero_outputs => iomap_out'[k] = 0
               /\ since # "begun" /\ ~zero_outputs => iomap_out'[k] = taken[k]
    <3>1. CASE k = c
      BY <2>1, <2>2, <2>3, <3>1 DEF OutWord
    <3>2. CASE k \in 1 .. rt_copied
      <4>1. iomap_out'[k] = iomap_out[k]
        BY <2>1, <2>3, <3>2, <2>4 DEF Word, c
      <4> QED
        BY <1>2, <4>1, <3>2 DEF RtCopyOut, FrameSoFar
    <3> QED
      BY <2>1, <2>4, <3>1, <3>2
  <2>5. iomap_out' \in [Word -> OutValues \cup {0}]
    BY <2>1, <2>2, <2>3 DEF OutWord, TypeOK, DataTypes, IndexTypes
  <2>6. CASE c = Words
    <3>1. rt_pc' = "exchange" /\ 1 .. c = Word
      BY <2>3, <2>6 DEF Word
    <3>2. zero_outputs => iomap_out' = Zeros
      BY <2>4, <2>5, <3>1 DEF Zeros
    <3>3. since # "begun" /\ ~zero_outputs => iomap_out' = taken
      BY <2>3, <2>4, <2>5, <3>1
    <3> QED
      BY <2>2, <2>3, <3>1, <3>2, <3>3
         DEF FrameSoFar, SafeAfterFault, FrameIsOneCycle, Zeros, Word
  <2>7. CASE c # Words
    BY <2>1, <2>2, <2>3, <2>4, <2>7 DEF FrameSoFar, SafeAfterFault, FrameIsOneCycle
  <2> QED
    BY <2>6, <2>7
<1>3. CASE RtCopyIn
  BY <1>3 DEF RtCopyIn, TypeOK, DataTypes, IndexTypes, CounterTypes, RtKnows,
     OutputsHeld, FrameSoFar, SafeAfterFault, FrameIsOneCycle, Word, Zeros
<1>4. CASE RtPublishIn
  BY <1>4 DEF RtPublishIn, TypeOK, DataTypes, IndexTypes, CounterTypes,
     RtKnows, OutputsHeld, FrameSoFar, SafeAfterFault, FrameIsOneCycle, Word,
     Zeros
<1>5. CASE RtJudge
  BY <1>5 DEF RtJudge, TypeOK, DataTypes, IndexTypes, CounterTypes, RtKnows,
     OutputsHeld, FrameSoFar, SafeAfterFault, FrameIsOneCycle, Word, Zeros
<1>6. CASE RtZeroBuffer0
  BY <1>6 DEF RtZeroBuffer0, TypeOK, DataTypes, IndexTypes, CounterTypes,
     RtKnows, OutputsHeld, FrameSoFar, SafeAfterFault, FrameIsOneCycle, Word,
     Zeros
<1>7. CASE RtZeroBuffer1
  BY <1>7 DEF RtZeroBuffer1, TypeOK, DataTypes, IndexTypes, CounterTypes,
     RtKnows, OutputsHeld, FrameSoFar, SafeAfterFault, FrameIsOneCycle, Word,
     Zeros
<1>8. CASE RtFinish
  BY <1>8 DEF RtFinish, TypeOK, DataTypes, IndexTypes, CounterTypes, RtKnows,
     OutputsHeld, FrameSoFar, SafeAfterFault, FrameIsOneCycle, Word, Zeros
<1>9. ASSUME NEW w \in 0 .. ExpectedWkc, NEW op \in BOOLEAN,
           NEW f \in InValues, RtExchange(w, op, f)
    PROVE  (FrameSoFar /\ SafeAfterFault /\ FrameIsOneCycle)'
  BY <1>9 DEF RtExchange, StateCheckDue, NextIn, TypeOK, DataTypes,
     IndexTypes, CounterTypes, RtKnows, OutputsHeld, FrameSoFar,
     SafeAfterFault, FrameIsOneCycle, Word, Zeros
<1>10. CASE PlcBegin
  BY <1>10 DEF PlcBegin, TypeOK, DataTypes, IndexTypes, CounterTypes, RtKnows,
     OutputsHeld, FrameSoFar, SafeAfterFault, FrameIsOneCycle, Word, Zeros
<1>11. CASE PlcPreserve
  <2>1. rt_pc = "copy_out" /\ since # "begun" => out_buf'[out_idx] = out_buf[out_idx]
    BY <1>0, <1>11 DEF PlcPreserve, TypeOK, DataTypes, IndexTypes
  <2> QED
    BY <1>11, <2>1 DEF PlcPreserve, FrameSoFar, SafeAfterFault, FrameIsOneCycle,
       Zeros, Word
<1>12. CASE PlcSwap
  BY <1>12 DEF PlcSwap, TypeOK, DataTypes, IndexTypes, CounterTypes, RtKnows,
     OutputsHeld, FrameSoFar, SafeAfterFault, FrameIsOneCycle, Word, Zeros
<1>13. CASE PlcRestage
  BY <1>13 DEF PlcRestage, NextStaging, TypeOK, DataTypes, IndexTypes,
     CounterTypes, RtKnows, OutputsHeld, FrameSoFar, SafeAfterFault,
     FrameIsOneCycle, Word, Zeros
<1>14. ASSUME NEW k \in Word, NEW v \in OutValues, PlcEarlyWrite(k, v)
     PROVE  (FrameSoFar /\ SafeAfterFault /\ FrameIsOneCycle)'
  <2>1. rt_pc = "copy_out" /\ since = "nothing" => out_buf'[out_idx] = out_buf[out_idx]
    BY <1>0, <1>14 DEF PlcEarlyWrite, TypeOK, DataTypes, IndexTypes
  <2>2. rt_pc = "copy_out" /\ since # "nothing" => since' = "begun"
    BY <1>14 DEF PlcEarlyWrite, TypeOK
  <2> QED
    BY <1>14, <2>1, <2>2 DEF PlcEarlyWrite, FrameSoFar, SafeAfterFault,
       FrameIsOneCycle, Zeros, Word
<1>15. ASSUME NEW k \in Word, NEW v \in OutValues, PlcWrite(k, v)
     PROVE  (FrameSoFar /\ SafeAfterFault /\ FrameIsOneCycle)'
  <2>1. rt_pc = "copy_out" /\ since # "begun" => out_buf'[out_idx] = out_buf[out_idx]
    BY <1>0, <1>15 DEF PlcWrite, TypeOK, DataTypes, IndexTypes
  <2> QED
    BY <1>15, <2>1 DEF PlcWrite, FrameSoFar, SafeAfterFault, FrameIsOneCycle,
       Zeros, Word
<1>16. CASE UNCHANGED vars
  BY <1>16 DEF vars, TypeOK, DataTypes, IndexTypes, CounterTypes, RtKnows,
     OutputsHeld, FrameSoFar, SafeAfterFault, FrameIsOneCycle, Word, Zeros
<1> QED
  BY <1>1, <1>2, <1>3, <1>4, <1>5, <1>6, <1>7, <1>8, <1>9, <1>10, <1>11,
     <1>12, <1>13, <1>14, <1>15, <1>16 DEF Next, RtQuiet, RtBus, Plc

\* The active input buffer holds one frame and is not the one being filled.
LEMMA InputsStep ==
    ASSUME TypeOK, InputsHeld, [Next]_vars
    PROVE  InputsHeld'
<1>1. CASE RtLoadOut
  BY <1>1 DEF RtLoadOut, TypeOK, DataTypes, IndexTypes, CounterTypes,
     InputsHeld, Word, Buffer
<1>2. CASE RtCopyOut
  BY <1>2 DEF RtCopyOut, OutWord, TypeOK, DataTypes, IndexTypes, CounterTypes,
     InputsHeld, Word, Buffer
<1>3. CASE RtCopyIn
  BY <1>3 DEF RtCopyIn, TypeOK, DataTypes, IndexTypes, CounterTypes,
     InputsHeld, Word, Buffer
<1>4. CASE RtPublishIn
  BY <1>4 DEF RtPublishIn, TypeOK, DataTypes, IndexTypes, CounterTypes,
     InputsHeld, Word, Buffer
<1>5. CASE RtJudge
  BY <1>5 DEF RtJudge, TypeOK, DataTypes, IndexTypes, CounterTypes,
     InputsHeld, Word, Buffer
<1>6. CASE RtZeroBuffer0
  BY <1>6 DEF RtZeroBuffer0, TypeOK, DataTypes, IndexTypes, CounterTypes,
     InputsHeld, Word, Buffer
<1>7. CASE RtZeroBuffer1
  BY <1>7 DEF RtZeroBuffer1, TypeOK, DataTypes, IndexTypes, CounterTypes,
     InputsHeld, Word, Buffer
<1>8. CASE RtFinish
  BY <1>8 DEF RtFinish, TypeOK, DataTypes, IndexTypes, CounterTypes,
     InputsHeld, Word, Buffer
<1>9. ASSUME NEW w \in 0 .. ExpectedWkc, NEW op \in BOOLEAN,
           NEW f \in InValues, RtExchange(w, op, f)
    PROVE  InputsHeld'
  BY <1>9 DEF RtExchange, StateCheckDue, NextIn, TypeOK, DataTypes,
     IndexTypes, CounterTypes, InputsHeld, Word, Buffer
<1>10. CASE PlcBegin
  BY <1>10 DEF PlcBegin, TypeOK, DataTypes, IndexTypes, CounterTypes,
     InputsHeld, Word, Buffer
<1>11. CASE PlcPreserve
  BY <1>11 DEF PlcPreserve, PreservedWord, TypeOK, DataTypes, IndexTypes,
     CounterTypes, InputsHeld, Word, Buffer
<1>12. CASE PlcSwap
  BY <1>12 DEF PlcSwap, TypeOK, DataTypes, IndexTypes, CounterTypes,
     InputsHeld, Word, Buffer
<1>13. CASE PlcRestage
  BY <1>13 DEF PlcRestage, NextStaging, TypeOK, DataTypes, IndexTypes,
     CounterTypes, InputsHeld, Word, Buffer
<1>14. ASSUME NEW k \in Word, NEW v \in OutValues, PlcEarlyWrite(k, v)
     PROVE  InputsHeld'
  BY <1>14 DEF PlcEarlyWrite, TypeOK, DataTypes, IndexTypes, CounterTypes,
     InputsHeld, Word, Buffer
<1>15. ASSUME NEW k \in Word, NEW v \in OutValues, PlcWrite(k, v)
     PROVE  InputsHeld'
  BY <1>15 DEF PlcWrite, TypeOK, DataTypes, IndexTypes, CounterTypes,
     InputsHeld, Word, Buffer
<1>16. CASE UNCHANGED vars
  BY <1>16 DEF vars, TypeOK, DataTypes, IndexTypes, CounterTypes, InputsHeld,
     Word, Buffer
<1> QED
  BY <1>1, <1>2, <1>3, <1>4, <1>5, <1>6, <1>7, <1>8, <1>9, <1>10, <1>11,
     <1>12, <1>13, <1>14, <1>15, <1>16 DEF Next, RtQuiet, RtBus, Plc

\* The initial image satisfies all of it.
LEMMA InitInv == Init => ImageInv
<1> SUFFICES ASSUME Init PROVE ImageInv
  OBVIOUS
<1>1. TypeOK
  <2>1. DataTypes
    <3>1. Zeros \in [Word -> OutValues] /\ Zeros \in [Word -> InValues]
      BY DEF Zeros
    <3> QED
      BY <3>1 DEF Init, DataTypes
  <2>2. IndexTypes
    BY DEF Init, IndexTypes, Buffer
  <2>3. CounterTypes
    BY BadTopRange DEF Init, CounterTypes
  <2>4. FlagTypes /\ ControlTypes
    BY DEF Init, FlagTypes, ControlTypes
  <2> QED
    BY <2>1, <2>2, <2>3, <2>4 DEF TypeOK
<1>2. StagingApart /\ RtKnows /\ SafeAfterFault /\ FrameIsOneCycle
  BY DEF Init, StagingApart, RtKnows, SafeAfterFault, FrameIsOneCycle
<1>3. FrameSoFar /\ OutputsHeld /\ OutputsPreserved /\ InputsHeld
  BY DEF Init, FrameSoFar, OutputsHeld, OutputsPreserved, InputsHeld,
         Buffer, Zeros
<1> QED
  BY <1>1, <1>2, <1>3 DEF ImageInv

\* ImageInv is inductive: no interleaving of the two threads leaves it.
THEOREM ImageCorrect == Spec => []ImageInv
<1>1. Init => ImageInv
  BY InitInv
<1>2. ImageInv /\ [Next]_vars => ImageInv'
  <2> SUFFICES ASSUME ImageInv, [Next]_vars PROVE ImageInv'
    OBVIOUS
  <2> USE DEF ImageInv
  <2>1. TypeOK'
    BY TypeStep
  <2>2. StagingApart'
    BY StagingStep
  <2>3. RtKnows'
    BY RtKnowsStep
  <2>4. (OutputsHeld /\ OutputsPreserved)'
    BY OutputsStep
  <2>5. (FrameSoFar /\ SafeAfterFault /\ FrameIsOneCycle)'
    BY FrameStep
  <2>6. InputsHeld'
    BY InputsStep
  <2> QED
    BY <2>1, <2>2, <2>3, <2>4, <2>5, <2>6
<1> QED
  BY <1>1, <1>2, PTL DEF Spec

\* The staging buffer of the PLC thread is never the published one, whatever
\* ethercat_cycle_end and the real-time thread interleave.
THEOREM StagingSafety == Spec => []StagingApart
  BY ImageCorrect, PTL DEF ImageInv

\* Every variable of the exchange stays in its range: no index but 0 and 1, no
\* copy past the image.
THEOREM ImageTypes == Spec => []TypeOK
  BY ImageCorrect, PTL DEF ImageInv

\* After the watchdog has latched a fault (ethercat_rt_thread), the bus only
\* sees zero outputs, for every frame and every write of the tasks.
THEOREM FaultSafety == Spec => []SafeAfterFault
  BY ImageCorrect, PTL DEF ImageInv

\* For any number of words: a frame is exactly the output of the PLC cycle that
\* was the last completed one when the real-time thread loaded the index, even
\* if another one ended during the copy, as long as the one after has not begun.
THEOREM FrameConsistency == Spec => []FrameIsOneCycle
  BY ImageCorrect, PTL DEF ImageInv

\* ethercat_cycle_begin carries over the outputs that no task sets.
THEOREM OutputPreservation == Spec => []OutputsPreserved
  BY ImageCorrect, PTL DEF ImageInv

\* Until a newer frame is published, the inputs latched by
\* ethercat_cycle_begin are one frame and nobody writes them.
THEOREM InputConsistency == Spec => []LatchedInputWhole
<1>1. ImageInv => LatchedInputWhole
  BY DEF ImageInv, InputsHeld, LatchedInputWhole
<1> QED
  BY <1>1, ImageCorrect, PTL
-----------------------------------------------------------------------------
(* How fast the real-time thread notices a bad bus: the invariant that ties  *)
(* the three run lengths of EcWatchdog to the thread's own counters.         *)

\* The latest cycle has been judged; it has been counted.
Judged == rt_pc \notin {"copy_in", "judge"}
Counted == rt_pc \in {"load", "copy_out", "exchange"}

\* n bad cycles in a row have been counted in dowkccheck but for the first late
\* ones; before the end of the warm-up there have not been more of them than
\* cycles.
InStep(n, late) ==
    /\ cycle_count < WarmupCycles => n <= cycle_count + IF Counted THEN 0 ELSE 1
    /\ dowkccheck + (IF Judged THEN 0 ELSE 1) >= n - late

IsShort == 0 < ExpectedWkc /\ wkc < ExpectedWkc
LateState == LostLatency - FailThreshold

ShortInv == /\ short_run \in 0 .. ShortLatency
            /\ short_run > 0 => IsShort
            /\ InStep(short_run, WarmupCycles)
\* Of a loss that is longer than the state check is old, the thread knows.
LostInv == /\ lost_run \in 0 .. LostLatency
           /\ lost_run > state_check_ctr => ec_state # "op"
           /\ InStep(lost_run, LateState)
GoodInv == /\ good_run \in 0 .. StatePeriod
           /\ good_run > 0 => ~IsShort
           /\ good_run > state_check_ctr => ec_state = "op"
           /\ good_run >= StatePeriod /\ Judged => dowkccheck = 0
           /\ good_run >= StatePeriod /\ Counted => in_op
\* in_op is what dowkccheck was at the end of the latest cycle.
LatchInv == /\ dowkccheck >= FailThreshold => fault_latched
            /\ rt_pc \notin {"zero_0", "zero_1", "finish"} /\ in_op =>
                    dowkccheck < WarnThreshold

WatchInv == ShortInv /\ LostInv /\ GoodInv /\ LatchInv

\* What the watchdog reads and writes.
watch == <<dowkccheck, cycle_count, state_check_ctr, ec_state, wkc,
           fault_latched, in_op, runs>>
\* The loop is as far with judging and counting the cycle as it was.
SamePlace == /\ Judged' = Judged /\ Counted' = Counted
             /\ (rt_pc' \in {"zero_0", "zero_1", "finish"}) =
                    (rt_pc \in {"zero_0", "zero_1", "finish"})

LEMMA Latencies ==
    /\ ShortLatency \in Nat /\ LostLatency \in Nat /\ LateState \in Nat
    /\ ShortLatency = WarmupCycles + FailThreshold
    /\ LostLatency = LateState + FailThreshold
    /\ WarmupCycles <= LateState /\ StatePeriod - 1 <= LateState
    /\ BadTop \in Nat /\ FailThreshold <= BadTop /\ WarnThreshold <= BadTop
<1>1. CASE WarmupCycles > StatePeriod - 1
  BY <1>1 DEF ShortLatency, LostLatency, LateState, BadTop
<1>2. CASE ~(WarmupCycles > StatePeriod - 1)
  BY <1>2 DEF ShortLatency, LostLatency, LateState, BadTop
<1> QED
  BY <1>1, <1>2

\* What the type invariant says of the watchdog's variables.
LEMMA WatchTypes ==
    ASSUME TypeOK
    PROVE  /\ dowkccheck \in Nat /\ dowkccheck <= BadTop
           /\ cycle_count \in Nat /\ cycle_count <= WarmupCycles
           /\ state_check_ctr \in Nat /\ state_check_ctr < StatePeriod
           /\ wkc \in Nat /\ fault_latched \in BOOLEAN /\ in_op \in BOOLEAN
           /\ ec_state \in {"op", "not_op"}
           /\ rt_pc \in {"load", "copy_out", "exchange", "copy_in", "judge",
                         "zero_0", "zero_1", "finish"}
  BY BadTopRange DEF TypeOK, CounterTypes, FlagTypes, ControlTypes

\* A step of the watched image is an exchange, a verdict, the end of an
\* iteration, or no concern of the watchdog's.
LEMMA WatchCases ==
    ASSUME TypeOK, [WatchNext]_<<vars, runs>>
    PROVE  \/ \E w \in 0 .. ExpectedWkc, op \in BOOLEAN, f \in InValues :
                    WatchedExchange(w, op, f)
           \/ RtJudge /\ UNCHANGED runs
           \/ RtFinish /\ UNCHANGED runs
           \/ UNCHANGED watch /\ SamePlace
<1> USE DEF watch, SamePlace, Judged, Counted
<1>1. CASE UNCHANGED <<vars, runs>>
  BY <1>1 DEF vars
<1>2. CASE (RtQuiet \/ Plc) /\ UNCHANGED runs
  <2>1. CASE RtLoadOut
    BY <1>2, <2>1 DEF RtLoadOut
  <2>2. CASE RtCopyOut
    BY <1>2, <2>2 DEF RtCopyOut
  <2>3. CASE RtCopyIn
    BY <1>2, <2>3 DEF RtCopyIn
  <2>4. CASE RtPublishIn
    BY <1>2, <2>4 DEF RtPublishIn
  <2>5. CASE RtZeroBuffer0
    BY <1>2, <2>5 DEF RtZeroBuffer0
  <2>6. CASE RtZeroBuffer1
    BY <1>2, <2>6 DEF RtZeroBuffer1
  <2>7. CASE Plc
    BY <1>2, <2>7 DEF Plc, PlcBegin, PlcPreserve, PlcSwap, PlcRestage,
       PlcEarlyWrite, PlcWrite
  <2> QED
    BY <1>2, <2>1, <2>2, <2>3, <2>4, <2>5, <2>6, <2>7 DEF RtQuiet
<1> QED
  BY <1>1, <1>2 DEF WatchNext

\* A run's length stays in its range and grows by one at most.
LEMMA RunRange ==
    ASSUME NEW top \in Nat, NEW n \in 0 .. top, NEW holds \in BOOLEAN
    PROVE  /\ Run(n, holds, top) \in 0 .. top
           /\ Run(n, holds, top) > 0 => holds
           /\ Run(n, holds, top) <= n + 1
  BY DEF Run, Saturate

\* The verdict on a cycle that was bad keeps the counters in step with the run,
\* and one on a warm-up cycle has nothing to count yet.
LEMMA JudgeInStep ==
    ASSUME TypeOK, RtJudge, NEW n \in Nat, NEW late \in Nat,
           WarmupCycles <= late, n <= late + FailThreshold,
           InStep(n, late),
           cycle_count >= WarmupCycles /\ n > late => BadCycle
    PROVE  /\ cycle_count < WarmupCycles => n <= cycle_count + 1
           /\ dowkccheck' >= n - late
<1>1. cycle_count < WarmupCycles => n <= cycle_count + 1
  BY DEF InStep, RtJudge, Counted
<1>2. dowkccheck + 1 >= n - late
  BY DEF InStep, RtJudge, Judged
<1>3. dowkccheck' \in Nat
  BY WatchTypes, Latencies DEF RtJudge, Saturate, BadCount
<1>4. CASE n <= late
  BY <1>1, <1>3, <1>4
<1>5. CASE n > late
  <2>1. cycle_count >= WarmupCycles
    BY <1>1, <1>5, WatchTypes
  <2>2. dowkccheck' = Saturate(dowkccheck + 1, BadTop)
    BY <1>5, <2>1 DEF RtJudge, BadCount
  <2> QED
    BY <1>1, <1>2, <2>2, WatchTypes, Latencies DEF Saturate
<1> QED
  BY <1>4, <1>5

\* The counters stay in step when the verdict, the end of the iteration or a
\* step that is no concern of theirs leaves the run alone.
LEMMA QuietInStep ==
    ASSUME TypeOK, NEW n \in Nat, NEW late \in Nat,
           WarmupCycles <= late, n <= late + FailThreshold,
           InStep(n, late),
           cycle_count >= WarmupCycles /\ n > late => BadCycle,
           RtJudge \/ RtFinish \/ (UNCHANGED watch /\ SamePlace)
    PROVE  InStep(n, late)'
<1>1. CASE RtJudge
  <2>1. /\ rt_pc' \in {"zero_0", "finish"}
        /\ cycle_count' = cycle_count
    BY <1>1 DEF RtJudge
  <2>2. dowkccheck' \in Nat
    BY <1>1, WatchTypes, Latencies DEF RtJudge, Saturate, BadCount
  <2>3. /\ cycle_count < WarmupCycles => n <= cycle_count + 1
        /\ dowkccheck' >= n - late
    BY <1>1, JudgeInStep
  <2>4. Judged' /\ ~Counted'
    BY <2>1 DEF Judged, Counted
  <2>5. (cycle_count < WarmupCycles => n <= cycle_count + IF Counted THEN 0 ELSE 1)'
    BY <2>1, <2>3, <2>4, WatchTypes
  <2>6. (dowkccheck + (IF Judged THEN 0 ELSE 1) >= n - late)'
    <3>1. PICK d \in Nat : d = dowkccheck'
      BY <2>2
    <3>2. d >= n - late
      BY <2>3, <3>1
    <3>3. (IF Judged' THEN 0 ELSE 1) = 0
      BY <2>4
    <3>4. d + (IF Judged' THEN 0 ELSE 1) >= n - late
      BY <3>2, <3>3, WatchTypes
    <3> QED
      BY <3>1, <3>4, Zenon
  <2> QED
    BY <2>5, <2>6 DEF InStep
<1>2. CASE RtFinish
  BY <1>2, WatchTypes DEF RtFinish, Saturate, InStep, Judged, Counted
<1>3. CASE UNCHANGED watch /\ SamePlace
  BY <1>3 DEF watch, SamePlace, InStep
<1> QED
  BY <1>1, <1>2, <1>3

\* An exchange lengthens the run by the cycle that is not judged yet.
LEMMA ExchangeInStep ==
    ASSUME TypeOK, NEW n \in Nat, NEW m \in Nat, NEW late \in Nat,
           InStep(n, late), m <= n + 1,
           rt_pc = "exchange", rt_pc' = "copy_in",
           UNCHANGED <<dowkccheck, cycle_count>>
    PROVE  InStep(m, late)'
  BY WatchTypes DEF InStep, Judged, Counted

\* Short working counters are counted once the warm-up is over.
LEMMA ShortStep ==
    ASSUME TypeOK, ShortInv, [WatchNext]_<<vars, runs>>
    PROVE  ShortInv'
<1>1. ASSUME NEW w \in 0 .. ExpectedWkc, NEW op \in BOOLEAN,
             NEW f \in InValues, WatchedExchange(w, op, f)
      PROVE  ShortInv'
  <2> DEFINE short == ExpectedWkc > 0 /\ w < ExpectedWkc
             m == Run(short_run, short, ShortLatency)
  <2>1. /\ rt_pc = "exchange" /\ rt_pc' = "copy_in" /\ wkc' = w
        /\ UNCHANGED <<dowkccheck, cycle_count>>
        /\ short_run' = m
    BY <1>1 DEF WatchedExchange, RtExchange
  <2>2. /\ m \in 0 .. ShortLatency /\ m <= short_run + 1
        /\ m > 0 => short
    BY RunRange, Latencies DEF ShortInv
  <2>3. PICK k \in Nat : k = m
    BY <2>2, Latencies
  <2>4. InStep(k, WarmupCycles)'
    <3>1. short_run \in Nat /\ InStep(short_run, WarmupCycles)
      BY Latencies DEF ShortInv
    <3> QED
      BY <2>1, <2>2, <2>3, <3>1, ExchangeInStep
  <2>5. InStep(short_run, WarmupCycles)'
    BY <2>1, <2>3, <2>4 DEF InStep, Judged, Counted
  <2> QED
    BY <2>1, <2>2, <2>5 DEF ShortInv, IsShort
<1>2. CASE UNCHANGED runs /\ (RtJudge \/ RtFinish \/ (UNCHANGED watch /\ SamePlace))
  <2>1. /\ short_run \in Nat /\ short_run <= WarmupCycles + FailThreshold
        /\ InStep(short_run, WarmupCycles)
        /\ cycle_count >= WarmupCycles /\ short_run > WarmupCycles => BadCycle
    BY Latencies DEF ShortInv, IsShort, BadCycle
  <2>2. PICK n \in Nat : n = short_run
    BY <2>1
  <2>3. InStep(n, WarmupCycles)'
    BY <1>2, <2>1, <2>2, QuietInStep
  <2>4. short_run' = short_run /\ wkc' = wkc
    BY <1>2 DEF runs, watch, RtJudge, RtFinish
  <2>5. InStep(short_run, WarmupCycles)'
    BY <2>2, <2>3, <2>4 DEF InStep, Judged, Counted
  <2> QED
    BY <2>4, <2>5 DEF ShortInv, IsShort
<1> QED
  BY <1>1, <1>2, WatchCases DEF watch

\* Slaves out of OP are seen at the next state check and counted from then on.
LEMMA LostStep ==
    ASSUME TypeOK, LostInv, [WatchNext]_<<vars, runs>>
    PROVE  LostInv'
<1>0. /\ lost_run \in Nat /\ lost_run <= LateState + FailThreshold
      /\ WarmupCycles <= LateState /\ LateState \in Nat
      /\ InStep(lost_run, LateState)
  BY Latencies DEF LostInv
<1>1. ASSUME NEW w \in 0 .. ExpectedWkc, NEW op \in BOOLEAN,
             NEW f \in InValues, WatchedExchange(w, op, f)
      PROVE  LostInv'
  <2> DEFINE m == Run(lost_run, ~op, LostLatency)
  <2>1. /\ rt_pc = "exchange" /\ rt_pc' = "copy_in"
        /\ UNCHANGED <<dowkccheck, cycle_count>>
        /\ lost_run' = m
    BY <1>1 DEF WatchedExchange, RtExchange
  <2>2. /\ m \in 0 .. LostLatency /\ m <= lost_run + 1
        /\ m > 0 => ~op
    BY RunRange, Latencies DEF LostInv
  <2>3. PICK k \in Nat : k = m
    BY <2>2, Latencies
  <2>4. PICK late \in Nat : late = LateState
    BY <1>0
  <2>5. InStep(k, late)'
    BY <1>0, <2>1, <2>2, <2>3, <2>4, ExchangeInStep
  <2>6. InStep(lost_run, LateState)'
    BY <2>1, <2>3, <2>4, <2>5 DEF InStep, Judged, Counted, LateState, LostLatency
  <2>7. (lost_run > state_check_ctr => ec_state # "op")'
    <3>1. CASE StateCheckDue(state_check_ctr + 1)
      BY <1>1, <2>1, <2>2, <3>1 DEF WatchedExchange, RtExchange
    <3>2. CASE ~StateCheckDue(state_check_ctr + 1)
      <4>1. state_check_ctr' = state_check_ctr + 1 /\ ec_state' = ec_state
        BY <1>1, <3>2 DEF WatchedExchange, RtExchange
      <4> QED
        BY <1>0, <2>1, <2>2, <4>1, WatchTypes, Latencies DEF LostInv
    <3> QED
      BY <3>1, <3>2
  <2> QED
    BY <2>1, <2>2, <2>6, <2>7 DEF LostInv, LostLatency
<1>2. CASE UNCHANGED runs /\ (RtJudge \/ RtFinish \/ (UNCHANGED watch /\ SamePlace))
  <2>1. cycle_count >= WarmupCycles /\ lost_run > LateState => BadCycle
    BY <1>0, WatchTypes, Latencies DEF LostInv, BadCycle
  <2>2. PICK n \in Nat, late \in Nat : n = lost_run /\ late = LateState
    BY <1>0
  <2>3. InStep(n, late)'
    BY <1>0, <1>2, <2>1, <2>2, QuietInStep
  <2>4. lost_run' = lost_run /\ ec_state' = ec_state
        /\ state_check_ctr' = state_check_ctr
    BY <1>2 DEF runs, watch, RtJudge, RtFinish
  <2>5. InStep(lost_run, LateState)'
    BY <2>2, <2>3, <2>4 DEF InStep, Judged, Counted, LateState, LostLatency
  <2> QED
    BY <2>4, <2>5 DEF LostInv, LostLatency
<1> QED
  BY <1>1, <1>2, WatchCases DEF watch

\* Once the bus has been good for a state-check period, every verdict is good.
LEMMA GoodStep ==
    ASSUME TypeOK, GoodInv, [WatchNext]_<<vars, runs>>
    PROVE  GoodInv'
<1>1. ASSUME NEW w \in 0 .. ExpectedWkc, NEW op \in BOOLEAN,
             NEW f \in InValues, WatchedExchange(w, op, f)
      PROVE  GoodInv'
  <2> DEFINE short == ExpectedWkc > 0 /\ w < ExpectedWkc
             m == Run(good_run, ~short /\ op, StatePeriod)
  <2>1. /\ rt_pc = "exchange" /\ rt_pc' = "copy_in" /\ wkc' = w
        /\ good_run' = m
    BY <1>1 DEF WatchedExchange, RtExchange
  <2>2. /\ m \in 0 .. StatePeriod /\ m <= good_run + 1
        /\ m > 0 => ~short /\ op
    BY RunRange DEF GoodInv
  <2>3. (good_run > 0 => ~IsShort)'
    BY <2>1, <2>2 DEF IsShort
  <2>4. (good_run > state_check_ctr => ec_state = "op")'
    <3>1. CASE StateCheckDue(state_check_ctr + 1)
      BY <1>1, <2>1, <2>2, <3>1 DEF WatchedExchange, RtExchange
    <3>2. CASE ~StateCheckDue(state_check_ctr + 1)
      <4>1. state_check_ctr' = state_check_ctr + 1 /\ ec_state' = ec_state
        BY <1>1, <3>2 DEF WatchedExchange, RtExchange
      <4> QED
        BY <2>1, <2>2, <4>1, WatchTypes DEF GoodInv
    <3> QED
      BY <3>1, <3>2
  <2> QED
    BY <2>1, <2>2, <2>3, <2>4 DEF GoodInv, Judged, Counted
<1>2. CASE RtJudge /\ UNCHANGED runs
  <2>1. /\ rt_pc' \in {"zero_0", "finish"} /\ good_run' = good_run
        /\ wkc' = wkc /\ ec_state' = ec_state
        /\ state_check_ctr' = state_check_ctr
    BY <1>2 DEF RtJudge, runs
  <2>2. good_run >= StatePeriod => ~BadCycle
    BY WatchTypes DEF GoodInv, BadCycle, IsShort
  <2>3. good_run >= StatePeriod => dowkccheck' = 0
    BY <1>2, <2>2, Latencies DEF RtJudge, BadCount, Saturate
  <2> QED
    BY <2>1, <2>3 DEF GoodInv, IsShort, Judged, Counted
<1>3. CASE RtFinish /\ UNCHANGED runs
  <2>1. /\ rt_pc = "finish" /\ rt_pc' = "load" /\ good_run' = good_run
        /\ wkc' = wkc /\ ec_state' = ec_state
        /\ state_check_ctr' = state_check_ctr /\ dowkccheck' = dowkccheck
        /\ in_op' = (ec_state = "op" /\ dowkccheck < WarnThreshold)
    BY <1>3 DEF RtFinish, runs
  <2>2. good_run >= StatePeriod => ec_state = "op" /\ dowkccheck = 0
    BY <2>1, WatchTypes DEF GoodInv, Judged
  <2>3. ASSUME good_run >= StatePeriod PROVE in_op'
    <3>1. ec_state = "op" /\ dowkccheck < WarnThreshold
      BY <2>2, <2>3
    <3> QED
      BY <2>1, <3>1, Zenon
  <2> QED
    BY <2>1, <2>2, <2>3 DEF GoodInv, IsShort, Judged, Counted
<1>4. CASE UNCHANGED watch /\ SamePlace
  BY <1>4 DEF watch, runs, SamePlace, GoodInv, IsShort
<1> QED
  BY <1>1, <1>2, <1>3, <1>4, WatchCases

\* A count that reaches the threshold is latched at once, and in_op is the
\* verdict of the latest cycle.
LEMMA LatchStep ==
    ASSUME TypeOK, LatchInv, [WatchNext]_<<vars, runs>>
    PROVE  LatchInv'
<1>1. ASSUME NEW w \in 0 .. ExpectedWkc, NEW op \in BOOLEAN,
             NEW f \in InValues, WatchedExchange(w, op, f)
      PROVE  LatchInv'
  BY <1>1 DEF WatchedExchange, RtExchange, LatchInv
<1>2. CASE RtJudge /\ UNCHANGED runs
  BY <1>2 DEF RtJudge, MustLatch, LatchInv
<1>3. CASE RtFinish /\ UNCHANGED runs
  BY <1>3 DEF RtFinish, LatchInv
<1>4. CASE UNCHANGED watch /\ SamePlace
  BY <1>4 DEF watch, SamePlace, LatchInv
<1> QED
  BY <1>1, <1>2, <1>3, <1>4, WatchCases

\* The watchdog of ethercat_rt_thread, for every threshold, warm-up and
\* state-check period: a watched run is a run of the process image, and what
\* the run lengths say of the thread's counters is inductive.
THEOREM WatchCorrect == WatchSpec => [](TypeOK /\ WatchInv)
<1>1. WatchSpec => Spec
  <2>1. WatchInit => Init
    BY DEF WatchInit
  <2>2. [WatchNext]_<<vars, runs>> => [Next]_vars
    <3> SUFFICES ASSUME WatchNext PROVE Next
      OBVIOUS
    <3>1. CASE (RtQuiet \/ Plc) /\ UNCHANGED runs
      BY <3>1 DEF Next
    <3>2. ASSUME NEW w \in 0 .. ExpectedWkc, NEW op \in BOOLEAN,
                 NEW f \in InValues, WatchedExchange(w, op, f)
          PROVE  Next
      BY <3>2 DEF WatchedExchange, Next, RtBus
    <3> QED
      BY <3>1, <3>2 DEF WatchNext
  <2> QED
    BY <2>1, <2>2, PTL DEF WatchSpec, Spec
<1>2. WatchInit => WatchInv
  BY Latencies DEF WatchInit, Init, WatchInv, ShortInv, LostInv, GoodInv,
     LatchInv, InStep, Judged, Counted, IsShort
<1>3. TypeOK /\ WatchInv /\ [WatchNext]_<<vars, runs>> => WatchInv'
  BY ShortStep, LostStep, GoodStep, LatchStep DEF WatchInv
<1> QED
  BY <1>1, <1>2, <1>3, ImageTypes, PTL DEF WatchSpec

\* A lasting short working counter is latched within warmup_cycles plus
\* wkc_fail_threshold cycles (ethercat_rt_thread).
THEOREM ShortFramesAreCut == WatchSpec => []ShortFramesLatch
<1>1. TypeOK /\ WatchInv => ShortFramesLatch
  BY WatchTypes, Latencies
     DEF WatchInv, ShortInv, LatchInv, InStep, Judged, Counted, ShortFramesLatch
<1> QED
  BY <1>1, WatchCorrect, PTL

\* Slaves that stay out of OP are latched although their state is read once in
\* state_check_period_cycles (ethercat_rt_thread).
THEOREM LostSlavesAreCut == WatchSpec => []LostSlavesLatch
<1>1. TypeOK /\ WatchInv => LostSlavesLatch
  BY WatchTypes, Latencies
     DEF WatchInv, LostInv, LatchInv, InStep, Judged, Counted, LostSlavesLatch
<1> QED
  BY <1>1, WatchCorrect, PTL

\* A bus that has been good for one state-check period is reported operational
\* again by ethercat_get_status.
THEOREM GoodBusRecovers == WatchSpec => []GoodBusIsOperational
<1>1. TypeOK /\ WatchInv => GoodBusIsOperational
  BY DEF WatchInv, GoodInv, Judged, Counted, GoodBusIsOperational
<1> QED
  BY <1>1, WatchCorrect, PTL

\* With wkc_warn_threshold below wkc_fail_threshold, as in config_static.c (2 and
\* 10), no fault is latched while in_op is still true.
THEOREM PlcIsWarned ==
    ASSUME WarnThreshold < FailThreshold
    PROVE  WatchSpec => WarnedBeforeLatch
<1>1. TypeOK /\ WatchInv /\ [WatchNext]_<<vars, runs>> =>
        [~fault_latched /\ fault_latched' => ~in_op]_vars
  <2> SUFFICES ASSUME TypeOK, WatchInv, [WatchNext]_<<vars, runs>>,
                      ~fault_latched, fault_latched'
               PROVE  ~in_op
    OBVIOUS
  <2>1. RtJudge
    BY WatchCases DEF WatchedExchange, RtExchange, RtFinish, watch
  <2>2. rt_pc = "judge" /\ MustLatch(dowkccheck')
    BY <2>1 DEF RtJudge
  <2>3. dowkccheck' <= dowkccheck + 1
    BY <2>1, WatchTypes, Latencies DEF RtJudge, Saturate, BadCount
  <2>4. dowkccheck' \in Nat
    BY <2>1, WatchTypes, Latencies DEF RtJudge, Saturate, BadCount
  <2>5. dowkccheck >= WarnThreshold
    BY <2>2, <2>3, <2>4, WatchTypes DEF MustLatch
  <2> QED
    BY <2>2, <2>5, WatchTypes DEF WatchInv, LatchInv
<1> QED
  BY <1>1, WatchCorrect, PTL DEF WatchSpec, WarnedBeforeLatch
==============================================================================
