------------------------ MODULE SchedPending_proofs ------------------------
(***************************************************************************)
(* Adding tasks to the scheduler (core/plc/plc_scheduler.c) is right for   *)
(* any number of producers, calls, slots and table entries, and for a      *)
(* start and a stop at any moment: the multi-producer queue is safe, and   *)
(* on top of it no task that was accepted is lost or added twice, and each *)
(* thread's tasks stay in the order of its calls.                          *)
(***************************************************************************)
EXTENDS SchedPending, SequenceTheorems, TLAPS

USE SizeAssumption

ProducerStep == {"idle", "direct", "room", "store", "count", "load_read",
                 "load_write", "cas", "fill", "ready"}
DrainStep == {"none", "idle", "check", "copy", "clear", "advance", "add",
              "store", "count", "exited"}

QueueTypes == /\ pending_write \in Nat /\ pending_read \in Nat
              /\ pending_ready \in [Slot -> BOOLEAN]
              /\ p_pc \in [Producers -> ProducerStep]
              /\ p_read \in [Producers -> Nat] /\ p_write \in [Producers -> Nat]
              /\ c_pc \in DrainStep /\ c_read \in Nat /\ c_write \in Nat

\* At most Slots entries are claimed and not yet taken.
Window == /\ pending_read <= pending_write
          /\ pending_write <= pending_read + Slots

\* What a producer read of pending_read is old but safe: a claim that its
\* compare-and-swap grants keeps the window.
ClaimSafe == \A p \in Producers :
    /\ p_read[p] <= pending_read
    /\ p_pc[p] = "cas" => p_write[p] < p_read[p] + Slots

\* A claimed slot is in the window, its flag is down and nobody else claims it.
ClaimHeld == \A p \in Producers : Filling(p) =>
    /\ pending_read <= p_write[p] /\ p_write[p] < pending_write
    /\ ~pending_ready[SlotOf(p_write[p])]
    /\ \A q \in Producers \ {p} : Filling(q) => p_write[p] # p_write[q]

\* The drain knows pending_read, and takes a slot with its flag up, which it
\* lowers before it gives the slot back.
DrainKnows ==
    /\ c_pc \notin {"none", "idle", "exited"} =>
           c_read = pending_read /\ c_write <= pending_write
    /\ c_pc \in {"copy", "clear", "advance"} => c_read < c_write
    /\ c_pc \in {"copy", "clear"} => pending_ready[SlotOf(c_read)]
    /\ c_pc = "advance" => /\ ~pending_ready[SlotOf(c_read)]
                           /\ \A p \in Producers :
                                 Filling(p) => p_write[p] # c_read

\* The slots that can be claimed next have their flags down.
FreeLowered == \A i \in Nat :
    pending_write <= i /\ i < pending_read + Slots => ~pending_ready[SlotOf(i)]

QueueInv == /\ QueueTypes /\ Window /\ ClaimSafe /\ ClaimHeld /\ DrainKnows
            /\ FreeLowered
-----------------------------------------------------------------------------
\* The remainder is what is left of whole laps.
LEMMA Remainder ==
    ASSUME NEW n \in Nat \ {0}, NEW x \in Nat
    PROVE  \E p \in Int, r \in 0 .. n - 1 : r = x % n /\ x = n * p + r
<1>1. /\ x % n \in 0 .. n - 1 /\ x \div n \in Int
      /\ x = n * (x \div n) + (x % n)
  BY SMT
<1> QED BY <1>1

\* Two indices less than n apart have different remainders.
LEMMA NearbyModDiffer ==
    ASSUME NEW n \in Nat \ {0}, NEW x \in Nat, NEW y \in Nat, x > y, x - y < n
    PROVE  x % n # y % n
<1> SUFFICES ASSUME x % n = y % n PROVE FALSE
  OBVIOUS
<1>1. PICK p \in Int, r \in 0 .. n - 1 : r = x % n /\ x = n * p + r
  BY Remainder
<1>2. PICK q \in Int, s \in 0 .. n - 1 : s = y % n /\ y = n * q + s
  BY Remainder
<1>3. PICK d \in Int : d = p - q /\ x - y = n * d
  BY <1>1, <1>2, SMT
<1> QED BY <1>3, SMT

\* An index has a slot.
LEMMA SlotFacts == ASSUME NEW i \in Nat PROVE SlotOf(i) \in Slot
  BY Remainder DEF SlotOf, Slot

\* Entries of one lap have slots of their own.
LEMMA SlotsDiffer ==
    ASSUME NEW a \in Nat, NEW b \in Nat, a # b, a < b + Slots, b < a + Slots
    PROVE  SlotOf(a) # SlotOf(b)
<1>1. CASE a > b
  <2>1. a - b < Slots
    BY SMT
  <2> QED BY <1>1, <2>1, NearbyModDiffer DEF SlotOf
<1>2. CASE b > a
  <2>1. b - a < Slots
    BY SMT
  <2> QED BY <1>2, <2>1, NearbyModDiffer DEF SlotOf
<1> QED BY <1>1, <1>2, SMT

\* The slot that is given back is the next lap's.
LEMMA NextLap == ASSUME NEW i \in Nat PROVE SlotOf(i + Slots) = SlotOf(i)
<1>1. PICK p \in Int, r \in 0 .. Slots - 1 : r = i % Slots /\ i = Slots * p + r
  BY Remainder
<1>2. PICK y \in Nat : y = i + Slots
  OBVIOUS
<1>3. PICK q \in Int, s \in 0 .. Slots - 1 : s = y % Slots /\ y = Slots * q + s
  BY Remainder
<1>4. PICK d \in Int : d = p + 1 - q /\ Slots * d = s - r
  BY <1>1, <1>2, <1>3, SMT
<1>5. d = 0
  BY <1>4, SMT
<1>6. s = r
  BY <1>4, <1>5, SMT
<1> QED BY <1>1, <1>2, <1>3, <1>6 DEF SlotOf
-----------------------------------------------------------------------------
\* Steps that move neither the queue nor what a thread knows of it.
LEMMA Aside ==
    ASSUME QueueInv, UNCHANGED <<queue, p_read, p_write, c_read, c_write>>,
           p_pc' \in [Producers -> ProducerStep],
           \A p \in Producers : Filling(p)' => Filling(p),
           \A p \in Producers : p_pc'[p] = "cas" => p_pc[p] = "cas",
           \/ c_pc' = c_pc
           \/ /\ c_pc' \in DrainStep \ {"copy", "clear", "advance"}
              /\ c_pc' \notin {"none", "idle", "exited"} =>
                     c_pc \notin {"none", "idle", "exited"}
    PROVE  QueueInv'
<1>0. UNCHANGED <<pending_write, pending_read, pending_ready,
                  p_read, p_write, c_read, c_write>>
  BY DEF queue
<1> USE DEF QueueInv
<1>1. QueueTypes'
  BY <1>0 DEF QueueTypes, DrainStep
<1>2. Window' /\ FreeLowered'
  BY <1>0 DEF Window, FreeLowered
<1>3. ClaimSafe'
  BY <1>0 DEF ClaimSafe
<1>4. ClaimHeld'
  BY <1>0 DEF ClaimHeld
<1>5. DrainKnows'
  BY <1>0 DEF DrainKnows
<1> QED BY <1>1, <1>2, <1>3, <1>4, <1>5

\* The queue starts empty.
LEMMA InitQueue == Init => QueueInv
<1> SUFFICES ASSUME Init PROVE QueueInv
  OBVIOUS
<1>1. QueueTypes
  BY SMT DEF Init, QueueTypes, ProducerStep, DrainStep
<1>2. Window /\ ClaimSafe /\ ClaimHeld /\ DrainKnows
  BY SMT DEF Init, Window, ClaimSafe, ClaimHeld, DrainKnows, Filling
<1>3. FreeLowered
  BY SlotFacts DEF Init, FreeLowered
<1> QED BY <1>1, <1>2, <1>3 DEF QueueInv

\* Init, start and stop leave the queue alone.
LEMMA MainKeepsQueue == QueueInv /\ Main => QueueInv'
<1> SUFFICES ASSUME QueueInv, Main PROVE QueueInv'
  OBVIOUS
<1>1. /\ UNCHANGED <<queue, p_read, p_write, c_read, c_write, p_pc>>
      /\ c_pc' = c_pc \/ c_pc' \in {"none", "idle"}
  BY DEF Main, Start, CreateThread, Stop, pvars, cvars
<1>2. \A p \in Producers : Filling(p)' => Filling(p)
  BY <1>1 DEF Filling
<1>3. p_pc' \in [Producers -> ProducerStep]
  BY <1>1 DEF QueueInv, QueueTypes
<1>4. {"none", "idle"} \subseteq DrainStep
  BY DEF DrainStep
<1> QED BY <1>1, <1>2, <1>3, <1>4, Aside

\* plc_scheduler_drain_pending.
LEMMA DrainKeepsQueue == QueueInv /\ Drain => QueueInv'
<1> SUFFICES ASSUME QueueInv, Drain PROVE QueueInv'
  OBVIOUS
<1> USE DEF QueueInv
<1>0. QueueTypes /\ Slots \in Nat \ {0}
  OBVIOUS
<1>1. CASE DrainBegin
  <2>1. /\ UNCHANGED <<pending_write, pending_read, pending_ready,
                       p_read, p_write, p_pc>>
        /\ c_read' = pending_read /\ c_write' = pending_write
        /\ c_pc' = "check"
    BY <1>1 DEF DrainBegin, queue, pvars
  <2>2. QueueTypes'
    BY <1>0, <2>1 DEF QueueTypes, DrainStep
  <2>3. Window' /\ FreeLowered' /\ ClaimSafe'
    BY <2>1 DEF Window, FreeLowered, ClaimSafe
  <2>4. ClaimHeld'
    BY <2>1 DEF ClaimHeld, Filling
  <2>5. DrainKnows'
    BY <1>0, <2>1, SMT DEF DrainKnows, QueueTypes
  <2> QED BY <2>2, <2>3, <2>4, <2>5
<1>2. CASE DrainCheck
  <2>1. /\ UNCHANGED <<queue, p_read, p_write, c_read, c_write, p_pc>>
        /\ c_pc = "check"
    BY <1>2 DEF DrainCheck, pvars
  <2>2. p_pc' \in [Producers -> ProducerStep]
    BY <1>0, <2>1 DEF QueueTypes
  <2>3. \A p \in Producers : Filling(p)' => Filling(p)
    BY <2>1 DEF Filling
  <2>4. CASE c_read < c_write /\ SlotReady
    <3>1. c_pc' = "copy"
      BY <1>2, <2>4 DEF DrainCheck
    <3>2. UNCHANGED <<pending_write, pending_read, pending_ready>>
      BY <2>1 DEF queue
    <3>3. QueueTypes'
      BY <1>0, <2>1, <3>1, <3>2 DEF QueueTypes, DrainStep
    <3>4. Window' /\ FreeLowered' /\ ClaimSafe'
      BY <2>1, <3>2 DEF Window, FreeLowered, ClaimSafe
    <3>5. ClaimHeld'
      BY <2>1, <3>2 DEF ClaimHeld, Filling
    <3>6. DrainKnows'
      BY <2>1, <2>4, <3>1, <3>2 DEF DrainKnows, SlotReady
    <3> QED BY <3>3, <3>4, <3>5, <3>6
  <2>5. CASE ~(c_read < c_write /\ SlotReady)
    <3>1. c_pc' = "idle"
      BY <1>2, <2>5 DEF DrainCheck
    <3> QED BY <2>1, <2>2, <2>3, <3>1, Aside DEF DrainStep
  <2> QED BY <2>4, <2>5
<1>3. CASE DrainCopy
  <2>1. /\ UNCHANGED <<pending_write, pending_read, pending_ready,
                       p_read, p_write, p_pc, c_read, c_write>>
        /\ c_pc = "copy" /\ c_pc' = "clear"
    BY <1>3 DEF DrainCopy, queue, pvars
  <2>2. QueueTypes'
    BY <1>0, <2>1 DEF QueueTypes, DrainStep
  <2>3. Window' /\ FreeLowered' /\ ClaimSafe'
    BY <2>1 DEF Window, FreeLowered, ClaimSafe
  <2>4. ClaimHeld'
    BY <2>1 DEF ClaimHeld, Filling
  <2>5. DrainKnows'
    BY <2>1 DEF DrainKnows
  <2> QED BY <2>2, <2>3, <2>4, <2>5
<1>4. CASE DrainClear
  <2>1. /\ UNCHANGED <<pending_write, pending_read, p_read, p_write, p_pc,
                       c_read, c_write>>
        /\ c_pc = "clear" /\ c_pc' = "advance"
        /\ pending_ready' = [pending_ready EXCEPT ![SlotOf(c_read)] = FALSE]
    BY <1>4 DEF DrainClear, pvars
  <2>2. SlotOf(c_read) \in Slot
    BY <1>0, SlotFacts DEF QueueTypes
  <2>3. QueueTypes'
    BY <1>0, <2>1 DEF QueueTypes, DrainStep
  <2>4. /\ ~pending_ready'[SlotOf(c_read)]
        /\ \A s \in Slot : ~pending_ready[s] => ~pending_ready'[s]
    BY <1>0, <2>1, <2>2 DEF QueueTypes
  <2>5. Window' /\ ClaimSafe'
    BY <2>1 DEF Window, ClaimSafe
  <2>6. FreeLowered'
    BY <2>1, <2>4, SlotFacts DEF FreeLowered
  <2>7. ClaimHeld'
    BY <1>0, <2>1, <2>4, SlotFacts DEF ClaimHeld, Filling, QueueTypes
  <2>8. \A p \in Producers : Filling(p) => p_write[p] # c_read
    BY <2>1 DEF ClaimHeld, DrainKnows
  <2>9. DrainKnows'
    BY <2>1, <2>4, <2>8 DEF DrainKnows, Filling
  <2> QED BY <2>3, <2>5, <2>6, <2>7, <2>9
<1>5. CASE DrainAdvance
  <2>1. /\ UNCHANGED <<pending_write, pending_ready, p_read, p_write, p_pc,
                       c_write>>
        /\ c_pc = "advance" /\ c_pc' = "add"
        /\ pending_read' = c_read + 1 /\ c_read' = c_read + 1
    BY <1>5 DEF DrainAdvance, pvars
  <2>2. /\ c_read = pending_read /\ c_read < c_write /\ c_write <= pending_write
        /\ ~pending_ready[SlotOf(c_read)]
        /\ \A p \in Producers : Filling(p) => p_write[p] # c_read
    BY <2>1 DEF DrainKnows
  <2>3. QueueTypes'
    BY <1>0, <2>1, SMT DEF QueueTypes, DrainStep
  <2>4. Window'
    BY <1>0, <2>1, <2>2, SMT DEF Window, QueueTypes
  <2>5. ClaimSafe'
    <3> SUFFICES ASSUME NEW p \in Producers
                 PROVE  /\ p_read[p] <= c_read + 1
                        /\ p_pc[p] = "cas" => p_write[p] < p_read[p] + Slots
      BY <2>1 DEF ClaimSafe
    <3> QED BY <1>0, <2>2, SMT DEF ClaimSafe, QueueTypes
  <2>6. ClaimHeld'
    <3>1. ASSUME NEW p \in Producers, Filling(p) PROVE pending_read' <= p_write[p]
      BY <1>0, <2>1, <2>2, <3>1, SMT DEF ClaimHeld, QueueTypes
    <3> QED BY <2>1, <3>1 DEF ClaimHeld, Filling
  <2>7. FreeLowered'
    <3> SUFFICES ASSUME NEW i \in Nat, pending_write <= i,
                        i < c_read + 1 + Slots
                 PROVE  ~pending_ready[SlotOf(i)]
      BY <2>1 DEF FreeLowered
    <3>1. CASE i < pending_read + Slots
      BY <3>1 DEF FreeLowered
    <3>2. CASE i = c_read + Slots
      BY <1>0, <2>2, <3>2, NextLap DEF QueueTypes
    <3> QED BY <1>0, <2>2, <3>1, <3>2, SMT DEF QueueTypes
  <2>8. DrainKnows'
    BY <2>1, <2>2 DEF DrainKnows
  <2> QED BY <2>3, <2>4, <2>5, <2>6, <2>7, <2>8
<1>6. CASE DrainRoom \/ DrainStore \/ DrainCount \/ ThreadExit
  <2>1. /\ UNCHANGED <<queue, p_read, p_write, c_read, c_write, p_pc>>
        /\ \/ c_pc \in {"add", "store", "count"}
              /\ c_pc' \in {"store", "count", "check"}
           \/ c_pc' = "exited"
    BY <1>6 DEF DrainRoom, DrainStore, DrainCount, ThreadExit, pvars
  <2>2. p_pc' \in [Producers -> ProducerStep]
    BY <1>0, <2>1 DEF QueueTypes
  <2>3. \A p \in Producers : Filling(p)' => Filling(p)
    BY <2>1 DEF Filling
  <2> QED BY <2>1, <2>2, <2>3, Aside DEF DrainStep
<1> QED BY <1>1, <1>2, <1>3, <1>4, <1>5, <1>6 DEF Drain

\* plc_scheduler_queue_task.
LEMMA ProduceKeepsQueue ==
    ASSUME QueueInv, NEW p \in Producers, Produce(p)
    PROVE  QueueInv'
<1> USE DEF QueueInv
<1>0. QueueTypes /\ Slots \in Nat \ {0}
  OBVIOUS
<1>1. CASE \/ AddRuntime(p) \/ AddDirect(p)
           \/ DirectRoom(p) \/ DirectStore(p) \/ DirectCount(p)
  <2>1. /\ UNCHANGED <<queue, p_read, p_write, c_read, c_write, c_pc>>
        /\ \E step \in {"idle", "direct", "room", "store", "count", "load_read"} :
               p_pc' = [p_pc EXCEPT ![p] = step]
    BY <1>1 DEF AddRuntime, AddDirect, DirectRoom, DirectStore, DirectCount, cvars
  <2>2. p_pc' \in [Producers -> ProducerStep]
    BY <1>0, <2>1 DEF QueueTypes, ProducerStep
  <2>3. /\ \A q \in Producers : Filling(q)' => Filling(q)
        /\ \A q \in Producers : p_pc'[q] = "cas" => p_pc[q] = "cas"
    BY <1>0, <2>1 DEF QueueTypes, Filling
  <2> QED BY <2>1, <2>2, <2>3, Aside
<1>2. CASE QueueLoadRead(p)
  <2>1. /\ UNCHANGED <<pending_write, pending_read, pending_ready, p_write,
                       c_read, c_write, c_pc>>
        /\ p_pc' = [p_pc EXCEPT ![p] = "load_write"]
        /\ p_read' = [p_read EXCEPT ![p] = pending_read]
    BY <1>2 DEF QueueLoadRead, queue, cvars
  <2>2. QueueTypes'
    BY <1>0, <2>1 DEF QueueTypes, ProducerStep
  <2>3. \A q \in Producers : Filling(q)' => Filling(q)
    BY <1>0, <2>1 DEF QueueTypes, Filling
  <2>4. ClaimSafe'
    BY <1>0, <2>1, SMT DEF ClaimSafe, QueueTypes
  <2>5. Window' /\ FreeLowered'
    BY <2>1 DEF Window, FreeLowered
  <2>6. ClaimHeld'
    BY <2>1, <2>3 DEF ClaimHeld
  <2>7. DrainKnows'
    BY <2>1, <2>3 DEF DrainKnows
  <2> QED BY <2>2, <2>4, <2>5, <2>6, <2>7
<1>3. CASE QueueLoadWrite(p)
  <2>1. /\ UNCHANGED <<pending_write, pending_read, pending_ready, p_read,
                       c_read, c_write, c_pc>>
        /\ p_pc[p] = "load_write"
        /\ p_pc' = [p_pc EXCEPT ![p] =
                       IF QueueFull(pending_write, p_read[p]) THEN "idle" ELSE "cas"]
        /\ p_write' = [p_write EXCEPT ![p] = pending_write]
    BY <1>3 DEF QueueLoadWrite, queue, cvars
  <2>2. QueueTypes'
    BY <1>0, <2>1 DEF QueueTypes, ProducerStep
  <2>3. \A q \in Producers : Filling(q)' => Filling(q) /\ q # p
    BY <1>0, <2>1 DEF QueueTypes, Filling
  <2>4. \A q \in Producers \ {p} : p_write'[q] = p_write[q] /\ p_pc'[q] = p_pc[q]
    BY <1>0, <2>1 DEF QueueTypes
  <2>5. ClaimSafe'
    <3>1. p_pc'[p] = "cas" => p_write'[p] < p_read'[p] + Slots
      BY <1>0, <2>1, SMT DEF QueueTypes, QueueFull
    <3> QED BY <2>1, <2>4, <3>1 DEF ClaimSafe
  <2>6. Window' /\ FreeLowered'
    BY <2>1 DEF Window, FreeLowered
  <2>7. ClaimHeld'
    BY <2>1, <2>3, <2>4 DEF ClaimHeld
  <2>8. DrainKnows'
    BY <2>1, <2>3, <2>4 DEF DrainKnows
  <2> QED BY <2>2, <2>5, <2>6, <2>7, <2>8
<1>4. CASE QueueClaim(p) /\ ~Claimed(p)
  <2>1. /\ UNCHANGED <<queue, p_read, p_write, c_read, c_write, c_pc>>
        /\ p_pc' = [p_pc EXCEPT ![p] = "load_read"]
    BY <1>4 DEF QueueClaim, queue, cvars
  <2>2. p_pc' \in [Producers -> ProducerStep]
    BY <1>0, <2>1 DEF QueueTypes, ProducerStep
  <2>3. /\ \A q \in Producers : Filling(q)' => Filling(q)
        /\ \A q \in Producers : p_pc'[q] = "cas" => p_pc[q] = "cas"
    BY <1>0, <2>1 DEF QueueTypes, Filling
  <2> QED BY <2>1, <2>2, <2>3, Aside
<1>5. CASE QueueClaim(p) /\ Claimed(p)
  <2>1. /\ UNCHANGED <<pending_read, pending_ready, p_read, p_write,
                       c_read, c_write, c_pc>>
        /\ p_pc[p] = "cas" /\ p_pc' = [p_pc EXCEPT ![p] = "fill"]
        /\ pending_write = p_write[p] /\ pending_write' = pending_write + 1
    BY <1>5 DEF QueueClaim, Claimed, cvars
  <2>2. QueueTypes'
    BY <1>0, <2>1 DEF QueueTypes, ProducerStep
  <2>3. p_write[p] < pending_read + Slots
    BY <1>0, <2>1, SMT DEF ClaimSafe, QueueTypes
  <2>4. /\ \A q \in Producers \ {p} : /\ Filling(q)' <=> Filling(q)
                                      /\ p_pc'[q] = p_pc[q]
        /\ p_pc'[p] = "fill"
    BY <1>0, <2>1 DEF QueueTypes, Filling
  <2>5. Window' /\ FreeLowered'
    BY <1>0, <2>1, <2>3, SMT DEF Window, FreeLowered, QueueTypes
  <2>6. ClaimSafe'
    BY <2>1, <2>4 DEF ClaimSafe
  <2>7. pending_read <= p_write[p] /\ ~pending_ready[SlotOf(p_write[p])]
    BY <1>0, <2>1, <2>3, SMT DEF Window, FreeLowered, QueueTypes
  <2>8. \A q \in Producers \ {p} : Filling(q) =>
            /\ p_write[q] < pending_write' /\ p_write[q] # p_write[p]
    BY <1>0, <2>1, SMT DEF ClaimHeld, QueueTypes
  <2>9. p_write[p] < pending_write'
    BY <1>0, <2>1, SMT DEF QueueTypes
  <2>10. ClaimHeld'
    BY <2>1, <2>4, <2>7, <2>8, <2>9 DEF ClaimHeld
  <2>11. c_pc = "advance" => p_write[p] # c_read
    BY <1>0, <2>1, SMT DEF DrainKnows, QueueTypes
  <2>12. c_pc \notin {"none", "idle", "exited"} => c_write <= pending_write'
    BY <1>0, <2>1, SMT DEF DrainKnows, QueueTypes
  <2>13. DrainKnows'
    BY <2>1, <2>4, <2>11, <2>12 DEF DrainKnows
  <2> QED BY <2>2, <2>5, <2>6, <2>10, <2>13
<1>6. CASE QueueFill(p)
  <2>1. /\ UNCHANGED <<pending_write, pending_read, pending_ready, p_read,
                       p_write, c_read, c_write, c_pc>>
        /\ p_pc[p] = "fill" /\ p_pc' = [p_pc EXCEPT ![p] = "ready"]
    BY <1>6 DEF QueueFill, cvars
  <2>2. QueueTypes'
    BY <1>0, <2>1 DEF QueueTypes, ProducerStep
  <2>3. /\ \A q \in Producers : Filling(q)' <=> Filling(q)
        /\ \A q \in Producers : p_pc'[q] = "cas" => p_pc[q] = "cas"
    BY <1>0, <2>1 DEF QueueTypes, Filling
  <2>4. Window' /\ FreeLowered' /\ ClaimSafe'
    BY <2>1, <2>3 DEF Window, FreeLowered, ClaimSafe
  <2>5. ClaimHeld' /\ DrainKnows'
    BY <2>1, <2>3 DEF ClaimHeld, DrainKnows
  <2> QED BY <2>2, <2>4, <2>5
<1>7. CASE QueueReady(p)
  <2>1. /\ UNCHANGED <<pending_write, pending_read, p_read, p_write,
                       c_read, c_write, c_pc>>
        /\ p_pc[p] = "ready" /\ p_pc' = [p_pc EXCEPT ![p] = "idle"]
        /\ pending_ready' = [pending_ready EXCEPT ![SlotOf(p_write[p])] = TRUE]
    BY <1>7 DEF QueueReady, cvars
  <2>2. /\ pending_read <= p_write[p] /\ p_write[p] < pending_write
        /\ p_write[p] \in Nat /\ SlotOf(p_write[p]) \in Slot
        /\ ~pending_ready[SlotOf(p_write[p])]
    BY <1>0, <2>1, SlotFacts DEF ClaimHeld, Filling, QueueTypes
  <2>3. QueueTypes'
    BY <1>0, <2>1 DEF QueueTypes, ProducerStep
  <2>4. /\ \A q \in Producers : Filling(q)' => Filling(q) /\ q # p
        /\ \A q \in Producers : p_pc'[q] = "cas" => p_pc[q] = "cas"
    BY <1>0, <2>1 DEF QueueTypes, Filling
  <2>5. \A s \in Slot : /\ s # SlotOf(p_write[p]) => pending_ready'[s] = pending_ready[s]
                        /\ pending_ready[s] => pending_ready'[s]
    BY <1>0, <2>1, <2>2 DEF QueueTypes
  <2>6. Window' /\ ClaimSafe'
    BY <2>1, <2>4 DEF Window, ClaimSafe
  <2>7. FreeLowered'
    <3> SUFFICES ASSUME NEW i \in Nat, pending_write <= i,
                        i < pending_read + Slots
                 PROVE  ~pending_ready'[SlotOf(i)]
      BY <2>1 DEF FreeLowered
    <3>1. i # p_write[p] /\ i < p_write[p] + Slots /\ p_write[p] < i + Slots
      BY <1>0, <2>2, SMT DEF QueueTypes
    <3>2. SlotOf(i) # SlotOf(p_write[p])
      BY <2>2, <3>1, SlotsDiffer
    <3> QED BY <2>5, <3>2, SlotFacts DEF FreeLowered
  <2>8. ClaimHeld'
    <3> SUFFICES ASSUME NEW q \in Producers, Filling(q), q # p
                 PROVE  ~pending_ready'[SlotOf(p_write[q])]
      BY <2>1, <2>4 DEF ClaimHeld
    <3>1. /\ p_write[q] \in Nat /\ p_write[q] # p_write[p]
          /\ pending_read <= p_write[q] /\ p_write[q] < pending_write
          /\ ~pending_ready[SlotOf(p_write[q])]
      BY <1>0, <2>1 DEF ClaimHeld, QueueTypes, Filling
    <3>2. p_write[q] < p_write[p] + Slots /\ p_write[p] < p_write[q] + Slots
      BY <1>0, <2>2, <3>1, SMT DEF Window, QueueTypes
    <3>3. SlotOf(p_write[q]) # SlotOf(p_write[p])
      BY <2>2, <3>1, <3>2, SlotsDiffer
    <3> QED BY <2>5, <3>1, <3>3, SlotFacts
  <2>9. DrainKnows'
    <3>1. ASSUME c_pc = "advance" PROVE ~pending_ready'[SlotOf(c_read)]
      <4>1. /\ c_read \in Nat /\ c_read = pending_read /\ c_read < pending_write
            /\ p_write[p] # c_read /\ ~pending_ready[SlotOf(c_read)]
        BY <1>0, <2>1, <3>1, SMT DEF DrainKnows, QueueTypes, Filling
      <4>2. p_write[p] < c_read + Slots /\ c_read < p_write[p] + Slots
        BY <1>0, <2>2, <4>1, SMT DEF Window, QueueTypes
      <4>3. SlotOf(c_read) # SlotOf(p_write[p])
        BY <2>2, <4>1, <4>2, SlotsDiffer
      <4> QED BY <2>5, <4>1, <4>3, SlotFacts
    <3>2. c_pc \in {"copy", "clear"} => pending_ready'[SlotOf(c_read)]
      BY <1>0, <2>5, SlotFacts DEF DrainKnows, QueueTypes
    <3> QED BY <2>1, <2>4, <3>1, <3>2 DEF DrainKnows
  <2> QED BY <2>3, <2>6, <2>7, <2>8, <2>9
<1> QED BY <1>1, <1>2, <1>3, <1>4, <1>5, <1>6, <1>7 DEF Produce
-----------------------------------------------------------------------------
\* The queue keeps its invariant, whatever producers, drain, start and stop do.
THEOREM QueueCorrect == Spec => []QueueInv
<1>1. QueueInv /\ [Next]_vars => QueueInv'
  <2> SUFFICES ASSUME QueueInv, [Next]_vars PROVE QueueInv'
    OBVIOUS
  <2>1. CASE Main
    BY <2>1, MainKeepsQueue
  <2>2. CASE Drain
    BY <2>2, DrainKeepsQueue
  <2>3. CASE \E p \in Producers : Produce(p)
    BY <2>3, ProduceKeepsQueue
  <2>4. CASE UNCHANGED vars
    <3>1. UNCHANGED <<queue, p_read, p_write, c_read, c_write, p_pc, c_pc>>
      BY <2>4 DEF vars, pvars, cvars
    <3>2. /\ p_pc' \in [Producers -> ProducerStep]
          /\ \A p \in Producers : Filling(p)' => Filling(p)
      BY <3>1 DEF QueueInv, QueueTypes, Filling
    <3> QED BY <3>1, <3>2, Aside
  <2> QED BY <2>1, <2>2, <2>3, <2>4 DEF Next
<1> QED BY <1>1, InitQueue, PTL DEF Spec

\* Between the claim of a slot in plc_scheduler_queue_task and its ready flag
\* nobody else uses the slot: not another producer, not the drain.
THEOREM SlotSafety == Spec => []SlotOwned
<1>1. QueueInv => SlotOwned
  <2> SUFFICES ASSUME QueueInv, NEW p \in Producers, Filling(p)
               PROVE  /\ \A q \in Producers \ {p} : Filling(q) =>
                             SlotOf(p_write[p]) # SlotOf(p_write[q])
                      /\ c_pc \in {"copy", "clear", "advance"} =>
                             SlotOf(p_write[p]) # SlotOf(c_read)
                      /\ ~pending_ready[SlotOf(p_write[p])]
    BY DEF SlotOwned
  <2> USE DEF QueueInv
  <2>0. QueueTypes /\ Slots \in Nat \ {0}
    OBVIOUS
  <2>1. /\ p_write[p] \in Nat
        /\ pending_read <= p_write[p] /\ p_write[p] < pending_write
        /\ ~pending_ready[SlotOf(p_write[p])]
    BY DEF ClaimHeld, QueueTypes
  <2>2. ASSUME NEW q \in Producers \ {p}, Filling(q)
        PROVE  SlotOf(p_write[p]) # SlotOf(p_write[q])
    <3>1. /\ p_write[q] \in Nat /\ p_write[q] # p_write[p]
          /\ pending_read <= p_write[q] /\ p_write[q] < pending_write
      BY <2>0, <2>2 DEF ClaimHeld, QueueTypes
    <3>2. p_write[q] < p_write[p] + Slots /\ p_write[p] < p_write[q] + Slots
      BY <2>0, <2>1, <3>1, SMT DEF Window, QueueTypes
    <3> QED BY <2>1, <3>1, <3>2, SlotsDiffer
  <2>3. CASE c_pc = "advance"
    <3>1. /\ c_read \in Nat /\ c_read = pending_read /\ c_read < pending_write
          /\ p_write[p] # c_read
      BY <2>0, <2>3, SMT DEF DrainKnows, QueueTypes
    <3>2. p_write[p] < c_read + Slots /\ c_read < p_write[p] + Slots
      BY <2>0, <2>1, <3>1, SMT DEF Window, QueueTypes
    <3>3. SlotOf(p_write[p]) # SlotOf(c_read)
      BY <2>1, <3>1, <3>2, SlotsDiffer
    <3> QED BY <2>1, <2>2, <3>3
  <2>4. CASE c_pc # "advance"
    BY <2>1, <2>2, <2>4 DEF DrainKnows
  <2> QED BY <2>3, <2>4
<1> QED BY <1>1, QueueCorrect, PTL
-----------------------------------------------------------------------------
(* Where each accepted task is. *)

\* The claimed entries whose flag is up, and the tasks in them.
Held == {i \in pending_read .. pending_write - 1 : pending_ready[SlotOf(i)]}
TaskAt(i) == pending_tasks[SlotOf(i)]
\* The task that p is about to add.
Mine(p) == <<p, p_calls[p]>>
InTable == {tasks[k] : k \in 1 .. task_count}
\* The drain has taken a task, and not yet let go of it.
Carrying == c_pc \in {"clear", "advance", "add", "store", "count"}

TaskTypes ==
    /\ p_calls \in [Producers -> 0 .. Calls]
    /\ tasks \in [1 .. TableSize -> Task \cup {NoTask}]
    /\ task_count \in 0 .. TableSize
    /\ pending_tasks \in [Slot -> Task \cup {NoTask}]
    /\ c_task \in Task \cup {NoTask}
    /\ accepted \subseteq Task /\ dropped \subseteq Task \cup {NoTask}
    /\ at \in [Adder -> Nat] /\ overlap \in BOOLEAN
    /\ \A p \in Producers : /\ p_pc[p] # "idle" => Mine(p) \in Task
                            /\ Adding(p_pc[p]) => at[p] < TableSize
    /\ Adding(c_pc) => at[Drainer] < TableSize

\* There is no thread before it has been created.
CreatedOnce == main_pc \in {"init", "starting"} => c_pc = "none"

\* Every accepted task is in one of four places ...
Conserved == accepted = {TaskAt(i) : i \in Held} \cup ({c_task} \ {NoTask})
                            \cup InTable \cup dropped
\* ... and only once.
WaitOnce == /\ \A i, j \in Held : i # j => TaskAt(i) # TaskAt(j)
            /\ \A i \in Held : /\ TaskAt(i) \in Task
                               /\ TaskAt(i) \notin InTable \cup dropped
                               /\ TaskAt(i) = c_task => c_pc = "clear" /\ i = c_read
CarryOnce == /\ Carrying <=> c_task # NoTask
             /\ c_task \notin InTable \cup dropped
             /\ c_pc = "clear" => c_task = TaskAt(c_read)
TableOnce == /\ \A j, k \in 1 .. task_count : tasks[j] = tasks[k] => j = k
             /\ dropped # {} => task_count = TableSize

\* A task is accepted at the end of its call, and calls are counted.
Fresh == /\ \A t \in accepted : t[2] <= p_calls[t[1]]
         /\ \A p \in Producers : p_pc[p] # "idle" => Mine(p) \notin accepted
         /\ \A p \in Producers : p_pc[p] = "ready" => TaskAt(p_write[p]) = Mine(p)

\* One thread at a time is in plc_scheduler_add_task_internal, at the end of
\* the table.
AtEnd(x) == at[x] = task_count
OneAdds ==
    /\ \A p \in Producers : Adding(p_pc[p]) =>
          /\ AtEnd(p) /\ ~Adding(c_pc)
          /\ \A q \in Producers \ {p} : ~Adding(p_pc[q])
          /\ p_pc[p] = "count" => tasks[at[p] + 1] = Mine(p)
    /\ Adding(c_pc) => AtEnd(Drainer)
    /\ c_pc = "count" => tasks[at[Drainer] + 1] = c_task

Kept == /\ Conserved /\ WaitOnce /\ CarryOnce /\ TableOnce /\ Fresh /\ OneAdds
TaskInv == TaskTypes /\ CreatedOnce /\ (~overlap => Kept)
-----------------------------------------------------------------------------
\* NoTask is no task.
LEMMA NoTaskIsNone == NoTask \notin Task
  BY DEF NoTask, Task

\* Before init_default no thread runs and no task is anywhere.
LEMMA InitTasks == Init => TaskInv
<1> SUFFICES ASSUME Init PROVE TaskInv
  OBVIOUS
<1>1. TaskTypes
  <2>1. 0 \in 0 .. Calls /\ 0 \in 0 .. TableSize
    BY SMT
  <2>2. p_calls \in [Producers -> 0 .. Calls] /\ task_count \in 0 .. TableSize
    BY <2>1 DEF Init
  <2>3. /\ tasks \in [1 .. TableSize -> Task \cup {NoTask}]
        /\ pending_tasks \in [Slot -> Task \cup {NoTask}]
    BY DEF Init
  <2>4. at \in [Adder -> Nat]
    BY DEF Init
  <2>5. /\ \A p \in Producers : p_pc[p] = "idle"
        /\ ~Adding("idle") /\ ~Adding(c_pc)
    BY DEF Init, Adding
  <2> QED BY <2>2, <2>3, <2>4, <2>5 DEF Init, TaskTypes
<1>2. CreatedOnce
  BY DEF Init, CreatedOnce
<1>3. Held = {} /\ InTable = {}
  BY SMT DEF Init, Held, InTable
<1>4. Conserved /\ WaitOnce
  BY <1>3 DEF Init, Conserved, WaitOnce
<1>5. CarryOnce
  BY <1>3 DEF Init, CarryOnce, Carrying
<1>6. TableOnce /\ Fresh /\ OneAdds
  BY SMT DEF Init, TableOnce, Fresh, OneAdds, Adding
<1> QED BY <1>1, <1>2, <1>4, <1>5, <1>6 DEF TaskInv, Kept

\* Steps that move no task and no adder.
LEMMA TasksStay ==
    ASSUME TaskInv,
           UNCHANGED <<queue, table, c_task, accepted, dropped, p_calls, at, overlap>>,
           \A p \in Producers : p_pc'[p] # "idle" => p_pc[p] # "idle",
           \A p \in Producers : p_pc'[p] = "ready" =>
                                    p_pc[p] = "ready" /\ p_write'[p] = p_write[p],
           \A p \in Producers : Adding(p_pc'[p]) => p_pc'[p] = p_pc[p],
           \/ c_pc' = c_pc /\ c_read' = c_read
           \/ {c_pc, c_pc'} \subseteq {"none", "idle", "check", "copy", "exited"},
           CreatedOnce'
    PROVE  TaskInv'
<1>0. UNCHANGED <<pending_write, pending_read, pending_ready, pending_tasks,
                  tasks, task_count, c_task, accepted, dropped, p_calls, at, overlap>>
  BY DEF queue, table
<1>1. TaskTypes'
  BY <1>0 DEF TaskInv, TaskTypes, Adding, Mine
<1>2. ASSUME ~overlap PROVE Kept'
  <2>0. Kept
    BY <1>2 DEF TaskInv
  <2>1. Held' = Held /\ InTable' = InTable /\ \A i : TaskAt(i)' = TaskAt(i)
    BY <1>0 DEF Held, InTable, TaskAt
  <2>2. Conserved'
    BY <1>0, <2>0, <2>1 DEF Kept, Conserved
  <2>3. WaitOnce' /\ CarryOnce'
    BY <1>0, <2>0, <2>1 DEF Kept, WaitOnce, CarryOnce, Carrying
  <2>4. TableOnce'
    BY <1>0, <2>0 DEF Kept, TableOnce
  <2>5. Fresh'
    BY <1>0, <2>0, <2>1 DEF Kept, Fresh, Mine
  <2>6. OneAdds'
    BY <1>0, <2>0 DEF Kept, OneAdds, AtEnd, Adding, Mine
  <2> QED BY <2>2, <2>3, <2>4, <2>5, <2>6 DEF Kept
<1> QED BY <1>0, <1>1, <1>2 DEF TaskInv

\* Init, start and stop move no task.
LEMMA MainKeepsTasks == TaskInv /\ Main => TaskInv'
<1> SUFFICES ASSUME TaskInv, Main PROVE TaskInv'
  OBVIOUS
<1>1. /\ UNCHANGED <<queue, table, c_task, accepted, dropped, p_calls, at,
                     overlap, p_pc, p_write>>
      /\ \/ c_pc' = c_pc /\ c_read' = c_read
         \/ {c_pc, c_pc'} \subseteq {"none", "idle"}
      /\ CreatedOnce'
  BY DEF Main, Start, CreateThread, Stop, pvars, cvars, hist, TaskInv, CreatedOnce
<1> QED BY <1>1, TasksStay

\* plc_scheduler_add_task_runtime until it has found a place for the task.
LEMMA SearchKeepsTasks ==
    ASSUME TaskInv, QueueInv, NEW p \in Producers,
           \/ AddDirect(p) \/ QueueLoadRead(p) \/ QueueLoadWrite(p)
           \/ QueueClaim(p) /\ ~Claimed(p)
           \/ DirectRoom(p) /\ task_count >= TableSize
    PROVE  TaskInv'
<1>0. p_pc \in [Producers -> ProducerStep] /\ p_write \in [Producers -> Nat]
  BY DEF QueueInv, QueueTypes
<1>1. UNCHANGED <<main_pc, queue, table, c_task, accepted, dropped, p_calls, at,
                  overlap, c_pc, c_read>>
  BY DEF AddDirect, QueueLoadRead, QueueLoadWrite, QueueClaim, DirectRoom,
         hist, cvars, main, queue, table, TaskInv, TaskTypes
<1>2. \E step \in {"idle", "room", "load_read", "load_write", "cas"} :
          p_pc' = [p_pc EXCEPT ![p] = step]
  BY DEF AddDirect, QueueLoadRead, QueueLoadWrite, QueueClaim, DirectRoom, TaskInv, TaskTypes
<1>3. p_pc[p] # "idle" /\ \A q \in Producers \ {p} : p_write'[q] = p_write[q]
  BY <1>0 DEF AddDirect, QueueLoadRead, QueueLoadWrite, QueueClaim, DirectRoom
<1>4. CreatedOnce'
  BY <1>1 DEF TaskInv, CreatedOnce
<1>5. /\ \A q \in Producers : p_pc'[q] # "idle" => p_pc[q] # "idle"
      /\ \A q \in Producers : p_pc'[q] = "ready" => p_pc[q] = "ready" /\ p_write'[q] = p_write[q]
      /\ \A q \in Producers : Adding(p_pc'[q]) => p_pc'[q] = p_pc[q]
  BY <1>0, <1>2, <1>3 DEF Adding
<1> QED BY <1>1, <1>4, <1>5, TasksStay

\* A new call begins: its task is a new one.
LEMMA CallKeepsTasks ==
    ASSUME TaskInv, QueueInv, NEW p \in Producers, AddRuntime(p)
    PROVE  TaskInv'
<1> USE DEF TaskInv
<1>0. p_pc \in [Producers -> ProducerStep] /\ TaskTypes
  BY DEF QueueInv, QueueTypes
<1>1. /\ UNCHANGED <<main_pc, pending_write, pending_read, pending_ready,
                     pending_tasks, tasks, task_count, p_write, c_pc, c_read, c_task,
                     at, accepted, dropped, overlap>>
      /\ p_pc[p] = "idle" /\ p_calls[p] < Calls
      /\ p_calls' = [p_calls EXCEPT ![p] = @ + 1]
      /\ \E step \in {"load_read", "direct"} : p_pc' = [p_pc EXCEPT ![p] = step]
  BY DEF AddRuntime, main, queue, table, cvars, hist
<1>2. /\ p_calls'[p] = p_calls[p] + 1 /\ ~Adding(p_pc'[p]) /\ p_pc'[p] # "ready"
      /\ p_calls' \in [Producers -> 0 .. Calls]
      /\ \A q \in Producers \ {p} : p_calls'[q] = p_calls[q] /\ p_pc'[q] = p_pc[q]
  <2>1. p_calls[p] + 1 \in 0 .. Calls
    BY <1>0, <1>1, SMT DEF TaskTypes
  <2> QED BY <1>0, <1>1, <2>1 DEF TaskTypes, Adding
<1>3. Mine(p)' \in Task
  <2>1. p_calls'[p] \in 1 .. Calls
    BY <1>0, <1>1, <1>2, SMT DEF TaskTypes
  <2> QED BY <2>1 DEF Mine, Task
<1>4. TaskTypes'
  BY <1>0, <1>1, <1>2, <1>3 DEF TaskTypes, Mine
<1>5. ASSUME ~overlap PROVE Kept'
  <2> USE <1>5 DEF Kept
  <2>1. Held' = Held /\ InTable' = InTable /\ \A i : TaskAt(i)' = TaskAt(i)
    BY <1>1 DEF Held, InTable, TaskAt
  <2>2. Conserved'
    BY <1>1, <2>1 DEF Conserved
  <2>3. WaitOnce' /\ CarryOnce' /\ TableOnce'
    BY <1>1, <2>1 DEF WaitOnce, CarryOnce, Carrying, TableOnce
  <2>4. \A t \in accepted' : t[2] <= p_calls'[t[1]]
    <3> SUFFICES ASSUME NEW t \in accepted PROVE t[2] <= p_calls'[t[1]]
      BY <1>1
    <3>1. t[1] \in Producers /\ t[2] \in Nat /\ t[2] <= p_calls[t[1]]
      BY <1>0 DEF TaskTypes, Task, Fresh
    <3>2. p_calls[t[1]] \in Nat /\ p_calls'[t[1]] \in Nat
          /\ p_calls[t[1]] <= p_calls'[t[1]]
      <4>1. p_calls[t[1]] \in 0 .. Calls
        BY <1>0, <3>1 DEF TaskTypes
      <4>2. p_calls'[t[1]] \in {p_calls[t[1]], p_calls[t[1]] + 1}
        BY <1>2, <3>1
      <4> QED BY <4>1, <4>2, SMT
    <3> QED BY <3>1, <3>2, SMT
  <2>5. Mine(p)' \notin accepted
    <3>1. \A t \in accepted : t[2] <= p_calls[t[1]]
      BY DEF Fresh
    <3>2. Mine(p)'[1] = p /\ Mine(p)'[2] = p_calls[p] + 1
      BY <1>2 DEF Mine
    <3>3. ~(p_calls[p] + 1 <= p_calls[p])
      BY <1>0, SMT DEF TaskTypes
    <3> QED BY <3>1, <3>2, <3>3
  <2>6. Fresh'
    BY <1>1, <1>2, <2>1, <2>4, <2>5 DEF Fresh, Mine
  <2>7. OneAdds'
    BY <1>1, <1>2 DEF OneAdds, AtEnd, Mine
  <2> QED BY <2>2, <2>3, <2>6, <2>7
<1>6. CreatedOnce'
  BY <1>1 DEF CreatedOnce
<1> QED BY <1>1, <1>4, <1>5, <1>6

\* plc_scheduler_add_task_internal looks for room in the table.
LEMMA RoomKeepsTasks ==
    ASSUME TaskInv, QueueInv, NEW p \in Producers, DirectRoom(p),
           task_count < TableSize
    PROVE  TaskInv'
<1> USE DEF TaskInv
<1>0. p_pc \in [Producers -> ProducerStep] /\ TaskTypes /\ p \in Adder
  BY DEF QueueInv, QueueTypes, Adder
<1>1. /\ UNCHANGED <<main_pc, pending_write, pending_read, pending_ready,
                     pending_tasks, tasks, task_count, p_calls, p_write, c_pc, c_read,
                     c_task, accepted, dropped>>
      /\ p_pc[p] = "room" /\ p_pc' = [p_pc EXCEPT ![p] = "store"]
      /\ at' = [at EXCEPT ![p] = task_count]
      /\ overlap' = (overlap \/ Overlaps(p))
  BY DEF DirectRoom, main, queue, table, cvars
<1>2. /\ p_pc'[p] = "store" /\ at'[p] = task_count
      /\ \A q \in Producers \ {p} : p_pc'[q] = p_pc[q] /\ at'[q] = at[q]
      /\ at'[Drainer] = at[Drainer]
  BY <1>0, <1>1, DrainerAssumption DEF TaskTypes, Adder
<1>3. TaskTypes'
  <2>1. at' \in [Adder -> Nat]
    BY <1>0, <1>1 DEF TaskTypes
  <2>2. overlap' \in BOOLEAN
    BY <1>0, <1>1, Zenon DEF TaskTypes, Overlaps, Adding
  <2>3. \A q \in Producers : /\ p_pc'[q] # "idle" => Mine(q)' \in Task
                             /\ Adding(p_pc'[q]) => at'[q] < TableSize
    BY <1>0, <1>1, <1>2 DEF TaskTypes, Mine
  <2>4. Adding(c_pc') => at'[Drainer] < TableSize
    BY <1>0, <1>1, <1>2 DEF TaskTypes
  <2> QED BY <1>0, <1>1, <2>1, <2>2, <2>3, <2>4 DEF TaskTypes
<1>4. ASSUME ~overlap' PROVE Kept'
  <2>0. Kept /\ ~Overlaps(p)
    BY <1>1, <1>4
  <2> USE DEF Kept
  <2>1. Held' = Held /\ InTable' = InTable /\ \A i : TaskAt(i)' = TaskAt(i)
    BY <1>1 DEF Held, InTable, TaskAt
  <2>2. Conserved'
    BY <1>1, <2>0, <2>1 DEF Conserved
  <2>3. WaitOnce' /\ CarryOnce' /\ TableOnce'
    BY <1>1, <2>0, <2>1 DEF WaitOnce, CarryOnce, Carrying, TableOnce
  <2>4. Fresh'
    BY <1>1, <1>2, <2>0, <2>1 DEF Fresh, Mine
  <2>5. ~Adding(c_pc) /\ \A q \in Producers \ {p} : ~Adding(p_pc[q])
    BY <2>0, DrainerAssumption DEF Overlaps
  <2>6. OneAdds'
    BY <1>1, <1>2, <2>5 DEF OneAdds, AtEnd, Adding
  <2> QED BY <2>2, <2>3, <2>4, <2>6
<1>5. CreatedOnce'
  BY <1>1 DEF CreatedOnce
<1> QED BY <1>3, <1>4, <1>5

\* The entry is written behind the end of the table.
LEMMA StoreKeepsTasks ==
    ASSUME TaskInv, QueueInv, NEW p \in Producers, DirectStore(p)
    PROVE  TaskInv'
<1> USE DEF TaskInv
<1>0. p_pc \in [Producers -> ProducerStep] /\ TaskTypes /\ p \in Adder
  BY DEF QueueInv, QueueTypes, Adder
<1>1. /\ UNCHANGED <<main_pc, pending_write, pending_read, pending_ready,
                     pending_tasks, task_count, p_calls, p_write, c_pc, c_read,
                     c_task, accepted, dropped, at, overlap>>
      /\ p_pc[p] = "store" /\ p_pc' = [p_pc EXCEPT ![p] = "count"]
      /\ tasks' = [tasks EXCEPT ![at[p] + 1] = Mine(p)]
  BY DEF DirectStore, StoreTask, Mine, main, queue, cvars, hist
<1>2. /\ p_pc'[p] = "count" /\ \A q \in Producers \ {p} : p_pc'[q] = p_pc[q]
      /\ Mine(p) \in Task
  BY <1>0, <1>1 DEF TaskTypes
<1>3. at[p] + 1 \in 1 .. TableSize
  BY <1>0, <1>1, SMT DEF TaskTypes, Adding
<1>4. tasks' \in [1 .. TableSize -> Task \cup {NoTask}]
  BY <1>0, <1>1, <1>2 DEF TaskTypes
<1>5. TaskTypes'
  BY <1>0, <1>1, <1>2, <1>4 DEF TaskTypes, Mine, Adding
<1>6. ASSUME ~overlap PROVE Kept'
  <2>0. Kept
    BY <1>6
  <2> USE DEF Kept
  <2>1. \A k \in 1 .. task_count : tasks'[k] = tasks[k]
    <3>1. at[p] = task_count
      BY <1>1, <2>0 DEF OneAdds, AtEnd, Adding
    <3>2. \A k \in 1 .. task_count : k \in 1 .. TableSize /\ k # at[p] + 1
      BY <1>0, <3>1, SMT DEF TaskTypes
    <3> QED BY <1>0, <1>1, <3>2 DEF TaskTypes
  <2>2. Held' = Held /\ InTable' = InTable /\ \A i : TaskAt(i)' = TaskAt(i)
    BY <1>1, <2>1 DEF Held, InTable, TaskAt
  <2>3. Conserved'
    BY <1>1, <2>0, <2>2 DEF Conserved
  <2>4. WaitOnce' /\ CarryOnce'
    BY <1>1, <2>0, <2>2 DEF WaitOnce, CarryOnce, Carrying
  <2>5. TableOnce'
    BY <1>1, <2>0, <2>1 DEF TableOnce
  <2>6. Fresh'
    BY <1>1, <1>2, <2>0, <2>2 DEF Fresh, Mine
  <2>7. tasks'[at[p] + 1] = Mine(p)
    BY <1>0, <1>1, <1>3 DEF TaskTypes
  <2>8. OneAdds'
    BY <1>1, <1>2, <2>0, <2>7 DEF OneAdds, AtEnd, Adding, Mine
  <2> QED BY <2>3, <2>4, <2>5, <2>6, <2>8
<1>7. CreatedOnce'
  BY <1>1 DEF CreatedOnce
<1> QED BY <1>1, <1>5, <1>6, <1>7

\* The entry becomes part of the table, and the call returns.
LEMMA CountKeepsTasks ==
    ASSUME TaskInv, QueueInv, NEW p \in Producers, DirectCount(p)
    PROVE  TaskInv'
<1> USE DEF TaskInv
<1>0. p_pc \in [Producers -> ProducerStep] /\ TaskTypes /\ p \in Adder
  BY DEF QueueInv, QueueTypes, Adder
<1>1. /\ UNCHANGED <<main_pc, pending_write, pending_read, pending_ready,
                     pending_tasks, tasks, p_calls, p_write, c_pc, c_read,
                     c_task, dropped, at, overlap>>
      /\ p_pc[p] = "count" /\ p_pc' = [p_pc EXCEPT ![p] = "idle"]
      /\ task_count' = at[p] + 1
      /\ accepted' = accepted \cup {Mine(p)}
  BY DEF DirectCount, CountTask, Mine, main, queue, cvars
<1>2. /\ p_pc'[p] = "idle" /\ \A q \in Producers \ {p} : p_pc'[q] = p_pc[q]
      /\ Mine(p) \in Task /\ ~Adding(p_pc'[p])
  BY <1>0, <1>1 DEF TaskTypes, Adding
<1>3. at[p] + 1 \in 0 .. TableSize /\ at[p] \in Nat
  BY <1>0, <1>1, SMT DEF TaskTypes, Adding
<1>4. accepted' \subseteq Task
  BY <1>0, <1>1, <1>2 DEF TaskTypes
<1>5. TaskTypes'
  BY <1>0, <1>1, <1>2, <1>3, <1>4 DEF TaskTypes, Mine
<1>6. ASSUME ~overlap PROVE Kept'
  <2>0. Kept
    BY <1>6
  <2> USE DEF Kept
  <2>1. at[p] = task_count /\ tasks[task_count + 1] = Mine(p)
        /\ ~Adding(c_pc) /\ \A q \in Producers \ {p} : ~Adding(p_pc[q])
    BY <1>1, <2>0 DEF OneAdds, AtEnd, Adding
  <2>2. Mine(p) \notin accepted /\ task_count \in Nat
    BY <1>0, <1>1, <2>0, SMT DEF Fresh, TaskTypes
  <2>3. 1 .. task_count' = (1 .. task_count) \cup {task_count + 1}
    BY <1>1, <2>1, <2>2, SMT
  <2>4. InTable' = InTable \cup {Mine(p)}
    BY <1>1, <2>1, <2>3 DEF InTable
  <2>5. Held' = Held /\ \A i : TaskAt(i)' = TaskAt(i)
    BY <1>1 DEF Held, TaskAt
  <2>6. Conserved'
    BY <1>1, <2>0, <2>4, <2>5 DEF Conserved
  <2>7. /\ \A i \in Held : TaskAt(i) # Mine(p)
        /\ c_task # NoTask => c_task # Mine(p)
        /\ Mine(p) \notin InTable
    BY <2>0, <2>2 DEF Conserved
  <2>8. WaitOnce'
    BY <1>1, <2>0, <2>4, <2>5, <2>7 DEF WaitOnce
  <2>9. CarryOnce'
    BY <1>1, <1>2, <2>0, <2>4, <2>5, <2>7, NoTaskIsNone DEF CarryOnce, Carrying
  <2>10. TableOnce'
    <3>1. \A j, k \in 1 .. task_count' : tasks'[j] = tasks'[k] => j = k
      <4>1. \A j \in 1 .. task_count : tasks[j] # Mine(p)
        BY <2>7 DEF InTable
      <4> QED BY <1>1, <2>0, <2>1, <2>3, <4>1 DEF TableOnce
    <3>2. dropped = {}
      <4>1. at[p] < TableSize
        BY <1>0, <1>1 DEF TaskTypes, Adding
      <4> QED BY <1>0, <2>0, <2>1, <4>1, SMT DEF TableOnce, TaskTypes
    <3> QED BY <1>1, <3>1, <3>2 DEF TableOnce
  <2>11. Fresh'
    <3>1. Mine(p)[1] = p /\ Mine(p)[2] = p_calls[p] /\ p_calls[p] \in Nat
      BY <1>0, SMT DEF Mine, TaskTypes
    <3>2. \A t \in accepted' : t[2] <= p_calls'[t[1]]
      BY <1>1, <2>0, <3>1, SMT DEF Fresh
    <3>3. \A q \in Producers : p_pc'[q] # "idle" => Mine(q) # Mine(p)
      BY <1>2 DEF Mine
    <3> QED BY <1>1, <1>2, <2>0, <2>5, <3>2, <3>3 DEF Fresh, Mine
  <2>12. OneAdds'
    <3>1. c_pc # "count"
      BY <2>1 DEF Adding
    <3> QED BY <1>1, <1>2, <2>1, <3>1 DEF OneAdds
  <2> QED BY <2>6, <2>8, <2>9, <2>10, <2>11, <2>12
<1>7. CreatedOnce'
  BY <1>1 DEF CreatedOnce
<1> QED BY <1>1, <1>5, <1>6, <1>7

\* Which entries are held depends on the queue alone.
LEMMA HeldFacts ==
    ASSUME QueueInv
    PROVE  /\ \A i \in Held : i \in Nat /\ SlotOf(i) \in Slot /\ pending_ready[SlotOf(i)]
           /\ \A i, j \in Held : i # j => SlotOf(i) # SlotOf(j)
<1> USE DEF QueueInv
<1>1. ASSUME NEW i \in Held
      PROVE  /\ i \in Nat /\ pending_read <= i /\ i < pending_write
             /\ pending_ready[SlotOf(i)]
  BY SMT DEF Held, QueueTypes
<1>2. ASSUME NEW i \in Held, NEW j \in Held, i # j PROVE SlotOf(i) # SlotOf(j)
  <2>1. i \in Nat /\ j \in Nat
    BY <1>1
  <2>2. i < j + Slots /\ j < i + Slots
    BY <1>1, SMT DEF Window, QueueTypes
  <2> QED BY <1>2, <2>1, <2>2, SlotsDiffer
<1> QED BY <1>1, <1>2, SlotFacts

\* A producer claims a slot, which holds no task yet.
LEMMA ClaimKeepsTasks ==
    ASSUME TaskInv, QueueInv, NEW p \in Producers, QueueClaim(p), Claimed(p)
    PROVE  TaskInv'
<1> USE DEF TaskInv
<1>0. p_pc \in [Producers -> ProducerStep] /\ TaskTypes /\ QueueTypes
  BY DEF QueueInv, QueueTypes
<1>1. /\ UNCHANGED <<main_pc, pending_read, pending_ready, pending_tasks, tasks,
                     task_count, p_calls, p_read, p_write, c_pc, c_read, c_task,
                     accepted, dropped, at, overlap>>
      /\ p_pc[p] = "cas" /\ p_pc' = [p_pc EXCEPT ![p] = "fill"]
      /\ pending_write = p_write[p] /\ pending_write' = pending_write + 1
  BY DEF QueueClaim, Claimed, main, table, cvars, hist
<1>2. /\ p_pc'[p] = "fill" /\ ~Adding(p_pc'[p])
      /\ \A q \in Producers \ {p} : p_pc'[q] = p_pc[q]
  BY <1>0, <1>1 DEF Adding
<1>3. TaskTypes'
  BY <1>0, <1>1, <1>2 DEF TaskTypes, Mine
<1>4. Held' = Held
  <2>1. p_write[p] < pending_read + Slots
    BY <1>0, <1>1, SMT DEF QueueInv, ClaimSafe, QueueTypes
  <2>2. ~pending_ready[SlotOf(pending_write)]
    BY <1>0, <1>1, <2>1, SMT DEF QueueInv, FreeLowered, QueueTypes
  <2>3. pending_read .. pending_write' - 1 =
            (pending_read .. pending_write - 1) \cup {pending_write}
    BY <1>0, <1>1, SMT DEF QueueInv, Window, QueueTypes
  <2> QED BY <1>1, <2>2, <2>3 DEF Held, SlotOf
<1>5. ASSUME ~overlap PROVE Kept'
  <2>0. Kept
    BY <1>5
  <2> USE DEF Kept
  <2>1. InTable' = InTable /\ \A i : TaskAt(i)' = TaskAt(i)
    BY <1>1 DEF InTable, TaskAt
  <2>2. Conserved'
    BY <1>1, <1>4, <2>0, <2>1 DEF Conserved
  <2>3. WaitOnce' /\ CarryOnce' /\ TableOnce'
    BY <1>1, <1>4, <2>0, <2>1 DEF WaitOnce, CarryOnce, Carrying, TableOnce
  <2>4. Fresh'
    BY <1>1, <1>2, <2>0, <2>1 DEF Fresh, Mine
  <2>5. OneAdds'
    BY <1>1, <1>2, <2>0 DEF OneAdds, AtEnd, Mine
  <2> QED BY <2>2, <2>3, <2>4, <2>5
<1>6. CreatedOnce'
  BY <1>1 DEF CreatedOnce
<1> QED BY <1>1, <1>3, <1>5, <1>6

\* The slot that is filled is not one of those that hold a task.
LEMMA FillKeepsTasks ==
    ASSUME TaskInv, QueueInv, NEW p \in Producers, QueueFill(p)
    PROVE  TaskInv'
<1> USE DEF TaskInv
<1>0. p_pc \in [Producers -> ProducerStep] /\ TaskTypes /\ QueueTypes
  BY DEF QueueInv, QueueTypes
<1>1. /\ UNCHANGED <<main_pc, pending_write, pending_read, pending_ready, tasks,
                     task_count, p_calls, p_read, p_write, c_pc, c_read, c_task,
                     accepted, dropped, at, overlap>>
      /\ p_pc[p] = "fill" /\ p_pc' = [p_pc EXCEPT ![p] = "ready"]
      /\ pending_tasks' = [pending_tasks EXCEPT ![SlotOf(p_write[p])] = Mine(p)]
  BY DEF QueueFill, Mine, main, table, cvars, hist
<1>2. /\ p_pc'[p] = "ready" /\ ~Adding(p_pc'[p])
      /\ \A q \in Producers \ {p} : p_pc'[q] = p_pc[q]
      /\ Mine(p) \in Task
  BY <1>0, <1>1 DEF Adding, TaskTypes
<1>3. /\ SlotOf(p_write[p]) \in Slot /\ Filling(p)
      /\ ~pending_ready[SlotOf(p_write[p])]
  BY <1>0, <1>1, SlotFacts DEF QueueTypes, QueueInv, ClaimHeld, Filling
<1>4. TaskTypes'
  <2>1. pending_tasks' \in [Slot -> Task \cup {NoTask}]
    BY <1>0, <1>1, <1>2 DEF TaskTypes
  <2> QED BY <1>0, <1>1, <1>2, <2>1 DEF TaskTypes, Mine
<1>5. /\ pending_tasks'[SlotOf(p_write[p])] = Mine(p)
      /\ \A s \in Slot \ {SlotOf(p_write[p])} : pending_tasks'[s] = pending_tasks[s]
  BY <1>0, <1>1, <1>3 DEF TaskTypes
<1>6. ASSUME ~overlap PROVE Kept'
  <2>0. Kept
    BY <1>6
  <2> USE DEF Kept
  <2>1. Held' = Held /\ InTable' = InTable
    BY <1>1 DEF Held, InTable
  <2>2. \A i \in Held : TaskAt(i)' = TaskAt(i)
    BY <1>3, <1>5, HeldFacts DEF TaskAt
  <2>3. Conserved'
    BY <1>1, <2>0, <2>1, <2>2 DEF Conserved
  <2>4. WaitOnce'
    BY <1>1, <2>0, <2>1, <2>2 DEF WaitOnce
  <2>5. CarryOnce'
    <3>1. c_pc = "clear" => TaskAt(c_read)' = TaskAt(c_read)
      BY <1>0, <1>1, <1>3, <1>5, SlotFacts
         DEF QueueInv, DrainKnows, QueueTypes, TaskAt
    <3> QED BY <1>1, <2>0, <2>1, <3>1 DEF CarryOnce, Carrying
  <2>6. TableOnce'
    BY <1>1, <2>0 DEF TableOnce
  <2>7. Fresh'
    <3>1. \A q \in Producers \ {p} : Filling(q) =>
              /\ SlotOf(p_write[q]) \in Slot
              /\ SlotOf(p_write[q]) # SlotOf(p_write[p])
      <4> SUFFICES ASSUME NEW q \in Producers \ {p}, Filling(q)
                   PROVE  SlotOf(p_write[q]) \in Slot
                          /\ SlotOf(p_write[q]) # SlotOf(p_write[p])
        OBVIOUS
      <4>1. /\ p_write[q] \in Nat /\ p_write[p] \in Nat
            /\ p_write[q] # p_write[p]
            /\ pending_read <= p_write[q] /\ p_write[q] < pending_write
            /\ pending_read <= p_write[p] /\ p_write[p] < pending_write
        BY <1>0, <1>3 DEF QueueInv, QueueTypes, ClaimHeld
      <4>2. p_write[q] < p_write[p] + Slots /\ p_write[p] < p_write[q] + Slots
        BY <1>0, <4>1, SMT DEF QueueInv, Window, QueueTypes
      <4> QED BY <4>1, <4>2, SlotsDiffer, SlotFacts
    <3>2. \A q \in Producers : p_pc'[q] = "ready" => TaskAt(p_write[q])' = Mine(q)
      BY <1>1, <1>2, <1>5, <2>0, <3>1 DEF Fresh, Filling, TaskAt, SlotOf
    <3> QED BY <1>1, <1>2, <2>0, <3>2 DEF Fresh, Mine, TaskAt, SlotOf
  <2>8. OneAdds'
    BY <1>1, <1>2, <2>0 DEF OneAdds, AtEnd, Mine
  <2> QED BY <2>3, <2>4, <2>5, <2>6, <2>7, <2>8
<1>7. CreatedOnce'
  BY <1>1 DEF CreatedOnce
<1> QED BY <1>1, <1>4, <1>6, <1>7

\* The flag goes up, and the call returns: the entry holds the task.
LEMMA ReadyKeepsTasks ==
    ASSUME TaskInv, QueueInv, NEW p \in Producers, QueueReady(p)
    PROVE  TaskInv'
<1> USE DEF TaskInv
<1>0. p_pc \in [Producers -> ProducerStep] /\ TaskTypes /\ QueueTypes
  BY DEF QueueInv, QueueTypes
<1> DEFINE w == p_write[p]
<1>1. /\ UNCHANGED <<main_pc, pending_write, pending_read, pending_tasks, tasks,
                     task_count, p_calls, p_read, p_write, c_pc, c_read, c_task,
                     dropped, at, overlap>>
      /\ p_pc[p] = "ready" /\ p_pc' = [p_pc EXCEPT ![p] = "idle"]
      /\ pending_ready' = [pending_ready EXCEPT ![SlotOf(w)] = TRUE]
      /\ accepted' = accepted \cup {Mine(p)}
  BY DEF QueueReady, Mine, main, table, cvars
<1>2. /\ p_pc'[p] = "idle" /\ ~Adding(p_pc'[p])
      /\ \A q \in Producers \ {p} : p_pc'[q] = p_pc[q]
      /\ Mine(p) \in Task
  BY <1>0, <1>1 DEF Adding, TaskTypes
<1>3. /\ w \in Nat /\ SlotOf(w) \in Slot /\ Filling(p)
      /\ ~pending_ready[SlotOf(w)]
      /\ pending_read <= w /\ w < pending_write
  BY <1>0, <1>1, SlotFacts DEF QueueTypes, QueueInv, ClaimHeld, Filling
<1>4. TaskTypes'
  BY <1>0, <1>1, <1>2 DEF TaskTypes, Mine
<1>5. Held' = Held \cup {w} /\ w \notin Held
  <2>1. \A i \in pending_read .. pending_write - 1 :
            i # w => SlotOf(i) # SlotOf(w) /\ SlotOf(i) \in Slot
    <3> SUFFICES ASSUME NEW i \in pending_read .. pending_write - 1, i # w
                 PROVE  SlotOf(i) # SlotOf(w) /\ SlotOf(i) \in Slot
      OBVIOUS
    <3>1. i \in Nat /\ i < w + Slots /\ w < i + Slots
      BY <1>0, <1>3, SMT DEF QueueInv, Window, QueueTypes
    <3> QED BY <1>3, <3>1, SlotsDiffer, SlotFacts
  <2>2. w \in pending_read .. pending_write - 1
    BY <1>0, <1>3, SMT DEF QueueTypes
  <2>3. /\ pending_ready'[SlotOf(w)]
        /\ \A s \in Slot \ {SlotOf(w)} : pending_ready'[s] = pending_ready[s]
    BY <1>0, <1>1, <1>3 DEF QueueTypes
  <2> QED BY <1>1, <1>3, <2>1, <2>2, <2>3 DEF Held, SlotOf
<1>6. ASSUME ~overlap PROVE Kept'
  <2>0. Kept
    BY <1>6
  <2> USE DEF Kept
  <2>1. InTable' = InTable /\ \A i : TaskAt(i)' = TaskAt(i)
    BY <1>1 DEF InTable, TaskAt
  <2>2. TaskAt(w) = Mine(p) /\ Mine(p) \notin accepted
    BY <1>1, <2>0 DEF Fresh
  <2>3. Conserved'
    BY <1>1, <1>5, <2>0, <2>1, <2>2 DEF Conserved
  <2>4. /\ \A i \in Held : TaskAt(i) # Mine(p)
        /\ c_task # Mine(p) /\ Mine(p) \notin InTable \cup dropped
    BY <1>2, <2>0, <2>2, NoTaskIsNone DEF Conserved
  <2>5. WaitOnce'
    BY <1>1, <1>2, <1>5, <2>0, <2>1, <2>2, <2>4 DEF WaitOnce
  <2>6. CarryOnce' /\ TableOnce'
    BY <1>1, <2>0, <2>1 DEF CarryOnce, Carrying, TableOnce
  <2>7. Fresh'
    <3>1. Mine(p)[1] = p /\ Mine(p)[2] = p_calls[p] /\ p_calls[p] \in Nat
      BY <1>0, SMT DEF Mine, TaskTypes
    <3>2. \A t \in accepted' : t[2] <= p_calls'[t[1]]
      BY <1>1, <2>0, <3>1, SMT DEF Fresh
    <3>3. \A q \in Producers : p_pc'[q] # "idle" => Mine(q) # Mine(p)
      BY <1>2 DEF Mine
    <3> QED BY <1>1, <1>2, <2>0, <2>1, <3>2, <3>3 DEF Fresh, Mine
  <2>8. OneAdds'
    BY <1>1, <1>2, <2>0 DEF OneAdds, AtEnd, Mine
  <2> QED BY <2>3, <2>5, <2>6, <2>7, <2>8
<1>7. CreatedOnce'
  BY <1>1 DEF CreatedOnce
<1> QED BY <1>1, <1>4, <1>6, <1>7
-----------------------------------------------------------------------------
\* The drain takes a copy of the first task.
LEMMA CopyKeepsTasks == TaskInv /\ QueueInv /\ DrainCopy => TaskInv'
<1> SUFFICES ASSUME TaskInv, QueueInv, DrainCopy PROVE TaskInv'
  OBVIOUS
<1> USE DEF TaskInv
<1>0. TaskTypes /\ QueueTypes
  BY DEF QueueInv
<1>1. /\ UNCHANGED <<main_pc, pending_write, pending_read, pending_ready,
                     pending_tasks, tasks, task_count, p_calls, p_pc, p_write,
                     c_read, accepted, dropped, at, overlap>>
      /\ c_pc = "copy" /\ c_pc' = "clear" /\ c_task' = TaskAt(c_read)
  BY DEF DrainCopy, TaskAt, main, queue, table, pvars, hist
<1>2. c_read \in Held
  <2>1. c_read \in pending_read .. pending_write - 1
    BY <1>0, <1>1, SMT DEF QueueInv, DrainKnows, QueueTypes
  <2> QED BY <1>1, <2>1 DEF QueueInv, DrainKnows, Held
<1>3. TaskTypes'
  <2>1. c_task' \in Task \cup {NoTask}
    BY <1>0, <1>1, <1>2, HeldFacts DEF TaskTypes, TaskAt
  <2> QED BY <1>0, <1>1, <2>1 DEF TaskTypes, Adding, Mine
<1>4. ASSUME ~overlap PROVE Kept'
  <2>0. Kept
    BY <1>4
  <2> USE DEF Kept
  <2>1. Held' = Held /\ InTable' = InTable /\ \A i : TaskAt(i)' = TaskAt(i)
    BY <1>1 DEF Held, InTable, TaskAt
  <2>2. c_task = NoTask
    BY <1>1, <2>0 DEF CarryOnce, Carrying
  <2>3. TaskAt(c_read) # NoTask /\ TaskAt(c_read) \notin InTable \cup dropped
    BY <1>2, <2>0, NoTaskIsNone DEF WaitOnce
  <2>4. Conserved'
    BY <1>1, <1>2, <2>0, <2>1, <2>2 DEF Conserved
  <2>5. WaitOnce'
    BY <1>1, <1>2, <2>0, <2>1 DEF WaitOnce
  <2>6. CarryOnce'
    BY <1>1, <2>1, <2>3 DEF CarryOnce, Carrying, TaskAt
  <2>7. TableOnce' /\ Fresh'
    BY <1>1, <2>0, <2>1 DEF TableOnce, Fresh, Mine
  <2>8. OneAdds'
    BY <1>1, <2>0 DEF OneAdds, AtEnd, Adding, Mine
  <2> QED BY <2>4, <2>5, <2>6, <2>7, <2>8
<1>5. CreatedOnce'
  BY <1>1 DEF CreatedOnce
<1> QED BY <1>1, <1>3, <1>4, <1>5

\* It lowers the flag: the entry no longer holds the task, the drain does.
LEMMA ClearKeepsTasks == TaskInv /\ QueueInv /\ DrainClear => TaskInv'
<1> SUFFICES ASSUME TaskInv, QueueInv, DrainClear PROVE TaskInv'
  OBVIOUS
<1> USE DEF TaskInv
<1>0. TaskTypes /\ QueueTypes
  BY DEF QueueInv
<1>1. /\ UNCHANGED <<main_pc, pending_write, pending_read,
                     pending_tasks, tasks, task_count, p_calls, p_pc, p_write,
                     c_read, c_task, accepted, dropped, at, overlap>>
      /\ c_pc = "clear" /\ c_pc' = "advance"
      /\ pending_ready' = [pending_ready EXCEPT ![SlotOf(c_read)] = FALSE]
  BY DEF DrainClear, main, table, pvars, hist
<1>2. c_read \in Held
  <2>1. c_read \in pending_read .. pending_write - 1
    BY <1>0, <1>1, SMT DEF QueueInv, DrainKnows, QueueTypes
  <2> QED BY <1>1, <2>1 DEF QueueInv, DrainKnows, Held
<1>3. Held' = Held \ {c_read}
  <2>1. /\ ~pending_ready'[SlotOf(c_read)]
        /\ \A s \in Slot \ {SlotOf(c_read)} : pending_ready'[s] = pending_ready[s]
    BY <1>0, <1>1, <1>2, HeldFacts DEF QueueTypes
  <2>2. \A i \in pending_read .. pending_write - 1 : SlotOf(i) \in Slot
    BY <1>0, SlotFacts, SMT DEF QueueTypes
  <2> QED BY <1>1, <1>2, <2>1, <2>2, HeldFacts DEF Held, SlotOf
<1>4. TaskTypes'
  BY <1>0, <1>1 DEF TaskTypes, Adding, Mine
<1>5. ASSUME ~overlap PROVE Kept'
  <2>0. Kept
    BY <1>5
  <2> USE DEF Kept
  <2>1. InTable' = InTable /\ \A i : TaskAt(i)' = TaskAt(i)
    BY <1>1 DEF InTable, TaskAt
  <2>2. c_task = TaskAt(c_read) /\ c_task # NoTask
    BY <1>1, <2>0 DEF CarryOnce, Carrying
  <2>3. Conserved'
    BY <1>1, <1>2, <1>3, <2>0, <2>1, <2>2 DEF Conserved
  <2>4. WaitOnce'
    BY <1>1, <1>2, <1>3, <2>0, <2>1 DEF WaitOnce
  <2>5. CarryOnce' /\ TableOnce' /\ Fresh'
    BY <1>1, <2>0, <2>1 DEF CarryOnce, Carrying, TableOnce, Fresh, Mine
  <2>6. OneAdds'
    BY <1>1, <2>0 DEF OneAdds, AtEnd, Adding, Mine
  <2> QED BY <2>3, <2>4, <2>5, <2>6
<1>6. CreatedOnce'
  BY <1>1 DEF CreatedOnce
<1> QED BY <1>1, <1>4, <1>5, <1>6

\* It gives back a slot that holds nothing.
LEMMA AdvanceKeepsTasks == TaskInv /\ QueueInv /\ DrainAdvance => TaskInv'
<1> SUFFICES ASSUME TaskInv, QueueInv, DrainAdvance PROVE TaskInv'
  OBVIOUS
<1> USE DEF TaskInv
<1>0. TaskTypes /\ QueueTypes
  BY DEF QueueInv
<1>1. /\ UNCHANGED <<main_pc, pending_write, pending_ready,
                     pending_tasks, tasks, task_count, p_calls, p_pc, p_write,
                     c_task, accepted, dropped, at, overlap>>
      /\ c_pc = "advance" /\ c_pc' = "add"
      /\ pending_read' = c_read + 1 /\ c_read' = c_read + 1
  BY DEF DrainAdvance, main, table, pvars, hist
<1>2. Held' = Held
  <2>1. c_read = pending_read /\ ~pending_ready[SlotOf(c_read)]
    BY <1>1 DEF QueueInv, DrainKnows
  <2>2. pending_read' .. pending_write - 1 =
            (pending_read .. pending_write - 1) \ {c_read}
    BY <1>0, <1>1, <2>1, SMT DEF QueueTypes
  <2> QED BY <1>1, <2>1, <2>2 DEF Held, SlotOf
<1>3. TaskTypes'
  BY <1>0, <1>1 DEF TaskTypes, Adding, Mine
<1>4. ASSUME ~overlap PROVE Kept'
  <2>0. Kept
    BY <1>4
  <2> USE DEF Kept
  <2>1. InTable' = InTable /\ \A i : TaskAt(i)' = TaskAt(i)
    BY <1>1 DEF InTable, TaskAt
  <2>2. Conserved'
    BY <1>1, <1>2, <2>0, <2>1 DEF Conserved
  <2>3. WaitOnce'
    BY <1>1, <1>2, <2>0, <2>1 DEF WaitOnce
  <2>4. CarryOnce' /\ TableOnce' /\ Fresh'
    BY <1>1, <2>0, <2>1 DEF CarryOnce, Carrying, TableOnce, Fresh, Mine
  <2>5. OneAdds'
    BY <1>1, <2>0 DEF OneAdds, AtEnd, Adding, Mine
  <2> QED BY <2>2, <2>3, <2>4, <2>5
<1>5. CreatedOnce'
  BY <1>1 DEF CreatedOnce
<1> QED BY <1>1, <1>3, <1>4, <1>5

\* It enters plc_scheduler_add_task_internal ...
LEMMA DrainRoomKeepsTasks ==
    TaskInv /\ QueueInv /\ DrainRoom /\ task_count < TableSize => TaskInv'
<1> SUFFICES ASSUME TaskInv, QueueInv, DrainRoom, task_count < TableSize
             PROVE  TaskInv'
  OBVIOUS
<1> USE DEF TaskInv
<1>0. TaskTypes /\ QueueTypes /\ Drainer \in Adder
  BY DEF QueueInv, Adder
<1>1. /\ UNCHANGED <<main_pc, pending_write, pending_read, pending_ready,
                     pending_tasks, tasks, task_count, p_calls, p_pc, p_write,
                     c_read, c_task, accepted, dropped>>
      /\ c_pc = "add" /\ c_pc' = "store"
      /\ at' = [at EXCEPT ![Drainer] = task_count]
      /\ overlap' = (overlap \/ Overlaps(Drainer))
  BY DEF DrainRoom, main, queue, table, pvars
<1>2. at'[Drainer] = task_count /\ \A q \in Producers : at'[q] = at[q]
  BY <1>0, <1>1, DrainerAssumption DEF TaskTypes, Adder
<1>3. TaskTypes'
  <2>1. at' \in [Adder -> Nat]
    BY <1>0, <1>1 DEF TaskTypes
  <2>2. overlap' \in BOOLEAN
    BY <1>0, <1>1, Zenon DEF TaskTypes, Overlaps, Adding
  <2> QED BY <1>0, <1>1, <1>2, <2>1, <2>2 DEF TaskTypes, Mine
<1>4. ASSUME ~overlap' PROVE Kept'
  <2>0. Kept /\ ~Overlaps(Drainer)
    BY <1>1, <1>4
  <2> USE DEF Kept
  <2>1. Held' = Held /\ InTable' = InTable /\ \A i : TaskAt(i)' = TaskAt(i)
    BY <1>1 DEF Held, InTable, TaskAt
  <2>2. Conserved'
    BY <1>1, <2>0, <2>1 DEF Conserved
  <2>3. WaitOnce' /\ CarryOnce' /\ TableOnce' /\ Fresh'
    BY <1>1, <2>0, <2>1
       DEF WaitOnce, CarryOnce, Carrying, TableOnce, Fresh, Mine
  <2>4. \A q \in Producers : ~Adding(p_pc[q])
    BY <2>0, DrainerAssumption DEF Overlaps
  <2>5. OneAdds'
    BY <1>1, <1>2, <2>4 DEF OneAdds, AtEnd
  <2> QED BY <2>2, <2>3, <2>5
<1>5. CreatedOnce'
  BY <1>1 DEF CreatedOnce
<1> QED BY <1>3, <1>4, <1>5

\* ... or finds no room and drops the task.
LEMMA DrainDropKeepsTasks ==
    TaskInv /\ QueueInv /\ DrainRoom /\ ~(task_count < TableSize) => TaskInv'
<1> SUFFICES ASSUME TaskInv, QueueInv, DrainRoom, ~(task_count < TableSize)
             PROVE  TaskInv'
  OBVIOUS
<1> USE DEF TaskInv
<1>0. TaskTypes
  OBVIOUS
<1>1. /\ UNCHANGED <<main_pc, pending_write, pending_read, pending_ready,
                     pending_tasks, tasks, task_count, p_calls, p_pc, p_write,
                     c_read, accepted, at, overlap>>
      /\ c_pc = "add" /\ c_pc' = "check" /\ c_task' = NoTask
      /\ dropped' = dropped \cup {c_task}
  BY DEF DrainRoom, main, queue, table, pvars
<1>2. task_count = TableSize
  BY <1>0, SMT DEF TaskTypes
<1>3. ASSUME ~overlap PROVE Kept'
  <2>0. Kept
    BY <1>3
  <2> USE DEF Kept
  <2>1. Held' = Held /\ InTable' = InTable /\ \A i : TaskAt(i)' = TaskAt(i)
    BY <1>1 DEF Held, InTable, TaskAt
  <2>2. c_task # NoTask /\ c_task \in Task
    BY <1>0, <1>1, <2>0 DEF CarryOnce, Carrying, TaskTypes
  <2>3. Conserved'
    BY <1>1, <2>0, <2>1, <2>2 DEF Conserved
  <2>4. WaitOnce'
    BY <1>1, <2>0, <2>1, NoTaskIsNone DEF WaitOnce
  <2>5. NoTask \notin InTable \cup dropped'
    BY <1>0, <1>1, <2>0, <2>2, NoTaskIsNone DEF Conserved, TaskTypes
  <2>6. CarryOnce'
    BY <1>1, <2>1, <2>5 DEF CarryOnce, Carrying
  <2>7. TableOnce' /\ Fresh'
    BY <1>1, <1>2, <2>0, <2>1 DEF TableOnce, Fresh, Mine
  <2>8. OneAdds'
    BY <1>1, <2>0 DEF OneAdds, AtEnd, Adding, Mine
  <2> QED BY <2>3, <2>4, <2>6, <2>7, <2>8
<1>4. TaskTypes'
  <2>1. dropped' \subseteq Task \cup {NoTask}
    BY <1>0, <1>1 DEF TaskTypes
  <2> QED BY <1>0, <1>1, <2>1 DEF TaskTypes, Adding, Mine
<1>5. CreatedOnce'
  BY <1>1 DEF CreatedOnce
<1> QED BY <1>1, <1>3, <1>4, <1>5

\* It writes the entry behind the end of the table ...
LEMMA DrainStoreKeepsTasks == TaskInv /\ QueueInv /\ DrainStore => TaskInv'
<1> SUFFICES ASSUME TaskInv, QueueInv, DrainStore PROVE TaskInv'
  OBVIOUS
<1> USE DEF TaskInv
<1>0. TaskTypes /\ Drainer \in Adder
  BY DEF Adder
<1>1. /\ UNCHANGED <<main_pc, pending_write, pending_read, pending_ready,
                     pending_tasks, task_count, p_calls, p_pc, p_write,
                     c_read, c_task, accepted, dropped, at, overlap>>
      /\ c_pc = "store" /\ c_pc' = "count"
      /\ tasks' = [tasks EXCEPT ![at[Drainer] + 1] = c_task]
  BY DEF DrainStore, StoreTask, main, queue, pvars, hist
<1>2. at[Drainer] + 1 \in 1 .. TableSize
  BY <1>0, <1>1, SMT DEF TaskTypes, Adding
<1>3. tasks' \in [1 .. TableSize -> Task \cup {NoTask}]
  BY <1>0, <1>1 DEF TaskTypes
<1>4. TaskTypes'
  BY <1>0, <1>1, <1>3 DEF TaskTypes, Mine, Adding
<1>5. ASSUME ~overlap PROVE Kept'
  <2>0. Kept
    BY <1>5
  <2> USE DEF Kept
  <2>1. \A k \in 1 .. task_count : tasks'[k] = tasks[k]
    <3>1. at[Drainer] = task_count
      BY <1>1, <2>0 DEF OneAdds, AtEnd, Adding
    <3>2. \A k \in 1 .. task_count : k \in 1 .. TableSize /\ k # at[Drainer] + 1
      BY <1>0, <3>1, SMT DEF TaskTypes
    <3> QED BY <1>0, <1>1, <3>2 DEF TaskTypes
  <2>2. Held' = Held /\ InTable' = InTable /\ \A i : TaskAt(i)' = TaskAt(i)
    BY <1>1, <2>1 DEF Held, InTable, TaskAt
  <2>3. Conserved'
    BY <1>1, <2>0, <2>2 DEF Conserved
  <2>4. WaitOnce' /\ CarryOnce'
    BY <1>1, <2>0, <2>2 DEF WaitOnce, CarryOnce, Carrying
  <2>5. TableOnce' /\ Fresh'
    BY <1>1, <2>0, <2>1, <2>2 DEF TableOnce, Fresh, Mine
  <2>6. tasks'[at[Drainer] + 1] = c_task
    BY <1>0, <1>1, <1>2 DEF TaskTypes
  <2>7. \A q \in Producers : ~Adding(p_pc[q])
    BY <1>1, <2>0 DEF OneAdds, Adding
  <2>8. AtEnd(Drainer)'
    BY <1>1, <2>0 DEF OneAdds, AtEnd, Adding
  <2>9. OneAdds'
    BY <1>1, <2>6, <2>7, <2>8 DEF OneAdds
  <2> QED BY <2>3, <2>4, <2>5, <2>9
<1>6. CreatedOnce'
  BY <1>1 DEF CreatedOnce
<1> QED BY <1>1, <1>4, <1>5, <1>6

\* ... and makes it part of the table.
LEMMA DrainCountKeepsTasks == TaskInv /\ QueueInv /\ DrainCount => TaskInv'
<1> SUFFICES ASSUME TaskInv, QueueInv, DrainCount PROVE TaskInv'
  OBVIOUS
<1> USE DEF TaskInv
<1>0. TaskTypes /\ Drainer \in Adder
  BY DEF Adder
<1>1. /\ UNCHANGED <<main_pc, pending_write, pending_read, pending_ready,
                     pending_tasks, tasks, p_calls, p_pc, p_write,
                     c_read, accepted, dropped, at, overlap>>
      /\ c_pc = "count" /\ c_pc' = "check" /\ c_task' = NoTask
      /\ task_count' = at[Drainer] + 1
  BY DEF DrainCount, CountTask, main, queue, pvars, hist
<1>2. at[Drainer] + 1 \in 0 .. TableSize /\ at[Drainer] < TableSize
  BY <1>0, <1>1, SMT DEF TaskTypes, Adding
<1>3. TaskTypes'
  BY <1>0, <1>1, <1>2 DEF TaskTypes, Mine, Adding
<1>4. ASSUME ~overlap PROVE Kept'
  <2>0. Kept
    BY <1>4
  <2> USE DEF Kept
  <2>1. /\ at[Drainer] = task_count /\ tasks[task_count + 1] = c_task
        /\ \A q \in Producers : ~Adding(p_pc[q])
    BY <1>1, <2>0 DEF OneAdds, AtEnd, Adding
  <2>2. 1 .. task_count' = (1 .. task_count) \cup {task_count + 1}
    BY <1>0, <1>1, <2>1, SMT DEF TaskTypes
  <2>3. InTable' = InTable \cup {c_task}
    BY <1>1, <2>1, <2>2 DEF InTable
  <2>4. Held' = Held /\ \A i : TaskAt(i)' = TaskAt(i)
    BY <1>1 DEF Held, TaskAt
  <2>5. c_task # NoTask /\ c_task \notin InTable \cup dropped
    BY <1>1, <2>0 DEF CarryOnce, Carrying
  <2>6. Conserved'
    BY <1>1, <2>0, <2>3, <2>4, <2>5 DEF Conserved
  <2>7. WaitOnce'
    BY <1>1, <2>0, <2>3, <2>4, NoTaskIsNone DEF WaitOnce
  <2>8. CarryOnce'
    <3>1. NoTask \notin InTable' \cup dropped
      BY <1>0, <2>0, <2>3, <2>5, NoTaskIsNone DEF Conserved, TaskTypes
    <3> QED BY <1>1, <3>1 DEF CarryOnce, Carrying
  <2>9. TableOnce'
    <3>1. \A j \in 1 .. task_count : tasks[j] # c_task
      BY <2>5 DEF InTable
    <3>2. \A j, k \in 1 .. task_count' : tasks'[j] = tasks'[k] => j = k
      BY <1>1, <2>0, <2>1, <2>2, <3>1 DEF TableOnce
    <3>3. dropped = {}
      BY <1>0, <1>2, <2>0, <2>1, SMT DEF TableOnce, TaskTypes
    <3> QED BY <1>1, <3>2, <3>3 DEF TableOnce
  <2>10. Fresh'
    BY <1>1, <2>0, <2>4 DEF Fresh, Mine
  <2>11. OneAdds'
    BY <1>1, <2>1 DEF OneAdds, Adding
  <2> QED BY <2>6, <2>7, <2>8, <2>9, <2>10, <2>11
<1>5. CreatedOnce'
  BY <1>1 DEF CreatedOnce
<1> QED BY <1>1, <1>3, <1>4, <1>5

\* Every step of the thread.
LEMMA DrainKeepsTasks == TaskInv /\ QueueInv /\ Drain => TaskInv'
<1> SUFFICES ASSUME TaskInv, QueueInv, Drain PROVE TaskInv'
  OBVIOUS
<1>1. CASE DrainBegin \/ DrainCheck \/ ThreadExit
  <2>1. /\ UNCHANGED <<queue, table, c_task, accepted, dropped, p_calls, at,
                       overlap, p_pc, p_write, main_pc>>
        /\ {c_pc, c_pc'} \subseteq {"none", "idle", "check", "copy", "exited"}
        /\ c_pc # "none"
    BY <1>1 DEF DrainBegin, DrainCheck, ThreadExit, main, pvars, hist
  <2>2. CreatedOnce'
    BY <2>1 DEF TaskInv, CreatedOnce
  <2> QED BY <2>1, <2>2, TasksStay
<1>2. CASE DrainRoom
  <2>1. CASE task_count < TableSize
    BY <1>2, <2>1, DrainRoomKeepsTasks
  <2>2. CASE ~(task_count < TableSize)
    BY <1>2, <2>2, DrainDropKeepsTasks
  <2> QED BY <2>1, <2>2
<1> QED BY <1>1, <1>2, CopyKeepsTasks, ClearKeepsTasks, AdvanceKeepsTasks,
           DrainStoreKeepsTasks, DrainCountKeepsTasks DEF Drain

\* Every step of a producer.
LEMMA ProduceKeepsTasks ==
    ASSUME TaskInv, QueueInv, NEW p \in Producers, Produce(p)
    PROVE  TaskInv'
<1>1. CASE \/ AddDirect(p) \/ QueueLoadRead(p) \/ QueueLoadWrite(p)
           \/ QueueClaim(p) /\ ~Claimed(p)
           \/ DirectRoom(p) /\ task_count >= TableSize
  BY <1>1, SearchKeepsTasks
<1>2. CASE DirectRoom(p) /\ task_count < TableSize
  BY <1>2, RoomKeepsTasks
<1>3. CASE QueueClaim(p) /\ Claimed(p)
  BY <1>3, ClaimKeepsTasks
<1>4. task_count < TableSize \/ task_count >= TableSize
  BY SMT DEF TaskInv, TaskTypes
<1> QED BY <1>1, <1>2, <1>3, <1>4, CallKeepsTasks, StoreKeepsTasks, CountKeepsTasks,
           FillKeepsTasks, ReadyKeepsTasks DEF Produce
-----------------------------------------------------------------------------
\* Where each accepted task is, in every state.
THEOREM TasksCorrect == Spec => []TaskInv
<1>1. TaskInv /\ QueueInv /\ [Next]_vars => TaskInv'
  <2> SUFFICES ASSUME TaskInv, QueueInv, [Next]_vars PROVE TaskInv'
    OBVIOUS
  <2>1. CASE Main
    BY <2>1, MainKeepsTasks
  <2>2. CASE Drain
    BY <2>2, DrainKeepsTasks
  <2>3. CASE \E p \in Producers : Produce(p)
    BY <2>3, ProduceKeepsTasks
  <2>4. CASE UNCHANGED vars
    <3>1. UNCHANGED <<queue, table, c_task, accepted, dropped, p_calls, at,
                      overlap, p_pc, p_write, c_pc, c_read, main_pc>>
      BY <2>4 DEF vars, main, pvars, cvars, hist
    <3>2. CreatedOnce'
      BY <3>1 DEF TaskInv, CreatedOnce
    <3> QED BY <3>1, <3>2, TasksStay
  <2> QED BY <2>1, <2>2, <2>3, <2>4 DEF Next
<1> QED BY <1>1, InitTasks, QueueCorrect, PTL DEF Spec

\* A task whose call to plc_scheduler_add_task_runtime returned 0 is never lost
\* and never added twice, unless two threads add directly at the same time.
THEOREM TasksKept == Spec => []AcceptedKept
<1>1. TaskInv => AcceptedKept
  <2> SUFFICES ASSUME TaskInv, ~overlap
               PROVE  /\ accepted = Waiting \cup ({c_task} \ {NoTask})
                                     \cup ToSet(Table) \cup dropped
                      /\ IsInjective(Table)
                      /\ dropped # {} => task_count = TableSize
    BY DEF AcceptedKept
  <2>1. Kept /\ TaskTypes
    BY DEF TaskInv
  <2>2. Waiting = {TaskAt(i) : i \in Held}
    BY DEF Waiting, Held, TaskAt
  <2>3. /\ DOMAIN Table = 1 .. task_count
        /\ \A k \in 1 .. task_count : Table[k] = tasks[k]
    <3>1. tasks \in Seq(Task \cup {NoTask})
      BY <2>1 DEF TaskTypes
    <3>2. Len(tasks) = TableSize
      BY <2>1, <3>1, SMT DEF TaskTypes
    <3> QED BY <2>1, <3>1, <3>2, SubSeqProperties, SMT DEF Table, TaskTypes
  <2>4. ToSet(Table) = InTable
    BY <2>3 DEF ToSet, InTable
  <2>5. IsInjective(Table)
    BY <2>1, <2>3 DEF IsInjective, Kept, TableOnce
  <2> QED BY <2>1, <2>2, <2>4, <2>5 DEF Kept, Conserved, TableOnce
<1> QED BY <1>1, TasksCorrect, PTL
-----------------------------------------------------------------------------
(* The order of each thread's tasks. *)

\* Tasks of one producer, in the order of its calls.
Earlier(s, t) == s[1] = t[1] => s[2] < t[2]
\* Where a producer is once it has found the scheduler stopped, or running.
DirectStep == {"direct", "room", "store", "count"}
QueueStep == {"load_read", "load_write", "cas", "fill", "ready"}

\* Queues are used only after the start.
Phase == /\ main_pc \in {"init", "starting", "run", "stopped"}
         /\ main_pc = "init" => /\ ~running /\ pending_write = 0
                                /\ \A p \in Producers : p_pc[p] \notin QueueStep
         /\ main_pc \in {"starting", "run"} => running

\* A producer's tasks are in order from the table over the drain to the queue ...
TableOrder == \A j, k \in 1 .. task_count : j < k => Earlier(tasks[j], tasks[k])
WaitOrder == \A i, k \in Held : i < k => Earlier(TaskAt(i), TaskAt(k))
CrossOrder == \A s \in InTable, i \in Held : Earlier(s, TaskAt(i))
CarryOrder == c_task # NoTask =>
    /\ \A s \in InTable : Earlier(s, c_task)
    /\ c_pc # "clear" => \A i \in Held : Earlier(c_task, TaskAt(i))
\* ... it claims its slots in order, and it adds directly only before that.
ClaimOrder == \A p \in Producers : Filling(p) =>
    \A i \in Held : TaskAt(i)[1] = p => i < p_write[p]
DirectFirst == \A p \in Producers : p_pc[p] \in DirectStep =>
    /\ \A i \in Held : TaskAt(i)[1] # p
    /\ c_task # NoTask => c_task[1] # p

InOrder == /\ TableOrder /\ WaitOrder /\ CrossOrder /\ CarryOrder /\ ClaimOrder
           /\ DirectFirst
OrderInv == Phase /\ (~overlap /\ main_pc # "stopped" => InOrder)
-----------------------------------------------------------------------------
\* An accepted task of a producer with a call under way is from an earlier call.
LEMMA AcceptedEarlier ==
    ASSUME TaskTypes, Kept, NEW p \in Producers, p_pc[p] # "idle",
           NEW t \in accepted
    PROVE  Earlier(t, Mine(p)) /\ Mine(p)[1] = p
<1>1. Mine(p)[1] = p /\ Mine(p)[2] = p_calls[p] /\ p_calls[p] \in Nat
  BY DEF Mine, TaskTypes
<1>2. t \in Producers \X (1 .. Calls) /\ t[2] <= p_calls[t[1]] /\ t # Mine(p)
  BY DEF Kept, Fresh, TaskTypes, Task
<1>3. t[1] = p => t[2] # p_calls[p]
  BY <1>2 DEF Mine
<1>4. t[2] \in Nat
  BY <1>2
<1> QED BY <1>1, <1>2, <1>3, <1>4, SMT DEF Earlier

\* Before init_default no task is anywhere.
LEMMA InitOrder == Init => OrderInv
<1> SUFFICES ASSUME Init PROVE OrderInv
  OBVIOUS
<1>1. Held = {} /\ InTable = {}
  BY SMT DEF Init, Held, InTable
<1>2. Phase
  BY DEF Init, Phase, QueueStep
<1>3. TableOrder /\ WaitOrder /\ CrossOrder
  BY <1>1, SMT DEF Init, TableOrder, WaitOrder, CrossOrder
<1>4. CarryOrder /\ ClaimOrder /\ DirectFirst
  BY <1>1 DEF Init, CarryOrder, ClaimOrder, DirectFirst, DirectStep, Filling
<1> QED BY <1>2, <1>3, <1>4 DEF OrderInv, InOrder

\* Only main changes the phase; a task is queued only while it runs.
LEMMA PhaseKept == ASSUME TaskInv, QueueInv, Phase, [Next]_vars PROVE Phase'
<1> USE DEF Phase
<1>1. CASE Main
  BY <1>1 DEF Main, Start, CreateThread, Stop, queue, pvars
<1>2. CASE Drain
  BY <1>2 DEF Drain, DrainBegin, DrainCheck, DrainCopy, DrainClear,
     DrainAdvance, DrainRoom, DrainStore, DrainCount, ThreadExit, main, queue,
     pvars
<1>3. ASSUME NEW p \in Producers, Produce(p) PROVE Phase'
  <2>1. p_pc \in [Producers -> ProducerStep]
    BY DEF QueueInv, QueueTypes
  <2>2. UNCHANGED main
    BY <1>3 DEF Produce, AddRuntime, AddDirect, DirectRoom, DirectStore,
       DirectCount, QueueLoadRead, QueueLoadWrite, QueueClaim, QueueFill,
       QueueReady
  <2>3. ASSUME main_pc = "init"
        PROVE  /\ pending_write' = pending_write
               /\ \A q \in Producers : p_pc'[q] \notin QueueStep
    BY <1>3, <2>1, <2>3 DEF Produce, AddRuntime, AddDirect, DirectRoom,
       DirectStore, DirectCount, QueueLoadRead, QueueLoadWrite, QueueClaim,
       QueueFill, QueueReady, QueueStep, queue
  <2> QED BY <2>2, <2>3 DEF main
<1>4. CASE UNCHANGED vars
  BY <1>4 DEF vars, main, queue, pvars
<1> QED BY <1>1, <1>2, <1>3, <1>4 DEF Next

\* Steps that move no task, claim no slot and add no direct call.
LEMMA OrderStays ==
    ASSUME InOrder, UNCHANGED <<tasks, task_count, c_task>>, Held' = Held,
           \A i \in Held : TaskAt(i)' = TaskAt(i),
           c_pc = "clear" <=> c_pc' = "clear",
           \A p \in Producers : Filling(p)' => Filling(p) /\ p_write'[p] = p_write[p],
           \A p \in Producers : p_pc'[p] \in DirectStep => p_pc[p] \in DirectStep
    PROVE  InOrder'
<1>1. InTable' = InTable
  BY DEF InTable
<1>2. TableOrder' /\ WaitOrder' /\ CrossOrder'
  BY <1>1 DEF InOrder, TableOrder, WaitOrder, CrossOrder, Earlier
<1>3. CarryOrder' /\ ClaimOrder' /\ DirectFirst'
  BY <1>1 DEF InOrder, CarryOrder, ClaimOrder, DirectFirst, Earlier
<1> QED BY <1>2, <1>3 DEF InOrder

\* A call that is still looking for a place for its task.
LEMMA SearchKeepsOrder ==
    ASSUME TaskInv, QueueInv, InOrder, NEW p \in Producers,
           \/ AddDirect(p) \/ QueueLoadRead(p) \/ QueueLoadWrite(p)
           \/ QueueClaim(p) /\ ~Claimed(p)
           \/ DirectRoom(p)
    PROVE  InOrder'
<1>0. p_pc \in [Producers -> ProducerStep] /\ p_write \in [Producers -> Nat]
  BY DEF QueueInv, QueueTypes
<1>1. UNCHANGED <<queue, table, c_task, c_pc>>
  BY DEF AddDirect, QueueLoadRead, QueueLoadWrite, QueueClaim, DirectRoom,
     hist, cvars, main, queue, table
<1>2. /\ \A q \in Producers : Filling(q)' => Filling(q) /\ p_write'[q] = p_write[q]
      /\ \A q \in Producers : p_pc'[q] \in DirectStep => p_pc[q] \in DirectStep
  BY <1>0 DEF AddDirect, QueueLoadRead, QueueLoadWrite, QueueClaim, DirectRoom,
     Filling, DirectStep
<1>3. Held' = Held /\ \A i : TaskAt(i)' = TaskAt(i)
  BY <1>1 DEF queue, Held, TaskAt
<1> QED BY <1>1, <1>2, <1>3, OrderStays DEF queue, table

\* A call that finds the scheduler stopped comes before the first that queues.
LEMMA CallKeepsOrder ==
    ASSUME TaskInv, QueueInv, Kept, InOrder, Phase, main_pc # "stopped",
           NEW p \in Producers, AddRuntime(p)
    PROVE  InOrder'
<1>0. p_pc \in [Producers -> ProducerStep] /\ QueueTypes
  BY DEF QueueInv, QueueTypes
<1>1. /\ UNCHANGED <<queue, table, c_task, c_pc, p_write>>
      /\ p_pc' = [p_pc EXCEPT ![p] = IF running THEN "load_read" ELSE "direct"]
  BY DEF AddRuntime, cvars
<1>2. Held' = Held /\ InTable' = InTable /\ \A i : TaskAt(i)' = TaskAt(i)
  BY <1>1 DEF queue, table, Held, TaskAt, InTable
<1>3. CASE running
  <2>1. /\ \A q \in Producers : Filling(q)' => Filling(q) /\ p_write'[q] = p_write[q]
        /\ \A q \in Producers : p_pc'[q] \in DirectStep => p_pc[q] \in DirectStep
    BY <1>0, <1>1, <1>3 DEF Filling, DirectStep
  <2> QED BY <1>1, <1>2, <2>1, OrderStays DEF queue, table
<1>4. CASE ~running
  <2>1. main_pc = "init" /\ pending_write = 0
    BY <1>4 DEF Phase
  <2>2. Held = {}
    BY <1>0, <2>1, SMT DEF Held, QueueTypes
  <2>3. c_task = NoTask
    BY <2>1 DEF Kept, CarryOnce, Carrying, TaskInv, CreatedOnce
  <2>4. TableOrder' /\ WaitOrder' /\ CrossOrder' /\ CarryOrder' /\ ClaimOrder'
    BY <1>1, <1>2, <2>2, <2>3 DEF table, InOrder, TableOrder, WaitOrder,
       CrossOrder, CarryOrder, ClaimOrder, Earlier
  <2>5. DirectFirst'
    BY <1>1, <1>2, <2>2, <2>3 DEF DirectFirst
  <2> QED BY <2>4, <2>5 DEF InOrder
<1> QED BY <1>3, <1>4

\* The entry behind the table's end is not yet in the table.
LEMMA StoreKeepsOrder ==
    ASSUME TaskInv, QueueInv, Kept, InOrder,
           DrainStore \/ \E p \in Producers : DirectStore(p)
    PROVE  InOrder'
<1>0. p_pc \in [Producers -> ProducerStep] /\ TaskTypes
  BY DEF QueueInv, QueueTypes, TaskInv
<1>1. /\ UNCHANGED <<queue, task_count, c_task, p_write>>
      /\ \E t : tasks' = [tasks EXCEPT ![task_count + 1] = t]
      /\ c_pc = "clear" <=> c_pc' = "clear"
      /\ \A q \in Producers : Filling(q)' => Filling(q)
      /\ \A q \in Producers : p_pc'[q] \in DirectStep => p_pc[q] \in DirectStep
  <2>1. CASE DrainStore
    BY <1>0, <2>1 DEF DrainStore, StoreTask, Kept, OneAdds, Adding, AtEnd, pvars,
       Filling
  <2>2. ASSUME NEW p \in Producers, DirectStore(p)
        PROVE  /\ UNCHANGED <<queue, task_count, c_task, p_write, c_pc>>
               /\ tasks' = [tasks EXCEPT ![task_count + 1] = Mine(p)]
               /\ \A q \in Producers : Filling(q)' => Filling(q)
               /\ \A q \in Producers : p_pc'[q] \in DirectStep => p_pc[q] \in DirectStep
    BY <1>0, <2>2 DEF DirectStore, StoreTask, Kept, OneAdds, Adding, AtEnd, cvars,
       Filling, DirectStep, Mine
  <2> QED BY <2>1, <2>2
<1>2. \A j \in 1 .. task_count : tasks'[j] = tasks[j]
  BY <1>0, <1>1, SMT DEF TaskTypes
<1>3. Held' = Held /\ InTable' = InTable /\ \A i : TaskAt(i)' = TaskAt(i)
  BY <1>1, <1>2 DEF queue, Held, TaskAt, InTable
<1>4. TableOrder' /\ WaitOrder' /\ CrossOrder'
  BY <1>1, <1>2, <1>3 DEF InOrder, TableOrder, WaitOrder, CrossOrder, Earlier
<1>5. CarryOrder' /\ ClaimOrder' /\ DirectFirst'
  BY <1>1, <1>3 DEF InOrder, CarryOrder, ClaimOrder, DirectFirst, Earlier
<1> QED BY <1>4, <1>5 DEF InOrder

\* A task added directly comes after all that its producer has added.
LEMMA CountKeepsOrder ==
    ASSUME TaskInv, QueueInv, Kept, InOrder, NEW p \in Producers, DirectCount(p)
    PROVE  InOrder'
<1>0. p_pc \in [Producers -> ProducerStep] /\ TaskTypes
  BY DEF QueueInv, QueueTypes, TaskInv
<1>1. /\ UNCHANGED <<queue, tasks, c_task, c_pc, p_write>>
      /\ p_pc[p] = "count" /\ p_pc' = [p_pc EXCEPT ![p] = "idle"]
      /\ task_count' = task_count + 1 /\ tasks[task_count + 1] = Mine(p)
  BY DEF DirectCount, CountTask, cvars, Kept, OneAdds, AtEnd, Adding
<1>2. Held' = Held /\ \A i : TaskAt(i)' = TaskAt(i)
  BY <1>1 DEF queue, Held, TaskAt
<1>3. /\ InTable' = InTable \cup {Mine(p)}
      /\ 1 .. task_count' = (1 .. task_count) \cup {task_count + 1}
  <2>1. 1 .. task_count' = (1 .. task_count) \cup {task_count + 1}
    BY <1>0, <1>1, SMT DEF TaskTypes
  <2> QED BY <1>1, <2>1 DEF InTable
<1>4. /\ \A s \in InTable : Earlier(s, Mine(p))
      /\ Mine(p)[1] = p
  <2>1. InTable \subseteq accepted
    BY DEF Kept, Conserved
  <2>2. Mine(p)[1] = p
    BY DEF Mine
  <2> QED BY <1>1, <2>1, <2>2, AcceptedEarlier DEF TaskInv
<1>5. TableOrder'
  <2> SUFFICES ASSUME NEW j \in 1 .. task_count + 1, NEW k \in 1 .. task_count + 1,
                      j < k
               PROVE  Earlier(tasks[j], tasks[k])
    BY <1>1 DEF TableOrder, Earlier
  <2>1. j \in 1 .. task_count
    BY <1>0, SMT DEF TaskTypes
  <2>2. CASE k \in 1 .. task_count
    BY <2>1, <2>2 DEF InOrder, TableOrder
  <2>3. CASE k = task_count + 1
    BY <1>1, <1>4, <2>1, <2>3 DEF InTable
  <2> QED BY <1>1, <1>3, <2>2, <2>3
<1>6. /\ \A i \in Held : TaskAt(i)[1] # p
      /\ c_task # NoTask => c_task[1] # p
  BY <1>1 DEF InOrder, DirectFirst, DirectStep
<1>7. WaitOrder' /\ CrossOrder'
  BY <1>1, <1>2, <1>3, <1>4, <1>6 DEF InOrder, WaitOrder, CrossOrder, Earlier
<1>8. CarryOrder'
  BY <1>1, <1>2, <1>3, <1>4, <1>6 DEF InOrder, CarryOrder, Earlier
<1>9. ClaimOrder' /\ DirectFirst'
  BY <1>0, <1>1, <1>2 DEF InOrder, ClaimOrder, DirectFirst, DirectStep, Filling
<1> QED BY <1>5, <1>7, <1>8, <1>9 DEF InOrder

\* A claimed slot comes after all that hold a task.
LEMMA ClaimKeepsOrder ==
    ASSUME TaskInv, QueueInv, InOrder, NEW p \in Producers, QueueClaim(p),
           Claimed(p)
    PROVE  InOrder'
<1>0. p_pc \in [Producers -> ProducerStep] /\ QueueTypes
  BY DEF QueueInv, QueueTypes
<1>1. /\ UNCHANGED <<pending_read, pending_ready, pending_tasks, table, p_write,
                     c_pc, c_task>>
      /\ p_pc[p] = "cas" /\ p_pc' = [p_pc EXCEPT ![p] = "fill"]
      /\ pending_write = p_write[p] /\ pending_write' = pending_write + 1
  BY DEF QueueClaim, Claimed, cvars
<1>2. Held' = Held
  <2>1. p_write[p] < pending_read + Slots
    BY <1>0, <1>1, SMT DEF QueueInv, ClaimSafe, QueueTypes
  <2>2. ~pending_ready[SlotOf(pending_write)]
    BY <1>0, <1>1, <2>1, SMT DEF QueueInv, FreeLowered, QueueTypes
  <2>3. pending_read .. pending_write' - 1 =
            (pending_read .. pending_write - 1) \cup {pending_write}
    BY <1>0, <1>1, SMT DEF QueueInv, Window, QueueTypes
  <2> QED BY <1>1, <2>2, <2>3 DEF Held, SlotOf
<1>3. InTable' = InTable /\ \A i : TaskAt(i)' = TaskAt(i)
  BY <1>1 DEF table, InTable, TaskAt
<1>4. TableOrder' /\ WaitOrder' /\ CrossOrder' /\ CarryOrder'
  BY <1>1, <1>2, <1>3 DEF table, InOrder, TableOrder, WaitOrder, CrossOrder,
     CarryOrder, Earlier
<1>5. \A i \in Held : i < p_write[p]
  BY <1>0, <1>1, SMT DEF Held, QueueTypes
<1>6. ClaimOrder'
  BY <1>0, <1>1, <1>2, <1>3, <1>5 DEF InOrder, ClaimOrder, Filling
<1>7. DirectFirst'
  BY <1>0, <1>1, <1>2, <1>3 DEF InOrder, DirectFirst, DirectStep
<1> QED BY <1>4, <1>6, <1>7 DEF InOrder

\* The slot that is filled does not count until its flag is up.
LEMMA FillKeepsOrder ==
    ASSUME TaskInv, QueueInv, InOrder, NEW p \in Producers, QueueFill(p)
    PROVE  InOrder'
<1>0. p_pc \in [Producers -> ProducerStep] /\ TaskTypes /\ QueueTypes
  BY DEF QueueInv, QueueTypes, TaskInv
<1>1. /\ UNCHANGED <<pending_write, pending_read, pending_ready, table, p_write,
                     c_pc, c_task>>
      /\ p_pc[p] = "fill" /\ p_pc' = [p_pc EXCEPT ![p] = "ready"]
      /\ pending_tasks' = [pending_tasks EXCEPT ![SlotOf(p_write[p])] = Mine(p)]
  BY DEF QueueFill, Mine, cvars
<1>2. SlotOf(p_write[p]) \in Slot /\ ~pending_ready[SlotOf(p_write[p])]
  BY <1>0, <1>1, SlotFacts DEF QueueTypes, QueueInv, ClaimHeld, Filling
<1>3. Held' = Held
  BY <1>1 DEF Held
<1>4. \A i \in Held : TaskAt(i)' = TaskAt(i)
  BY <1>0, <1>1, <1>2, HeldFacts DEF TaskTypes, TaskAt
<1>5. /\ \A q \in Producers : Filling(q)' => Filling(q) /\ p_write'[q] = p_write[q]
      /\ \A q \in Producers : p_pc'[q] \in DirectStep => p_pc[q] \in DirectStep
  BY <1>0, <1>1 DEF Filling, DirectStep
<1> QED BY <1>1, <1>3, <1>4, <1>5, OrderStays DEF table

\* The new entry is the last of its producer, in the queue and in time.
LEMMA ReadyKeepsOrder ==
    ASSUME TaskInv, QueueInv, Kept, InOrder, NEW p \in Producers, QueueReady(p)
    PROVE  InOrder'
<1>0. p_pc \in [Producers -> ProducerStep] /\ TaskTypes /\ QueueTypes
  BY DEF QueueInv, QueueTypes, TaskInv
<1> DEFINE w == p_write[p]
<1>1. /\ UNCHANGED <<pending_write, pending_read, pending_tasks, table, p_write,
                     c_pc, c_task>>
      /\ p_pc[p] = "ready" /\ p_pc' = [p_pc EXCEPT ![p] = "idle"]
      /\ pending_ready' = [pending_ready EXCEPT ![SlotOf(w)] = TRUE]
  BY DEF QueueReady, cvars
<1>2. w \in Nat /\ SlotOf(w) \in Slot /\ Filling(p)
  BY <1>0, <1>1, SlotFacts DEF QueueTypes, Filling
<1>3. \A i \in Held' : i \in Held \/ i = w
  <2> SUFFICES ASSUME NEW i \in Held', i # w PROVE i \in Held
    OBVIOUS
  <2>1. /\ i \in pending_read .. pending_write - 1
        /\ pending_ready'[SlotOf(i)]
    BY <1>1 DEF Held, SlotOf
  <2>2. SlotOf(i) # SlotOf(w) /\ SlotOf(i) \in Slot
    <3>1. pending_read <= w /\ w < pending_write
      BY <1>2 DEF QueueInv, ClaimHeld
    <3>2. i \in Nat /\ i < w + Slots /\ w < i + Slots
      BY <1>0, <1>2, <2>1, <3>1, SMT DEF QueueInv, Window, QueueTypes
    <3> QED BY <1>2, <3>2, SlotsDiffer, SlotFacts
  <2> QED BY <1>0, <1>1, <1>2, <2>1, <2>2 DEF Held, QueueTypes
<1>4. /\ InTable' = InTable /\ \A i : TaskAt(i)' = TaskAt(i)
      /\ TaskAt(w) = Mine(p) /\ Mine(p)[1] = p
  BY <1>1 DEF table, InTable, TaskAt, Kept, Fresh, Mine
<1>5. /\ \A i \in Held : Earlier(TaskAt(i), Mine(p))
      /\ \A s \in InTable : Earlier(s, Mine(p))
      /\ c_task # NoTask => Earlier(c_task, Mine(p))
  <2>1. /\ \A i \in Held : TaskAt(i) \in accepted
        /\ \A s \in InTable : s \in accepted
        /\ c_task # NoTask => c_task \in accepted
    BY DEF Kept, Conserved
  <2> QED BY <1>1, <2>1, AcceptedEarlier DEF TaskInv
<1>6. \A i \in Held : TaskAt(i)[1] = p => i < w
  BY <1>2 DEF InOrder, ClaimOrder
<1>7. TableOrder'
  BY <1>1 DEF table, InOrder, TableOrder, Earlier
<1>8. WaitOrder'
  <2> SUFFICES ASSUME NEW i \in Held', NEW k \in Held', i < k
               PROVE  Earlier(TaskAt(i), TaskAt(k))
    BY <1>4 DEF WaitOrder, Earlier
  <2>1. i \in Nat /\ k \in Nat
    BY <1>2, <1>3, HeldFacts
  <2>2. CASE i \in Held /\ k \in Held
    BY <2>2 DEF InOrder, WaitOrder
  <2>3. CASE i \in Held /\ k = w
    BY <1>4, <1>5, <2>3
  <2>4. CASE i = w /\ k \in Held
    <3>1. TaskAt(k)[1] # p
      BY <1>2, <1>6, <2>1, <2>4, SMT
    <3> QED BY <1>4, <2>4, <3>1 DEF Earlier
  <2> QED BY <1>2, <1>3, <2>2, <2>3, <2>4, SMT
<1>9. CrossOrder' /\ CarryOrder'
  BY <1>1, <1>3, <1>4, <1>5 DEF InOrder, CrossOrder, CarryOrder, Earlier
<1>10. ClaimOrder'
  BY <1>0, <1>1, <1>3, <1>4 DEF InOrder, ClaimOrder, Filling
<1>11. DirectFirst'
  BY <1>0, <1>1, <1>3, <1>4 DEF InOrder, DirectFirst, DirectStep
<1> QED BY <1>7, <1>8, <1>9, <1>10, <1>11 DEF InOrder

\* The drain takes the first task of the queue.
LEMMA CopyKeepsOrder ==
    ASSUME TaskInv, QueueInv, Kept, InOrder, DrainCopy
    PROVE  InOrder'
<1>1. /\ UNCHANGED <<queue, table, p_pc, p_write>>
      /\ c_pc = "copy" /\ c_pc' = "clear" /\ c_task' = TaskAt(c_read)
  BY DEF DrainCopy, TaskAt, pvars
<1>2. c_read \in Held
  BY <1>1, SMT DEF Held, QueueInv, QueueTypes, DrainKnows, Window
<1>3. Held' = Held /\ InTable' = InTable /\ \A i : TaskAt(i)' = TaskAt(i)
  BY <1>1 DEF queue, table, Held, TaskAt, InTable
<1>4. TableOrder' /\ WaitOrder' /\ CrossOrder'
  BY <1>1, <1>3 DEF table, InOrder, TableOrder, WaitOrder, CrossOrder, Earlier
<1>5. CarryOrder'
  BY <1>1, <1>2, <1>3 DEF InOrder, CrossOrder, CarryOrder, Earlier
<1>6. ClaimOrder' /\ DirectFirst'
  BY <1>1, <1>2, <1>3 DEF InOrder, ClaimOrder, DirectFirst, Filling
<1> QED BY <1>4, <1>5, <1>6 DEF InOrder

\* What stays in the queue comes after the task that has been taken.
LEMMA ClearKeepsOrder ==
    ASSUME TaskInv, QueueInv, Kept, InOrder, DrainClear
    PROVE  InOrder'
<1>0. QueueTypes
  BY DEF QueueInv
<1>1. /\ UNCHANGED <<pending_write, pending_read, pending_tasks, table, p_pc,
                     p_write, c_task>>
      /\ c_pc = "clear" /\ c_pc' = "advance"
      /\ pending_ready' = [pending_ready EXCEPT ![SlotOf(c_read)] = FALSE]
  BY DEF DrainClear, pvars
<1>2. c_read \in Held /\ c_read = pending_read /\ c_task = TaskAt(c_read)
  BY <1>1, SMT DEF Held, QueueInv, QueueTypes, DrainKnows, Window, Kept, CarryOnce
<1>3. Held' \subseteq Held \ {c_read}
  <2>1. SlotOf(c_read) \in Slot
    BY <1>2, HeldFacts
  <2>2. ~pending_ready'[SlotOf(c_read)]
    BY <1>0, <1>1, <2>1 DEF QueueTypes
  <2>3. \A s \in Slot : pending_ready'[s] => pending_ready[s]
    BY <1>0, <1>1, <2>1 DEF QueueTypes
  <2>4. \A i \in pending_read .. pending_write - 1 : SlotOf(i) \in Slot
    BY <1>0, SlotFacts, SMT DEF QueueTypes
  <2> QED BY <1>1, <2>2, <2>3, <2>4 DEF Held, SlotOf
<1>4. InTable' = InTable /\ \A i : TaskAt(i)' = TaskAt(i)
  BY <1>1 DEF table, TaskAt, InTable
<1>5. TableOrder' /\ WaitOrder' /\ CrossOrder'
  BY <1>1, <1>3, <1>4 DEF table, InOrder, TableOrder, WaitOrder, CrossOrder,
     Earlier
<1>6. CarryOrder'
  <2>1. \A i \in Held' : c_read < i
    BY <1>0, <1>2, <1>3, SMT DEF Held, QueueTypes
  <2>2. \A i \in Held' : Earlier(c_task, TaskAt(i))
    BY <1>2, <1>3, <2>1 DEF InOrder, WaitOrder
  <2> QED BY <1>1, <1>4, <2>2 DEF InOrder, CarryOrder, Earlier
<1>7. ClaimOrder' /\ DirectFirst'
  BY <1>1, <1>3, <1>4 DEF InOrder, ClaimOrder, DirectFirst, Filling
<1> QED BY <1>5, <1>6, <1>7 DEF InOrder

\* The drain's own bookkeeping, and a task for which there is no room.
LEMMA DrainKeepsPlaces ==
    ASSUME TaskInv, QueueInv, Kept, InOrder,
           \/ DrainBegin \/ DrainCheck \/ ThreadExit \/ DrainAdvance \/ DrainRoom
    PROVE  InOrder'
<1>1. CASE DrainBegin \/ DrainCheck \/ ThreadExit
  <2>1. /\ UNCHANGED <<queue, table, c_task, p_pc, p_write>>
        /\ c_pc # "clear" /\ c_pc' # "clear"
    BY <1>1 DEF DrainBegin, DrainCheck, ThreadExit, pvars
  <2>2. Held' = Held /\ \A i : TaskAt(i)' = TaskAt(i)
    BY <2>1 DEF queue, Held, TaskAt
  <2> QED BY <2>1, <2>2, OrderStays DEF queue, table, Filling
<1>2. CASE DrainAdvance
  <2>1. /\ UNCHANGED <<pending_write, pending_ready, pending_tasks, table,
                       c_task, p_pc, p_write>>
        /\ c_pc = "advance" /\ c_pc' = "add" /\ pending_read' = c_read + 1
    BY <1>2 DEF DrainAdvance, pvars
  <2>2. /\ pending_read = c_read /\ c_read < pending_write
        /\ ~pending_ready[SlotOf(c_read)] /\ c_read \in Nat
    BY <2>1, SMT DEF QueueInv, QueueTypes, DrainKnows
  <2>3. pending_read .. pending_write - 1
            = (pending_read' .. pending_write - 1) \cup {c_read}
    BY <2>1, <2>2, SMT DEF QueueInv, QueueTypes
  <2>4. Held' = Held /\ \A i : TaskAt(i)' = TaskAt(i)
    BY <2>1, <2>2, <2>3 DEF Held, TaskAt, SlotOf
  <2> QED BY <2>1, <2>4, OrderStays DEF table, Filling
<1>3. CASE DrainRoom
  <2>1. /\ UNCHANGED <<queue, table, p_pc, p_write>>
        /\ c_pc # "clear" /\ c_pc' # "clear"
        /\ c_task' = c_task \/ c_task' = NoTask
    BY <1>3 DEF DrainRoom, pvars
  <2>2. Held' = Held /\ InTable' = InTable /\ \A i : TaskAt(i)' = TaskAt(i)
    BY <2>1 DEF queue, table, Held, TaskAt, InTable
  <2>3. TableOrder' /\ WaitOrder' /\ CrossOrder'
    BY <2>1, <2>2 DEF table, InOrder, TableOrder, WaitOrder, CrossOrder, Earlier
  <2>4. CarryOrder' /\ ClaimOrder' /\ DirectFirst'
    BY <2>1, <2>2 DEF InOrder, CarryOrder, ClaimOrder, DirectFirst, Filling,
       Earlier
  <2> QED BY <2>3, <2>4 DEF InOrder
<1> QED BY <1>1, <1>2, <1>3

\* The task that the drain adds comes after those of its producer in the table,
\* and before those in the queue.
LEMMA DrainCountKeepsOrder ==
    ASSUME TaskInv, QueueInv, Kept, InOrder, DrainCount
    PROVE  InOrder'
<1>0. TaskTypes
  BY DEF TaskInv
<1>1. /\ UNCHANGED <<queue, tasks, p_pc, p_write>>
      /\ c_pc = "count" /\ c_pc' = "check" /\ c_task' = NoTask
      /\ task_count' = task_count + 1 /\ tasks[task_count + 1] = c_task
      /\ c_task # NoTask
  BY DEF DrainCount, CountTask, pvars, Kept, OneAdds, AtEnd, Adding, CarryOnce,
     Carrying
<1>2. Held' = Held /\ \A i : TaskAt(i)' = TaskAt(i)
  BY <1>1 DEF queue, Held, TaskAt
<1>3. /\ InTable' = InTable \cup {c_task}
      /\ 1 .. task_count' = (1 .. task_count) \cup {task_count + 1}
  <2>1. 1 .. task_count' = (1 .. task_count) \cup {task_count + 1}
    BY <1>0, <1>1, SMT DEF TaskTypes
  <2> QED BY <1>1, <2>1 DEF InTable
<1>4. /\ \A s \in InTable : Earlier(s, c_task)
      /\ \A i \in Held : Earlier(c_task, TaskAt(i))
  BY <1>1 DEF InOrder, CarryOrder
<1>5. TableOrder'
  <2> SUFFICES ASSUME NEW j \in 1 .. task_count + 1, NEW k \in 1 .. task_count + 1,
                      j < k
               PROVE  Earlier(tasks[j], tasks[k])
    BY <1>1 DEF TableOrder, Earlier
  <2>1. j \in 1 .. task_count
    BY <1>0, SMT DEF TaskTypes
  <2>2. CASE k \in 1 .. task_count
    BY <2>1, <2>2 DEF InOrder, TableOrder
  <2>3. CASE k = task_count + 1
    BY <1>1, <1>4, <2>1, <2>3 DEF InTable
  <2> QED BY <1>1, <1>3, <2>2, <2>3
<1>6. WaitOrder' /\ CrossOrder' /\ CarryOrder'
  BY <1>1, <1>2, <1>3, <1>4 DEF InOrder, WaitOrder, CrossOrder, CarryOrder, Earlier
<1>7. ClaimOrder' /\ DirectFirst'
  BY <1>1, <1>2 DEF InOrder, ClaimOrder, DirectFirst, Filling
<1> QED BY <1>5, <1>6, <1>7 DEF InOrder

\* Every step keeps each producer's tasks in order, while no step has been taken
\* that stops the scheduler or lets two threads add at once.
LEMMA NextKeepsOrder == OrderInv /\ TaskInv /\ QueueInv /\ [Next]_vars => OrderInv'
<1> SUFFICES ASSUME OrderInv, TaskInv, QueueInv, [Next]_vars PROVE OrderInv'
  OBVIOUS
<1>1. Phase /\ Phase'
  BY PhaseKept DEF OrderInv
<1>2. ~overlap' => ~overlap
  BY DEF Next, Main, Start, CreateThread, Stop, Drain, DrainBegin, DrainCheck,
     DrainCopy, DrainClear, DrainAdvance, DrainRoom, DrainStore, DrainCount,
     ThreadExit, Produce, AddRuntime, AddDirect, DirectRoom, DirectStore,
     DirectCount, QueueLoadRead, QueueLoadWrite, QueueClaim, QueueFill,
     QueueReady, hist, vars
<1>3. main_pc' # "stopped" => main_pc # "stopped"
  BY DEF Next, Main, Start, CreateThread, Stop, Drain, DrainBegin, DrainCheck,
     DrainCopy, DrainClear, DrainAdvance, DrainRoom, DrainStore, DrainCount,
     ThreadExit, Produce, AddRuntime, AddDirect, DirectRoom, DirectStore,
     DirectCount, QueueLoadRead, QueueLoadWrite, QueueClaim, QueueFill,
     QueueReady, main, vars
<1>4. ASSUME ~overlap', main_pc' # "stopped" PROVE InOrder'
  <2>0. Kept /\ InOrder /\ main_pc # "stopped"
    BY <1>2, <1>3, <1>4 DEF OrderInv, TaskInv
  <2>1. CASE Main \/ UNCHANGED vars
    <3>1. UNCHANGED <<queue, table, c_task, p_pc, p_write>>
      BY <2>1 DEF Main, Start, CreateThread, Stop, pvars, cvars, vars
    <3>2. c_pc = "clear" <=> c_pc' = "clear"
      BY <2>1 DEF Main, Start, CreateThread, Stop, cvars, vars, TaskInv, CreatedOnce
    <3>3. Held' = Held /\ \A i : TaskAt(i)' = TaskAt(i)
      BY <3>1 DEF queue, Held, TaskAt
    <3> QED BY <2>0, <3>1, <3>2, <3>3, OrderStays DEF queue, table, Filling
  <2>2. CASE Drain
    BY <2>0, <2>2, DrainKeepsPlaces, CopyKeepsOrder, ClearKeepsOrder,
       StoreKeepsOrder, DrainCountKeepsOrder DEF Drain
  <2>3. ASSUME NEW p \in Producers, Produce(p) PROVE InOrder'
    BY <1>1, <2>0, <2>3, SearchKeepsOrder, CallKeepsOrder, StoreKeepsOrder,
       CountKeepsOrder, ClaimKeepsOrder, FillKeepsOrder, ReadyKeepsOrder
       DEF Produce
  <2> QED BY <2>1, <2>2, <2>3 DEF Next
<1> QED BY <1>1, <1>4 DEF OrderInv

\* Where the tasks of each producer are says in which order it added them.
THEOREM OrderCorrect == Spec => []OrderInv
BY InitOrder, NextKeepsOrder, TasksCorrect, QueueCorrect, PTL DEF Spec

\* The tasks of one thread stand in the table in the order of its calls, as long
\* as the scheduler is not stopped and no two threads add directly at once.
THEOREM CallsInOrder == Spec => []CallOrderKept
<1>1. TaskInv /\ OrderInv => CallOrderKept
  <2> SUFFICES ASSUME TaskInv, OrderInv, ~overlap, main_pc # "stopped",
                      NEW j \in 1 .. task_count, NEW k \in 1 .. task_count,
                      j < k, Table[j][1] = Table[k][1]
               PROVE  Table[j][2] < Table[k][2]
    BY DEF CallOrderKept
  <2>1. \A i \in 1 .. task_count : Table[i] = tasks[i]
    <3>1. tasks \in Seq(Task \cup {NoTask})
      BY DEF TaskInv, TaskTypes
    <3>2. Len(tasks) = TableSize
      BY <3>1, SMT DEF TaskInv, TaskTypes
    <3> QED BY <3>1, <3>2, SubSeqProperties, SMT DEF Table, TaskInv, TaskTypes
  <2> QED BY <2>1 DEF OrderInv, InOrder, TableOrder, Earlier
<1> QED BY <1>1, TasksCorrect, OrderCorrect, PTL
=============================================================================
