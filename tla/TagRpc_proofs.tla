---------------------------- MODULE TagRpc_proofs ----------------------------
(***************************************************************************)
(* The tag RPC, from its rings to its answers.  core/ipc/spsc_ring.c is    *)
(* safe for every capacity, element size and index width that is a         *)
(* multiple of the capacity, and implements a bounded queue.  Over such    *)
(* queues, the requests of services/tcp/tag_tcp_server.c get the answers   *)
(* of core/ipc/tag_rpc_plc.c, for any tags, aliases, values, ring          *)
(* capacities and range of ids, and a shutdown at any moment.              *)
(***************************************************************************)
EXTENDS SpscRing, PlcCycle, SequenceTheorems, TLAPS

USE CapacityAssumption, WordsAssumption, LapsAssumption

(* The slots of the ring are running indices modulo the number of slots.    *)

\* The remainder is what is left of whole laps.
LEMMA Remainder ==
    ASSUME NEW n \in Nat \ {0}, NEW x \in Nat
    PROVE  \E p \in Int, r \in 0 .. n - 1 : r = x % n /\ x = n * p + r
<1>1. /\ x % n \in 0 .. n - 1 /\ x \div n \in Int
      /\ x = n * (x \div n) + (x % n)
  BY SMT
<1> QED BY <1>1

\* Two indices less than n apart have different remainders.
LEMMA NearbyModDiffer ==
    ASSUME NEW n \in Nat \ {0}, NEW x \in Nat, NEW y \in Nat, x > y, x - y < n
    PROVE  x % n # y % n
<1> SUFFICES ASSUME x % n = y % n PROVE FALSE
  OBVIOUS
<1>1. PICK p \in Int, r \in 0 .. n - 1 : r = x % n /\ x = n * p + r
  BY Remainder
<1>2. PICK q \in Int, s \in 0 .. n - 1 : s = y % n /\ y = n * q + s
  BY Remainder
<1>3. PICK d \in Int : d = p - q /\ x - y = n * d
  BY <1>1, <1>2, SMT
<1> QED BY <1>3, SMT

\* A whole number of laps does not change the remainder.
LEMMA LapsKeepMod ==
    ASSUME NEW n \in Nat \ {0}, NEW laps \in Nat, NEW x \in Nat
    PROVE  (x + laps * n) % n = x % n
<1>1. PICK p \in Int, r \in 0 .. n - 1 : r = x % n /\ x = n * p + r
  BY Remainder
<1>2. PICK y \in Nat : y = x + laps * n
  <2>1. laps * n \in Nat
    BY SMT
  <2> QED BY <2>1
<1>3. PICK q \in Int, s \in 0 .. n - 1 : s = y % n /\ y = n * q + s
  BY Remainder
<1>4. PICK e \in Int : y = n * e + r
  <2>1. y = n * (p + laps) + r /\ p + laps \in Int
    BY <1>1, <1>2, SMT
  <2> QED BY <2>1
<1>5. PICK d \in Int : d = e - q /\ n * d = s - r
  <2>1. n * e + r = n * q + s
    BY <1>3, <1>4
  <2>2. n * (e - q) = s - r /\ e - q \in Int
    BY <2>1, SMT
  <2> QED BY <2>2
<1>6. d = 0
  BY <1>5, SMT
<1>7. s = r
  BY <1>5, <1>6, SMT
<1> QED BY <1>1, <1>2, <1>3, <1>7, Zenon

\* The index range is large enough to tell a full ring from an empty one.
LEMMA ModulusFacts ==
    /\ Modulus \in Nat
    /\ Modulus >= 2 * Capacity
    /\ Modulus >= Capacity + 1
  BY SMT DEF Modulus

\* Subtraction of indices stays in range, and the two increments move it by one.
LEMMA DistanceFacts ==
    ASSUME NEW a \in Index, NEW b \in Index
    PROVE  /\ Distance(a, b) \in Index
           /\ Inc(a) \in Index
           /\ Distance(a, b) < Modulus - 1 =>
                Distance(Inc(a), b) = Distance(a, b) + 1
           /\ Distance(a, b) > 0 => Distance(a, Inc(b)) = Distance(a, b) - 1
           /\ Distance(a, b) = 0 <=> a = b
  BY ModulusFacts, SMT DEF Index, Distance, Inc

LEMMA SlotFacts == ASSUME NEW i \in Nat PROVE SlotOf(i) \in Slot
  BY SMT DEF SlotOf, Slot

\* A lap of the index range is a whole number of laps of the storage.
LEMMA LapKeepsSlot ==
    ASSUME NEW x \in Nat
    PROVE  (x + Modulus) % Capacity = x % Capacity
  BY LapsKeepMod DEF Modulus

LEMMA SlotsDiffer ==
    ASSUME NEW a \in Index, NEW b \in Index,
           0 < Distance(a, b), Distance(a, b) < Capacity
    PROVE  SlotOf(a) # SlotOf(b)
<1>1. a \in Nat /\ b \in Nat /\ a + Modulus \in Nat
  BY ModulusFacts, SMT DEF Index
<1>2. CASE a >= b
  <2>1. a > b /\ a - b < Capacity
    BY <1>1, <1>2, SMT DEF Distance
  <2>2. a % Capacity # b % Capacity
    BY <1>1, <2>1, NearbyModDiffer
  <2> QED BY <2>2 DEF SlotOf
<1>3. CASE a < b
  <2>1. (a + Modulus) % Capacity # b % Capacity
    <3>1. PICK x \in Nat : x = a + Modulus
      BY <1>1
    <3>2. x > b /\ x - b < Capacity
      BY <1>1, <1>3, <3>1, ModulusFacts, SMT DEF Distance, Index
    <3> QED BY <1>1, <3>1, <3>2, NearbyModDiffer
  <2> QED BY <1>1, <2>1, LapKeepsSlot DEF SlotOf
<1> QED BY <1>1, <1>2, <1>3, SMT
-----------------------------------------------------------------------------
\* Every variable keeps its range, the ring is never overfull, and what each
\* side read of the other's index stays a safe bound: the inductive invariant.
THEOREM IndexSafety == RingSpec => []IndexInv
<1> USE DEF IndexInv, NeverOverfull, WriterKnows, ReaderKnows, Used
<1>1. RingInit => IndexInv
  <2> SUFFICES ASSUME RingInit PROVE IndexInv
    OBVIOUS
  <2>1. RingTypes
    <3>1. BlankElem \in [Word -> Elems \cup {Blank}]
      BY DEF BlankElem, Whole
    <3>2. 0 \in Index /\ 0 \in 0 .. Words
      BY ModulusFacts, SMT DEF Index
    <3> QED BY <3>1, <3>2 DEF RingInit, RingTypes
  <2>2. Distance(0, 0) = 0 /\ 0 \in Index
    BY ModulusFacts, SMT DEF Distance, Index
  <2> QED BY <2>1, <2>2 DEF RingInit
<1>2. IndexInv /\ [RingNext]_ring => IndexInv'
  <2> SUFFICES ASSUME IndexInv, [RingNext]_ring PROVE IndexInv'
    OBVIOUS
  <2>0. /\ read_index \in Index /\ write_index \in Index
        /\ w_read \in Index /\ w_write \in Index /\ r_read \in Index
    BY DEF RingTypes
  <2>1. CASE PushLoadRead
    <3>1. RingTypes'
      BY <2>1 DEF RingTypes, PushLoadRead, rvars
    <3> QED BY <2>0, <2>1, <3>1, DistanceFacts, SMT
              DEF PushLoadRead, rvars, Index
  <2>2. CASE PushLoadWrite
    <3>1. RingTypes'
      BY <2>2, SMT DEF RingTypes, PushLoadWrite, rvars
    <3> QED BY <2>0, <2>2, <3>1, DistanceFacts, SMT
              DEF PushLoadWrite, RingFull, rvars, Index
  <2>3. CASE PushCopyWord
    <3>1. RingTypes'
      <4>1. SlotOf(w_write) \in Slot /\ w_copied + 1 \in Word
        BY <2>3, SlotFacts, ModulusFacts, SMT
           DEF RingTypes, PushCopyWord, Index, Word
      <4>2. storage' \in [Slot -> [Word -> Elems \cup {Blank}]]
        BY <2>3, <4>1 DEF RingTypes, PushCopyWord
      <4>3. w_copied' \in 0 .. Words
        BY <2>3, SMT DEF RingTypes, PushCopyWord
      <4> QED BY <2>3, <4>2, <4>3 DEF RingTypes, PushCopyWord, rvars
    <3> QED BY <2>3, <3>1 DEF PushCopyWord, rvars
  <2>4. CASE PushPublish
    <3>1. RingTypes'
      BY <2>0, <2>4, DistanceFacts DEF RingTypes, PushPublish, rvars
    <3>2. /\ Distance(write_index', read_index) = Used + 1
          /\ Used \in Nat
      BY <2>0, <2>4, DistanceFacts, ModulusFacts, SMT DEF PushPublish, Index
    <3> QED BY <2>4, <3>1, <3>2, SMT DEF PushPublish, rvars
  <2>5. CASE PopLoadRead
    <3>1. RingTypes'
      BY <2>5 DEF RingTypes, PopLoadRead, wvars
    <3> QED BY <2>5, <3>1 DEF PopLoadRead, wvars
  <2>6. CASE PopLoadWrite
    <3>1. RingTypes'
      BY <2>6, SMT DEF RingTypes, PopLoadWrite, wvars
    <3> QED BY <2>0, <2>6, <3>1, DistanceFacts, SMT
              DEF PopLoadWrite, RingEmpty, wvars, Index
  <2>7. CASE PopCopyWord
    <3>1. RingTypes'
      <4>1. SlotOf(r_read) \in Slot /\ r_copied + 1 \in Word
        BY <2>7, SlotFacts, ModulusFacts, SMT
           DEF RingTypes, PopCopyWord, Index, Word
      <4>2. out_elem' \in [Word -> Elems \cup {Blank}]
        BY <2>7, <4>1 DEF RingTypes, PopCopyWord
      <4>3. r_copied' \in 0 .. Words
        BY <2>7, SMT DEF RingTypes, PopCopyWord
      <4> QED BY <2>7, <4>2, <4>3 DEF RingTypes, PopCopyWord, wvars
    <3> QED BY <2>7, <3>1 DEF PopCopyWord, wvars
  <2>8. CASE PopPublish
    <3>1. RingTypes'
      BY <2>0, <2>8, DistanceFacts DEF RingTypes, PopPublish, wvars
    <3>2. /\ Distance(write_index, read_index') = Used - 1
          /\ Used \in Nat
      BY <2>0, <2>8, DistanceFacts, SMT DEF PopPublish, Index
    <3>3. Distance(write_index, w_read) \in Nat
      BY <2>0, DistanceFacts DEF Index
    <3> QED BY <2>8, <3>1, <3>2, <3>3, CapacityAssumption, SMT
            DEF PopPublish, wvars
  <2>9. CASE UNCHANGED ring
    BY <2>9 DEF ring, wvars, rvars, RingTypes
  <2> QED BY <2>1, <2>2, <2>3, <2>4, <2>5, <2>6, <2>7, <2>8, <2>9
          DEF RingNext, Producer, Consumer
<1> QED BY <1>1, <1>2, PTL DEF RingSpec

\* The memcpy of push and the memcpy of pop never work on the same slot.
THEOREM SlotSafety == RingSpec => []NoSlotRace
<1>1. IndexInv => NoSlotRace
  <2> SUFFICES ASSUME IndexInv, w_pc = "copy", r_pc = "copy"
               PROVE  SlotOf(w_write) # SlotOf(r_read)
    BY DEF NoSlotRace
  <2>1. /\ w_write \in Index /\ r_read \in Index
        /\ w_write = write_index /\ r_read = read_index
        /\ 0 < Used /\ Used < Capacity
    BY DEF IndexInv, RingTypes, WriterKnows, ReaderKnows
  <2> QED BY <2>1, SlotsDiffer DEF Used
<1> QED BY <1>1, IndexSafety, PTL
-----------------------------------------------------------------------------
\* The slots behind each other in the ring, across the wrap of the indices.
LEMMA SlotsInLine ==
    ASSUME NEW a \in Index, NEW b \in Index, NEW k \in Nat
    PROVE  /\ SlotOf(b + Distance(a, b)) = SlotOf(a)
           /\ SlotOf(Inc(b) + k) = SlotOf(b + 1 + k)
<1>1. a \in Nat /\ b \in Nat /\ a < Modulus /\ b < Modulus
  BY ModulusFacts, SMT DEF Index
<1>2. SlotOf(b + Distance(a, b)) = SlotOf(a)
  <2>1. CASE a >= b
    BY <1>1, <2>1, SMT DEF Distance
  <2>2. CASE a < b
    <3>1. b + Distance(a, b) = a + Modulus
      BY <1>1, <2>2, ModulusFacts, SMT DEF Distance
    <3> QED BY <1>1, <3>1, LapKeepsSlot DEF SlotOf
  <2> QED BY <1>1, <2>1, <2>2, SMT
<1>3. SlotOf(Inc(b) + k) = SlotOf(b + 1 + k)
  <2>1. CASE b = Modulus - 1
    <3>1. Inc(b) + k = k /\ b + 1 + k = k + Modulus
      BY <1>1, <2>1, ModulusFacts, SMT DEF Inc
    <3> QED BY <3>1, LapKeepsSlot DEF SlotOf
  <2>2. CASE b # Modulus - 1
    BY <1>1, <2>2, SMT DEF Inc
  <2> QED BY <2>1, <2>2
<1> QED BY <1>2, <1>3

\* The slots of the elements differ, and so does the one to be written next.
LEMMA LineIsInjective ==
    ASSUME NEW b \in Index, NEW j \in Nat, NEW k \in Nat,
           j < k, k - j < Capacity
    PROVE  SlotOf(b + j) # SlotOf(b + k)
<1>1. b + j \in Nat /\ b + k \in Nat /\ b + k > b + j
      /\ (b + k) - (b + j) < Capacity
  BY ModulusFacts, SMT DEF Index
<1> QED BY <1>1, NearbyModDiffer DEF SlotOf

\* What is known of the words: published elements are whole, and each copy is
\* right as far as it has come.
ElementAt(k) == storage[SlotOf(read_index + k)]
DataInv ==
    /\ \A k \in 0 .. Used - 1 : ElementAt(k) \in {Whole(e) : e \in Elems}
    /\ w_pc = "copy" => \A k \in 1 .. w_copied :
                            storage[SlotOf(w_write)][k] = w_elem
    /\ r_pc = "copy" => \A k \in 1 .. r_copied :
                            out_elem[k] = storage[SlotOf(r_read)][k]

\* A store into the slot at the write index leaves the elements alone.
LEMMA StoreBehind ==
    ASSUME IndexInv, PushCopyWord
    PROVE  /\ \A k \in 0 .. Used - 1 : ElementAt(k)' = ElementAt(k)
           /\ Used' = Used /\ Used \in Nat
           /\ r_pc = "copy" =>
                storage'[SlotOf(r_read)] = storage[SlotOf(r_read)]
<1>1. /\ write_index \in Index /\ read_index \in Index /\ Used < Capacity
      /\ w_write = write_index
      /\ r_pc = "copy" => r_read = read_index /\ Used > 0
      /\ SlotOf(w_write) \in Slot
  BY SlotFacts, ModulusFacts, SMT
     DEF IndexInv, RingTypes, WriterKnows, ReaderKnows, PushCopyWord, Index
<1>2. Used' = Used /\ Used \in Nat /\ read_index' = read_index
  BY <1>1, DistanceFacts DEF Used, PushCopyWord, Index
<1>3. ASSUME NEW k \in 0 .. Used - 1
      PROVE  SlotOf(read_index + k) # SlotOf(w_write)
  <2>1. SlotOf(w_write) = SlotOf(read_index + Used)
    BY <1>1, <1>2, SlotsInLine DEF Used
  <2>2. k \in Nat /\ k < Used /\ Used - k < Capacity
    BY <1>1, <1>2, SMT
  <2> QED BY <1>1, <1>2, <2>1, <2>2, LineIsInjective
<1>4. ASSUME NEW s, s # SlotOf(w_write), s \in Slot
      PROVE  storage'[s] = storage[s]
  BY <1>1, <1>4 DEF PushCopyWord, IndexInv, RingTypes
<1>5. \A k \in 0 .. Used - 1 : ElementAt(k)' = ElementAt(k)
  <2> SUFFICES ASSUME NEW k \in 0 .. Used - 1
               PROVE  ElementAt(k)' = ElementAt(k)
    OBVIOUS
  <2>1. read_index + k \in Nat
    BY <1>1, <1>2, ModulusFacts, SMT DEF Index
  <2> QED BY <1>2, <1>3, <1>4, <2>1, SlotFacts DEF ElementAt
<1>6. ASSUME r_pc = "copy"
      PROVE  storage'[SlotOf(r_read)] = storage[SlotOf(r_read)]
  <2>1. 0 \in 0 .. Used - 1 /\ read_index + 0 = r_read /\ r_read \in Nat
    BY <1>1, <1>2, <1>6, ModulusFacts, SMT DEF Index
  <2> QED BY <1>3, <1>4, <2>1, SlotFacts
<1> QED BY <1>2, <1>5, <1>6

\* What the slots hold, in terms of the abstract queue.
InLine == /\ Used \in Nat
          /\ Contents = [k \in 1 .. Used |-> ElementAt(k - 1)]

LEMMA ContentsFacts == IndexInv => InLine
<1> SUFFICES ASSUME IndexInv PROVE InLine
  OBVIOUS
<1>1. Used \in Nat
  BY DistanceFacts, ModulusFacts, SMT DEF Used, Index, IndexInv, RingTypes
<1>2. Contents = [k \in 1 .. Used |-> ElementAt(k - 1)]
  <2>1. ASSUME NEW k \in 1 .. Used
        PROVE  read_index + k - 1 = read_index + (k - 1)
    BY <1>1, ModulusFacts, SMT DEF IndexInv, RingTypes, Index
  <2> QED BY <2>1 DEF Contents, ElementAt
<1> QED BY <1>1, <1>2 DEF InLine

\* The queue is a sequence of whole elements.
LEMMA ContentsIsSequence ==
    ASSUME InLine, DataInv
    PROVE  /\ Contents \in Seq({Whole(e) : e \in Elems})
           /\ Len(Contents) = Used
<1> DEFINE E == {Whole(e) : e \in Elems}
<1>1. ASSUME NEW k \in 1 .. Used PROVE ElementAt(k - 1) \in E
  <2>1. k - 1 \in 0 .. Used - 1
    BY SMT DEF InLine
  <2> QED BY <2>1 DEF DataInv
<1> HIDE DEF E
<1>2. Contents \in [1 .. Used -> E]
  BY <1>1 DEF InLine
<1>3. Contents \in Seq(E)
  BY <1>2, SeqDef DEF InLine
<1>4. Len(Contents) = Used
  BY <1>2, SMT DEF InLine
<1> QED BY <1>3, <1>4 DEF E

\* Sequences of the same length with the same elements are equal.
LEMMA SameSequence ==
    ASSUME NEW S, NEW s \in Seq(S), NEW n \in Nat, Len(s) = n,
           NEW t, t \in [1 .. n -> S], \A k \in 1 .. n : s[k] = t[k]
    PROVE  t = s
<1>1. s \in [1 .. n -> S]
  BY LenProperties
<1> QED BY <1>1

\* A push adds one element at the end.
LEMMA PublishAppends ==
    ASSUME IndexInv, IndexInv', DataInv, PushPublish
    PROVE  /\ Used' = Used + 1 /\ Used < Capacity
           /\ \A k \in 0 .. Used - 1 : ElementAt(k)' = ElementAt(k)
           /\ \A n : n = Used => ElementAt(n)' = Whole(w_elem)
           /\ w_elem \in Elems
<1>1. /\ write_index \in Index /\ read_index \in Index /\ Used < Capacity
      /\ w_write = write_index /\ w_elem \in Elems
      /\ w_write \in Nat /\ SlotOf(w_write) \in Slot
  BY SlotFacts, ModulusFacts, SMT
     DEF IndexInv, RingTypes, WriterKnows, PushPublish, Index
<1>2. Used \in Nat /\ Used' = Used + 1
  BY <1>1, DistanceFacts, ModulusFacts, SMT DEF Used, PushPublish, Index
<1>3. \A k : ElementAt(k)' = ElementAt(k)
  BY DEF PushPublish, ElementAt
<1>4. ElementAt(Used) = storage[SlotOf(w_write)]
  BY <1>1, <1>2, SlotsInLine DEF ElementAt, Used
<1>5. storage[SlotOf(w_write)] = Whole(w_elem)
  <2>1. storage[SlotOf(w_write)] \in [Word -> Elems \cup {Blank}]
    BY <1>1 DEF IndexInv, RingTypes
  <2>2. \A k \in Word : storage[SlotOf(w_write)][k] = w_elem
    BY SMT DEF DataInv, PushPublish, Copied, Word
  <2> QED BY <2>1, <2>2 DEF Whole
<1> QED BY <1>1, <1>2, <1>3, <1>4, <1>5

\* A pop takes the element at the front, which it has copied whole.
LEMMA PublishTakes ==
    ASSUME IndexInv, IndexInv', DataInv, PopPublish
    PROVE  /\ Used > 0 /\ Used' = Used - 1
           /\ \A k \in Nat : ElementAt(k)' = ElementAt(k + 1)
           /\ out_elem = ElementAt(0)
<1>1. /\ write_index \in Index /\ read_index \in Index /\ Used > 0
      /\ r_read = read_index /\ read_index \in Nat
      /\ SlotOf(read_index) \in Slot
  BY SlotFacts, ModulusFacts, SMT
     DEF IndexInv, RingTypes, ReaderKnows, PopPublish, Index
<1>2. Used' = Used - 1
  BY <1>1, DistanceFacts, ModulusFacts, SMT DEF Used, PopPublish, Index
<1>3. ASSUME NEW k \in Nat PROVE ElementAt(k)' = ElementAt(k + 1)
  <2>1. read_index + 1 + k = read_index + (k + 1)
    BY <1>1, SMT
  <2>2. SlotOf(Inc(read_index) + k) = SlotOf(read_index + (k + 1))
    BY <1>1, <2>1, SlotsInLine
  <2> QED BY <1>1, <2>2 DEF PopPublish, ElementAt
<1>4. out_elem = ElementAt(0)
  <2>1. SlotOf(read_index + 0) = SlotOf(r_read)
    BY <1>1, SMT
  <2>2. /\ out_elem \in [Word -> Elems \cup {Blank}]
        /\ storage[SlotOf(r_read)] \in [Word -> Elems \cup {Blank}]
    BY <1>1 DEF IndexInv, RingTypes
  <2>3. \A k \in Word : out_elem[k] = storage[SlotOf(r_read)][k]
    BY SMT DEF DataInv, PopPublish, Copied, Word
  <2> QED BY <2>1, <2>2, <2>3 DEF ElementAt
<1> QED BY <1>1, <1>2, <1>3, <1>4

\* The words are right in every state.
THEOREM DataSafety == RingSpec => []DataInv
<1>1. RingInit => DataInv
  <2> SUFFICES ASSUME RingInit PROVE DataInv
    OBVIOUS
  <2>1. Used = 0
    BY DEF RingInit, Used, Distance
  <2> QED BY <2>1, SMT DEF RingInit, DataInv
<1>2. ASSUME IndexInv, IndexInv', DataInv, [RingNext]_ring PROVE DataInv'
  <2> USE <1>2
  <2>1. CASE PushLoadRead
    BY <2>1 DEF DataInv, PushLoadRead, rvars, ElementAt, Used
  <2>2. CASE PushLoadWrite
    <3>1. w_copied' = 0
      BY <2>2 DEF PushLoadWrite
    <3>2. \A k \in 1 .. w_copied' : FALSE
      BY <3>1, SMT
    <3> QED BY <2>2, <3>2 DEF DataInv, PushLoadWrite, rvars, ElementAt, Used
  <2>3. CASE PushCopyWord
    <3>1. /\ w_write \in Index /\ SlotOf(w_write) \in Slot
          /\ w_copied \in Nat /\ w_copied + 1 \in Word
          /\ storage \in [Slot -> [Word -> Elems \cup {Blank}]]
      BY <2>3, SlotFacts, ModulusFacts, SMT
         DEF IndexInv, RingTypes, PushCopyWord, Index, Word
    <3>2. \A k \in 1 .. w_copied' : storage'[SlotOf(w_write)][k] = w_elem
      <4> SUFFICES ASSUME NEW k \in 1 .. w_copied'
                   PROVE  storage'[SlotOf(w_write)][k] = w_elem
        OBVIOUS
      <4>1. w_copied' = w_copied + 1 /\ k \in Word
        BY <2>3, <3>1, SMT DEF PushCopyWord, Word
      <4>2. storage'[SlotOf(w_write)] =
                [storage[SlotOf(w_write)] EXCEPT ![w_copied + 1] = w_elem]
        BY <2>3, <3>1 DEF PushCopyWord
      <4>3. k # w_copied + 1 => k \in 1 .. w_copied
        BY <3>1, <4>1, SMT
      <4>4. k # w_copied + 1 => storage[SlotOf(w_write)][k] = w_elem
        BY <2>3, <4>3 DEF DataInv, PushCopyWord
      <4>5. storage[SlotOf(w_write)] \in [Word -> Elems \cup {Blank}]
        BY <3>1
      <4> QED BY <3>1, <4>1, <4>2, <4>4, <4>5
    <3> QED BY <2>3, <3>2, StoreBehind
            DEF DataInv, PushCopyWord, rvars
  <2>4. CASE PushPublish
    <3>1. /\ Used' = Used + 1
          /\ \A k \in 0 .. Used - 1 : ElementAt(k)' = ElementAt(k)
          /\ \A n : n = Used => ElementAt(n)' = Whole(w_elem)
          /\ w_elem \in Elems
      BY <2>4, PublishAppends
    <3>2. ASSUME NEW k \in 0 .. Used' - 1
          PROVE  ElementAt(k)' \in {Whole(e) : e \in Elems}
      <4>1. k \in 0 .. Used - 1 \/ k = Used
        BY <3>1, ContentsFacts, SMT DEF InLine
      <4>2. k = Used => ElementAt(k)' = Whole(w_elem)
        BY <3>1
      <4>3. k \in 0 .. Used - 1 => ElementAt(k)' \in {Whole(e) : e \in Elems}
        BY <3>1 DEF DataInv
      <4> QED BY <3>1, <4>1, <4>2, <4>3
    <3> QED BY <2>4, <3>2 DEF DataInv, PushPublish, rvars
  <2>5. CASE PopLoadRead
    BY <2>5 DEF DataInv, PopLoadRead, wvars, ElementAt, Used
  <2>6. CASE PopLoadWrite
    <3>1. r_copied' = 0
      BY <2>6 DEF PopLoadWrite
    <3>2. \A k \in 1 .. r_copied' : FALSE
      BY <3>1, SMT
    <3> QED BY <2>6, <3>2 DEF DataInv, PopLoadWrite, wvars, ElementAt, Used
  <2>7. CASE PopCopyWord
    <3>1. /\ r_copied \in Nat /\ r_copied + 1 \in Word
          /\ out_elem \in [Word -> Elems \cup {Blank}]
      BY <2>7, SMT DEF IndexInv, RingTypes, PopCopyWord, Word
    <3>2. \A k \in 1 .. r_copied' : out_elem'[k] = storage[SlotOf(r_read)][k]
      <4> SUFFICES ASSUME NEW k \in 1 .. r_copied'
                   PROVE  out_elem'[k] = storage[SlotOf(r_read)][k]
        OBVIOUS
      <4>1. r_copied' = r_copied + 1 /\ k \in Word
        BY <2>7, <3>1, SMT DEF PopCopyWord, Word
      <4>2. k # r_copied + 1 => k \in 1 .. r_copied
        BY <3>1, <4>1, SMT
      <4>3. k # r_copied + 1 => out_elem[k] = storage[SlotOf(r_read)][k]
        BY <2>7, <4>2 DEF DataInv, PopCopyWord
      <4> QED BY <2>7, <3>1, <4>1, <4>3 DEF PopCopyWord
    <3> QED BY <2>7, <3>2 DEF DataInv, PopCopyWord, wvars, ElementAt, Used
  <2>8. CASE PopPublish
    <3>1. /\ Used' = Used - 1
          /\ \A k \in Nat : ElementAt(k)' = ElementAt(k + 1)
      BY <2>8, PublishTakes
    <3>2. ASSUME NEW k \in 0 .. Used' - 1
          PROVE  ElementAt(k)' \in {Whole(e) : e \in Elems}
      <4>1. k \in Nat /\ k + 1 \in 0 .. Used - 1
        BY <3>1, ContentsFacts, SMT DEF InLine
      <4> QED BY <3>1, <4>1 DEF DataInv
    <3> QED BY <2>8, <3>2 DEF DataInv, PopPublish, wvars
  <2>9. CASE UNCHANGED ring
    BY <2>9 DEF ring, wvars, rvars, DataInv, ElementAt, Used
  <2> QED BY <2>1, <2>2, <2>3, <2>4, <2>5, <2>6, <2>7, <2>8, <2>9
          DEF RingNext, Producer, Consumer
<1> QED BY <1>1, <1>2, IndexSafety, PTL DEF RingSpec

\* The ring is a bounded queue: the store of write_index appends one whole
\* element, the store of read_index takes the oldest one, and no other step of
\* spsc_ring_push or spsc_ring_pop can be told from a pause.
THEOREM RingIsFifo == RingSpec => ImplementsFifo
<1>1. RingInit => Fifo!Init
  <2> SUFFICES ASSUME RingInit PROVE Fifo!Init
    OBVIOUS
  <2>1. Used = 0
    BY DEF RingInit, Used, Distance
  <2>2. Contents = <<>>
    BY <2>1, SMT DEF Contents
  <2> QED BY <2>2 DEF RingInit, Fifo!Init
<1>2. ASSUME IndexInv, IndexInv', DataInv, [RingNext]_ring
      PROVE  [Fifo!Next]_(Fifo!vars)
  <2> USE <1>2
  <2>0. InLine /\ InLine'
    BY ContentsFacts, PTL
  <2>1. ASSUME Used' = Used, received' = received,
               \A k \in 0 .. Used - 1 : ElementAt(k)' = ElementAt(k)
        PROVE  UNCHANGED Fifo!vars
    <3>1. ASSUME NEW k \in 1 .. Used
          PROVE  ElementAt(k - 1)' = ElementAt(k - 1)
      <4>1. k - 1 \in 0 .. Used - 1
        BY ContentsFacts, SMT DEF InLine
      <4> QED BY <2>1, <4>1
    <3>2. /\ Contents = [k \in 1 .. Used |-> ElementAt(k - 1)]
          /\ Contents' = [k \in 1 .. Used' |-> ElementAt(k - 1)']
      BY <2>0 DEF InLine
    <3>3. Contents' = Contents
      BY <2>1, <3>1, <3>2
    <3> QED BY <2>1, <3>3 DEF Fifo!vars
  <2>2. CASE PushPublish
    <3>1. /\ Used' = Used + 1 /\ Used < Capacity
          /\ \A k \in 0 .. Used - 1 : ElementAt(k)' = ElementAt(k)
          /\ \A n : n = Used => ElementAt(n)' = Whole(w_elem)
          /\ w_elem \in Elems
      BY <2>2, PublishAppends
    <3>2. Contents' = Append(Contents, Whole(w_elem))
      <4>1. Used \in Nat
        BY <2>0 DEF InLine
      <4>2. ASSUME NEW k \in 1 .. Used + 1
            PROVE  ElementAt(k - 1)' = IF k <= Used THEN Contents[k]
                                                    ELSE Whole(w_elem)
        <5>1. CASE k <= Used
          <6>1. k - 1 \in 0 .. Used - 1 /\ k \in 1 .. Used
            BY <4>1, <5>1, SMT
          <6>2. Contents[k] = ElementAt(k - 1)
            BY <2>0, <6>1 DEF InLine
          <6> QED BY <3>1, <5>1, <6>1, <6>2
        <5>2. CASE ~(k <= Used)
          <6>1. k - 1 = Used
            BY <4>1, <5>2, SMT
          <6> QED BY <3>1, <5>2, <6>1
        <5> QED BY <5>1, <5>2
      <4>3. /\ Append(Contents, Whole(w_elem)) \in Seq({Whole(e) : e \in Elems})
            /\ Len(Append(Contents, Whole(w_elem))) = Used + 1
            /\ \A k \in 1 .. Used :
                  Append(Contents, Whole(w_elem))[k] = Contents[k]
            /\ Append(Contents, Whole(w_elem))[Used + 1] = Whole(w_elem)
        <5>1. Whole(w_elem) \in {Whole(e) : e \in Elems}
          BY <3>1
        <5> QED BY <2>0, <5>1, ContentsIsSequence, AppendProperties
      <4>4. /\ DOMAIN Contents' = 1 .. Used + 1
            /\ Contents' = [k \in 1 .. Used + 1 |-> Contents'[k]]
            /\ \A k \in 1 .. Used + 1 : Contents'[k] = ElementAt(k - 1)'
        BY <2>0, <3>1 DEF InLine
      <4>5. ASSUME NEW k \in 1 .. Used + 1
            PROVE  Append(Contents, Whole(w_elem))[k] = Contents'[k]
        <5>1. k \in 1 .. Used \/ (k = Used + 1 /\ ~(k <= Used))
          BY <4>1, SMT
        <5>2. k \in 1 .. Used => k <= Used
          BY <4>1, SMT
        <5> QED BY <4>2, <4>3, <4>4, <5>1, <5>2
      <4>6. Contents' \in [1 .. Used + 1 -> {Whole(e) : e \in Elems}]
        <5>1. \A k \in 1 .. Used + 1 : Append(Contents, Whole(w_elem))[k]
                                          \in {Whole(e) : e \in Elems}
          BY <4>3, ElementOfSeq
        <5> QED BY <4>4, <4>5, <5>1
      <4>7. Used + 1 \in Nat
        BY <4>1, SMT
      <4> QED BY <4>3, <4>5, <4>6, <4>7, SameSequence
    <3>3. received' = received
      BY <2>2 DEF PushPublish, rvars
    <3>4. Len(Contents) < Capacity
      BY <2>0, <3>1, SMT DEF InLine
    <3>5. Fifo!Put(Whole(w_elem))
      BY <3>2, <3>3, <3>4 DEF Fifo!Put
    <3> QED BY <3>1, <3>5 DEF Fifo!Next
  <2>3. CASE PopPublish
    <3>1. /\ Used > 0 /\ Used' = Used - 1
          /\ \A k \in Nat : ElementAt(k)' = ElementAt(k + 1)
          /\ out_elem = ElementAt(0)
      BY <2>3, PublishTakes
    <3>2. Used \in Nat /\ 1 \in 1 .. Used /\ Used - 1 \in Nat
      BY <2>0, <3>1, SMT DEF InLine
    <3>3. /\ Contents \in Seq({Whole(e) : e \in Elems})
          /\ Len(Contents) = Used
      BY <2>0, ContentsIsSequence
    <3>4. Contents # <<>>
      BY <3>1, <3>3, EmptySeq
    <3>5. received' = Head(Contents)
      <4>1. Contents[1] = ElementAt(0)
        BY <2>0, <3>2, SMT DEF InLine
      <4> QED BY <2>3, <3>1, <3>3, <3>4, <4>1 DEF PopPublish
    <3>6. Contents' = Tail(Contents)
      <4>1. /\ Tail(Contents) \in Seq({Whole(e) : e \in Elems})
            /\ Len(Tail(Contents)) = Used - 1
            /\ \A k \in 1 .. Used - 1 : Tail(Contents)[k] = Contents[k + 1]
        BY <3>3, <3>4, HeadTailProperties
      <4>2. /\ DOMAIN Contents' = 1 .. Used - 1
            /\ Contents' = [k \in 1 .. Used - 1 |-> Contents'[k]]
            /\ \A k \in 1 .. Used - 1 : Contents'[k] = ElementAt(k - 1)'
        BY <2>0, <3>1 DEF InLine
      <4>3. ASSUME NEW k \in 1 .. Used - 1
            PROVE  Tail(Contents)[k] = Contents'[k]
        <5>1. k - 1 \in Nat /\ (k - 1) + 1 = k /\ (k + 1) - 1 = k
              /\ k + 1 \in 1 .. Used
          BY <3>2, SMT
        <5>2. Contents[k + 1] = ElementAt(k)
          BY <2>0, <5>1 DEF InLine
        <5> QED BY <3>1, <4>1, <4>2, <5>1, <5>2
      <4>4. Contents' \in [1 .. Used - 1 -> {Whole(e) : e \in Elems}]
        <5>1. \A k \in 1 .. Used - 1 :
                 Tail(Contents)[k] \in {Whole(e) : e \in Elems}
          BY <4>1, ElementOfSeq
        <5> QED BY <4>2, <4>3, <5>1
      <4> QED BY <3>2, <4>1, <4>3, <4>4, SameSequence
    <3>7. Fifo!Take
      BY <3>4, <3>5, <3>6 DEF Fifo!Take
    <3> QED BY <3>7 DEF Fifo!Next
  <2>4. CASE PushCopyWord
    BY <2>1, <2>4, StoreBehind DEF PushCopyWord, rvars
  <2>5. CASE \/ PushLoadRead \/ PushLoadWrite \/ PopLoadRead \/ PopLoadWrite
             \/ PopCopyWord \/ UNCHANGED ring
    BY <2>1, <2>5 DEF PushLoadRead, PushLoadWrite, PopLoadRead, PopLoadWrite,
       PopCopyWord, ring, rvars, wvars, Used, ElementAt
  <2> QED BY <2>2, <2>3, <2>4, <2>5 DEF RingNext, Producer, Consumer
<1> QED BY <1>1, <1>2, IndexSafety, DataSafety, PTL
        DEF RingSpec, ImplementsFifo, Fifo!Spec
-----------------------------------------------------------------------------
(* The requests that go through two such rings. *)

USE TagAssumption, RpcAssumption

CycleTypes ==
    /\ req_q \in Seq(Request) /\ rsp_q \in Seq(Response)
    /\ req \in Request /\ rsp \in Response /\ plc_req \in Request
    /\ tcp_pc \in {"line", "await", "exited"}
    /\ next_id \in 0 .. IdRange - 1
    /\ stop_flag \in BOOLEAN
    /\ store \in [Vars -> Values]
    /\ staging \in [Outputs -> Values] /\ published \in [Outputs -> Values]

\* The places the request can be in, and what it has done by then.
Nowhere == req_q = <<>> /\ rsp_q = <<>> /\ plc_pc # "handle"
Asked == /\ req_q = <<req>> /\ rsp_q = <<>> /\ plc_pc # "handle"
         /\ effects = 0
Served == /\ req_q = <<>> /\ rsp_q = <<>> /\ plc_pc = "handle"
          /\ plc_req = req /\ effects = 0
Truthful(r) == req.op = "write" => /\ r.status = "ok" => effects = 1
                                   /\ r.status = "error" => effects = 0
Answered == /\ req_q = <<>> /\ plc_pc # "handle"
            /\ \E r \in Response : /\ rsp_q = <<r>>
                                   /\ r.id = req.id /\ Truthful(r)

\* Until the server is told to stop there is nothing in the rings but the one
\* request that the TCP thread waits for, or its response.
OneRequest == ~stop_flag =>
    IF tcp_pc = "await" THEN Asked \/ Served \/ Answered
                        ELSE tcp_pc = "line" /\ Nowhere

\* The server is told so when the PLC thread is gone.
StopComesLast == stop_flag => plc_pc = "exited"

RpcInv == CycleTypes /\ OneRequest /\ StopComesLast /\ ReplyTellsEffect
-----------------------------------------------------------------------------
\* What the rings do while there is at most one element.
LEMMA Singletons ==
    ASSUME NEW S, NEW x \in S
    PROVE  /\ <<>> \in Seq(S) /\ Len(<<>>) = 0
           /\ <<x>> \in Seq(S) /\ <<x>> # <<>> /\ Len(<<x>>) = 1
           /\ Head(<<x>>) = x /\ Tail(<<x>>) = <<>>
           /\ Append(<<>>, x) = <<x>>
  BY SMT

\* A request is answered "ok" if and only if a write has a variable or an
\* output to go to.
LEMMA StatusTells ==
    ASSUME NEW r \in Request, r.op = "write"
    PROVE  Status(r) = IF MayWrite(r.tag) /\ Resolved(r.tag) \in Vars \cup Outputs
                       THEN "ok" ELSE "error"
<1>1. MayWrite(r.tag) => r.tag \in Tag
  BY DEF MayWrite
<1>2. r.tag \in Tag => Resolved(r.tag) \in Vars \cup Outputs
  BY DEF Tag, Resolved
<1> QED BY <1>1, <1>2 DEF Status

\* Steps that touch neither the request nor what became of it.
LEMMA Elsewhere ==
    ASSUME RpcInv, UNCHANGED <<rings, tcpvars, plc_req, stop_flag, effects>>,
           store' \in [Vars -> Values],
           staging' \in [Outputs -> Values], published' \in [Outputs -> Values],
           (plc_pc # "handle" /\ plc_pc' # "handle") \/ plc_pc' = plc_pc,
           plc_pc = "exited" => plc_pc' = "exited"
    PROVE  RpcInv'
<1>1. CycleTypes' /\ StopComesLast' /\ ReplyTellsEffect'
  BY DEF RpcInv, CycleTypes, StopComesLast, ReplyTellsEffect, rings, tcpvars
<1>2. Asked \/ Served \/ Answered => Asked' \/ Served' \/ Answered'
  <2>1. Asked => Asked'
    BY DEF Asked, rings, tcpvars
  <2>2. Served => Served'
    BY DEF Served, rings, tcpvars
  <2>3. Answered => Answered'
    BY DEF Answered, Truthful, rings, tcpvars
  <2> QED BY <2>1, <2>2, <2>3
<1>3. Nowhere => Nowhere'
  BY DEF Nowhere, rings
<1> QED BY <1>1, <1>2, <1>3 DEF RpcInv, OneRequest, tcpvars

\* At the start nothing is asked.
LEMMA InitRpc == Init => RpcInv
<1> SUFFICES ASSUME Init PROVE RpcInv
  OBVIOUS
<1>1. /\ NoRequest \in Request /\ NoResponse \in Response
      /\ 1 % IdRange \in 0 .. IdRange - 1
  <2>1. 0 \in 0 .. IdRange - 1 /\ 1 % IdRange \in 0 .. IdRange - 1
    BY SMT
  <2> QED BY <2>1 DEF NoRequest, NoResponse, Request, Response
<1>2. CycleTypes
  <2>1. <<>> \in Seq(Request) /\ <<>> \in Seq(Response)
    BY EmptySeq
  <2>2. Initial \in [Vars -> Values] /\ [o \in Outputs |-> 0] \in [Outputs -> Values]
    BY DEF Initial
  <2> QED BY <1>1, <2>1, <2>2 DEF Init, CycleTypes
<1>3. req.op # "write"
  BY DEF Init, NoRequest
<1> QED BY <1>2, <1>3 DEF Init, RpcInv, OneRequest, Nowhere, StopComesLast,
           ReplyTellsEffect

\* The TCP thread sends a request: nothing else is under way, so there is room.
LEMMA SendKeepsRpc ==
    ASSUME RpcInv, NEW line \in Line, TcpSend(line)
    PROVE  RpcInv'
<1>1. req' \in Request /\ next_id' \in 0 .. IdRange - 1
  <2>1. (next_id + 1) % IdRange \in 0 .. IdRange - 1
    BY SMT DEF RpcInv, CycleTypes, image
  <2> QED BY <2>1 DEF TcpSend, Line, Request, RpcInv, CycleTypes
<1>2. NoResponse \in Response
  <2>1. 0 \in 0 .. IdRange - 1
    BY SMT
  <2> QED BY <2>1 DEF NoResponse, Response
<1>3. UNCHANGED <<plc_req, rsp_q, plc_pc, stop_flag, image>> /\ effects' = 0
      /\ rsp' = NoResponse /\ tcp_pc = "line"
  BY DEF TcpSend, ReqRing!Put, mainvars
<1>4. CASE Len(req_q) < RingCapacity
  <2>1. req_q' = Append(req_q, req') /\ tcp_pc' = "await"
    BY <1>4 DEF TcpSend, ReqRing!Put
  <2>2. req_q' \in Seq(Request)
    BY <1>1, <2>1, AppendProperties DEF RpcInv, CycleTypes, image
  <2>3. CycleTypes'
    BY <1>1, <1>2, <1>3, <2>1, <2>2 DEF RpcInv, CycleTypes, image
  <2>4. ~stop_flag => Asked'
    BY <1>1, <1>3, <2>1, Singletons DEF RpcInv, OneRequest, Nowhere, Asked
  <2> QED BY <1>3, <2>1, <2>3, <2>4
          DEF RpcInv, OneRequest, StopComesLast, ReplyTellsEffect
<1>5. CASE ~(Len(req_q) < RingCapacity)
  <2>1. reply' = "queue_full" /\ UNCHANGED <<tcp_pc, req_q>>
    BY <1>5 DEF TcpSend
  <2>2. stop_flag
    <3>1. ~stop_flag => Len(req_q) = 0
      BY <1>3, Singletons DEF RpcInv, OneRequest, Nowhere
    <3> QED BY <1>5, <3>1, SMT DEF RpcInv, CycleTypes, image
  <2>3. CycleTypes'
    BY <1>1, <1>2, <1>3, <2>1 DEF RpcInv, CycleTypes, image
  <2> QED BY <1>3, <2>1, <2>2, <2>3
          DEF RpcInv, OneRequest, StopComesLast, ReplyTellsEffect
<1> QED BY <1>4, <1>5

\* The response it takes is the one it waits for, and tells the truth.
LEMMA ReceiveKeepsRpc == RpcInv /\ TcpReceive => RpcInv'
<1> SUFFICES ASSUME RpcInv, TcpReceive PROVE RpcInv'
  OBVIOUS
<1>1. /\ tcp_pc = "await" /\ ~stop_flag /\ rsp_q # <<>>
      /\ rsp' = Head(rsp_q) /\ rsp_q' = Tail(rsp_q)
      /\ UNCHANGED <<req_q, next_id, req, plc_pc, plc_req, stop_flag, image,
                     effects>>
  BY DEF TcpReceive, RspRing!Take, plcvars, mainvars, hist
<1>2. Answered
  BY <1>1 DEF RpcInv, OneRequest, Asked, Served
<1>3. PICK r \in Response : rsp_q = <<r>> /\ r.id = req.id /\ Truthful(r)
  BY <1>2 DEF Answered
<1>4. rsp' = r /\ rsp_q' = <<>> /\ rsp_q' \in Seq(Response)
  BY <1>1, <1>3, Singletons
<1>5. tcp_pc' = "line" /\ reply' = r.status
  BY <1>3, <1>4 DEF TcpReceive
<1>6. CycleTypes'
  BY <1>1, <1>4, <1>5 DEF RpcInv, CycleTypes, image
<1>7. Nowhere'
  BY <1>1, <1>2, <1>4 DEF Answered, Nowhere
<1>8. ReplyTellsEffect'
  <2>1. r.status \in {"ok", "error"}
    BY DEF Response
  <2> QED BY <1>1, <1>3, <1>5, <2>1 DEF Truthful, ReplyTellsEffect
<1> QED BY <1>1, <1>5, <1>6, <1>7, <1>8
        DEF RpcInv, OneRequest, StopComesLast

\* Giving up, and the end of the thread, come after the stop.
LEMMA LeaveKeepsRpc == RpcInv /\ (TcpGiveUp \/ TcpExit) => RpcInv'
<1> SUFFICES ASSUME RpcInv, TcpGiveUp \/ TcpExit PROVE RpcInv'
  OBVIOUS
<1>1. /\ stop_flag /\ tcp_pc' \in {"line", "exited"}
      /\ tcp_pc' = "line" => reply' = "stopping"
      /\ UNCHANGED <<rings, next_id, req, rsp, plc_pc, plc_req, stop_flag,
                     image, effects>>
  BY DEF TcpGiveUp, TcpExit, GivesUp, plcvars, mainvars, hist
<1>2. CycleTypes'
  BY <1>1 DEF RpcInv, CycleTypes, image, rings
<1> QED BY <1>1, <1>2
        DEF RpcInv, OneRequest, StopComesLast, ReplyTellsEffect

\* The PLC thread takes the request ...
LEMMA PollKeepsRpc == RpcInv /\ PollReceive => RpcInv'
<1> SUFFICES ASSUME RpcInv, PollReceive PROVE RpcInv'
  OBVIOUS
<1>1. /\ plc_pc = "poll" /\ plc_pc' = "handle" /\ req_q # <<>>
      /\ plc_req' = Head(req_q) /\ req_q' = Tail(req_q)
      /\ UNCHANGED <<rsp_q, tcpvars, stop_flag, image, effects>>
  BY DEF PollReceive, ReqRing!Take, mainvars, hist
<1>2. ~stop_flag /\ tcp_pc = "await" /\ Asked
  BY <1>1 DEF RpcInv, OneRequest, StopComesLast, Nowhere, Served, Answered
<1>3. plc_req' = req /\ req_q' = <<>> /\ req_q' \in Seq(Request)
  BY <1>1, <1>2, Singletons DEF Asked, RpcInv, CycleTypes
<1>4. CycleTypes'
  BY <1>1, <1>3 DEF RpcInv, CycleTypes, image, tcpvars
<1>5. Served'
  BY <1>1, <1>2, <1>3 DEF Asked, Served, tcpvars
<1> QED BY <1>1, <1>2, <1>4, <1>5
        DEF RpcInv, OneRequest, StopComesLast, ReplyTellsEffect, tcpvars

\* ... and answers it: there is room for the response, and the effect agrees.
LEMMA AnswerKeepsRpc == RpcInv /\ PollAnswer => RpcInv'
<1> SUFFICES ASSUME RpcInv, PollAnswer PROVE RpcInv'
  OBVIOUS
<1>1. /\ plc_pc = "handle" /\ plc_pc' = "poll" /\ plc_req' = NoRequest
      /\ UNCHANGED <<req_q, tcpvars, stop_flag>>
  BY DEF PollAnswer, mainvars
<1>2. ~stop_flag /\ tcp_pc = "await" /\ Served
  BY <1>1 DEF RpcInv, OneRequest, StopComesLast, Nowhere, Asked, Answered
<1>3. PICK r \in Response :
          /\ r.id = req.id /\ r.status = Status(req)
          /\ rsp_q' = IF Len(rsp_q) < RingCapacity
                      THEN Append(rsp_q, r) ELSE rsp_q
  <2>1. plc_req = req /\ req \in Request
    BY <1>2 DEF Served, RpcInv, CycleTypes
  <2> DEFINE tag == Resolved(req.tag)
             value == IF Status(req) = "ok" /\ req.op = "read"
                      THEN TagValue(tag) ELSE 0
  <2>2. store \in [Vars -> Values] /\ staging \in [Outputs -> Values]
    BY DEF RpcInv, CycleTypes, image
  <2>3. [id |-> req.id, status |-> Status(req), val |-> value] \in Response
    <3>1. value \in Values
      <4>1. Status(req) = "ok" => tag \in Vars \cup Outputs
        BY DEF Status, Tag, Resolved
      <4> QED BY <2>2, <4>1 DEF TagValue
    <3> QED BY <2>1, <3>1 DEF Response, Request, Status
  <2> QED BY <2>1, <2>3 DEF PollAnswer
<1>4. rsp_q' = <<r>> /\ rsp_q' \in Seq(Response)
  <2>1. Len(rsp_q) < RingCapacity /\ rsp_q = <<>>
    BY <1>2, Singletons, SMT DEF Served
  <2> QED BY <1>3, <2>1, Singletons
<1>5. Truthful(r)'
  <2>1. effects' = IF req.op = "write" /\ MayWrite(req.tag)
                      /\ Resolved(req.tag) \in Vars \cup Outputs THEN 1 ELSE 0
    BY <1>2 DEF PollAnswer, Served
  <2>2. req \in Request /\ req' = req
    BY <1>1 DEF RpcInv, CycleTypes, image, tcpvars
  <2> QED BY <1>3, <2>1, <2>2, StatusTells DEF Truthful
<1>6. CycleTypes'
  <2>1. NoRequest \in Request
    <3>1. 0 \in 0 .. IdRange - 1
      BY SMT
    <3> QED BY <3>1 DEF NoRequest, Request
  <2>2. 0 \in Values /\ req \in Request
    BY DEF RpcInv, CycleTypes
  <2>3. store' \in [Vars -> Values] /\ UNCHANGED published
    BY <1>2, <2>2 DEF PollAnswer, Served, RpcInv, CycleTypes, Request
  <2>4. staging' \in [Outputs -> Values]
    BY <1>2, <2>2 DEF PollAnswer, Served, RpcInv, CycleTypes, Request
  <2> QED BY <1>1, <1>4, <2>1, <2>3, <2>4 DEF RpcInv, CycleTypes, tcpvars
<1>7. Answered'
  BY <1>1, <1>2, <1>3, <1>4, <1>5 DEF Answered, Served, tcpvars
<1> QED BY <1>1, <1>2, <1>6, <1>7
        DEF RpcInv, OneRequest, StopComesLast, ReplyTellsEffect, tcpvars

\* The rest of the cycle, and main.
LEMMA CycleKeepsRpc ==
    ASSUME RpcInv, \/ LoopTest \/ PollEnd \/ FactoryReset \/ BackendsBegin
                   \/ TasksDone \/ BackendsEnd \/ Tasks \/ StopScheduler
                   \/ Finished
    PROVE  RpcInv'
<1>1. UNCHANGED <<rings, tcpvars, plc_req, stop_flag, effects>>
  BY DEF LoopTest, PollEnd, FactoryReset, BackendsBegin, TasksDone, BackendsEnd,
     Tasks, TaskSetVar, TaskSetOutput, StopScheduler, Finished, plcvars,
     mainvars, hist
<1>2. /\ (plc_pc # "handle" /\ plc_pc' # "handle") \/ plc_pc' = plc_pc
      /\ plc_pc = "exited" => plc_pc' = "exited"
  BY DEF LoopTest, PollEnd, FactoryReset, BackendsBegin, TasksDone, BackendsEnd,
     Tasks, TaskSetVar, TaskSetOutput, StopScheduler, Finished, plcvars
<1>3. store' \in [Vars -> Values]
  <2>1. Initial \in [Vars -> Values]
    BY DEF Initial
  <2>2. store \in [Vars -> Values]
    BY DEF RpcInv, CycleTypes
  <2>3. CASE FactoryReset
    BY <2>1, <2>2, <2>3 DEF FactoryReset, AfterReset
  <2>4. CASE Tasks
    BY <2>2, <2>4 DEF Tasks, TaskSetVar, TaskSetOutput
  <2>5. CASE \/ LoopTest \/ PollEnd \/ BackendsBegin \/ TasksDone \/ BackendsEnd
             \/ StopScheduler \/ Finished
    BY <2>2, <2>5 DEF LoopTest, PollEnd, BackendsBegin, TasksDone, BackendsEnd,
       StopScheduler, Finished, image
  <2> QED BY <2>3, <2>4, <2>5
<1>4. staging' \in [Outputs -> Values] /\ published' \in [Outputs -> Values]
  <2> USE DEF RpcInv, CycleTypes
  <2>1. CASE BackendsBegin \/ BackendsEnd
    BY <2>1 DEF BackendsBegin, BackendsEnd
  <2>2. ASSUME NEW o \in Outputs, NEW x \in Values, TaskSetOutput(o, x)
        PROVE  staging' \in [Outputs -> Values] /\ published' = published
    BY <2>2 DEF TaskSetOutput
  <2>3. CASE \E v \in Vars \ {ResetCmd}, x \in Values : TaskSetVar(v, x)
    BY <2>3 DEF TaskSetVar
  <2>4. CASE LoopTest \/ PollEnd \/ FactoryReset \/ TasksDone \/ StopScheduler
                \/ Finished
    BY <2>4 DEF LoopTest, PollEnd, FactoryReset, TasksDone, StopScheduler,
       Finished, image
  <2> QED BY <2>1, <2>2, <2>3, <2>4 DEF Tasks
<1> QED BY <1>1, <1>2, <1>3, <1>4, Elsewhere

\* main raises the flag when the PLC thread is gone.
LEMMA StopKeepsRpc == RpcInv /\ StopServer => RpcInv'
  BY DEF RpcInv, CycleTypes, OneRequest, StopComesLast, ReplyTellsEffect,
     StopServer, rings, tcpvars, plcvars, image, hist
-----------------------------------------------------------------------------
\* Where the request is, and what it has done, in every state.
THEOREM RpcCorrect == Spec => []RpcInv
<1>1. RpcInv /\ [Next]_vars => RpcInv'
  <2> SUFFICES ASSUME RpcInv, [Next]_vars PROVE RpcInv'
    OBVIOUS
  <2>1. CASE UNCHANGED vars
    BY <2>1, Elsewhere DEF vars, plcvars, image, mainvars, hist, RpcInv, CycleTypes
  <2>2. CASE Tcp
    BY <2>2, SendKeepsRpc, ReceiveKeepsRpc, LeaveKeepsRpc DEF Tcp, TcpAnswer
  <2>3. CASE PollReceive \/ PollAnswer
    BY <2>3, PollKeepsRpc, AnswerKeepsRpc
  <2>4. CASE StopServer
    BY <2>4, StopKeepsRpc
  <2> QED BY <2>1, <2>2, <2>3, <2>4, CycleKeepsRpc DEF Next, PlcStep, Main
<1> QED BY <1>1, InitRpc, PTL DEF Spec

\* Until the server is told to stop, the rings and the PLC thread hold the one
\* request that the TCP thread waits for and nothing else: no ring fills up.
THEOREM AtMostOneRequest == Spec => []OneInFlight
<1>1. RpcInv => OneInFlight
  <2> SUFFICES ASSUME RpcInv, ~stop_flag
               PROVE  InFlight = IF tcp_pc = "await" THEN 1 ELSE 0
    BY DEF OneInFlight
  <2>1. req \in Request /\ Len(<<req>>) = 1 /\ Len(<<>>) = 0
    BY Singletons DEF RpcInv, CycleTypes
  <2>2. \A r \in Response : Len(<<r>>) = 1
    BY Singletons
  <2>3. CASE tcp_pc = "await"
    <3>1. Asked => InFlight = 1
      BY <2>1 DEF Asked, InFlight
    <3>2. Served => InFlight = 1
      BY <2>1 DEF Served, InFlight
    <3>3. Answered => InFlight = 1
      BY <2>1, <2>2 DEF Answered, InFlight
    <3> QED BY <2>3, <3>1, <3>2, <3>3 DEF RpcInv, OneRequest
  <2>4. CASE tcp_pc # "await"
    BY <2>1, <2>4 DEF RpcInv, OneRequest, Nowhere, InFlight
  <2> QED BY <2>3, <2>4
<1> QED BY <1>1, RpcCorrect, PTL

\* A client that is told OK has had its write done, once; one that is told of
\* an error has not.
THEOREM RepliesAreTrue == Spec => []ReplyTellsEffect
<1>1. RpcInv => ReplyTellsEffect
  BY DEF RpcInv
<1> QED BY <1>1, RpcCorrect, PTL

\* Between the factory reset and the end of the cycle nobody sets the command:
\* the requests have been polled by then, and no task owns it.
LEMMA ResetStep ==
    ASSUME RpcInv, ResetBeforeTasks, [Next]_vars
    PROVE  ResetBeforeTasks'
<1> USE DEF ResetBeforeTasks
<1>1. store \in [Vars -> Values] /\ ResetCmd \in Vars
  BY DEF RpcInv, CycleTypes
<1>2. CASE FactoryReset
  BY <1>1, <1>2 DEF FactoryReset, AfterReset, Initial
<1>3. CASE LoopTest \/ PollReceive \/ PollAnswer \/ PollEnd
  BY <1>3 DEF LoopTest, PollReceive, PollAnswer, PollEnd
<1>4. CASE BackendsBegin \/ TasksDone \/ BackendsEnd
  BY <1>4 DEF BackendsBegin, TasksDone, BackendsEnd, image
<1>5. CASE Tasks
  <2>1. ASSUME NEW v \in Vars \ {ResetCmd}, NEW x \in Values, TaskSetVar(v, x)
        PROVE  ResetBeforeTasks'
    BY <1>1, <2>1 DEF TaskSetVar, plcvars
  <2>2. ASSUME NEW o \in Outputs, NEW x \in Values, TaskSetOutput(o, x)
        PROVE  ResetBeforeTasks'
    BY <2>2 DEF TaskSetOutput, plcvars
  <2> QED BY <1>5, <2>1, <2>2 DEF Tasks
<1>6. CASE Tcp
  <2>1. CASE \E line \in Line : TcpSend(line)
    BY <2>1 DEF TcpSend, image
  <2>2. CASE TcpAnswer \/ TcpExit
    BY <2>2 DEF TcpAnswer, TcpGiveUp, TcpReceive, TcpExit, plcvars, image
  <2> QED BY <1>6, <2>1, <2>2 DEF Tcp
<1>7. CASE Main
  BY <1>7 DEF Main, StopScheduler, StopServer, Finished, plcvars, image
<1>8. CASE UNCHANGED vars
  BY <1>8 DEF vars, plcvars, image
<1> QED BY <1>2, <1>3, <1>4, <1>5, <1>6, <1>7, <1>8 DEF Next, PlcStep

\* Whatever clients write and however many requests a poll takes, the tasks
\* never run with the reset command still pending (plc_cycle_begin).
THEOREM ResetComesFirst == Spec => []ResetBeforeTasks
<1>1. Init => ResetBeforeTasks
  BY DEF Init, ResetBeforeTasks
<1>2. RpcInv /\ ResetBeforeTasks /\ [Next]_vars => ResetBeforeTasks'
  BY ResetStep
<1> QED BY <1>1, <1>2, RpcCorrect, PTL DEF Spec
=============================================================================
