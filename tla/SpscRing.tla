------------------------------ MODULE SpscRing ------------------------------
(***************************************************************************)
(* core/ipc/spsc_ring.c: the lock-free ring that carries tag requests from *)
(* the TCP thread to the PLC thread and responses back.  One thread pushes *)
(* and one pops; the only synchronisation is two atomic uint32_t indices   *)
(* that run freely and wrap at 2^32.                                       *)
(*                                                                         *)
(* Every atomic access and every word that memcpy moves is a step, so an   *)
(* element can be seen half written if the index protocol allows it.       *)
(***************************************************************************)
EXTENDS Integers, Sequences

CONSTANTS
    Elems,      \* the values of one word of an element
    Capacity,   \* q->capacity
    Words,      \* number of words memcpy copies for one element
    Laps,       \* how many times the storage fits in the index range
    Blank       \* a word of the zero-initialised storage

\* The range of the index type: 2^32 in the code, where Capacity is 64.
Modulus == Laps * Capacity

ASSUME CapacityAssumption == Capacity \in Nat \ {0}
ASSUME WordsAssumption == Words \in Nat \ {0}
ASSUME LapsAssumption == Laps \in Nat /\ Laps >= 2
ASSUME BlankAssumption == Blank \notin Elems

\* (A definition X_Slip beside a definition X is a plausible slip in X.  No
\* specification uses it: putting it in place of X shows that a property notices.)

VARIABLES
    storage,                            \* slot |-> word number |-> word
    read_index, write_index,            \* the two shared indices
    w_pc, w_elem, w_read, w_write, w_copied,    \* locals of spsc_ring_push
    r_pc, r_read, r_write, r_copied, out_elem,  \* locals of spsc_ring_pop
    received                            \* the element the last pop returned

wvars == <<w_pc, w_elem, w_read, w_write, w_copied>>
rvars == <<r_pc, r_read, r_write, r_copied, out_elem, received>>
ring == <<storage, read_index, write_index, wvars, rvars>>

Index == 0 .. Modulus - 1
Slot == 0 .. Capacity - 1
Word == 1 .. Words

\* An element as its sender wrote it: all its words belong together.
Whole(e) == [k \in Word |-> e]
BlankElem == Whole(Blank)

\* uint32_t increment and subtraction.
Inc(i) == IF i = Modulus - 1 THEN 0 ELSE i + 1
Distance(a, b) == IF a >= b THEN a - b ELSE a - b + Modulus

SlotOf(i) == i % Capacity

\* The tests of push and pop, on the values their two loads returned.
RingFull_OffByOne(w, r) == Distance(w, r) > Capacity
RingFull(w, r) == Distance(w, r) >= Capacity

RingEmpty_OffByOne(r, w) == Inc(r) = w
RingEmpty(r, w) == r = w

\* memcpy has moved all words of an element.
Copied_Early(n) == n >= Words - 1
Copied(n) == n = Words

RingInit == /\ storage = [s \in Slot |-> BlankElem]
        /\ read_index = 0 /\ write_index = 0
        /\ w_pc = "idle" /\ w_elem \in Elems
        /\ w_read = 0 /\ w_write = 0 /\ w_copied = 0
        /\ r_pc = "idle" /\ r_read = 0 /\ r_write = 0 /\ r_copied = 0
        /\ out_elem = BlankElem
        /\ received = BlankElem
-----------------------------------------------------------------------------
(* spsc_ring_push, run by the producer. *)

PushLoadRead ==
    /\ w_pc = "idle"
    /\ w_pc' = "load_write"
    /\ w_elem' \in Elems
    /\ w_read' = read_index
    /\ UNCHANGED <<storage, read_index, write_index, w_write, w_copied, rvars>>

PushLoadWrite ==
    /\ w_pc = "load_write"
    /\ w_write' = write_index
    /\ w_copied' = 0
    /\ w_pc' = IF RingFull(write_index, w_read) THEN "idle" ELSE "copy"
    /\ UNCHANGED <<storage, read_index, write_index, w_elem, w_read, rvars>>

PushCopyWord ==
    /\ w_pc = "copy" /\ w_copied < Words
    /\ storage' = [storage EXCEPT ![SlotOf(w_write)][w_copied + 1] = w_elem]
    /\ w_copied' = w_copied + 1
    /\ UNCHANGED <<read_index, write_index, w_pc, w_elem, w_read, w_write,
                   rvars>>

PushPublish ==
    /\ w_pc = "copy" /\ Copied(w_copied)
    /\ write_index' = Inc(w_write)
    /\ w_pc' = "idle"
    /\ UNCHANGED <<storage, read_index, w_elem, w_read, w_write, w_copied,
                   rvars>>
-----------------------------------------------------------------------------
(* spsc_ring_pop, run by the consumer. *)

PopLoadRead ==
    /\ r_pc = "idle"
    /\ r_pc' = "load_write"
    /\ r_read' = read_index
    /\ UNCHANGED <<storage, read_index, write_index, wvars, r_write, r_copied,
                   out_elem, received>>

PopLoadWrite ==
    /\ r_pc = "load_write"
    /\ r_write' = write_index
    /\ r_copied' = 0
    /\ r_pc' = IF RingEmpty(r_read, write_index) THEN "idle" ELSE "copy"
    /\ UNCHANGED <<storage, read_index, write_index, wvars, r_read, out_elem,
                   received>>

PopCopyWord ==
    /\ r_pc = "copy" /\ r_copied < Words
    /\ out_elem' = [out_elem EXCEPT ![r_copied + 1] =
                        storage[SlotOf(r_read)][r_copied + 1]]
    /\ r_copied' = r_copied + 1
    /\ UNCHANGED <<storage, read_index, write_index, wvars, r_pc, r_read,
                   r_write, received>>

PopPublish ==
    /\ r_pc = "copy" /\ Copied(r_copied)
    /\ read_index' = Inc(r_read)
    /\ r_pc' = "idle"
    /\ received' = out_elem
    /\ UNCHANGED <<storage, write_index, wvars, r_read, r_write, r_copied,
                   out_elem>>
-----------------------------------------------------------------------------
Producer == PushLoadRead \/ PushLoadWrite \/ PushCopyWord \/ PushPublish
Consumer == PopLoadRead \/ PopLoadWrite \/ PopCopyWord \/ PopPublish

RingNext == Producer \/ Consumer

RingSpec == RingInit /\ [][RingNext]_ring
FairRing == RingSpec /\ WF_ring(Consumer)
-----------------------------------------------------------------------------
\* Every variable keeps its range; the indices stay within the index type.
RingTypes ==
    /\ storage \in [Slot -> [Word -> Elems \cup {Blank}]]
    /\ read_index \in Index /\ write_index \in Index
    /\ w_pc \in {"idle", "load_write", "copy"}
    /\ w_elem \in Elems
    /\ w_read \in Index /\ w_write \in Index /\ w_copied \in 0 .. Words
    /\ r_pc \in {"idle", "load_write", "copy"}
    /\ r_read \in Index /\ r_write \in Index /\ r_copied \in 0 .. Words
    /\ out_elem \in [Word -> Elems \cup {Blank}]
    /\ received \in [Word -> Elems \cup {Blank}]

\* How many published elements are in the ring.
Used == Distance(write_index, read_index)

\* The two memcpy calls of spsc_ring.c:39 and :64 never touch one slot at the
\* same time, whatever stale value of the other side's index each of them saw
\* and however often the indices have wrapped.
NoSlotRace ==
    w_pc = "copy" /\ r_pc = "copy" => SlotOf(w_write) # SlotOf(r_read)

\* The producer never laps the consumer: at most Capacity elements are in the
\* ring, although the full test runs on an index read earlier.
NeverOverfull == Used <= Capacity

\* The inductive strengthening: what each side knows between its loads and
\* its publishing store.
WriterKnows ==
    /\ w_pc = "load_write" => /\ Used <= Distance(write_index, w_read)
                              /\ Distance(write_index, w_read) <= Capacity
    /\ w_pc = "copy" => w_write = write_index /\ Used < Capacity

ReaderKnows ==
    /\ r_pc \in {"load_write", "copy"} => r_read = read_index
    /\ r_pc = "copy" => Used > 0

IndexInv == RingTypes /\ NeverOverfull /\ WriterKnows /\ ReaderKnows

\* The ring implements the bounded queue: a push appends one whole element,
\* a pop removes the oldest one and returns it whole.
Contents == [k \in 1 .. Used |-> storage[SlotOf(read_index + k - 1)]]

Fifo == INSTANCE BoundedFifo
    WITH Elements <- {Whole(e) : e \in Elems}, Limit <- Capacity,
         Nothing <- BlankElem, queue <- Contents, taken <- received

ImplementsFifo == Fifo!Spec

\* Whatever is pushed is popped: while the consumer keeps calling
\* spsc_ring_pop, a ring that holds an element hands out its oldest one,
\* whatever the producer does meanwhile.
Delivered ==
    \A i \in Index : Used > 0 /\ read_index = i ~> read_index # i
=============================================================================
