---------------------------- MODULE BoundedFifo ----------------------------
(***************************************************************************)
(* What a single-producer single-consumer ring promises to its two users:  *)
(* a bounded first-in first-out queue whose elements are put and taken     *)
(* whole, in one step.  SpscRing implements it; PlcCycle is built on it.     *)
(***************************************************************************)
EXTENDS Naturals, Sequences

CONSTANTS
    Elements,   \* what may be put into the queue
    Limit       \* how many elements it holds

VARIABLES
    queue,      \* the elements put and not yet taken, oldest first
    taken       \* the last element taken, or a non-element before the first

CONSTANT Nothing

vars == <<queue, taken>>

Init == queue = <<>> /\ taken = Nothing

Put(e) == /\ Len(queue) < Limit
          /\ queue' = Append(queue, e)
          /\ UNCHANGED taken

Take == /\ queue # <<>>
        /\ taken' = Head(queue)
        /\ queue' = Tail(queue)

Next == Take \/ \E e \in Elements : Put(e)

Spec == Init /\ [][Next]_vars
=============================================================================
