----------------------------- MODULE MCAtomics -----------------------------
(* The two components whose threads share nothing but single atomic words:  *)
(* SpscRing and RuntimeHealth.  They have no variable in common, so one run *)
(* checks both: a behaviour is one of the ring or one of the health level,  *)
(* and the other component keeps still in its initial state.                *)
EXTENDS SpscRing, RuntimeHealth

VARIABLE checked    \* the component that takes the steps

all == <<ring, vars, checked>>

InitEither == RingInit /\ Init /\ checked \in {"ring", "health"}

RingStep == checked = "ring" /\ RingNext /\ UNCHANGED <<vars, checked>>
HealthStep == checked = "health" /\ Next /\ UNCHANGED <<ring, checked>>

NextEither == RingStep \/ HealthStep

FairEither == /\ InitEither /\ [][NextEither]_all
              /\ WF_ring(checked = "ring" /\ Consumer)
=============================================================================
