---------------------------- MODULE PriorityBag ----------------------------
(***************************************************************************)
(* What a priority queue of bounded size promises: enqueue adds a value    *)
(* while there is room, dequeue takes the greatest value there is.         *)
(***************************************************************************)
EXTENDS Integers, Bags

CONSTANTS Values, Size

VARIABLES held,   \* the bag of values
          x       \* the value last dequeued

Init == held = EmptyBag /\ x = 0

Enqueue == \E v \in Values : /\ BagCardinality(held) < Size
                             /\ held' = held (+) SetToBag({v})
                             /\ UNCHANGED x

Dequeue == \E v \in BagToSet(held) : /\ \A w \in BagToSet(held) : w <= v
                                     /\ held' = held (-) SetToBag({v})
                                     /\ x' = v

Next == Enqueue \/ Dequeue

Spec == Init /\ [][Next]_<<held, x>>
=============================================================================
