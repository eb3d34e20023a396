------------------------------ MODULE Channel ------------------------------
(***************************************************************************)
(* What a queue between two threads promises: what comes out is what went  *)
(* in, in that order and once, and never more than the capacity is inside. *)
(***************************************************************************)
EXTENDS Naturals, Sequences

CONSTANTS Item, Capacity

VARIABLES
  entered,   \* everything that went in
  left       \* everything that came out

Init == entered = <<>> /\ left = <<>>

Enter ==
  /\ Len(entered) - Len(left) < Capacity
  /\ \E x \in Item : entered' = Append(entered, x)
  /\ left' = left

Leave ==
  /\ Len(left) < Len(entered)
  /\ left' = Append(left, entered[Len(left) + 1])
  /\ entered' = entered

Next == Enter \/ Leave

Spec == Init /\ [][Next]_<<entered, left>>

=============================================================================
