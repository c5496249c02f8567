------------------------------ MODULE WorkQueue ------------------------------
(***************************************************************************)
(* What a worker's deque promises the scheduler: items go in at the front, *)
(* come out at the front for the owner or at the back for a thief, and     *)
(* each comes out once.                                                    *)
(***************************************************************************)
EXTENDS Naturals, Sequences

CONSTANT Items

VARIABLES
  q,     \* the queue, back (oldest) first
  taken  \* the items taken, in the order they were

Init == q = <<>> /\ taken = <<>>

Push(x) == q' = Append(q, x) /\ UNCHANGED taken

PopFront ==
  /\ q # <<>>
  /\ q' = SubSeq(q, 1, Len(q) - 1)
  /\ taken' = Append(taken, q[Len(q)])

PopBack ==
  /\ q # <<>>
  /\ q' = Tail(q)
  /\ taken' = Append(taken, Head(q))

Next == PopFront \/ PopBack \/ \E x \in Items : Push(x)

Spec == Init /\ [][Next]_<<q, taken>>
=============================================================================
