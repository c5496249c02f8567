-------------------------------- MODULE Deque --------------------------------
(***************************************************************************)
(* The work-stealing deque of libs/src/core/utils/deque_simple.c (and of   *)
(* each priority level of deque_priority.c): the owner pushes and pops at  *)
(* bottom, thieves take at top, one at a time with pop_back or up to half  *)
(* of what they see with pop_back_half.  The fences make the accesses      *)
(* sequentially consistent.                                                *)
(***************************************************************************)
EXTENDS Integers, Sequences, FiniteSets

CONSTANTS
  Thieves,
  Uses,      \* how the deque may be used: "single", the owner pops and thieves
             \* take one item; "half", thieves take up to half and the owner
             \* only pushes; "both", the owner pops and thieves take half
  FirstSize, \* cells of the first array, for each use
  MaxPush,   \* bound on the pushes explored; the items are 1 .. MaxPush
  StealMax   \* the most items one half steal takes (HALF_STEAL_MAX)

(* What the constants must be. *)
DequeAssumption ==
  /\ Uses \subseteq {"single", "half", "both"}
  /\ FirstSize \in [Uses -> Nat \ {0}]
  /\ MaxPush \in Nat /\ StealMax \in Nat \ {0}

VARIABLES
  use,      \* the member of Uses this behaviour is about; it never changes
  top, bottom,
  arrays,   \* the arrays in use so far, the last one is activeArray
  pushed,   \* how many items have been pushed
  taken,    \* history: the items returned, in the order they were claimed
  opc, ob, ot,      \* the owner: where it is, its b and its t
  tpc, tt, tb, ta,  \* the thieves: where they are, t, b, array
  claimed           \* what a thief holds: the item read (pop_back), or how
                    \* many it has still to read (pop_back_half)

ovars == <<opc, ob, ot>>
tvars == <<tpc, tt, tb, ta, claimed>>
vars == <<use, top, bottom, arrays, pushed, taken, ovars, tvars>>

Items == 1 .. MaxPush
Empty == 0
Active == arrays[Len(arrays)]

(* new_circular_array, get_circular_array, put_circular_array: an array is  *)
(* the sequence of its cells.                                               *)
New(size) == [i \in 1 .. size |-> Empty]
Cell(a, i) == (i % Len(a)) + 1
Get(a, i) == a[Cell(a, i)]
Put(a, i, x) == [a EXCEPT ![Cell(a, i)] = x]

(* grow_circular_array: twice the size, with the items t .. b-1. *)
Grow(a, b, t) ==
  LET size == 2 * Len(a)
  IN  [c \in 1 .. size |->
         IF \E i \in t .. b - 1 : i % size = c - 1
         THEN Get(a, CHOOSE i \in t .. b - 1 : i % size = c - 1)
         ELSE Empty]

Half == use \in {"half", "both"}
Pops == use \in {"single", "both"}

Init ==
  /\ use \in Uses
  /\ top = 1 /\ bottom = 1 /\ arrays = <<New(FirstSize[use])>>
  /\ pushed = 0 /\ taken = <<>>
  /\ opc = "idle" /\ ob = 0 /\ ot = 0
  /\ tpc = [p \in Thieves |-> "idle"]
  /\ tt = [p \in Thieves |-> 0]
  /\ tb = [p \in Thieves |-> 0]
  /\ ta = [p \in Thieves |-> 0]
  /\ claimed = [p \in Thieves |-> 0]

----------------------------------------------------------------------------
(* arts_deque_simple_push_front *)

Push_Read ==
  /\ opc = "idle"
  /\ pushed < MaxPush
  /\ pushed' = pushed + 1
  /\ ob' = bottom /\ ot' = top
  /\ opc' = "put"
  /\ UNCHANGED <<use, top, bottom, arrays, taken, tvars>>

(* Mutant: the array is only replaced when every cell is in use, counted    *)
(* one too late.                                                            *)
Push_Put_Late ==
  /\ opc = "put"
  /\ arrays' = IF ob >= Len(Active) + 1 + ot
               THEN Append(arrays, Put(Grow(Active, ob, ot), ob, pushed))
               ELSE [arrays EXCEPT ![Len(arrays)] = Put(Active, ob, pushed)]
  /\ opc' = "publish"
  /\ UNCHANGED <<use, top, bottom, pushed, taken, ob, ot, tvars>>

Push_Put ==
  /\ opc = "put"
  /\ arrays' = IF ob >= Len(Active) - 1 + ot
               THEN Append(arrays, Put(Grow(Active, ob, ot), ob, pushed))
               ELSE [arrays EXCEPT ![Len(arrays)] = Put(Active, ob, pushed)]
  /\ opc' = "publish"
  /\ UNCHANGED <<use, top, bottom, pushed, taken, ob, ot, tvars>>

Push_Publish ==
  /\ opc = "publish"
  /\ bottom' = ob + 1
  /\ opc' = "idle"
  /\ UNCHANGED <<use, top, arrays, pushed, taken, ob, ot, tvars>>

(* arts_deque_simple_pop_front.  A deque that is visibly empty is left      *)
(* alone; otherwise bottom is moved down before top is read.                *)
Pop_Check ==
  /\ Pops
  /\ opc = "idle"
  /\ top < bottom
  /\ opc' = "lower"
  /\ UNCHANGED <<use, top, bottom, arrays, pushed, taken, ob, ot, tvars>>

Pop_Lower ==
  /\ opc = "lower"
  /\ bottom' = bottom - 1
  /\ ob' = bottom - 1
  /\ opc' = "top"
  /\ UNCHANGED <<use, top, arrays, pushed, taken, ot, tvars>>

(* More than one item left: the owner takes its own without the CAS. *)
Pop_Take ==
  /\ opc = "top"
  /\ top < ob
  /\ taken' = Append(taken, Get(Active, ob))
  /\ opc' = "idle"
  /\ UNCHANGED <<use, top, bottom, arrays, pushed, ob, ot, tvars>>

(* Nothing left, or the last item: ot is what bottom goes back to. *)
Pop_Last ==
  /\ opc = "top"
  /\ top >= ob
  /\ ot' = top
  /\ opc' = IF top > ob THEN "restore" ELSE "cas"
  /\ UNCHANGED <<use, top, bottom, arrays, pushed, taken, ob, tvars>>

Pop_Cas ==
  /\ opc = "cas"
  /\ IF top = ot
     THEN top' = ot + 1 /\ taken' = Append(taken, Get(Active, ob))
     ELSE UNCHANGED <<use, top, taken>>
  /\ ot' = ot + 1
  /\ opc' = "restore"
  /\ UNCHANGED <<use, bottom, arrays, pushed, ob, tvars>>

Pop_Restore ==
  /\ opc = "restore"
  /\ bottom' = ot
  /\ opc' = "idle"
  /\ UNCHANGED <<use, top, arrays, pushed, taken, ob, ot, tvars>>

----------------------------------------------------------------------------
(* Thieves *)

Goto(p, l) == tpc' = [tpc EXCEPT ![p] = l]

(* The look at top and bottom that precedes this only ever makes the call   *)
(* return earlier; it is left out.                                          *)
Steal_Top(p) ==
  /\ tpc[p] = "idle"
  /\ tt' = [tt EXCEPT ![p] = top]
  /\ Goto(p, "bottom")
  /\ UNCHANGED <<use, top, bottom, arrays, pushed, taken, ovars, tb, ta,
                 claimed>>

Steal_Bottom(p) ==
  /\ tpc[p] = "bottom"
  /\ tb' = [tb EXCEPT ![p] = bottom]
  /\ Goto(p, IF tt[p] < bottom THEN "array" ELSE "idle")
  /\ UNCHANGED <<use, top, bottom, arrays, pushed, taken, ovars, tt, ta,
                 claimed>>

Steal_Array(p) ==
  /\ tpc[p] = "array"
  /\ ta' = [ta EXCEPT ![p] = Len(arrays)]
  /\ Goto(p, IF Half THEN "claim" ELSE "read")
  /\ UNCHANGED <<use, top, bottom, arrays, pushed, taken, ovars, tt, tb,
                 claimed>>

(* arts_deque_simple_pop_back reads the item before the CAS, ... *)
Steal_Read(p) ==
  /\ tpc[p] = "read"
  /\ claimed' = [claimed EXCEPT ![p] = Get(arrays[ta[p]], tt[p])]
  /\ Goto(p, "cas")
  /\ UNCHANGED <<use, top, bottom, arrays, pushed, taken, ovars, tt, tb, ta>>

(* Mutant: an atomic add in place of the CAS. *)
Steal_Cas_Add(p) ==
  /\ tpc[p] = "cas"
  /\ top' = top + 1 /\ taken' = Append(taken, claimed[p])
  /\ Goto(p, "idle")
  /\ UNCHANGED <<use, bottom, arrays, pushed, ovars, tt, tb, ta, claimed>>

Steal_Cas(p) ==
  /\ tpc[p] = "cas"
  /\ IF top = tt[p]
     THEN top' = tt[p] + 1 /\ taken' = Append(taken, claimed[p])
     ELSE UNCHANGED <<use, top, taken>>
  /\ Goto(p, "idle")
  /\ UNCHANGED <<use, bottom, arrays, pushed, ovars, tt, tb, ta, claimed>>

ToSteal(n) ==
  LET h == IF n \div 2 = 0 THEN 1 ELSE n \div 2
  IN  IF h > StealMax THEN StealMax ELSE h

(* Mutant: the claim does not check that top is still where it was. *)
Half_Claim_Blind(p) ==
  LET n == ToSteal(tb[p] - tt[p])
  IN  /\ tpc[p] = "claim"
      /\ top' = tt[p] + n
      /\ claimed' = [claimed EXCEPT ![p] = n]
      /\ Goto(p, "copy")
      /\ UNCHANGED <<use, bottom, arrays, pushed, taken, ovars, tt, tb, ta>>

(* ... arts_deque_simple_pop_back_half claims with one CAS and reads after. *)
Half_Claim(p) ==
  LET n == ToSteal(tb[p] - tt[p])
  IN  /\ tpc[p] = "claim"
      /\ top' = IF top = tt[p] THEN top + n ELSE top
      /\ claimed' = [claimed EXCEPT ![p] = n]
      /\ Goto(p, IF top = tt[p] THEN "copy" ELSE "idle")
      /\ UNCHANGED <<use, bottom, arrays, pushed, taken, ovars, tt, tb, ta>>

Half_Copy(p) ==
  /\ tpc[p] = "copy"
  /\ taken' = Append(taken, Get(arrays[ta[p]], tt[p]))
  /\ tt' = [tt EXCEPT ![p] = @ + 1]
  /\ claimed' = [claimed EXCEPT ![p] = @ - 1]
  /\ Goto(p, IF claimed[p] = 1 THEN "idle" ELSE "copy")
  /\ UNCHANGED <<use, top, bottom, arrays, pushed, ovars, tb, ta>>

----------------------------------------------------------------------------
Owner ==
  \/ Push_Read \/ Push_Put \/ Push_Publish
  \/ Pop_Check \/ Pop_Lower \/ Pop_Take \/ Pop_Last \/ Pop_Cas \/ Pop_Restore

Thief(p) ==
  \/ Steal_Top(p) \/ Steal_Bottom(p) \/ Steal_Array(p) \/ Steal_Read(p)
  \/ Steal_Cas(p) \/ Half_Claim(p) \/ Half_Copy(p)

Next == Owner \/ \E p \in Thieves : Thief(p)

Spec == Init /\ [][Next]_vars

----------------------------------------------------------------------------
(* Properties *)

(* Every variable has its type, and top and bottom stay within one of each  *)
(* other: size() and the tests b - t never wrap.                            *)
TypeOK ==
  /\ use \in Uses
  /\ top \in 1 .. MaxPush + 1 /\ bottom \in 0 .. MaxPush + 1
  /\ bottom >= top - 1
  /\ arrays \in Seq(Seq(Items \cup {Empty}))
  /\ pushed \in 0 .. MaxPush
  /\ taken \in Seq(Items)
  /\ opc \in {"idle", "put", "publish", "lower", "top", "cas", "restore"}
  /\ ob \in Nat /\ ot \in Nat
  /\ tpc \in [Thieves -> {"idle", "bottom", "array", "read", "cas", "claim", "copy"}]
  /\ \A v \in {tt, tb, ta, claimed} : v \in [Thieves -> Nat]

Resting == opc = "idle" /\ \A p \in Thieves : tpc[p] = "idle"
Inside == {Get(Active, i) : i \in top .. bottom - 1}
Returned == {taken[k] : k \in 1 .. Len(taken)}

(* No item is returned twice by push_front's counterparts pop_front,        *)
(* pop_back and pop_back_half and, once every call has returned, none is    *)
(* missing: what was pushed and not returned is between top and bottom.     *)
EachOnce ==
  /\ Cardinality(Returned) = Len(taken)
  /\ Resting => /\ Inside \cap Returned = {}
                /\ Inside \cup Returned = 1 .. pushed

(* The deque is a queue with both ends: each push, pop and single steal     *)
(* takes effect in one step.  The item the owner has reserved by moving     *)
(* bottom counts as inside until the owner or a thief has claimed it.  (A   *)
(* half steal takes several items at once and hands them on one by one.)    *)
Reserved == IF opc \in {"top", "cas"} THEN ob + 1 ELSE bottom
Contents == [k \in 1 .. Reserved - top |-> Get(Active, top + k - 1)]

Queue == INSTANCE WorkQueue WITH q <- Contents
IsQueue == Queue!Init /\ [][Half \/ Queue!Next]_<<Contents, taken>>
=============================================================================
