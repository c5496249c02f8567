----------------------------- MODULE ArrayList -----------------------------
(***************************************************************************)
(* The array list (array_list.c) of the epoch lists, the lists of created  *)
(* datablocks and the capture histories: a chain of arrays that grows at   *)
(* the end, is kept over a reset, remembers the last place asked for, and  *)
(* is read by index or with an iterator over what it held when the         *)
(* iterator was made.  A pointer is a pair of a segment and a cell.        *)
(***************************************************************************)
EXTENDS Integers, Sequences

CONSTANTS
  ArrayLength,
  MaxLength,     \* bound on the elements in the list
  MaxPushes,     \* bound on the pushes explored; the n-th pushes n
  MaxResets      \* bound on the resets explored

VARIABLE k

Segment == [c \in 0 .. ArrayLength - 1 |-> 0]
NoIter == [index |-> 0, last |-> 0, current |-> 1, seen |-> <<>>]
NoPtr == <<0, 0>>

(* arts_new_array_list *)
Init ==
  k = [chain |-> <<Segment>>, current |-> 1, index |-> 0,
       last |-> 0, ptr |-> <<1, 0>>,
       items |-> <<>>, pushes |-> 0, resets |-> 0,
       got |-> <<0, NoPtr>>,
       iter |-> NoIter]

StartOf(seg) == (seg - 1) * ArrayLength

(* Mutant: at the end of a segment the list begins a new one, even if the  *)
(* chain goes on.                                                          *)
NextFree_New(x) ==
  LET full == x.index % ArrayLength = 0 /\ x.index > 0
      y == IF full THEN [x EXCEPT !.chain = Append(@, Segment),
                                  !.current = Len(x.chain) + 1] ELSE x
  IN  [y EXCEPT !.index = @ + 1]

(* arts_next_free_from_array_list: the next cell of the current segment,   *)
(* or the first one of the next, which is made if the chain ends.          *)
NextFree(x) ==
  LET full == x.index % ArrayLength = 0 /\ x.index > 0
      y == IF ~full THEN x
           ELSE [x EXCEPT !.chain = IF x.current = Len(@) THEN Append(@, Segment)
                                    ELSE @,
                          !.current = @ + 1]
  IN  [y EXCEPT !.index = @ + 1]

(* arts_push_to_array_list *)
Push ==
  /\ k.index < MaxLength /\ k.pushes < MaxPushes
  /\ LET x == NextFree(k) IN
     k' = [x EXCEPT !.chain[x.current][k.index % ArrayLength] = k.pushes + 1,
                    !.items = Append(@, k.pushes + 1),
                    !.pushes = @ + 1]

Reset ==
  /\ k.resets < MaxResets
  /\ k' = [k EXCEPT !.current = 1, !.index = 0, !.last = 0, !.ptr = <<1, 0>>,
                    !.items = <<>>, !.iter = NoIter, !.resets = @ + 1,
                    !.got = <<0, NoPtr>>]

(* arts_get_from_array_list: the last place again, the first segment, or a *)
(* walk along the chain.                                                   *)
Get(i) ==
  LET x == [k EXCEPT !.last = i]
      Found(p) == [x EXCEPT !.ptr = p, !.got = <<i, p>>]
  IN  k' = IF i = k.last THEN [k EXCEPT !.got = <<i, k.ptr>>]
           ELSE IF i >= k.index THEN [k EXCEPT !.got = <<i, NoPtr>>]
           ELSE IF k.index < ArrayLength THEN Found(<<1, i>>)
           ELSE LET seg == CHOOSE s \in 1 .. Len(k.chain) :
                             /\ i < StartOf(s) + ArrayLength
                             /\ \A t \in 1 .. s - 1 : i >= StartOf(t) + ArrayLength
                IN  Found(<<seg, i - StartOf(seg)>>)

(* arts_array_list_iter_init *)
IterInit == k' = [k EXCEPT !.iter = [NoIter EXCEPT !.last = k.index]]

(* arts_array_list_next *)
IterNext ==
  /\ k.iter.index < k.iter.last
  /\ LET it == k.iter
         seg == IF it.index % ArrayLength = 0 /\ it.index > 0
                THEN it.current + 1 ELSE it.current
     IN k' = [k EXCEPT !.iter = [it EXCEPT
                !.current = seg, !.index = @ + 1,
                !.seen = Append(@, k.chain[seg][it.index - StartOf(seg)])]]

Next == \/ Push \/ Reset \/ IterInit \/ IterNext
        \/ \E i \in 0 .. MaxLength - 1 : Get(i)

----------------------------------------------------------------------------
(* However pushes, gets, resets and iterations follow one another, what a  *)
(* get returned for an index below the length is the element pushed there  *)
(* since the last reset, and an iterator has given the elements in order,  *)
(* up to those that were there when it was made.                           *)
ListIsSequence ==
  /\ k.index = Len(k.items)
  /\ LET i == k.got[1]
         p == k.got[2]
     IN  p # NoPtr /\ i < k.index => k.chain[p[1]][p[2]] = k.items[i + 1]
  /\ k.iter.seen = SubSeq(k.items, 1, k.iter.index)
=============================================================================
