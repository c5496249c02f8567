---------------------------- MODULE DequeProofs ----------------------------
(***************************************************************************)
(* Proofs about Deque, used with single steals: for every number of        *)
(* thieves, of pushes and of cells in the first array, it is a queue with  *)
(* two ends, and each item comes out once.                                 *)
(***************************************************************************)
EXTENDS Deque, TLAPS

USE SMTT(30), Zenon

(* The deque with single steals alone *)
SingleSteals == DequeAssumption /\ Uses = {"single"}

----------------------------------------------------------------------------
(* The inductive invariant *)

(* The types, without the bounds on top and bottom; every array has cells.  *)
Typed ==
  /\ use = "single"
  /\ top \in Nat \ {0} /\ bottom \in Nat
  /\ arrays \in Seq(Seq(Items \cup {Empty})) /\ Len(arrays) > 0
  /\ \A k \in 1 .. Len(arrays) : Len(arrays[k]) > 0
  /\ pushed \in 0 .. MaxPush
  /\ taken \in Seq(Items)
  /\ opc \in {"idle", "put", "publish", "lower", "top", "cas", "restore"}
  /\ ob \in Nat /\ ot \in Nat
  /\ tpc \in [Thieves -> {"idle", "bottom", "array", "read", "cas"}]
  /\ tt \in [Thieves -> Nat] /\ tb \in [Thieves -> Nat]
  /\ ta \in [Thieves -> Nat] /\ claimed \in [Thieves -> Nat]

(* Where the owner's call stands: the items fill all cells but one at most. *)
OwnerKnows ==
  /\ Reserved - top < Len(Active)
  /\ opc \in {"idle", "put", "publish", "lower"} => bottom >= top
  /\ opc \in {"put", "publish"} => ob = bottom /\ ot <= top /\ pushed > 0
  /\ opc = "put" => ob - ot < Len(Active)
  /\ opc = "publish" => ob + 1 - top < Len(Active) /\ Get(Active, ob) = pushed
  /\ opc \in {"top", "cas", "restore"} => ob = bottom /\ top <= ob + 1
  /\ opc = "cas" => ot = ob /\ top >= ob
  /\ opc = "restore" => ot = ob + 1 /\ top = ob + 1

(* What a thief knows as long as top is where it read it: there is an item, *)
(* and the array it holds, however old, has that item.                      *)
ThiefKnows ==
  \A p \in Thieves :
    /\ tt[p] <= top
    /\ tpc[p] = "read" => ta[p] \in 1 .. Len(arrays)
    /\ tt[p] = top =>
         /\ tpc[p] \in {"array", "read", "cas"} => top < Reserved
         /\ tpc[p] = "read" => Get(arrays[ta[p]], top) = Get(Active, top)
         /\ tpc[p] = "cas" => claimed[p] = Get(Active, top)

(* Each item pushed is in the deque or was taken, and at one place. *)
Settled == IF opc \in {"put", "publish"} THEN pushed - 1 ELSE pushed
Held == {Get(Active, i) : i \in top .. Reserved - 1}
OneCopy ==
  /\ \A i, j \in top .. Reserved - 1 : Get(Active, i) = Get(Active, j) => i = j
  /\ \A k, l \in 1 .. Len(taken) : taken[k] = taken[l] => k = l
  /\ Held \cap Returned = {}
  /\ Held \cup Returned = 1 .. Settled

IInv == Typed /\ OwnerKnows /\ ThiefKnows /\ OneCopy

----------------------------------------------------------------------------
(* Circular arrays *)

(* Positions less than the size apart lie in different cells. *)
LEMMA CellsApart ==
  ASSUME NEW n \in Nat \ {0}, NEW i \in Nat, NEW j \in Nat, i < j, j < i + n
  PROVE  i % n # j % n
<1> SUFFICES ASSUME i % n = j % n PROVE FALSE
  OBVIOUS
<1> DEFINE q == i \div n  r == j \div n
<1>1. /\ q \in Int /\ r \in Int
      /\ i = n * q + (i % n) /\ j = n * r + (j % n)
  OBVIOUS
<1>2. j - i = n * r - n * q
  BY <1>1
<1>3. n * r - n * q = n * (r - q)
  BY <1>1
<1>4. CASE r - q <= 0
  <2>1. n * (r - q) <= 0
    BY <1>1, <1>4
  <2> QED
    BY <1>2, <1>3, <2>1
<1>5. CASE r - q >= 1
  <2>1. n * (r - q) >= n
    BY <1>1, <1>5
  <2> QED
    BY <1>2, <1>3, <2>1
<1> QED
  BY <1>1, <1>4, <1>5

(* A function on 1 .. n is a sequence of length n. *)
LEMMA FunctionIsSeq ==
  ASSUME NEW X, NEW n \in Nat, NEW f \in [1 .. n -> X]
  PROVE  f \in Seq(X) /\ Len(f) = n
OBVIOUS

(* A position has a cell. *)
LEMMA CellRange ==
  ASSUME NEW X, NEW a \in Seq(X), Len(a) > 0, NEW i \in Nat
  PROVE  Cell(a, i) \in 1 .. Len(a) /\ Get(a, i) \in X
<1>1. Len(a) \in Nat \ {0}
  OBVIOUS
<1>2. i % Len(a) \in 0 .. Len(a) - 1
  BY <1>1
<1> QED
  BY <1>1, <1>2 DEF Cell, Get

(* put_circular_array changes one cell, and so no position near it but its  *)
(* own.                                                                     *)
LEMMA PutGet ==
  ASSUME NEW X, NEW a \in Seq(X), Len(a) > 0, NEW x \in X, NEW j \in Nat
  PROVE  /\ Put(a, j, x) \in Seq(X) /\ Len(Put(a, j, x)) = Len(a)
         /\ Get(Put(a, j, x), j) = x
         /\ \A i \in Nat : i < j /\ j < i + Len(a) =>
              Get(Put(a, j, x), i) = Get(a, i)
<1> DEFINE b == Put(a, j, x)
<1> USE DEF Put
<1>1. b \in Seq(X) /\ Len(b) = Len(a) /\ Len(a) \in Nat \ {0}
  BY CellRange
<1>2. Get(b, j) = x
  BY <1>1, CellRange DEF Get, Cell
<1>3. ASSUME NEW i \in Nat, i < j, j < i + Len(a) PROVE Get(b, i) = Get(a, i)
  <2>1. i % Len(a) # j % Len(a)
    BY <1>1, <1>3, CellsApart
  <2>2. i % Len(a) \in Int /\ j % Len(a) \in Int
    BY <1>1
  <2>3. Cell(a, i) # Cell(a, j) /\ Cell(b, i) = Cell(a, i)
    BY <1>1, <2>1, <2>2 DEF Cell
  <2> QED
    BY <2>3, CellRange DEF Get
<1> QED
  BY <1>1, <1>2, <1>3, Zenon

(* grow_circular_array keeps the items it is told to. *)
LEMMA GrowGet ==
  ASSUME NEW X, Empty \in X, NEW a \in Seq(X), Len(a) > 0,
         NEW t \in Nat, NEW b \in Nat, b - t <= 2 * Len(a)
  PROVE  /\ Grow(a, b, t) \in Seq(X)
         /\ Len(Grow(a, b, t)) = 2 * Len(a)
         /\ \A i \in t .. b - 1 : Get(Grow(a, b, t), i) = Get(a, i)
<1> DEFINE size == 2 * Len(a)
           At(c) == CHOOSE i \in t .. b - 1 : i % size = c - 1
           g == [c \in 1 .. size |->
                   IF \E i \in t .. b - 1 : i % size = c - 1 THEN Get(a, At(c)) ELSE Empty]
<1>1. size \in Nat \ {0} /\ Grow(a, b, t) = g
  BY DEF Grow
<1>2. ASSUME NEW c \in 1 .. size PROVE g[c] \in X
  <2>1. CASE \E i \in t .. b - 1 : i % size = c - 1
    <3>1. At(c) \in t .. b - 1
      BY <2>1
    <3> QED
      BY <2>1, <3>1, CellRange
  <2>2. CASE ~ \E i \in t .. b - 1 : i % size = c - 1
    BY <2>2
  <2> QED
    BY <2>1, <2>2
<1>3. g \in Seq(X) /\ Len(g) = size
  <2>1. g \in [1 .. size -> X]
    BY <1>2, Zenon
  <2> HIDE DEF g, size
  <2> QED
    BY <1>1, <2>1, FunctionIsSeq
<1>4. ASSUME NEW i \in t .. b - 1 PROVE Get(g, i) = Get(a, i)
  <2> DEFINE c == (i % size) + 1
  <2>1. c \in 1 .. size /\ i % size = c - 1
    BY <1>1
  <2>2. At(c) \in t .. b - 1 /\ At(c) % size = i % size
    BY <2>1, Zenon
  <2>3. At(c) = i
    BY <1>1, <2>2, CellsApart
  <2>4. Get(g, i) = g[c]
    BY <1>3 DEF Get, Cell
  <2> QED
    BY <2>1, <2>3, <2>4
<1> QED
  BY <1>1, <1>3, <1>4, Zenon

----------------------------------------------------------------------------
(* The steps *)

(* The active array, in every state of the invariant *)
LEMMA ActiveArray ==
  ASSUME Typed
  PROVE  /\ Active \in Seq(Items \cup {Empty}) /\ Len(Active) \in Nat \ {0}
         /\ \A i \in Nat : Get(Active, i) \in Items \cup {Empty}
<1>1. Len(arrays) \in Nat \ {0}
  BY DEF Typed
<1>2. Active \in Seq(Items \cup {Empty}) /\ Len(Active) > 0
  BY <1>1 DEF Typed, Active
<1> QED
  BY <1>2, CellRange

(* Whether it grows the array or not, the put of push_front keeps the items *)
(* from top on at their positions, in the active array and in the old ones, *)
(* and leaves a cell free.                                                  *)
LEMMA PutKeeps ==
  ASSUME SingleSteals, Typed, OwnerKnows, Push_Put
  PROVE  /\ arrays' \in Seq(Seq(Items \cup {Empty})) /\ Len(arrays') >= Len(arrays)
         /\ \A k \in 1 .. Len(arrays') : Len(arrays'[k]) > 0
         /\ Get(Active', ob) = pushed /\ ob + 1 - top < Len(Active')
         /\ \A i \in top .. ob - 1 :
              /\ Get(Active', i) = Get(Active, i)
              /\ \A k \in 1 .. Len(arrays) : Get(arrays'[k], i) = Get(arrays[k], i)
<1> DEFINE X == Items \cup {Empty}
           n == Len(arrays)
<1>1. /\ n \in Nat \ {0} /\ arrays \in Seq(Seq(X)) /\ pushed \in X /\ Empty \in X
      /\ \A k \in 1 .. n : arrays[k] \in Seq(X) /\ Len(arrays[k]) > 0
  <2>1. pushed \in X /\ Empty \in X
    BY DEF Typed, OwnerKnows, Push_Put, Items, SingleSteals, DequeAssumption
  <2> QED
    BY <2>1 DEF Typed
<1>2. Active \in Seq(X) /\ Len(Active) \in Nat \ {0}
  BY ActiveArray
<1> HIDE DEF X
<1>3. /\ ob \in Nat /\ ot \in Nat /\ top \in Nat /\ ot <= top /\ top <= ob
      /\ ob - ot < Len(Active)
  BY DEF Typed, OwnerKnows, Push_Put
<1>4. CASE ob >= Len(Active) - 1 + ot
  <2> DEFINE a == Grow(Active, ob, ot)
             b == Put(a, ob, pushed)
  <2>1. /\ a \in Seq(X) /\ Len(a) = 2 * Len(Active)
        /\ \A i \in ot .. ob - 1 : Get(a, i) = Get(Active, i)
    BY <1>1, <1>2, <1>3, GrowGet
  <2>2. /\ b \in Seq(X) /\ Len(b) = Len(a) /\ Get(b, ob) = pushed
        /\ \A i \in Nat : i < ob /\ ob < i + Len(a) => Get(b, i) = Get(a, i)
    <3>1. a \in Seq(X) /\ Len(a) > 0 /\ pushed \in X /\ ob \in Nat
      BY <1>1, <1>2, <1>3, <2>1
    <3> HIDE DEF a
    <3> QED
      BY <3>1, PutGet
  <2>3. arrays' = Append(arrays, b)
    BY <1>4 DEF Push_Put
  <2> HIDE DEF a, b
  <2>4. /\ arrays' \in Seq(Seq(X)) /\ Len(arrays') = n + 1 /\ Active' = b
        /\ \A k \in 1 .. n : arrays'[k] = arrays[k]
        /\ arrays'[n + 1] = b
    BY <1>1, <2>2, <2>3 DEF Active
  <2>5. \A i \in top .. ob - 1 : Get(b, i) = Get(Active, i)
    BY <1>2, <1>3, <2>1, <2>2
  <2>6. /\ ob + 1 - top < Len(b)
        /\ \A k \in 1 .. n + 1 : Len(arrays'[k]) > 0
    <3>1. Len(b) \in Nat /\ Len(b) = 2 * Len(Active)
      BY <1>2, <2>1, <2>2
    <3>2. ob + 1 - top < 2 * Len(Active)
      BY <1>2, <1>3
    <3>3. ASSUME NEW k \in 1 .. n + 1 PROVE Len(arrays'[k]) > 0
      <4>1. CASE k \in 1 .. n
        BY <1>1, <2>4, <4>1
      <4>2. CASE k = n + 1
        BY <1>2, <2>4, <3>1, <4>2
      <4> QED
        BY <1>1, <4>1, <4>2
    <3> QED
      BY <3>1, <3>2, <3>3
  <2> QED
    BY <1>1, <2>2, <2>4, <2>5, <2>6 DEF X
<1>5. CASE ob < Len(Active) - 1 + ot
  <2> DEFINE b == Put(Active, ob, pushed)
  <2>1. /\ b \in Seq(X) /\ Len(b) = Len(Active) /\ Get(b, ob) = pushed
        /\ \A i \in Nat : i < ob /\ ob < i + Len(Active) => Get(b, i) = Get(Active, i)
    BY <1>1, <1>2, <1>3, PutGet
  <2>2. arrays' = [arrays EXCEPT ![n] = b]
    BY <1>2, <1>3, <1>5 DEF Push_Put
  <2> HIDE DEF b
  <2>3. /\ arrays' \in Seq(Seq(X)) /\ Len(arrays') = n /\ Active' = b
        /\ \A k \in 1 .. n : arrays'[k] = IF k = n THEN b ELSE arrays[k]
    BY <1>1, <2>1, <2>2 DEF Active
  <2>4. \A i \in top .. ob - 1 : Get(b, i) = Get(Active, i)
    BY <1>2, <1>3, <2>1
  <2>5. /\ ob + 1 - top < Len(b)
        /\ \A k \in 1 .. n : Len(arrays'[k]) > 0
    BY <1>1, <1>2, <1>3, <1>5, <2>1, <2>3
  <2>6. \A i \in top .. ob - 1, k \in 1 .. n : Get(arrays'[k], i) = Get(arrays[k], i)
    BY <2>3, <2>4 DEF Active
  <2> QED
    BY <1>1, <2>1, <2>3, <2>4, <2>5, <2>6 DEF X
<1> QED
  BY <1>2, <1>3, <1>4, <1>5

(* Taking one of the items that are inside keeps the account. *)
LEMMA Took ==
  ASSUME SingleSteals, Typed, OneCopy, NEW x \in Held,
         taken' = Append(taken, x), Held' = Held \ {x}, UNCHANGED <<pushed, Settled>>
  PROVE  /\ x \in Items /\ taken' \in Seq(Items)
         /\ \A k, l \in 1 .. Len(taken') : taken'[k] = taken'[l] => k = l
         /\ Held' \cap Returned' = {}
         /\ Held' \cup Returned' = 1 .. Settled'
<1>1. x \in 1 .. Settled /\ x \notin Returned
  BY DEF OneCopy
<1>2. x \in Items
  BY <1>1 DEF Settled, Typed, Items, SingleSteals, DequeAssumption
<1>3. /\ taken' \in Seq(Items) /\ Len(taken) \in Nat /\ Len(taken') = Len(taken) + 1
      /\ \A k \in 1 .. Len(taken') :
           taken'[k] = IF k = Len(taken) + 1 THEN x ELSE taken[k]
  BY <1>2 DEF Typed
<1>4. Returned' = Returned \cup {x}
  BY <1>3 DEF Returned
<1>5. \A k, l \in 1 .. Len(taken') : taken'[k] = taken'[l] => k = l
  BY <1>1, <1>3 DEF Returned, OneCopy
<1> QED
  BY <1>2, <1>3, <1>4, <1>5 DEF OneCopy

(* The account does not change with steps that move no item. *)
LEMMA NoneMoved ==
  ASSUME OneCopy, UNCHANGED <<top, Reserved, Active, taken, Settled>>
  PROVE  OneCopy'
BY DEF OneCopy, Held, Returned

(* arts_deque_simple_push_front *)
LEMMA PushInv ==
  ASSUME SingleSteals, IInv, Push_Read \/ Push_Put \/ Push_Publish
  PROVE  IInv'
<1> USE DEF IInv, tvars
<1>0. /\ Active \in Seq(Items \cup {Empty}) /\ Len(Active) \in Nat \ {0}
      /\ MaxPush \in Nat
  BY ActiveArray DEF SingleSteals, DequeAssumption
<1>1. CASE Push_Read
  <2>1. Active' = Active /\ Reserved' = Reserved /\ Settled' = Settled
    BY <1>1 DEF Push_Read, Active, Reserved, Settled, Typed
  <2>2. Typed'
    BY <1>0, <1>1 DEF Push_Read, Typed
  <2>3. OwnerKnows'
    BY <1>0, <1>1, <2>1 DEF Push_Read, Typed, OwnerKnows, Reserved
  <2>4. ThiefKnows'
    BY <1>1, <2>1 DEF Push_Read, ThiefKnows
  <2>5. OneCopy'
    BY <1>1, <2>1, NoneMoved DEF Push_Read
  <2> QED
    BY <2>2, <2>3, <2>4, <2>5
<1>2. CASE Push_Put
  <2>1. /\ arrays' \in Seq(Seq(Items \cup {Empty})) /\ Len(arrays') >= Len(arrays)
        /\ \A k \in 1 .. Len(arrays') : Len(arrays'[k]) > 0
        /\ Get(Active', ob) = pushed /\ ob + 1 - top < Len(Active')
        /\ \A i \in top .. ob - 1 :
             /\ Get(Active', i) = Get(Active, i)
             /\ \A k \in 1 .. Len(arrays) : Get(arrays'[k], i) = Get(arrays[k], i)
    BY <1>2, PutKeeps
  <2>2. /\ Reserved = ob /\ Reserved' = ob /\ Settled' = Settled
        /\ Len(arrays) \in Nat /\ Len(arrays') \in Nat
        /\ ob \in Nat /\ top \in Nat /\ top <= ob
    BY <1>2, <2>1 DEF Push_Put, Reserved, Settled, Typed, OwnerKnows
  <2>3. Typed'
    <3>1. UNCHANGED <<use, top, bottom, pushed, taken, ob, ot, tvars>> /\ opc' = "publish"
      BY <1>2 DEF Push_Put
    <3>2. /\ arrays' \in Seq(Seq(Items \cup {Empty})) /\ Len(arrays') > 0
          /\ \A k \in 1 .. Len(arrays') : Len(arrays'[k]) > 0
      BY <2>1, <2>2 DEF Typed
    <3> QED
      BY <3>1, <3>2 DEF Typed
  <2>4. OwnerKnows'
    <3>1. Len(Active') \in Nat
      BY <2>3, ActiveArray DEF Typed, Active
    <3> QED
      BY <1>2, <2>1, <2>2, <3>1 DEF Push_Put, OwnerKnows
  <2>5. ThiefKnows'
    <3> SUFFICES ASSUME NEW p \in Thieves
        PROVE  /\ tt[p] <= top
               /\ tpc[p] = "read" => ta[p] \in 1 .. Len(arrays')
               /\ tt[p] = top =>
                    /\ tpc[p] \in {"array", "read", "cas"} => top < Reserved'
                    /\ tpc[p] = "read" => Get(arrays'[ta[p]], top) = Get(Active', top)
                    /\ tpc[p] = "cas" => claimed[p] = Get(Active', top)
      BY <1>2 DEF Push_Put, ThiefKnows
    <3>1. /\ tt[p] <= top /\ tpc[p] = "read" => ta[p] \in 1 .. Len(arrays')
      BY <2>1, <2>2 DEF ThiefKnows, Typed
    <3>2. ASSUME tt[p] = top, tpc[p] \in {"array", "read", "cas"}
          PROVE  top < Reserved' /\ top \in top .. ob - 1
      BY <2>2, <3>2 DEF ThiefKnows
    <3> QED
      BY <2>1, <3>1, <3>2 DEF ThiefKnows
  <2>6. OneCopy'
    <3>1. \A i \in top .. ob - 1 : Get(Active', i) = Get(Active, i)
      BY <2>1
    <3>2. top' = top /\ taken' = taken
      BY <1>2 DEF Push_Put
    <3> QED
      BY <2>2, <3>1, <3>2 DEF OneCopy, Held, Returned
  <2> QED
    BY <2>3, <2>4, <2>5, <2>6
<1>3. CASE Push_Publish
  <2>1. /\ Active' = Active /\ Reserved = ob /\ Reserved' = ob + 1
        /\ Settled = pushed - 1 /\ Settled' = pushed /\ bottom = ob
        /\ ob \in Nat /\ top \in Nat \ {0} /\ top <= ob /\ pushed \in 1 .. MaxPush
        /\ Get(Active, ob) = pushed
    BY <1>0, <1>3 DEF Push_Publish, Active, Reserved, Settled, Typed, OwnerKnows
  <2>2. Typed'
    BY <1>3 DEF Push_Publish, Typed
  <2>3. OwnerKnows'
    BY <1>0, <1>3, <2>1 DEF Push_Publish, OwnerKnows
  <2>4. ThiefKnows'
    BY <1>3, <2>1 DEF Push_Publish, ThiefKnows
  <2>5. OneCopy'
    <3>1. Held' = Held \cup {pushed} /\ Returned' = Returned
      BY <1>3, <2>1 DEF Push_Publish, Held, Returned
    <3>2. pushed \notin Held \cup Returned
      BY <2>1 DEF OneCopy
    <3>3. \A i, j \in top .. ob : Get(Active, i) = Get(Active, j) => i = j
      BY <2>1, <3>2 DEF OneCopy, Held
    <3>4. 1 .. Settled' = (1 .. Settled) \cup {pushed}
      BY <2>1
    <3> QED
      BY <1>3, <2>1, <3>1, <3>2, <3>3, <3>4 DEF Push_Publish, OneCopy
  <2> QED
    BY <2>2, <2>3, <2>4, <2>5
<1> QED
  BY <1>1, <1>2, <1>3

(* arts_deque_simple_pop_front *)
LEMMA PopInv ==
  ASSUME SingleSteals, IInv,
         Pop_Check \/ Pop_Lower \/ Pop_Take \/ Pop_Last \/ Pop_Cas \/ Pop_Restore
  PROVE  IInv'
<1> USE DEF IInv, tvars
<1>0. /\ Active \in Seq(Items \cup {Empty}) /\ Len(Active) \in Nat \ {0}
      /\ top \in Nat \ {0} /\ bottom \in Nat /\ ob \in Nat /\ ot \in Nat
  BY ActiveArray DEF Typed
<1>1. CASE Pop_Check
  <2>1. Active' = Active /\ Reserved' = Reserved /\ Settled' = Settled
    BY <1>1 DEF Pop_Check, Active, Reserved, Settled
  <2>2. Typed' /\ OwnerKnows' /\ ThiefKnows'
    BY <1>1, <2>1 DEF Pop_Check, Typed, OwnerKnows, ThiefKnows
  <2>3. OneCopy'
    BY <1>1, <2>1, NoneMoved DEF Pop_Check
  <2> QED
    BY <2>2, <2>3
<1>2. CASE Pop_Lower
  <2>1. Active' = Active /\ Reserved' = Reserved /\ Settled' = Settled /\ bottom >= top
    BY <1>0, <1>2 DEF Pop_Lower, Active, Reserved, Settled, OwnerKnows
  <2>2. Typed'
    BY <1>0, <1>2, <2>1 DEF Pop_Lower, Typed
  <2>3. OwnerKnows' /\ ThiefKnows'
    BY <1>0, <1>2, <2>1 DEF Pop_Lower, OwnerKnows, ThiefKnows
  <2>4. OneCopy'
    BY <1>2, <2>1, NoneMoved DEF Pop_Lower
  <2> QED
    BY <2>2, <2>3, <2>4
<1>3. CASE Pop_Take
  <2>1. /\ Active' = Active /\ Settled' = Settled /\ top < ob /\ bottom = ob
        /\ Reserved = ob + 1 /\ Reserved' = ob
    BY <1>3 DEF Pop_Take, Active, Reserved, Settled, OwnerKnows
  <2> DEFINE x == Get(Active, ob)
  <2>2. x \in Held /\ Held' = Held \ {x}
    BY <1>0, <1>3, <2>1 DEF Pop_Take, Held, OneCopy
  <2>3. /\ taken' \in Seq(Items)
        /\ \A k, l \in 1 .. Len(taken') : taken'[k] = taken'[l] => k = l
        /\ Held' \cap Returned' = {} /\ Held' \cup Returned' = 1 .. Settled'
    BY <1>3, <2>1, <2>2, Took DEF Pop_Take
  <2>4. Typed'
    BY <1>3, <2>3 DEF Pop_Take, Typed
  <2>5. OwnerKnows' /\ ThiefKnows'
    BY <1>0, <1>3, <2>1 DEF Pop_Take, OwnerKnows, ThiefKnows
  <2>6. \A i, j \in top .. ob - 1 : Get(Active, i) = Get(Active, j) => i = j
    BY <1>0, <2>1 DEF OneCopy
  <2>7. OneCopy'
    BY <1>3, <2>1, <2>3, <2>6 DEF Pop_Take, OneCopy
  <2> QED
    BY <2>4, <2>5, <2>7
<1>4. CASE Pop_Last
  <2>1. /\ Active' = Active /\ Settled' = Settled /\ bottom = ob
        /\ top = ob \/ top = ob + 1
        /\ Reserved = ob + 1 /\ Reserved' = IF top = ob THEN ob + 1 ELSE ob
    BY <1>0, <1>4 DEF Pop_Last, Active, Reserved, Settled, OwnerKnows
  <2>2. Typed'
    BY <1>4 DEF Pop_Last, Typed
  <2>3. OwnerKnows' /\ ThiefKnows'
    BY <1>0, <1>4, <2>1 DEF Pop_Last, OwnerKnows, ThiefKnows
  <2>4. OneCopy'
    <3>1. Held' = Held
      BY <1>0, <1>4, <2>1 DEF Pop_Last, Held
    <3> QED
      BY <1>0, <1>4, <2>1, <3>1 DEF Pop_Last, OneCopy, Returned
  <2> QED
    BY <2>2, <2>3, <2>4
<1>5. CASE Pop_Cas
  <2>1. /\ Active' = Active /\ Settled' = Settled /\ bottom = ob /\ ot = ob
        /\ top = ob \/ top = ob + 1
        /\ Reserved = ob + 1 /\ Reserved' = ob /\ top' = ob + 1
    BY <1>0, <1>5 DEF Pop_Cas, Active, Reserved, Settled, OwnerKnows
  <2>2. CASE top = ob
    <3> DEFINE x == Get(Active, ob)
    <3>1. Held = {x} /\ Held' = {}
      BY <1>0, <2>1, <2>2 DEF Held
    <3>2. /\ taken' \in Seq(Items)
          /\ \A k, l \in 1 .. Len(taken') : taken'[k] = taken'[l] => k = l
          /\ Held' \cap Returned' = {} /\ Held' \cup Returned' = 1 .. Settled'
      BY <1>5, <2>1, <2>2, <3>1, Took DEF Pop_Cas
    <3>3. Typed'
      BY <1>0, <1>5, <2>1, <3>2 DEF Pop_Cas, Typed
    <3>4. OwnerKnows' /\ ThiefKnows'
      BY <1>0, <1>5, <2>1, <2>2 DEF Pop_Cas, OwnerKnows, ThiefKnows, Typed
    <3>5. OneCopy'
      BY <1>0, <2>1, <3>2 DEF OneCopy
    <3> QED
      BY <3>3, <3>4, <3>5
  <2>3. CASE top = ob + 1
    <3>1. Held = {} /\ Held' = {}
      BY <1>0, <2>1, <2>3 DEF Held
    <3>2. Typed'
      BY <1>0, <1>5, <2>1, <2>3 DEF Pop_Cas, Typed
    <3>3. OwnerKnows' /\ ThiefKnows'
      BY <1>0, <1>5, <2>1, <2>3 DEF Pop_Cas, OwnerKnows, ThiefKnows
    <3>4. OneCopy'
      BY <1>0, <1>5, <2>1, <2>3, <3>1 DEF Pop_Cas, OneCopy, Returned
    <3> QED
      BY <3>2, <3>3, <3>4
  <2> QED
    BY <2>1, <2>2, <2>3
<1>6. CASE Pop_Restore
  <2>1. /\ Active' = Active /\ Settled' = Settled /\ bottom = ob /\ top = ob + 1
        /\ Reserved = ob /\ Reserved' = ob + 1 /\ ot = ob + 1
    BY <1>0, <1>6 DEF Pop_Restore, Active, Reserved, Settled, OwnerKnows
  <2>2. Typed'
    BY <1>6 DEF Pop_Restore, Typed
  <2>3. OwnerKnows' /\ ThiefKnows'
    BY <1>0, <1>6, <2>1 DEF Pop_Restore, OwnerKnows, ThiefKnows
  <2>4. OneCopy'
    <3>1. Held = {} /\ Held' = {}
      BY <1>0, <1>6, <2>1 DEF Pop_Restore, Held
    <3> QED
      BY <1>0, <1>6, <2>1, <3>1 DEF Pop_Restore, OneCopy, Returned
  <2> QED
    BY <2>2, <2>3, <2>4
<1> QED
  BY <1>1, <1>2, <1>3, <1>4, <1>5, <1>6

(* arts_deque_simple_pop_back *)
LEMMA StealInv ==
  ASSUME SingleSteals, IInv, NEW p \in Thieves, Thief(p)
  PROVE  IInv'
<1> USE DEF IInv, ovars, Goto
<1>0. /\ Active \in Seq(Items \cup {Empty}) /\ Len(Active) \in Nat \ {0}
      /\ top \in Nat \ {0} /\ bottom \in Nat /\ ob \in Nat /\ ot \in Nat
      /\ Len(arrays) \in Nat \ {0} /\ arrays \in Seq(Seq(Items \cup {Empty}))
      /\ tt[p] \in Nat /\ ~Half
  BY ActiveArray DEF Typed, Half
<1>1. CASE Steal_Top(p)
  <2>1. Active' = Active /\ Reserved' = Reserved /\ Settled' = Settled
    BY <1>1 DEF Steal_Top, Active, Reserved, Settled
  <2>2. Typed' /\ OwnerKnows'
    BY <1>1, <2>1 DEF Steal_Top, Typed, OwnerKnows
  <2>3. ThiefKnows'
    BY <1>0, <1>1, <2>1 DEF Steal_Top, Typed, ThiefKnows
  <2>4. OneCopy'
    BY <1>1, <2>1, NoneMoved DEF Steal_Top
  <2> QED
    BY <2>2, <2>3, <2>4
<1>2. CASE Steal_Bottom(p)
  <2>1. Active' = Active /\ Reserved' = Reserved /\ Settled' = Settled /\ bottom <= Reserved
    BY <1>0, <1>2 DEF Steal_Bottom, Active, Reserved, Settled, OwnerKnows
  <2>2. Typed' /\ OwnerKnows'
    BY <1>2, <2>1 DEF Steal_Bottom, Typed, OwnerKnows
  <2>3. ThiefKnows'
    BY <1>0, <1>2, <2>1 DEF Steal_Bottom, Typed, ThiefKnows, Reserved
  <2>4. OneCopy'
    BY <1>2, <2>1, NoneMoved DEF Steal_Bottom
  <2> QED
    BY <2>2, <2>3, <2>4
<1>3. CASE Steal_Array(p)
  <2>1. Active' = Active /\ Reserved' = Reserved /\ Settled' = Settled
    BY <1>3 DEF Steal_Array, Active, Reserved, Settled
  <2>2. Typed' /\ OwnerKnows'
    BY <1>0, <1>3, <2>1 DEF Steal_Array, Typed, OwnerKnows
  <2>3. ThiefKnows'
    BY <1>0, <1>3, <2>1 DEF Steal_Array, Typed, ThiefKnows, Active
  <2>4. OneCopy'
    BY <1>3, <2>1, NoneMoved DEF Steal_Array
  <2> QED
    BY <2>2, <2>3, <2>4
<1>4. CASE Steal_Read(p)
  <2>1. Active' = Active /\ Reserved' = Reserved /\ Settled' = Settled
    BY <1>4 DEF Steal_Read, Active, Reserved, Settled
  <2>2. Get(arrays[ta[p]], tt[p]) \in Nat
    <3>1. ta[p] \in 1 .. Len(arrays)
      BY <1>4 DEF Steal_Read, ThiefKnows
    <3>2. arrays[ta[p]] \in Seq(Items \cup {Empty}) /\ Len(arrays[ta[p]]) > 0
      BY <1>0, <3>1 DEF Typed
    <3>3. Get(arrays[ta[p]], tt[p]) \in Items \cup {Empty}
      BY <1>0, <3>2, CellRange
    <3> QED
      BY <3>3 DEF Items, Empty
  <2>3. Typed' /\ OwnerKnows'
    BY <1>4, <2>1, <2>2 DEF Steal_Read, Typed, OwnerKnows
  <2>4. ThiefKnows'
    BY <1>0, <1>4, <2>1 DEF Steal_Read, Typed, ThiefKnows
  <2>5. OneCopy'
    BY <1>4, <2>1, NoneMoved, Zenon DEF Steal_Read
  <2> QED
    BY <2>3, <2>4, <2>5
<1>5. CASE Steal_Cas(p)
  <2>1. Active' = Active /\ Reserved' = Reserved /\ Settled' = Settled /\ Reserved \in Int
    BY <1>0, <1>5 DEF Steal_Cas, Active, Reserved, Settled
  <2>2. CASE top # tt[p]
    <3>1. Typed' /\ OwnerKnows'
      BY <1>5, <2>1, <2>2 DEF Steal_Cas, Typed, OwnerKnows
    <3>2. ThiefKnows'
      BY <1>5, <2>1, <2>2 DEF Steal_Cas, Typed, ThiefKnows
    <3>3. OneCopy'
      BY <1>5, <2>1, <2>2, NoneMoved DEF Steal_Cas
    <3> QED
      BY <3>1, <3>2, <3>3
  <2>3. CASE top = tt[p]
    <3> DEFINE x == Get(Active, top)
    <3>1. top < Reserved /\ claimed[p] = x /\ top' = top + 1 /\ taken' = Append(taken, x)
      BY <1>5, <2>3 DEF Steal_Cas, ThiefKnows
    <3>2. x \in Held /\ Held' = Held \ {x}
      <4>1. /\ Held = {Get(Active, i) : i \in top .. Reserved - 1}
            /\ Held' = {Get(Active, i) : i \in top + 1 .. Reserved - 1}
        BY <2>1, <3>1 DEF Held
      <4>2. \A i \in top .. Reserved - 1 : i # top => Get(Active, i) # x
        BY <1>0, <2>1, <3>1 DEF OneCopy
      <4>3. top \in top .. Reserved - 1 /\ (top + 1 .. Reserved - 1) = (top .. Reserved - 1) \ {top}
        BY <1>0, <2>1, <3>1
      <4> QED
        BY <4>1, <4>2, <4>3
    <3>3. /\ taken' \in Seq(Items)
          /\ \A k, l \in 1 .. Len(taken') : taken'[k] = taken'[l] => k = l
          /\ Held' \cap Returned' = {} /\ Held' \cup Returned' = 1 .. Settled'
      BY <1>5, <2>1, <3>1, <3>2, Took DEF Steal_Cas
    <3>4. Typed'
      BY <1>0, <1>5, <3>1, <3>3 DEF Steal_Cas, Typed
    <3>5. OwnerKnows'
      <4>1. UNCHANGED <<bottom, pushed, opc, ob, ot>>
        BY <1>5 DEF Steal_Cas
      <4>2. /\ opc \in {"idle", "put", "publish", "lower"} => bottom >= top + 1
            /\ opc \in {"top", "cas", "restore"} => top + 1 <= ob + 1
            /\ opc # "restore"
        <5>1. CASE opc \in {"top", "cas"}
          BY <1>0, <3>1, <5>1 DEF Reserved
        <5>2. CASE opc \notin {"top", "cas"}
          BY <1>0, <3>1, <5>2 DEF OwnerKnows, Reserved
        <5> QED
          BY <5>1, <5>2
      <4> QED
        BY <1>0, <2>1, <3>1, <4>1, <4>2 DEF OwnerKnows
    <3>6. ThiefKnows'
      BY <1>0, <1>5, <2>1, <3>1 DEF Steal_Cas, Typed, ThiefKnows
    <3>7. \A i, j \in top + 1 .. Reserved - 1 : Get(Active, i) = Get(Active, j) => i = j
      BY <1>0, <2>1 DEF OneCopy
    <3>8. OneCopy'
      BY <2>1, <3>1, <3>3, <3>7 DEF OneCopy
    <3> QED
      BY <3>4, <3>5, <3>6, <3>8
  <2> QED
    BY <2>2, <2>3
<1>6. ~Half_Claim(p) /\ ~Half_Copy(p)
  BY Zenon DEF Half_Claim, Half_Copy, Typed
<1> QED
  BY <1>1, <1>2, <1>3, <1>4, <1>5, <1>6 DEF Thief

(* The deque starts empty, with one array. *)
LEMMA InitInv == SingleSteals /\ Init => IInv
<1> SUFFICES ASSUME SingleSteals, Init PROVE IInv
  OBVIOUS
<1> DEFINE a == New(FirstSize[use])
<1>1. use = "single" /\ FirstSize[use] \in Nat \ {0} /\ MaxPush \in Nat
  BY DEF Init, SingleSteals, DequeAssumption
<1>2. a \in Seq(Items \cup {Empty}) /\ Len(a) = FirstSize[use]
  <2>1. a \in [1 .. FirstSize[use] -> Items \cup {Empty}]
    BY DEF New
  <2> HIDE DEF a
  <2> QED
    BY <1>1, <2>1, FunctionIsSeq
<1>3. arrays = <<a>> /\ Active = a /\ Len(arrays) = 1
  BY DEF Init, Active
<1> HIDE DEF a
<1>4. Typed
  BY <1>1, <1>2, <1>3 DEF Init, Typed
<1>5. OwnerKnows /\ ThiefKnows
  BY <1>1, <1>2, <1>3 DEF Init, OwnerKnows, ThiefKnows, Reserved
<1>6. OneCopy
  BY DEF Init, OneCopy, Held, Returned, Settled, Reserved
<1> QED
  BY <1>4, <1>5, <1>6 DEF IInv

(* Every step preserves the inductive invariant. *)
LEMMA StepInv ==
  ASSUME SingleSteals, IInv, [Next]_vars
  PROVE  IInv'
<1>1. ASSUME UNCHANGED vars PROVE IInv'
  <2>1. /\ UNCHANGED <<use, top, bottom, arrays, pushed, taken, opc, ob, ot>>
        /\ UNCHANGED <<tpc, tt, tb, ta, claimed>>
    BY <1>1 DEF vars, ovars, tvars
  <2>2. Active' = Active /\ Reserved' = Reserved /\ Settled' = Settled
    BY <2>1 DEF Active, Reserved, Settled
  <2>3. Held' = Held /\ Returned' = Returned
    BY <2>1, <2>2 DEF Held, Returned
  <2>4. Typed' = Typed
    BY <2>1 DEF Typed
  <2>5. OwnerKnows' = OwnerKnows
    BY <2>1, <2>2 DEF OwnerKnows
  <2>6. ThiefKnows' = ThiefKnows
    BY <2>1, <2>2 DEF ThiefKnows
  <2>7. OneCopy' = OneCopy
    BY <2>1, <2>2, <2>3 DEF OneCopy
  <2> QED
    BY <2>4, <2>5, <2>6, <2>7 DEF IInv
<1> QED
  BY <1>1, PushInv, PopInv, StealInv DEF Next, Owner

(* The inductive invariant holds in every state of every behaviour. *)
LEMMA Invariance == SingleSteals => (Spec => []IInv)
<1> SUFFICES ASSUME SingleSteals PROVE Spec => []IInv
  OBVIOUS
<1>1. Init => IInv
  BY InitInv
<1>2. IInv /\ [Next]_vars => IInv'
  BY StepInv
<1> QED
  BY <1>1, <1>2, PTL DEF Spec

----------------------------------------------------------------------------
(* What the deque holds, as the queue it implements sees it *)

(* One item more at the end of a sequence, ... *)
LEMMA AppendIs ==
  ASSUME NEW X, NEW s \in Seq(X), NEW x \in X, NEW n \in Nat, Len(s) = n
  PROVE  [k \in 1 .. n + 1 |-> IF k = n + 1 THEN x ELSE s[k]] = Append(s, x)
<1> DEFINE f == [k \in 1 .. n + 1 |-> IF k = n + 1 THEN x ELSE s[k]]
           g == Append(s, x)
<1>1. f \in [1 .. n + 1 -> X]
  OBVIOUS
<1>2. g \in Seq(X) /\ Len(g) = n + 1
  OBVIOUS
<1>3. \A k \in 1 .. n + 1 : f[k] = g[k]
  OBVIOUS
<1> HIDE DEF f, g
<1>4. f \in Seq(X) /\ Len(f) = n + 1
  BY <1>1, FunctionIsSeq
<1>5. f = g
  BY <1>2, <1>3, <1>4
<1> QED
  BY <1>5 DEF f, g

(* ... and one less at its head. *)
LEMMA TailIs ==
  ASSUME NEW X, NEW s \in Seq(X), NEW n \in Nat, Len(s) = n + 1
  PROVE  [k \in 1 .. n |-> s[k + 1]] = Tail(s)
<1> DEFINE f == [k \in 1 .. n |-> s[k + 1]]
           g == Tail(s)
<1>1. f \in [1 .. n -> X]
  OBVIOUS
<1>2. s # <<>> /\ Len(s) - 1 = n
  OBVIOUS
<1>3. g \in Seq(X) /\ Len(g) = n /\ \A k \in 1 .. n : g[k] = s[k + 1]
  BY <1>2
<1>4. \A k \in 1 .. n : f[k] = g[k]
  BY <1>3
<1> HIDE DEF f, g
<1>5. f \in Seq(X) /\ Len(f) = n
  BY <1>1, FunctionIsSeq
<1>6. f = g
  BY <1>3, <1>4, <1>5
<1> QED
  BY <1>6 DEF f, g

(* The contents are a sequence, oldest item first. *)
LEMMA ContentsSeq ==
  ASSUME SingleSteals, IInv, Reserved >= top
  PROVE  /\ Contents \in Seq(Items \cup {Empty}) /\ Len(Contents) = Reserved - top
         /\ \A k \in 1 .. Reserved - top : Contents[k] = Get(Active, top + k - 1)
<1> USE DEF IInv
<1>1. /\ Active \in Seq(Items \cup {Empty}) /\ Len(Active) > 0
      /\ top \in Nat /\ Reserved \in Nat
  BY ActiveArray DEF Typed, Reserved
<1>2. \A k \in 1 .. Reserved - top : Get(Active, top + k - 1) \in Items \cup {Empty}
  BY <1>1, CellRange
<1>3. Contents \in [1 .. Reserved - top -> Items \cup {Empty}]
  BY <1>2 DEF Contents
<1>4. Reserved - top \in Nat
  BY <1>1
<1>5. \A k \in 1 .. Reserved - top : Contents[k] = Get(Active, top + k - 1)
  BY DEF Contents
<1> HIDE DEF Contents
<1> QED
  BY <1>3, <1>4, <1>5, FunctionIsSeq

(* A step that moves neither end and keeps the items changes nothing. *)
LEMMA SameContents ==
  ASSUME SingleSteals, IInv, top' = top, Reserved' = Reserved,
         \A i \in top .. Reserved - 1 : Get(Active', i) = Get(Active, i)
  PROVE  Contents' = Contents
<1>1. top \in Nat /\ Reserved \in Int
  BY DEF IInv, Typed, Reserved
<1>2. \A k \in 1 .. Reserved - top : Get(Active', top + k - 1) = Get(Active, top + k - 1)
  BY <1>1
<1> QED
  BY <1>2 DEF Contents

(* Each step of the owner or a thief is a step of the queue, or none. *)
LEMMA StepRefines ==
  ASSUME SingleSteals, IInv, [Next]_vars
  PROVE  [Queue!Next]_<<Contents, taken>>
<1> SUFFICES \/ \E x \in Items : Queue!Push(x)
             \/ Queue!PopFront
             \/ Queue!PopBack
             \/ UNCHANGED <<Contents, taken>>
  BY DEF Queue!Next
<1>0. /\ IInv' /\ top \in Nat \ {0} /\ bottom \in Nat /\ ob \in Nat /\ ot \in Nat
      /\ Active \in Seq(Items \cup {Empty})
  BY StepInv, ActiveArray DEF IInv, Typed
<1>1. CASE Push_Read \/ Pop_Check \/ Pop_Lower
  <2>1. /\ UNCHANGED <<top, taken>> /\ Active' = Active /\ Reserved' = Reserved
    BY <1>0, <1>1 DEF Push_Read, Pop_Check, Pop_Lower, Active, Reserved
  <2> QED
    BY <2>1, SameContents
<1>2. CASE Push_Put
  <2>1. \A i \in top .. ob - 1 : Get(Active', i) = Get(Active, i)
    BY <1>2, PutKeeps DEF IInv
  <2>2. UNCHANGED <<top, taken>> /\ Reserved = ob /\ Reserved' = ob
    BY <1>2 DEF Push_Put, Reserved, IInv, OwnerKnows
  <2> QED
    BY <2>1, <2>2, SameContents
<1>3. CASE Push_Publish
  <2>1. /\ top' = top /\ taken' = taken /\ Active' = Active /\ pushed \in Items
        /\ Reserved = ob /\ Reserved' = ob + 1 /\ top <= ob /\ Get(Active, ob) = pushed
    BY <1>0, <1>3 DEF Push_Publish, Active, Reserved, IInv, Typed, OwnerKnows, Items
  <2>2. /\ Contents \in Seq(Items \cup {Empty}) /\ Len(Contents) = ob - top
        /\ \A k \in 1 .. ob - top : Contents[k] = Get(Active, top + k - 1)
    BY <1>0, <2>1, ContentsSeq
  <2>3. Contents' = [k \in 1 .. ob + 1 - top |-> Get(Active, top + k - 1)]
    <3>1. Reserved' - top' = ob + 1 - top
      <4>1. Reserved' = ob + 1 /\ top' = top
        BY <2>1
      <4> QED
        BY <1>0, <4>1
    <3> QED
      BY <2>1, <3>1 DEF Contents
  <2>4. Contents' = Append(Contents, pushed)
    <3> DEFINE n == ob - top
    <3>1. n \in Nat /\ ob + 1 - top = n + 1 /\ top + (n + 1) - 1 = ob
      BY <1>0, <2>1
    <3>2. Get(Active, top + (n + 1) - 1) = pushed
      BY <2>1, <3>1
    <3>3. Contents' = [k \in 1 .. n + 1 |-> Get(Active, top + k - 1)]
      BY <2>3, <3>1
    <3> HIDE DEF n
    <3>4. Contents' = [k \in 1 .. n + 1 |-> IF k = n + 1 THEN pushed ELSE Contents[k]]
      <4>1. \A k \in 1 .. n + 1 : k # n + 1 => k \in 1 .. n
        BY <3>1
      <4> QED
        BY <2>2, <3>2, <3>3, <4>1 DEF n
    <3>5. Len(Contents) = n /\ pushed \in Items \cup {Empty}
      BY <2>1, <2>2 DEF n
    <3> QED
      BY <2>2, <3>1, <3>4, <3>5, AppendIs
  <2> QED
    BY <2>1, <2>4 DEF Queue!Push
<1>4. CASE Pop_Take
  <2>1. /\ UNCHANGED top /\ Active' = Active /\ top < ob
        /\ Reserved = ob + 1 /\ Reserved' = ob /\ taken' = Append(taken, Get(Active, ob))
    BY <1>0, <1>4 DEF Pop_Take, Active, Reserved, IInv, OwnerKnows
  <2>2. /\ Contents \in Seq(Items \cup {Empty}) /\ Len(Contents) = ob + 1 - top
        /\ \A k \in 1 .. ob + 1 - top : Contents[k] = Get(Active, top + k - 1)
    BY <1>0, <2>1, ContentsSeq
  <2>3. Contents' = [k \in 1 .. ob - top |-> Get(Active, top + k - 1)]
    BY <2>1 DEF Contents
  <2>4. Contents' = SubSeq(Contents, 1, Len(Contents) - 1)
    BY <1>0, <2>1, <2>2, <2>3
  <2>5. Contents # <<>> /\ Contents[Len(Contents)] = Get(Active, ob)
    <3>1. ob + 1 - top \in 1 .. ob + 1 - top /\ top + (ob + 1 - top) - 1 = ob
      BY <1>0, <2>1
    <3> QED
      BY <2>2, <3>1
  <2> QED
    BY <2>1, <2>4, <2>5 DEF Queue!PopFront
<1>5. CASE Pop_Last
  <2>1. UNCHANGED <<top, taken>> /\ Active' = Active /\ Reserved = ob + 1
    BY <1>5 DEF Pop_Last, Active, Reserved
  <2>2. CASE top = ob
    <3>1. Reserved' = Reserved
      BY <1>0, <1>5, <2>1, <2>2 DEF Pop_Last, Reserved
    <3> QED
      BY <2>1, <3>1, SameContents
  <2>3. CASE top = ob + 1
    <3>1. Reserved' = ob
      BY <1>0, <1>5, <2>3 DEF Pop_Last, Reserved, IInv, OwnerKnows
    <3>2. 1 .. Reserved - top = {} /\ 1 .. Reserved' - top' = {}
      BY <1>0, <2>1, <2>3, <3>1
    <3>3. Contents' = Contents
      BY <3>2 DEF Contents
    <3> QED
      BY <2>1, <3>3
  <2> QED
    BY <1>0, <1>5, <2>2, <2>3 DEF Pop_Last, IInv, OwnerKnows
<1>6. CASE Pop_Cas
  <2>1. /\ Active' = Active /\ Reserved = ob + 1 /\ Reserved' = ob
        /\ ot = ob /\ top' = ob + 1
        /\ top = ob \/ top = ob + 1
    BY <1>0, <1>6 DEF Pop_Cas, Active, Reserved, IInv, OwnerKnows
  <2>2. 1 .. Reserved' - top' = {}
    <3>1. Reserved' - top' = ob - (ob + 1)
      BY <2>1
    <3> QED
      BY <1>0, <3>1
  <2>3. CASE top = ob
    <3>1. /\ Contents \in Seq(Items \cup {Empty}) /\ Len(Contents) = 1
          /\ Contents[1] = Get(Active, ob)
      BY <1>0, <2>1, <2>3, ContentsSeq
    <3>2. Contents' = <<>>
      BY <2>2 DEF Contents
    <3>3. taken' = Append(taken, Get(Active, ob))
      BY <1>6, <2>1, <2>3 DEF Pop_Cas
    <3>4. Contents # <<>> /\ SubSeq(Contents, 1, Len(Contents) - 1) = <<>>
      BY <3>1
    <3> QED
      BY <3>1, <3>2, <3>3, <3>4 DEF Queue!PopFront
  <2>4. CASE top = ob + 1
    <3>1. 1 .. Reserved - top = {}
      BY <1>0, <2>1, <2>4
    <3>2. Contents' = Contents
      BY <2>2, <3>1, Zenon DEF Contents
    <3>3. taken' = taken
      <4>1. top # ot
        BY <1>0, <2>1, <2>4
      <4> QED
        BY <1>6, <4>1 DEF Pop_Cas
    <3> QED
      BY <3>2, <3>3
  <2> QED
    BY <2>1, <2>3, <2>4
<1>7. CASE Pop_Restore
  <2>1. /\ UNCHANGED taken /\ Reserved = ob /\ Reserved' = ob + 1
        /\ top = ob + 1 /\ top' = ob + 1
    BY <1>7 DEF Pop_Restore, Reserved, IInv, OwnerKnows
  <2>2. 1 .. Reserved - top = {} /\ 1 .. Reserved' - top' = {}
    BY <1>0, <2>1
  <2>3. Contents' = Contents
    BY <2>2, Zenon DEF Contents
  <2> QED
    BY <2>1, <2>3
<1>8. ASSUME NEW p \in Thieves, Thief(p)
      PROVE  Queue!PopBack \/ UNCHANGED <<Contents, taken>>
  <2>1. Active' = Active /\ Reserved' = Reserved /\ Reserved \in Nat
    BY <1>0, <1>8 DEF Thief, Steal_Top, Steal_Bottom, Steal_Array, Steal_Read, Steal_Cas,
                      Half_Claim, Half_Copy, ovars, Active, Reserved
  <2>2. CASE UNCHANGED <<top, taken>>
    BY <2>1, <2>2, SameContents
  <2>3. CASE Steal_Cas(p) /\ top = tt[p]
    <3>1. /\ top < Reserved /\ top' = top + 1
          /\ taken' = Append(taken, Get(Active, top))
      BY <2>3 DEF Steal_Cas, IInv, ThiefKnows
    <3>2. /\ Contents \in Seq(Items \cup {Empty}) /\ Len(Contents) = Reserved - top
          /\ \A k \in 1 .. Reserved - top : Contents[k] = Get(Active, top + k - 1)
      BY <1>0, <2>1, <3>1, ContentsSeq
    <3>3. Contents' = [k \in 1 .. Reserved - (top + 1) |-> Get(Active, top + 1 + k - 1)]
      BY <2>1, <3>1 DEF Contents
    <3>4. Contents' = Tail(Contents)
      <4> DEFINE n == Reserved - top
      <4>1. n \in Nat \ {0} /\ Reserved - (top + 1) = n - 1
        BY <1>0, <2>1, <3>1
      <4>2. \A k \in 1 .. n - 1 : k + 1 \in 1 .. n /\ top + 1 + k - 1 = top + (k + 1) - 1
        BY <1>0, <4>1
      <4>3. Contents' = [k \in 1 .. n - 1 |-> Contents[k + 1]]
        BY <3>2, <3>3, <4>1, <4>2
      <4>4. n - 1 \in Nat /\ Len(Contents) = (n - 1) + 1
        BY <3>2, <4>1
      <4> HIDE DEF n
      <4> QED
        BY <3>2, <4>3, <4>4, TailIs
    <3>5. Contents # <<>> /\ Head(Contents) = Get(Active, top)
      BY <1>0, <2>1, <3>1, <3>2
    <3> QED
      BY <3>1, <3>4, <3>5 DEF Queue!PopBack
  <2>4. ~Half_Claim(p) /\ ~Half_Copy(p)
    BY Zenon DEF Half_Claim, Half_Copy, IInv, Typed
  <2> QED
    BY <1>8, <2>2, <2>3, <2>4
       DEF Thief, Steal_Top, Steal_Bottom, Steal_Array, Steal_Read, Steal_Cas
<1>9. ASSUME UNCHANGED vars PROVE UNCHANGED <<Contents, taken>>
  <2>1. UNCHANGED <<top, taken>> /\ Active' = Active /\ Reserved' = Reserved
    BY <1>9 DEF vars, ovars, Active, Reserved
  <2> QED
    BY <2>1, SameContents
<1> QED
  BY <1>1, <1>2, <1>3, <1>4, <1>5, <1>6, <1>7, <1>8, <1>9 DEF Next, Owner

(* With single steals the deque implements WorkQueue: every push, pop and   *)
(* steal takes effect in one step, at the publication of bottom, at the     *)
(* read of top that leaves more than one item, or at the CAS.               *)
THEOREM DequeIsQueue == SingleSteals => (Spec => IsQueue)
<1> SUFFICES ASSUME SingleSteals PROVE Spec => IsQueue
  OBVIOUS
<1>1. Init => Queue!Init
  BY DEF Init, Queue!Init, Contents, Reserved
<1>2. IInv /\ [Next]_vars => [Half \/ Queue!Next]_<<Contents, taken>>
  BY StepRefines
<1> QED
  BY <1>1, <1>2, Invariance, PTL DEF Spec, IsQueue

----------------------------------------------------------------------------
INSTANCE FiniteSetTheorems

(* With single steals no item is returned twice and none is lost, for every *)
(* number of thieves and however often the array has grown.                 *)
THEOREM EachItemOnce == SingleSteals => (Spec => []EachOnce)
<1> SUFFICES ASSUME SingleSteals PROVE Spec => []EachOnce
  OBVIOUS
<1>1. IInv => EachOnce
  <2> SUFFICES ASSUME IInv PROVE EachOnce
    OBVIOUS
  <2> USE DEF IInv
  <2>1. Cardinality(Returned) = Len(taken)
    <3> DEFINE D == 1 .. Len(taken)
    <3>1. Len(taken) \in Nat /\ taken \in [D -> Returned]
      BY DEF Typed, Returned
    <3>2. taken \in Bijection(D, Returned)
      BY <3>1 DEF OneCopy, Bijection, Injection, IsInjective, Surjection, Returned
    <3>3. IsFiniteSet(D) /\ Cardinality(D) = Len(taken)
      BY <3>1, FS_Interval
    <3> QED
      BY <3>2, <3>3, FS_Bijection DEF ExistsBijection
  <2>2. ASSUME Resting PROVE Inside = Held /\ Settled = pushed
    BY <2>2 DEF Resting, Inside, Held, Settled, Reserved
  <2> QED
    BY <2>1, <2>2 DEF EachOnce, OneCopy
<1> QED
  BY <1>1, Invariance, PTL
=============================================================================
