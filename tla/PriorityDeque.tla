--------------------------- MODULE PriorityDeque ---------------------------
(***************************************************************************)
(* The priority deque (deque_priority.c): a binary search tree of          *)
(* work-stealing deques, one for each priority.  The owner pushes, making  *)
(* the node of a priority when it is first used, and pops at the bottom of *)
(* the first deque, left to right, that gives it an item; thieves go the   *)
(* same way and take at the top.  A walk is the stack of the calls, each   *)
(* with the node it is at and what it has still to do there.               *)
(***************************************************************************)
EXTENDS Integers, Sequences, FiniteSets, SequencesExt

CONSTANTS
  Thieves,
  Priorities,   \* 0, the priority of the root, among them
  MaxPush,      \* bound on the pushes explored; the items are 1 .. MaxPush
  RootSize,     \* cells of the first array of the root
  NodeSize      \* and of the other nodes

VARIABLE y

Owner == 0
Procs == {Owner} \cup Thieves
None == -1
Empty == 0

(* arts_deque_priority_new_init; a node is named by its priority *)
NewDeque(size) ==
  [top |-> 1, bottom |-> 1, array |-> [i \in 1 .. size |-> Empty],
   left |-> None, right |-> None]

Cell(array, i) == (i % Len(array)) + 1
Get(array, i) == array[Cell(array, i)]

(* grow_circular_array *)
Grow(array, b, t) ==
  LET size == 2 * Len(array)
  IN  [c \in 1 .. size |->
         IF \E i \in t .. b - 1 : i % size = c - 1
         THEN Get(array, CHOOSE i \in t .. b - 1 : i % size = c - 1)
         ELSE Empty]

Idle == [stack |-> <<>>, t |-> 0, b |-> 0, item |-> Empty]

Init ==
  y = [node  |-> [q \in {0} |-> NewDeque(RootSize)],
       prio  |-> <<>>,
       push  |-> [pc |-> "idle", at |-> 0, b |-> 0, t |-> 0],
       walk  |-> [p \in Procs |-> Idle],
       taken |-> <<>>]

----------------------------------------------------------------------------
(* arts_deque_priority_push_front *)

Push(prio) ==
  /\ y.push.pc = "idle" /\ y.walk[Owner].stack = <<>>
  /\ Len(y.prio) < MaxPush
  /\ y' = [y EXCEPT !.prio = Append(@, prio), !.push.pc = "find", !.push.at = 0]

(* One turn of find_the_deque.  The lock of a side is taken by the one     *)
(* that makes the node there.                                              *)
FindTheDeque ==
  /\ y.push.pc = "find"
  /\ LET at == y.push.at
         prio == Last(y.prio)
         side == IF prio < at THEN "left" ELSE "right"
         next == y.node[at][side]
     IN y' = IF at = prio
             THEN [y EXCEPT !.push.pc = "put", !.push.b = y.node[at].bottom,
                            !.push.t = y.node[at].top]
             ELSE IF next # None THEN [y EXCEPT !.push.at = next]
             ELSE [y EXCEPT !.push.at = prio,
                            !.node = [q \in DOMAIN @ \cup {prio} |->
                               CASE q = prio -> NewDeque(NodeSize)
                                 [] q = at   -> [@[q] EXCEPT ![side] = prio]
                                 [] OTHER    -> @[q]]]

PushPut ==
  /\ y.push.pc = "put"
  /\ LET d == y.node[y.push.at]
         array == IF y.push.b >= Len(d.array) - 1 + y.push.t
                  THEN Grow(d.array, y.push.b, y.push.t) ELSE d.array
     IN y' = [y EXCEPT !.push.pc = "publish",
                !.node[y.push.at].array =
                   [array EXCEPT ![Cell(array, y.push.b)] = Len(y.prio)]]

PushPublish ==
  /\ y.push.pc = "publish"
  /\ y' = [y EXCEPT !.push.pc = "idle", !.node[y.push.at].bottom = y.push.b + 1]

----------------------------------------------------------------------------
(* The walk of arts_deque_priority_pop_front and _pop_back *)

Start(p) ==
  /\ y.walk[p].stack = <<>>
  /\ p = Owner => y.push.pc = "idle"
  /\ y' = [y EXCEPT !.walk[p] = [Idle EXCEPT !.stack = <<[at |-> 0, pc |-> "left"]>>]]

Top(p) == Last(y.walk[p].stack)
At(p, pc) == y.walk[p].stack # <<>> /\ Top(p).pc = pc
Goto(x, p, pc) == [x EXCEPT !.walk[p].stack[Len(x.walk[p].stack)].pc = pc]
Enter(x, p, q) == [x EXCEPT !.walk[p].stack = Append(@, [at |-> q, pc |-> "left"])]
Node(p) == y.node[Top(p).at]

(* Mutant: the deque of the node itself comes first. *)
GoLeft_Skip(p) ==
  /\ At(p, "left")
  /\ y' = Goto(y, p, "check")

GoLeft(p) ==
  /\ At(p, "left")
  /\ LET x == Goto(y, p, "check") IN
     y' = IF Node(p).left = None THEN x ELSE Enter(x, p, Node(p).left)

Check(p) ==
  /\ At(p, "check")
  /\ y' = IF Node(p).top >= Node(p).bottom THEN Goto(y, p, "right")
          ELSE Goto(y, p, IF p = Owner THEN "lower" ELSE "top")

(* The last call returns to the one before it, or right is tried in its    *)
(* place: nothing is left to do in the caller after that.                  *)
GoRight(p) ==
  /\ At(p, "right")
  /\ LET x == Goto(y, p, "done") IN
     y' = IF Node(p).right = None THEN x ELSE Enter(x, p, Node(p).right)

Return(p) ==
  /\ At(p, "done")
  /\ y' = [y EXCEPT !.walk[p].stack = Front(@)]

(* An item ends every call of the walk. *)
Took(x, p, item) == [x EXCEPT !.walk[p] = Idle, !.taken = Append(@, item)]

(* The owner *)
Lower ==
  /\ At(Owner, "lower")
  /\ y' = [Goto(y, Owner, "compare") EXCEPT
             !.node[Top(Owner).at].bottom = @ - 1,
             !.walk[Owner].b = Node(Owner).bottom - 1]

Compare ==
  /\ At(Owner, "compare")
  /\ LET b == y.walk[Owner].b
         t == Node(Owner).top
         item == Get(Node(Owner).array, b)
     IN y' = CASE t > b -> [Goto(y, Owner, "restore") EXCEPT !.walk[Owner].t = t]
               [] t = b -> [Goto(y, Owner, "cas") EXCEPT !.walk[Owner].t = t,
                                                         !.walk[Owner].item = item]
               [] t < b -> Took(y, Owner, item)

(* The last item: whoever moves top has it. *)
OwnerCas ==
  /\ At(Owner, "cas")
  /\ LET t == y.walk[Owner].t
         won == Node(Owner).top = t
         x == [y EXCEPT !.walk[Owner].t = t + 1,
                        !.walk[Owner].item = IF won THEN @ ELSE Empty,
                        !.node[Top(Owner).at].top = IF won THEN t + 1 ELSE @]
     IN y' = Goto(x, Owner, "restore")

Restore ==
  /\ At(Owner, "restore")
  /\ LET w == y.walk[Owner]
         x == [y EXCEPT !.node[Top(Owner).at].bottom = w.t]
     IN y' = IF w.item # Empty THEN Took(x, Owner, w.item)
             ELSE Goto(x, Owner, "right")

(* A thief *)
ReadTop(p) ==
  /\ p # Owner /\ At(p, "top")
  /\ y' = [Goto(y, p, "bottom") EXCEPT !.walk[p].t = Node(p).top]

ReadBottom(p) ==
  /\ p # Owner /\ At(p, "bottom")
  /\ y' = Goto(y, p, IF y.walk[p].t < Node(p).bottom THEN "item" ELSE "right")

ReadItem(p) ==
  /\ p # Owner /\ At(p, "item")
  /\ y' = [Goto(y, p, "cas") EXCEPT !.walk[p].item = Get(Node(p).array, y.walk[p].t)]

ThiefCas(p) ==
  /\ p # Owner /\ At(p, "cas")
  /\ y' = IF Node(p).top = y.walk[p].t
          THEN Took([y EXCEPT !.node[Top(p).at].top = @ + 1], p, y.walk[p].item)
          ELSE [Goto(y, p, "right") EXCEPT !.walk[p].item = Empty]

Next ==
  \/ \E prio \in Priorities : Push(prio)
  \/ FindTheDeque \/ PushPut \/ PushPublish
  \/ Lower \/ Compare \/ OwnerCas \/ Restore
  \/ \E p \in Procs : \/ Start(p) \/ GoLeft(p) \/ Check(p) \/ GoRight(p) \/ Return(p)
                      \/ ReadTop(p) \/ ReadBottom(p) \/ ReadItem(p) \/ ThiefCas(p)

----------------------------------------------------------------------------
(* Items between top and bottom of a node *)
Held(q) == {Get(y.node[q].array, i) : i \in y.node[q].top .. y.node[q].bottom - 1}

(* "pop_front/pop_back traverse the BST left-first (lowest priority =      *)
(* highest urgency)": however the thieves interfere, an item that the      *)
(* owner takes has the lowest priority there is, no item is taken twice,   *)
(* and one that nobody has taken is in the deque of its priority.          *)
UrgentFirst ==
  /\ \A q \in 1 .. Len(y.taken), k \in 1 .. Len(y.taken) :
       q # k => y.taken[q] # y.taken[k]
  /\ y.push.pc = "idle" /\ y.walk[Owner].stack = <<>> =>
       \A i \in 1 .. Len(y.prio) :
         i \in ToSet(y.taken) \/ i \in Held(y.prio[i])
  /\ At(Owner, "lower") =>
       \A q \in DOMAIN y.node : q < Top(Owner).at => Held(q) = {}
=============================================================================
