------------------------------ MODULE LcReduce ------------------------------
(***************************************************************************)
(* Synchronising a DB under location consistency: the copies on the        *)
(* devices are reduced on the devices, pair by pair along a tree, and what *)
(* is left is merged into the host's DB.                                   *)
(*                                                                         *)
(* Devices come in NumGroup groups of GroupSize.  One element of the DB    *)
(* stands for all: the functions work element by element.  A value is a    *)
(* number, or for xor a set of bits.                                       *)
(***************************************************************************)
EXTENDS Integers, Sequences, FiniteSets, SequencesExt, FiniteSetsExt

CONSTANTS GroupSize,  \* GPUGROUPSIZE
          NumGroup,   \* GPUNUMGROUP
          Scenes      \* records: op (gpu_lc_sync), mask (devices with a copy),
                      \* vals (device -> value), host (the host's value),
                      \* stamps (device -> timestamp)

VARIABLE l            \* the state of one synchronisation, a record

None == -1
Member(i, j) == i * GroupSize + j

\* find_roots: one root per group, at the same place in every group if the
\* copies allow it, else the first copy of the group.
FindRoots(mask) ==
  LET same == {j \in 0 .. GroupSize - 1 :
                 \A i \in 0 .. NumGroup - 1 : Member(i, j) \in mask}
      first(i) == {j \in 0 .. GroupSize - 1 : Member(i, j) \in mask} IN
  [i \in 0 .. NumGroup - 1 |->
     IF same # {} THEN Member(i, Min(same))
     ELSE IF first(i) # {} THEN Member(i, Min(first(i))) ELSE None]

\* add_to_trav
Pair(root, a, b, level) ==
  IF a = None \/ b = None THEN <<>>
  ELSE <<[root |-> root, a |-> a, b |-> b, level |-> level]>>

(* Mutant: the group's root does not win in its subtree. *)
LocalRoot_First(root, a, b) == IF a # None THEN a ELSE b

LocalRoot(root, a, b) ==
  IF a # None /\ b # None THEN IF root \in {a, b} THEN root ELSE a
  ELSE IF a # None THEN a ELSE b

\* gpu_tree_reduction_rec: the pairs of the devices start .. stop, and the one
\* that ends up with their sum.
RECURSIVE TreeRec(_, _, _, _, _)
TreeRec(root, start, stop, mask, level) ==
  LET middle == (1 + stop - start) \div 2
      leaf == [root |-> None, pairs |-> <<>>]
      left == IF stop - start > 1
              THEN TreeRec(root, start, start + middle - 1, mask, level + 1)
              ELSE [leaf EXCEPT !.root = start]
      right == IF stop - start > 1
               THEN TreeRec(root, start + middle, stop, mask, level + 1)
               ELSE [leaf EXCEPT !.root = stop]
      a == IF left.root \in mask THEN left.root ELSE None
      b == IF right.root \in mask THEN right.root ELSE None
      r == LocalRoot(root, a, b)
  IN [root |-> r, pairs |-> left.pairs \o right.pairs \o Pair(r, a, b, level)]

\* gpu_tree_reduction_start (of two groups)
TreeStart(mask) ==
  LET roots == FindRoots(mask)
      group == [i \in 1 .. NumGroup |->
                  TreeRec(roots[i - 1], (i - 1) * GroupSize, i * GroupSize - 1, mask, 2).pairs]
  IN FlattenSeq(group) \o Pair(roots[0], roots[0], roots[1], 1)

\* gpu_tree_reduction: the deepest level first.
Order(pairs) ==
  LET levels == Reverse([v \in 1 .. Max({p.level : p \in ToSet(pairs)} \cup {0}) |-> v]) IN
  FlattenSeq([i \in DOMAIN levels |->
                SelectSeq(pairs, LAMBDA p : p.level = levels[i])])

-----------------------------------------------------------------------------
(* The functions: on a device, and from a device's copy to the host        *)

DeviceMerge(op, sink, src) ==
  CASE op = "add" -> sink + src
    [] op = "xor" -> SymDiff(sink, src)
    [] op = "min" -> IF src < sink THEN src ELSE sink
    [] op = "nonzero" -> IF sink > 0 THEN src ELSE sink
    [] OTHER -> src

HostMerge(op, h, v, stamp) ==
  CASE op = "add" -> [h EXCEPT !.val = @ + v]
    [] op = "xor" -> [h EXCEPT !.val = SymDiff(@, v)]
    [] op = "min" -> [h EXCEPT !.val = IF v < @ THEN v ELSE @]
    [] op = "nonzero" -> [h EXCEPT !.val = IF v # 0 THEN v ELSE @]
    [] op = "latest" -> IF h.stamp < stamp THEN [val |-> v, stamp |-> stamp] ELSE h
    [] OTHER -> [val |-> v, stamp |-> stamp]

Init == \E s \in Scenes :
  l = [sc |-> s, val |-> s.vals, valid |-> s.mask, todo |-> Order(TreeStart(s.mask)),
       rem |-> s.mask, host |-> [val |-> s.host, stamp |-> 0], next |-> 0, at |-> "tree"]

\* reduce_datafrom_gpus: the other's copy goes to the root's shadow and is
\* reduced into the root's copy.
Reduced(val, root, other) ==
  [val EXCEPT ![root] = DeviceMerge(l.sc.op, @, val[other])]

\* gpu_reduction_launch
Launch ==
  /\ l.at = "tree" /\ l.todo # <<>>
  /\ LET p == Head(l.todo)
         other == IF p.root = p.a THEN p.b ELSE p.a IN
     l' = [l EXCEPT !.todo = Tail(@), !.rem = @ \ {other},
                    !.val = Reduced(@, p.root, other)]

\* gpu_lc_reduce: what was reduced away is invalidated (gpu_lc_invalidate);
\* every device is handed to the host loop all the same.
EndTree ==
  /\ l.at = "tree" /\ l.todo = <<>>
  /\ l' = [l EXCEPT !.at = "host", !.valid = @ \cap l.rem]

\* internal_lc_sync_gpu: a copy still valid is invalidated and merged.
MergeHost ==
  /\ l.at = "host" /\ l.next < GroupSize * NumGroup
  /\ l' = IF l.next \notin l.valid THEN [l EXCEPT !.next = @ + 1]
          ELSE [l EXCEPT !.next = @ + 1, !.valid = @ \ {l.next},
                         !.host = HostMerge(l.sc.op, @, l.val[l.next], l.sc.stamps[l.next])]

Next == Launch \/ EndTree \/ MergeHost
Done == l.at = "host" /\ l.next = GroupSize * NumGroup

-----------------------------------------------------------------------------
\* When the synchronisation is over no device copy is left in use, and the
\* host's DB is the reduction of its old value and of every copy, each taken
\* once, whichever devices had one (add, xor, min); a policy that copies
\* leaves one of the copies, and of one that keeps what is not zero a value
\* other than zero or the old one.  Which copy that is depends on the tree:
\* its copies do not look at time stamps, and its kernel for values other
\* than zero replaces them (gpu_lc_sync_functions.cu:217), so that the latest
\* copy, or a value that is not zero, may be lost.
MergesEachOnce ==
  Done =>
    /\ l.valid = {}
    /\ LET s == l.sc
           all == {s.vals[d] : d \in s.mask} IN
       CASE s.op = "add" -> l.host.val = s.host + MapThenSumSet(LAMBDA d : s.vals[d], s.mask)
         [] s.op = "xor" ->
              l.host.val = {b \in s.host \cup UNION all :
                              Cardinality({d \in s.mask : b \in s.vals[d]})
                                % 2 = IF b \in s.host THEN 0 ELSE 1}
         [] s.op = "min" -> l.host.val = Min(all \cup {s.host})
         [] s.op \in {"memcpy", "latest"} ->
              l.host.val \in IF all = {} THEN {s.host} ELSE all
         [] OTHER ->
              l.host.val \in (all \ {0}) \cup IF 0 \in all \/ all = {} THEN {s.host} ELSE {}
=============================================================================
