------------------------------- MODULE Graph -------------------------------
(***************************************************************************)
(* The distributed graph: block_distribution.c, csr.c and edge_vector.c.   *)
(* Each rank reads the whole file, line by line, keeps the edges whose     *)
(* source falls to one of its blocks, and makes one CSR datablock of each  *)
(* block.  A line of an edge list is a comment or the numbers on it; a     *)
(* line of the CSR format holds the neighbours, from 1, of the vertex with *)
(* the number of the line.  Vertices are below dist->num_vertices, and no  *)
(* block starts beyond them.                                               *)
(***************************************************************************)
EXTENDS Integers, Sequences, FiniteSets, SequencesExt, TLC

CONSTANTS
  Scenes,     \* [ranks, n, blocks, format, flip, keep, verts, lines]
  EdgeVecSz   \* EDGE_VEC_SZ

VARIABLE h

Ranks == 0 .. h.scene.ranks - 1
Parts == 0 .. h.scene.blocks - 1

----------------------------------------------------------------------------
(* block_distribution.c *)

(* internal_init_block_distribution *)
BlockSz == (h.scene.n + h.scene.blocks - 1) \div h.scene.blocks

(* init_block_distribution_block: the rank of each block *)
RankOf(part) ==
  LET per == h.scene.blocks \div h.scene.ranks
      mod == h.scene.blocks % h.scene.ranks
      First(r) == r * per + (IF r < mod THEN r ELSE mod)
  IN  CHOOSE r \in Ranks : First(r) <= part /\ part < First(r + 1)

BlockSizeForPartition(part) ==
  IF part = h.scene.blocks - 1 THEN h.scene.n - (h.scene.blocks - 1) * BlockSz
  ELSE BlockSz
OwnerDistr(v) == v \div BlockSz
PartitionStart(part) == BlockSz * part
PartitionEnd(part) == IF part = h.scene.blocks - 1 THEN h.scene.n - 1
                      ELSE PartitionStart(part) + BlockSz - 1
VertexFromLocal(part, u) == PartitionStart(part) + u
LocalIndex(v) == v - PartitionStart(OwnerDistr(v))

----------------------------------------------------------------------------
(* edge_vector.c *)

NoEdges == [size |-> EdgeVecSz, used |-> <<>>]

(* push_back_edge: a full vector doubles *)
PushBackEdge(vec, s, t) ==
  [size |-> IF Len(vec.used) = vec.size THEN 2 * vec.size ELSE vec.size,
   used |-> Append(vec.used, <<s, t>>)]

(* sort_by_source; where qsort leaves the edges of one source is of no     *)
(* matter here.                                                            *)
SortBySource(vec) == SortSeq(vec.used, LAMBDA d, e : d[1] < e[1])

----------------------------------------------------------------------------
(* init_csr *)

Fill(rows, from, to) == [k \in DOMAIN rows |->
                           IF from < k /\ k <= to THEN rows[from] ELSE rows[k]]

(* Mutant: the rows of the vertices without edges stay 0. *)
InitCsr_NoGaps(part, edges) ==
  LET localv == BlockSizeForPartition(part)
      Step(rows, i) ==
        LET s == LocalIndex(edges[i][1]) IN
        IF i > 1 /\ edges[i][1] = edges[i - 1][1]
        THEN [rows EXCEPT ![s + 1] = @ + 1]
        ELSE [rows EXCEPT ![s + 1] = i]
      zero == [k \in 0 .. localv |-> 0]
      rows == FoldLeft(Step, zero, [i \in DOMAIN edges |-> i])
  IN  [rows |-> IF edges = <<>> THEN rows
                ELSE Fill(rows, LocalIndex(Last(edges)[1]) + 1, localv),
       cols |-> [i \in DOMAIN edges |-> edges[i][2]]]

(* A first edge of a source sets its row end, after the rows of the        *)
(* vertices without edges before it; the rows after the last one follow.   *)
(* A block without edges keeps the zeros.                                  *)
InitCsr(part, edges) ==
  LET localv == BlockSizeForPartition(part)
      Step(rows, i) ==
        LET s == LocalIndex(edges[i][1]) IN
        IF i = 1 THEN [rows EXCEPT ![s] = 0, ![s + 1] = 1]
        ELSE LET last == LocalIndex(edges[i - 1][1]) IN
             IF edges[i][1] = edges[i - 1][1]
             THEN [rows EXCEPT ![s + 1] = @ + 1]
             ELSE [Fill(rows, last + 1, s) EXCEPT ![s + 1] = i]
      zero == [k \in 0 .. localv |-> 0]
      rows == FoldLeft(Step, zero, [i \in DOMAIN edges |-> i])
  IN  [rows |-> IF edges = <<>> THEN rows
                ELSE Fill(rows, LocalIndex(Last(edges)[1]) + 1, localv),
       cols |-> [i \in DOMAIN edges |-> edges[i][2]]]

(* The first edge is read even if there is none: what lies in the fresh    *)
(* array is taken for its source, and an assertion wants it in the block.  *)
EmptyAborts(part, garbage) == garbage + 1 > BlockSizeForPartition(part)

(* get_neighbors *)
Neighbors(csr, v, part) ==
  LET i == v - BlockSz * part
  IN  SubSeq(csr.cols, csr.rows[i] + 1, csr.rows[i + 1])

----------------------------------------------------------------------------
(* The loaders *)

NoCsr == [rows |-> <<>>, cols |-> <<>>]

Init == \E s \in Scenes :
  h = [scene  |-> s,
       pos    |-> [r \in 0 .. s.ranks - 1 |-> 1],
       ignore |-> [r \in 0 .. s.ranks - 1 |-> FALSE],
       src    |-> [r \in 0 .. s.ranks - 1 |-> 0],
       vec    |-> [q \in 0 .. s.blocks - 1 |-> NoEdges],
       csr    |-> [q \in 0 .. s.blocks - 1 |-> NoCsr],
       done   |-> [r \in 0 .. s.ranks - 1 |-> "reading"]]

Local(r, part) == RankOf(part) = r

(* The edges <<s, t>> that fall to a block of the rank *)
Keep(x, r, s, t) ==
  LET part == OwnerDistr(s) IN
  IF part \in Parts /\ Local(r, part)
  THEN [x EXCEPT !.vec[part] = PushBackEdge(@, s, t)] ELSE x

(* The tokens of a line in turn are the source and the target. *)
ParseEdge(nums) ==
  LET LastAt(par) == LET at == {i \in DOMAIN nums : i % 2 = par} IN
                     IF at = {} THEN 0
                     ELSE nums[CHOOSE i \in at : \A j \in at : j <= i]
  IN  <<LastAt(1), LastAt(0)>>

(* load_graph_no_weight: the line after the % lines is the size line of a  *)
(* Matrix Market file.                                                     *)
EdgeLine(r, line) ==
  LET x == [h EXCEPT !.pos[r] = @ + 1] IN
  CASE line.kind = "%" -> [x EXCEPT !.ignore[r] = TRUE]
    [] line.kind = "#" -> x
    [] line.kind = "nums" /\ h.ignore[r] -> [x EXCEPT !.ignore[r] = FALSE]
    [] OTHER ->
         LET e == ParseEdge(line.nums) IN
         IF ~h.scene.keep /\ e[1] = e[2] THEN x
         ELSE LET y == Keep(x, r, e[1], e[2]) IN
              IF h.scene.flip THEN Keep(y, r, e[2], e[1]) ELSE y

(* load_graph_no_weight_csr; the newline of a line without numbers is read *)
(* as the number 0.                                                        *)
AdjacencyLine(r, line) ==
  LET x == [h EXCEPT !.pos[r] = @ + 1] IN
  IF line.kind # "nums" THEN x
  ELSE LET nums == IF line.nums = <<>> THEN <<0>> ELSE line.nums
           s == h.src[r]
           y == FoldLeft(LAMBDA z, k : IF ~h.scene.keep /\ s = k - 1 THEN z
                                       ELSE Keep(z, r, s, k - 1), x, nums)
       IN  [y EXCEPT !.src[r] = @ + 1]

ReadLine(r) ==
  /\ h.done[r] = "reading" /\ h.pos[r] <= Len(h.scene.lines)
  /\ LET line == h.scene.lines[h.pos[r]] IN
     h' = IF h.scene.format = "csr" THEN AdjacencyLine(r, line)
          ELSE EdgeLine(r, line)

(* At the end of the file; a CSR file with another number of lines than    *)
(* its header says loads nothing.                                          *)
Finish(r) ==
  /\ h.done[r] = "reading" /\ h.pos[r] > Len(h.scene.lines)
  /\ \E garbage \in 0 .. BlockSz - 1 :
       LET mine == {q \in Parts : Local(r, q)} IN
       h' = IF h.scene.format = "csr" /\ h.src[r] # h.scene.verts
            THEN [h EXCEPT !.done[r] = "refused"]
            ELSE IF \E q \in mine : h.vec[q].used = <<>> /\ EmptyAborts(q, garbage)
            THEN [h EXCEPT !.done[r] = "abort"]
            ELSE [h EXCEPT !.done[r] = "loaded",
                           !.csr = [q \in Parts |->
                                      IF q \in mine
                                      THEN InitCsr(q, SortBySource(h.vec[q]))
                                      ELSE @[q]]]

Next == \E r \in Ranks : ReadLine(r) \/ Finish(r)

----------------------------------------------------------------------------
(* The edges that the file says, each as often as it says *)
EdgeCount(s, t) ==
  LET Says(i) ==
        LET line == h.scene.lines[i]
            e == ParseEdge(line.nums)
            skipped == i > 1 /\ h.scene.lines[i - 1].kind = "%"
            row == Cardinality({k \in 1 .. i - 1 : h.scene.lines[k].kind = "nums"})
        IN  CASE line.kind # "nums" -> 0
              [] line.kind = "nums" /\ h.scene.format = "csr" ->
                   IF row # s THEN 0
                   ELSE Cardinality({k \in DOMAIN line.nums : line.nums[k] = t + 1})
              [] OTHER ->
                   IF skipped THEN 0
                   ELSE (IF e = <<s, t>> THEN 1 ELSE 0)
                        + (IF h.scene.flip /\ e = <<t, s>> THEN 1 ELSE 0)
  IN  IF s = t /\ ~h.scene.keep THEN 0
      ELSE FoldLeft(LAMBDA n, i : n + Says(i), 0, [i \in DOMAIN h.scene.lines |-> i])

(* The lines of a vertex, one or none, that are empty in a CSR file *)
EmptyLines(v) ==
  LET rows == SelectSeq(h.scene.lines, LAMBDA line : line.kind = "nums")
  IN  IF h.scene.format = "csr" /\ v < Len(rows) /\ rows[v + 1].nums = <<>>
      THEN 1 ELSE 0

(* A loaded graph is the graph of the file: each vertex is in the range of *)
(* the one block that owns it, get_neighbors gives its targets there, each *)
(* as often as the file has the edge: both ways if it is to be flipped,    *)
(* and without the self loops if they are to go.  It gives nothing else,   *)
(* but for a vertex without edges in a CSR file: the newline is taken for  *)
(* a number (csr.c:449), and the vertex has the one neighbour -1.          *)
GraphIsFile ==
  \A v \in 0 .. h.scene.n - 1 :
    LET q == OwnerDistr(v) IN
    /\ {p \in Parts : PartitionStart(p) <= v /\ v <= PartitionEnd(p)} = {q}
    /\ VertexFromLocal(q, LocalIndex(v)) = v
    /\ h.done[RankOf(q)] = "loaded" =>
         LET ns == Neighbors(h.csr[q], v, q) IN
         \A t \in ToSet(ns) \cup 0 .. h.scene.n - 1 :
           Cardinality({k \in DOMAIN ns : ns[k] = t}) =
             IF t = -1 THEN EmptyLines(v) ELSE EdgeCount(v, t)
=============================================================================
