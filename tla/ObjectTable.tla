---------------------------- MODULE ObjectTable ----------------------------
(***************************************************************************)
(* The per-object counters: every thread counts in an open-addressing hash *)
(* table of fixed size, keyed by the arts_id of the EDT or data block; the *)
(* table is copied when the thread leaves, and the copies are merged into  *)
(* one table of the same size when the rank writes its output.  A full     *)
(* table refuses new ids.                                                  *)
(***************************************************************************)
EXTENDS Integers, Sequences, SequencesExt, FiniteSets, FiniteSetsExt

CONSTANTS Workers,  \* threads
          Ids,      \* arts_ids; 0 is "no id"
          Size,     \* ARTS_OBJECT_TABLE_SIZE
          Hashes,   \* the hash functions considered, Ids -> 0 .. Size - 1
          MaxRecs   \* bound on the recordings of all threads

VARIABLE b

Slots == 0 .. Size - 1
NoEntry == [id |-> 0, count |-> 0, ns |-> 0]
NewTable == [slot |-> [i \in Slots |-> NoEntry], collisions |-> 0]

\* The slots in the order they are probed for an id.
Probe(id, k) == (b.hash[id] + k) % Size

\* arts_object_find_edt_slot, arts_object_find_db_slot: the number of probes
\* that missed, Size when the table is full of other ids.
(* Mutant: an occupied slot ends the search, whoever occupies it. *)
Misses_AnyId(tab, id) ==
  LET hit == {k \in Slots : tab.slot[Probe(id, k)].id # 0} IN
  IF hit = {} THEN 0 ELSE Min(hit)
Misses(tab, id) ==
  LET hit == {k \in Slots : tab.slot[Probe(id, k)].id \in {0, id}} IN
  IF hit = {} THEN Size ELSE Min(hit)

\* Add an entry's counts to the slot of its id, claiming the slot if free;
\* nothing is counted when there is none (the wrap-around probe does not
\* count as a collision).
Count(tab, e) ==
  LET k == Misses(tab, e.id) IN
  IF k = Size THEN [tab EXCEPT !.collisions = @ + Size - 1]
  ELSE [tab EXCEPT
          !.collisions = @ + k,
          !.slot[Probe(e.id, k)] = [id |-> IF @.id = 0 THEN e.id ELSE @.id,
                                    count |-> @.count + e.count,
                                    ns |-> @.ns + e.ns]]

\* arts_object_reduce_tables
ReduceTables(dest, src) ==
  FoldLeft(LAMBDA d, i : IF src.slot[i].id = 0 THEN d ELSE Count(d, src.slot[i]),
           dest, SetToSortSeq(Slots, <))

Init == \E h \in Hashes :
  b = [hash |-> h, tab |-> [w \in Workers |-> NewTable],
       saved |-> {}, merged |-> NewTable, done |-> FALSE,
       recs |-> [w \in Workers |-> [id \in Ids |-> 0]], n |-> 0]

\* arts_object_record_edt, arts_object_record_db by a running thread.
Record(w, id) ==
  /\ w \notin b.saved /\ b.n < MaxRecs
  /\ b' = [b EXCEPT !.tab[w] = Count(@, [id |-> id, count |-> 1, ns |-> id]),
                    !.recs[w][id] = @ + 1, !.n = @ + 1]
Save(w) == w \notin b.saved /\ b' = [b EXCEPT !.saved = @ \cup {w}]

\* arts_object_write_node, after all threads have been joined.
WriteNode ==
  /\ b.saved = Workers /\ ~b.done
  /\ b' = [b EXCEPT !.done = TRUE,
             !.merged = FoldLeft(LAMBDA d, w : ReduceTables(d, b.tab[w]),
                                 NewTable, SetToSortSeq(Workers, <))]

Next == \/ \E w \in Workers, id \in Ids : Record(w, id)
        \/ \E w \in Workers : Save(w)
        \/ WriteNode

-----------------------------------------------------------------------------
In(tab, id) == {i \in Slots : tab.slot[i].id = id}
CountIn(tab, id) == MapThenSumSet(LAMBDA i : tab.slot[i].count, In(tab, id))

(* An id is in at most one slot of a table; a thread's table has counted   *)
(* all of a thread's recordings of an id or none of them; and the merged   *)
(* table has the sum over the threads for every id it holds, and holds     *)
(* every id the threads hold when there are no more of them than slots.    *)
(* The slot of an id never moves, so probing never stops short of it.      *)
CountedOnce ==
  /\ \A w \in Workers, id \in Ids :
       /\ Cardinality(In(b.tab[w], id)) <= 1
       /\ CountIn(b.tab[w], id) \in {0, b.recs[w][id]}
       /\ \A i \in In(b.tab[w], id) :
            b.tab[w].slot[i].ns = id * b.tab[w].slot[i].count
  /\ b.done =>
       LET held == {id \in Ids : \E w \in Workers : In(b.tab[w], id) # {}} IN
       \A id \in held :
         /\ In(b.merged, id) # {} \/ Cardinality(held) > Size
         /\ In(b.merged, id) # {} =>
              CountIn(b.merged, id) =
                MapThenSumSet(LAMBDA w : CountIn(b.tab[w], id), Workers)
=============================================================================
