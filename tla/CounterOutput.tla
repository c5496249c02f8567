--------------------------- MODULE CounterOutput ---------------------------
(***************************************************************************)
(* What becomes of the counters when the ranks stop.  Each rank reduces    *)
(* one CLUSTER-level counter over its threads (final value and capture     *)
(* history) and writes the result to its file n<rank>.json; the master     *)
(* polls the shared folder for the files of all ranks, a bounded number of *)
(* times, and reduces what it read once more into cluster.json.            *)
(*                                                                         *)
(* A file is written through stdio: a short one appears at once, when it   *)
(* is closed; one longer than the buffer appears in pieces.  The folder    *)
(* outlives a run, so a file of an earlier run may still be there.         *)
(***************************************************************************)
EXTENDS Integers, Sequences, SequencesExt, FiniteSets, FiniteSetsExt

CONSTANTS Clusters,   \* scenes: [method, ranks, long, old] where ranks is a
                      \* sequence of ranks (the first is the master), a rank a
                      \* sequence of threads [value, hist], hist a sequence of
                      \* [epoch, value]; long: ranks whose file is longer than
                      \* the stdio buffer; old: ranks with a file of an
                      \* earlier run
          MaxRetries, \* polls of the master (100 in the code)
          Top         \* UINT64_MAX

VARIABLE o

Ranks == DOMAIN o.scene.ranks

-----------------------------------------------------------------------------
(* Reduction                                                               *)

\* arts_apply_reduction; `first` is whether the source has index 0.
Apply(acc, value, method, first) ==
  CASE method = "SUM"    -> acc + value
    [] method = "MAX"    -> IF acc < value THEN value ELSE acc
    [] method = "MIN"    -> IF acc > value THEN value ELSE acc
    [] method = "MASTER" -> IF first THEN value ELSE acc

Start(method) == IF method = "MIN" THEN Top ELSE 0

\* arts_compute_node_reduced_value, and the same loop over the ranks
ReduceValues(values, method) ==
  FoldLeft(LAMBDA acc, i : Apply(acc, values[i], method, i = 1),
           Start(method), [i \in DOMAIN values |-> i])

\* One turn of the merging loop: the sources whose next capture has the
\* smallest epoch are reduced and moved on.  The loop ends when no source
\* has a capture left.
MergeTurn(hists, method, st) ==
  LET open == {i \in DOMAIN hists : st.pos[i] <= Len(hists[i])}
      min  == Min({hists[i][st.pos[i]].epoch : i \in open})
      here == {i \in open : hists[i][st.pos[i]].epoch = min}
  IN IF open = {} THEN st
     ELSE [pos |-> [i \in DOMAIN hists |-> IF i \in here THEN st.pos[i] + 1
                                                         ELSE st.pos[i]],
           out |-> Append(st.out,
             [epoch |-> min,
              value |-> FoldLeft(LAMBDA acc, i :
                           Apply(acc, hists[i][st.pos[i]].value, method, i = 1),
                           Start(method), SetToSortSeq(here, <))])]

Longest(hists) == Max({0} \cup {Len(hists[i]) : i \in DOMAIN hists})

(* Mutant: only the first source of an epoch is moved on. *)
MergeHistories_OneMoves(hists, method) ==
  LET turn(st) == LET n == MergeTurn(hists, method, st)
                      f == Min({i \in DOMAIN hists : n.pos[i] # st.pos[i]}
                               \cup {Len(hists) + 1})
                  IN [n EXCEPT !.pos = [i \in DOMAIN hists |->
                                          IF i = f THEN n.pos[i] ELSE st.pos[i]]]
  IN FoldLeft(LAMBDA st, i : turn(st),
              [pos |-> [i \in DOMAIN hists |-> 1], out |-> <<>>],
              [i \in 1 .. Longest(hists) |-> i]).out

\* arts_merge_capture_histories: as many turns as the longest history.
MergeHistories(hists, method) ==
  FoldLeft(LAMBDA st, i : MergeTurn(hists, method, st),
           [pos |-> [i \in DOMAIN hists |-> 1], out |-> <<>>],
           [i \in 1 .. Longest(hists) |-> i]).out

\* arts_compute_node_reduced_captures does the same over the threads' lists.
NodeCaptures(threads, method) ==
  MergeHistories([t \in DOMAIN threads |-> threads[t].hist], method)

-----------------------------------------------------------------------------
(* Files                                                                   *)

Empty == [value |-> 0, hist |-> <<>>]

\* arts_counter_write_node: a MASTER counter is only written by the master.
NodeFile(r) ==
  LET sc == o.scene IN
  IF sc.method = "MASTER" /\ r # 1 THEN Empty
  ELSE [value |-> ReduceValues([t \in DOMAIN sc.ranks[r] |->
                                  sc.ranks[r][t].value], sc.method),
        hist  |-> NodeCaptures(sc.ranks[r], sc.method)]

Init == \E sc \in Clusters :
  o = [scene |-> sc, file |-> [r \in DOMAIN sc.ranks |->
                                 IF r \in sc.old THEN "old" ELSE "none"],
       attempt |-> 0, read |-> {}, data |-> [r \in DOMAIN sc.ranks |-> Empty],
       exact |-> TRUE, master |-> "run", out |-> Empty]

\* fopen truncates; the contents appear when the buffer is flushed.
WriteBegin(r) ==
  /\ o.file[r] \in {"none", "old"}
  /\ o' = [o EXCEPT !.file[r] = IF r \in o.scene.long THEN "part" ELSE "open",
                    !.master = IF r = 1 THEN "write" ELSE @]
WriteEnd(r) ==
  /\ o.file[r] \in {"open", "part"}
  /\ o' = [o EXCEPT !.file[r] = "full",
                    !.master = IF r = 1 THEN "poll" ELSE @]

\* arts_read_node_counter_file: TRUE when the file has a "counters" object.
Readable(r) == o.file[r] \in {"full", "part", "old"}
Contents(r) == IF o.file[r] = "full" THEN NodeFile(r) ELSE Empty

\* One sweep over the ranks that have not been read.
Poll ==
  /\ o.master = "poll" /\ o.attempt < MaxRetries /\ o.read # Ranks
  /\ LET new == {r \in Ranks \ o.read : Readable(r)} IN
     o' = [o EXCEPT !.attempt = @ + 1, !.read = @ \cup new,
                    !.data = [r \in Ranks |-> IF r \in new THEN Contents(r)
                                              ELSE o.data[r]],
                    !.exact = @ /\ \A r \in new : o.file[r] = "full"]

\* The rest of arts_counter_write_cluster.
WriteCluster ==
  /\ o.master = "poll" /\ (o.attempt = MaxRetries \/ o.read = Ranks)
  /\ o' = [o EXCEPT !.master = "done", !.out =
        IF o.read = {} THEN Empty
        ELSE [value |-> ReduceValues([r \in Ranks |-> o.data[r].value],
                                     o.scene.method),
              hist  |-> MergeHistories([r \in Ranks |-> o.data[r].hist],
                                       o.scene.method)]]

Next == \/ \E r \in Ranks : WriteBegin(r) \/ WriteEnd(r)
        \/ Poll \/ WriteCluster

-----------------------------------------------------------------------------
(* The captures of one epoch, reduced, by definition.                      *)
AtEpoch(hists, method, e) ==
  LET has == {i \in DOMAIN hists : \E k \in DOMAIN hists[i] : hists[i][k].epoch = e}
      val(i) == (CHOOSE x \in ToSet(hists[i]) : x.epoch = e).value
  IN CASE method = "SUM" -> MapThenSumSet(val, has)
       [] method = "MAX" -> Max({val(i) : i \in has})
       [] method = "MIN" -> Min({val(i) : i \in has})
       [] method = "MASTER" -> IF 1 \in has THEN val(1) ELSE 0

AllEpochs(hists) ==
  SetToSortSeq(UNION {{x.epoch : x \in ToSet(hists[i])} : i \in DOMAIN hists}, <)

(* The value of every thread counts once in cluster.json, and its          *)
(* history is the epoch-wise reduction of the ranks' histories, epochs in  *)
(* order, cut at the length of the longest: whatever order the files       *)
(* appear in, provided the files read were complete and of this run.       *)
ClusterIsReduction ==
  o.master = "done" /\ o.read = Ranks /\ o.exact =>
    LET m     == o.scene.method
        all   == UNION {{<<r, t>> : t \in DOMAIN o.scene.ranks[r]} : r \in Ranks}
        v(p)  == o.scene.ranks[p[1]][p[2]].value
        hists == [r \in Ranks |-> o.data[r].hist]
        es    == AllEpochs(hists)
    IN /\ o.out.value = CASE m = "SUM" -> MapThenSumSet(v, all)
                          [] m = "MAX" -> Max({v(p) : p \in all})
                          [] m = "MIN" -> Min({v(p) : p \in all})
                          [] m = "MASTER" -> v(<<1, 1>>)
       /\ Len(o.out.hist) = Min({Len(es), Longest(hists)})
       /\ \A k \in DOMAIN o.out.hist :
            o.out.hist[k] = [epoch |-> es[k], value |-> AtEpoch(hists, m, es[k])]
=============================================================================
