-------------------------------- MODULE Guid --------------------------------
(***************************************************************************)
(* GUIDs (core/gas/guid.c).  While the ranks start, each of them counts    *)
(* the keys down from the top, so that ranks that reserve alike get the    *)
(* same GUIDs.  Then what is left is divided among the threads of all      *)
(* ranks, and every thread counts up, for each rank, in its own part.  One *)
(* type of object stands for all.                                          *)
(***************************************************************************)
EXTENDS Integers, SequencesExt, FiniteSetsExt

CONSTANTS Scenes,     \* [ranks, workers, others, plan, calls]: threads that
                      \* are not workers, the (rank, count) each rank
                      \* reserves while it starts, a bound on later calls
          KeySpace,   \* 2^40
          Counts,     \* lengths of reserved ranges
          HashSizes   \* arts_guid_reserve_range_hash

VARIABLE u

Ranks == 0 .. u.scene.ranks - 1
Threads == 0 .. u.scene.workers + u.scene.others - 1
Parts == u.scene.workers + 1

(* set_global_guid_on; arts_guid_key_generator_init *)
Init == \E sc \in Scenes :
  LET R == 0 .. sc.ranks - 1  T == 0 .. sc.workers + sc.others - 1 IN
  u = [scene |-> sc,
       on   |-> [r \in R |-> KeySpace],           \* global_guid_on
       each |-> [r \in R |-> 0],                  \* keys_per_thread
       keys |-> [r \in R |-> [t \in T |-> [q \in R |-> 1]]],
       start |-> [r \in R |-> <<>>],              \* history: while starting
       given |-> {}, calls |-> 0]                 \* history: afterwards

(* Mutant: with several ranks too, a part for each worker only. *)
ThreadId_Workers(r, t) ==
  u.scene.workers * r + IF t < u.scene.workers THEN t ELSE u.scene.workers

(* global_guid_thread_id: all threads that are not workers share a part.   *)
ThreadId(r, t) ==
  (IF u.scene.ranks = 1 THEN u.scene.workers ELSE Parts) * r
    + IF t < u.scene.workers THEN t ELSE u.scene.workers

(* arts_guid_create_for_rank_internal while the ranks start; "out of keys" *)
(* is an error.                                                            *)
ReserveAtStart(r) ==
  LET i == Len(u.start[r]) + 1 IN
  /\ i \in DOMAIN u.scene.plan[r] /\ u.on[r] > u.scene.plan[r][i][2]
  /\ LET n == u.scene.plan[r][i][2] IN
     u' = [u EXCEPT !.on[r] = @ - n,
                    !.start[r] = Append(@, [route |-> u.scene.plan[r][i][1], n |-> n,
                                            key |-> u.on[r] - n])]

(* set_guid_generator_after_parallel_start *)
AfterParallelStart(r) ==
  /\ u.on[r] # 0 /\ Len(u.start[r]) = Len(u.scene.plan[r])
  /\ u' = [u EXCEPT !.each[r] = u.on[r] \div (Parts * u.scene.ranks), !.on[r] = 0]

(* arts_guid_create_for_rank_internal afterwards *)
Create(r, t, q, n) ==
  /\ u.on[r] = 0 /\ u.calls < u.scene.calls
  /\ u.keys[r][t][q] + n < u.each[r]
  /\ u' = [u EXCEPT !.keys[r][t][q] = @ + n, !.calls = @ + 1,
                    !.given = @ \cup {[nth |-> u.calls, route |-> q, n |-> n,
                      key |-> u.keys[r][t][q] + u.each[r] * ThreadId(r, t)]}]

(* arts_guid_reserve_range_hash: the range starts at the first key that is *)
(* a multiple of the hash size.                                            *)
RangeHash(r, t, q, n, h) ==
  /\ u.on[r] = 0 /\ u.calls < u.scene.calls
  /\ u.keys[r][t][q] + n + h < u.each[r]
  /\ LET key == u.keys[r][t][q] + u.each[r] * ThreadId(r, t)
         first == Min({k \in key .. key + h - 1 : k % h = 0})
     IN u' = [u EXCEPT !.keys[r][t][q] = @ + n + h, !.calls = @ + 1,
                       !.given = @ \cup {[nth |-> u.calls, route |-> q, n |-> n,
                                          key |-> first]}]

Next == \E r \in Ranks :
  \/ ReserveAtStart(r) \/ AfterParallelStart(r)
  \/ \E q \in Ranks, t \in Threads, n \in Counts :
       Create(r, t, q, n) \/ \E h \in HashSizes : RangeHash(r, t, q, n, h)

----------------------------------------------------------------------------
Keys(g) == {<<g.route, k>> : k \in g.key .. g.key + g.n - 1}
AtStart == UNION {ToSet(u.start[r]) : r \in Ranks}

(* "identified by a 64-bit Globally Unique Identifier": two calls never    *)
(* give the same GUID, whichever ranks and threads make them, except that  *)
(* ranks that start alike reserve the same GUIDs together; and keys stay   *)
(* in the 40 bits of the key (guid.c, arts_guid_create_for_rank_internal). *)
GloballyUnique ==
  /\ \A g, h \in u.given : g # h => Keys(g) \cap Keys(h) = {}
  /\ \A g \in u.given, h \in AtStart : Keys(g) \cap Keys(h) = {}
  /\ \A r \in Ranks : \A i, j \in DOMAIN u.start[r] :
       i # j => Keys(u.start[r][i]) \cap Keys(u.start[r][j]) = {}
  /\ \A r, o \in Ranks : \A i \in DOMAIN u.start[r] \cap DOMAIN u.start[o] :
       u.scene.plan[r] = u.scene.plan[o] => u.start[r][i] = u.start[o][i]
  /\ \A g \in u.given \cup AtStart : g.key > 0 /\ g.key + g.n <= KeySpace
=============================================================================
