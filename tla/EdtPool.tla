------------------------------ MODULE EdtPool ------------------------------
(***************************************************************************)
(* The memory of EDTs (core/compute/edt.c).  Every thread keeps freed      *)
(* EDTs in free lists by size class, and takes new EDTs from               *)
(* its own lists whatever thread allocated them; an EDT for another rank   *)
(* is copied, with its recorded size, to a new block there.                *)
(***************************************************************************)
EXTENDS Integers, SequencesExt, FiniteSetsExt

CONSTANTS Scenes,        \* [threads, ids, gpu]: threads, blocks in use at
                         \* once, and the sizes GPU EDTs are created with
          Ceilings,      \* edt_pool_bucket_sizes
          Sizes,         \* requested sizes
          MaxPerBucket   \* EDT_POOL_MAX_PER_BUCKET

VARIABLE p

Threads == 1 .. p.scene.threads
Blocks == 1 .. p.scene.ids
Buckets == DOMAIN Ceilings
Gone == [use |-> "gone", cap |-> 0, size |-> 0]

Init == \E sc \in Scenes :
  p = [scene |-> sc,
       block |-> [b \in 1 .. sc.ids |-> Gone],
       \* edt_pool: the free lists and their counts
       list  |-> [t \in 1 .. sc.threads |-> [i \in Buckets |-> <<>>]],
       count |-> [t \in 1 .. sc.threads |-> [i \in Buckets |-> 0]],
       ended |-> {}]

(* edt_pool_bucket_index: 0 if the size is too large *)
BucketIndex(size) ==
  LET fits == {i \in Buckets : size <= Ceilings[i]}
  IN IF fits = {} THEN 0 ELSE Min(fits)

(* The capacity recorded for a request: the ceiling of its class *)
AllocSize(size) ==
  IF BucketIndex(size) = 0 THEN size ELSE Ceilings[BucketIndex(size)]

(* A block of the allocator: the first one not in use *)
Fresh == {b \in Blocks : p.block[b].use = "gone"}

Held(cap, size) == [use |-> "edt", cap |-> cap, size |-> size]

(* edt_pool_alloc: the head of the free list, or else a new block *)
Pooled(t, size) ==
  BucketIndex(size) # 0 /\ p.list[t][BucketIndex(size)] # <<>>

(* Mutant: the requested size is recorded. *)
CreateEdt_Requested(t, size) ==
  /\ t \notin p.ended
  /\ IF Pooled(t, size)
     THEN LET i == BucketIndex(size)  b == Head(p.list[t][i])
          IN p' = [p EXCEPT !.list[t][i] = Tail(@), !.count[t][i] = @ - 1,
                            !.block[b] = Held(@.cap, size)]
     ELSE /\ Fresh # {}
          /\ p' = [p EXCEPT !.block[Min(Fresh)] = Held(AllocSize(size), size)]

(* arts_edt_create_internal *)
CreateEdt(t, size) ==
  /\ t \notin p.ended
  /\ IF Pooled(t, size)
     THEN LET i == BucketIndex(size)  b == Head(p.list[t][i])
          IN p' = [p EXCEPT !.list[t][i] = Tail(@), !.count[t][i] = @ - 1,
                            !.block[b] = Held(@.cap, AllocSize(size))]
     ELSE /\ Fresh # {}
          /\ p' = [p EXCEPT !.block[Min(Fresh)] =
                              Held(AllocSize(size), AllocSize(size))]

(* internal_edt_create_gpu: the block is allocated by the caller. *)
CreateGpuEdt(t, size) ==
  /\ size \in p.scene.gpu /\ t \notin p.ended /\ Fresh # {}
  /\ p' = [p EXCEPT !.block[Min(Fresh)] = Held(size, size)]

(* arts_remote_memory_move, and arts_free once the packet is sent; the     *)
(* block is allocated anew by arts_remote_handle_edt_move.                 *)
Move(b) ==
  /\ p.block[b].use = "edt"
  /\ p' = [p EXCEPT !.block[b].use = "moving"]
HandleEdtMove(b) ==
  /\ p.block[b].use = "moving"
  /\ p' = [p EXCEPT !.block[b] = Held(p.block[b].size, p.block[b].size)]

(* Mutant: a list takes one block too many. *)
EdtFree_NoCap(t, b) ==
  /\ t \notin p.ended /\ p.block[b].use = "edt"
  /\ LET i == BucketIndex(p.block[b].size) IN
     IF i # 0 => p.count[t][i] > MaxPerBucket
     THEN p' = [p EXCEPT !.block[b] = Gone]
     ELSE p' = [p EXCEPT !.list[t][i] = <<b>> \o @, !.count[t][i] = @ + 1,
                         !.block[b].use = "pool"]

(* arts_edt_free, edt_pool_free *)
EdtFree(t, b) ==
  /\ t \notin p.ended /\ p.block[b].use = "edt"
  /\ LET i == BucketIndex(p.block[b].size) IN
     IF i # 0 => p.count[t][i] >= MaxPerBucket
     THEN p' = [p EXCEPT !.block[b] = Gone]
     ELSE p' = [p EXCEPT !.list[t][i] = <<b>> \o @, !.count[t][i] = @ + 1,
                         !.block[b].use = "pool"]

(* arts_cleanup_edt_pool *)
CleanupEdtPool(t) ==
  /\ t \notin p.ended
  /\ p' = [p EXCEPT
             !.block = [b \in Blocks |->
                          IF \E i \in Buckets : Contains(p.list[t][i], b)
                          THEN Gone ELSE @[b]],
             !.list[t] = [i \in Buckets |-> <<>>],
             !.count[t] = [i \in Buckets |-> 0],
             !.ended = @ \cup {t}]

Next == \/ \E t \in Threads : \/ \E z \in Sizes : CreateEdt(t, z) \/ CreateGpuEdt(t, z)
                              \/ \E b \in Blocks : EdtFree(t, b)
                              \/ CleanupEdtPool(t)
        \/ \E b \in Blocks : Move(b) \/ HandleEdtMove(b)

----------------------------------------------------------------------------
(* "any pooled entry is reusable for any request within the same bucket":  *)
(* a block in a free list is at least as large as the class of the list,   *)
(* whoever allocated it, wherever it has been moved (edt.c,                *)
(* arts_edt_create_internal, edt_pool_free).                               *)
PooledFits == \A t \in Threads, i \in Buckets :
  \A k \in DOMAIN p.list[t][i] : p.block[p.list[t][i][k]].cap >= Ceilings[i]

(* A block lies in one free list at most and at one place, never while an  *)
(* EDT uses it; the lists are bounded and none is left when the threads    *)
(* have ended (edt.c, edt_pool_alloc, edt_pool_free).                      *)
OnePlace ==
  /\ \A t \in Threads, i \in Buckets :
       p.count[t][i] = Len(p.list[t][i]) /\ p.count[t][i] <= MaxPerBucket
  /\ \A b \in Blocks :
       Cardinality({x \in Threads \X Buckets \X (1 .. MaxPerBucket) :
                      /\ x[3] \in DOMAIN p.list[x[1]][x[2]]
                      /\ p.list[x[1]][x[2]][x[3]] = b})
         = IF p.block[b].use = "pool" THEN 1 ELSE 0
=============================================================================
