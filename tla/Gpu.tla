-------------------------------- MODULE Gpu --------------------------------
(***************************************************************************)
(* GPU EDTs of one rank: the workers that reserve room on a device and     *)
(* launch EDTs on its stream, the stream buffers, the table of DB copies   *)
(* kept on each device, its collector, and the callback that ends an EDT.  *)
(*                                                                         *)
(* A device runs the operations of its one stream in order; a launched     *)
(* operation happens at some later step (Execute).  With gpu_buff_on the   *)
(* operations of a kernel EDT wait in four buffers per device, emptied     *)
(* into the stream copies first, then kernels, copies back and callbacks.  *)
(* The contents of a DB is the sequence of the EDTs that wrote it.         *)
(***************************************************************************)
EXTENDS Integers, Sequences, FiniteSets, SequencesExt, FiniteSetsExt

CONSTANTS Scenes,     \* records: gpus, workers (numbers of), edts (name ->
                      \* deps: sequence of [db, mode]; lib; gpu: required
                      \* device or Nowhere; put: DBs it fills from the
                      \* device; next: EDTs signalled at its end), kind, size
                      \* and key (of each DB), absent (the DBs the program
                      \* creates later), total (memory), maxEdts,
                      \* locality, fit, buff (gpu_buff_on), freeAfter, preGc,
                      \* idleGc (the scheduler loop), zeros
          Nowhere,    \* no device
          MaxBuffer,  \* MAXBUFFER
          CheckStream,\* CHECKSTREAM
          Word        \* 2^64 in the code

VARIABLE g            \* the state of the rank, a record

sc == g.sc
Gpus == 0 .. sc.gpus - 1
GpuWorkers == 1 .. sc.workers
Edts == DOMAIN sc.edts
Deps(e) == sc.edts[e].deps

\* get_db_size_needed: a DB under location consistency has a shadow copy.
AllocSize(db) == IF sc.kind[db] = "lc" THEN 2 * sc.size[db] ELSE sc.size[db]
\* What is reserved for the closure, and the size its item is given.
ClosureSize(e) == Len(Deps(e))
ClosureItemSize(e) == Len(Deps(e)) + 1
NeededFrom(e, k) ==
  MapThenSumSet(LAMBDA i : AllocSize(Deps(e)[i].db), k .. Len(Deps(e)))
Needed(e) == ClosureSize(e) + NeededFrom(e, 1)

Predecessors(s, e) == {p \in DOMAIN s.edts : e \in s.edts[p].next}
\* The DBs an EDT cannot acquire yet
Missing(s, e) == {s.edts[e].deps[k].db : k \in DOMAIN s.edts[e].deps} \cap s.absent
IdleWorker == [pc |-> "loop", edt |-> "", gpu |-> Nowhere, left |-> <<>>,
               fitted |-> FALSE, sel |-> Nowhere, selAvail |-> 0, seen |-> 0,
               k |-> 1, item |-> 0, held |-> <<>>, todo |-> <<>>,
               gc |-> Nowhere, backedOff |-> FALSE]
NoBuffers == [h2d |-> <<>>, kernel |-> <<>>, d2h |-> <<>>, wrap |-> <<>>]

\* arts_node_init_gpus, arts_worker_init_gpus
Init == \E s \in Scenes :
  LET dev == 0 .. s.gpus - 1 IN
  g = [sc |-> s,
       avail |-> [d \in dev |-> s.total], slots |-> [d \in dev |-> 0],
       running |-> [d \in dev |-> 0], items |-> <<>>,
       stream |-> [d \in dev |-> <<>>], buf |-> [d \in dev |-> NoBuffers],
       checks |-> [d \in dev |-> 0], turn |-> 0,
       host |-> [db \in DOMAIN s.kind |-> <<>>],
       wrote |-> [db \in DOMAIN s.kind |-> <<>>],
       present |-> DOMAIN s.kind \ s.absent, late |-> <<>>,
       need |-> [e \in DOMAIN s.edts |->
                   Cardinality(Predecessors(s, e)) + Cardinality(Missing(s, e))],
       at |-> [e \in DOMAIN s.edts |-> "waiting"], by |-> [e \in DOMAIN s.edts |-> 1],
       new |-> [w \in 1 .. s.workers |->
                  SetToSeq({e \in DOMAIN s.edts : /\ w = 1 /\ Predecessors(s, e) = {}
                                             /\ Missing(s, e) = {}})],
       deque |-> [w \in 1 .. s.workers |-> <<>>],
       w |-> [w \in 1 .. s.workers |-> IdleWorker]]

-----------------------------------------------------------------------------
(* The table of device copies                                              *)

\* arts_route_table_search_for_key(table, key, AVAILABLE_KEY)
Found(t, d, key) ==
  LET hits == {i \in DOMAIN t : t[i].gpu = d /\ t[i].key = key /\ t[i].state = "avail"}
  IN IF hits = {} THEN 0 ELSE Min(hits)

\* free_gpu_item
FreeItem(t, i) == [t EXCEPT ![i].state = "free", ![i].real = FALSE]

\* internal_route_table_remove_item
Invalidate(t, d, key) ==
  LET i == Found(t, d, key) IN
  IF i = 0 THEN t
  ELSE IF t[i].count = 0 THEN FreeItem(t, i)
  ELSE [t EXCEPT ![i].state = "del"]

\* arts_gpu_invalidate_route_tables
InvalidateOthers(t, key, keep) ==
  FoldLeft(LAMBDA x, d : IF d = keep THEN x ELSE Invalidate(x, d, key),
           t, SetToSeq(Gpus))

\* arts_gpu_route_table_return_db: one user less, and marked for deletion
\* only when that was the last.
ReturnDb(t, d, key, mark) ==
  LET i == Found(t, d, key) IN
  IF i = 0 THEN t
  ELSE [t EXCEPT ![i].count = @ - 1,
                 ![i].state = IF mark /\ t[i].count = 1 THEN "del" ELSE @]

NewItem(d, key, count, real, size) ==
  [gpu |-> d, key |-> key, state |-> "avail", count |-> count, real |-> real,
   size |-> size, data |-> <<"unset">>]

\* internal_route_table_add_item_race as the device tables call it: the item
\* is created with one use, and to_add_on_creation adds another.
AddItem(t, d, key, real, size) ==
  LET i == Found(t, d, key) IN
  IF i # 0 THEN [t EXCEPT ![i].count = @ + 1]
  ELSE Append(t, NewItem(d, key, 2, real, size))

Collectable(it, zeros) ==
  it.count = 0 /\ (it.state = "del" \/ (zeros /\ it.state = "avail"))

\* arts_gpu_clean_up_route_table over the whole table, and what it frees is
\* available again.
Collect(s, d) ==
  LET dead == {i \in DOMAIN s.items :
                 s.items[i].gpu = d /\ Collectable(s.items[i], s.sc.zeros)} IN
  [s EXCEPT !.items = [i \in DOMAIN @ |->
                         IF i \in dead THEN FreeItem(@, i)[i] ELSE @[i]],
            !.avail[d] = @ + MapThenSumSet(LAMBDA i : s.items[i].size, dead)]

-----------------------------------------------------------------------------
(* The stream of a device and its buffers                                  *)

(* Mutant: the kernels go first. *)
FlushStream_KernelsFirst(s, d) ==
  [s EXCEPT !.stream[d] = @ \o s.buf[d].kernel \o s.buf[d].h2d
                            \o s.buf[d].d2h \o s.buf[d].wrap,
            !.buf[d] = NoBuffers]

\* flush_stream
FlushStream(s, d) ==
  [s EXCEPT !.stream[d] = @ \o s.buf[d].h2d \o s.buf[d].kernel
                            \o s.buf[d].d2h \o s.buf[d].wrap,
            !.buf[d] = NoBuffers]

Buffered(e) == sc.buff /\ ~sc.edts[e].lib

\* push_data_to_stream, push_kernel_to_stream, get_data_from_stream and
\* push_wrap_up_to_stream
PushTo(s, d, op, buffered) ==
  IF ~buffered THEN [s EXCEPT !.stream[d] = Append(@, op)]
  ELSE LET t == [s EXCEPT !.buf[d][op.op] = Append(@, op)] IN
       IF Len(t.buf[d][op.op]) = MaxBuffer THEN FlushStream(t, d) ELSE t

CopyIn(i, from, db) == [op |-> "h2d", item |-> i, from |-> from, db |-> db]

(* Mutant: the look that flushes is never reached. *)
CheckStreams_Off(s) ==
  FoldLeft(LAMBDA x, d :
             IF x.buf[d] = NoBuffers THEN x
             ELSE LET n == (x.checks[d] + 1) % CheckStream
                      y == [x EXCEPT !.checks[d] = n] IN
                  IF n = CheckStream THEN FlushStream(y, d) ELSE y,
           s, IF s.sc.buff THEN SetToSeq(Gpus) ELSE <<>>)

\* check_streams: a device with something buffered is flushed on every
\* CheckStream-th look.
CheckStreams(s) ==
  FoldLeft(LAMBDA x, d :
             IF x.buf[d] = NoBuffers THEN x
             ELSE LET n == (x.checks[d] + 1) % CheckStream
                      y == [x EXCEPT !.checks[d] = n] IN
                  IF n = 0 THEN FlushStream(y, d) ELSE y,
           s, IF s.sc.buff THEN SetToSeq(Gpus) ELSE <<>>)

-----------------------------------------------------------------------------
(* Finding work                                                            *)

To(w, s, rec) == g' = [s EXCEPT !.w[w] = rec]
W(w) == g.w[w]
Starting(w, e) == [IdleWorker EXCEPT !.pc = "find", !.edt = e, !.gc = W(w).gc,
                                     !.backedOff = W(w).backedOff]

\* arts_runtime_steal_gpu_task
StealGpuTask(w, v) ==
  /\ g.deque[v] # <<>>
  /\ To(w, [g EXCEPT !.deque[v] = Front(@)], Starting(w, Last(g.deque[v])))

\* arts_handle_new_edts, then the worker's own deque or another's.
Take(w) ==
  LET mine == Reverse(g.new[w]) \o g.deque[w] IN
  /\ W(w).pc = "loop"
  /\ \/ /\ mine # <<>>
        /\ To(w, [g EXCEPT !.new[w] = <<>>, !.deque[w] = Tail(mine)],
              Starting(w, Head(mine)))
     \/ mine = <<>> /\ \E v \in GpuWorkers \ {w} : StealGpuTask(w, v)
     \/ /\ mine = <<>> /\ (GpuWorkers = {w} \/ \E v \in GpuWorkers \ {w} : g.deque[v] = <<>>)
        /\ To(w, g, [W(w) EXCEPT !.pc = "idle"])

\* The devices a locality scheme proposes.  first_fit and the other fits test
\* `mask && check_mask`: a mask that is not empty lets every device pass.
Fits(mask) == IF mask = {} THEN {} ELSE Gpus
Random == Fits(Gpus)
\* all_or_nothing starts from an empty mask, which stays empty.
AllOrNothing == Random
AtLeastOne(e) ==
  LET mask == {d \in Gpus : \E k \in DOMAIN Deps(e) : Found(g.items, d, Deps(e)[k].db) # 0}
  IN IF mask = {} THEN Random ELSE Fits(mask)
HashOnDbZero(e) ==
  {(IF Deps(e) = <<>> THEN 0 ELSE sc.key[Deps(e)[1].db]) % sc.gpus}
HashLargest(e) ==
  {Max({0} \cup {sc.key[Deps(e)[k].db] : k \in DOMAIN Deps(e)}) % sc.gpus}
Proposed(e) ==
  CASE sc.locality = "random" -> Random
    [] sc.locality = "all" -> AllOrNothing
    [] sc.locality = "one" -> AtLeastOne(e)
    [] sc.locality = "hash" -> HashOnDbZero(e)
    [] OTHER -> HashLargest(e)

Rotation(start) == [i \in 1 .. sc.gpus |-> (start + i - 1) % sc.gpus]

\* arts_reserve_edt_required_gpu: the required device comes first.
RequiredGpu(w) ==
  LET r == W(w) IN
  /\ r.pc = "find" /\ sc.edts[r.edt].gpu # Nowhere /\ ~r.fitted
  /\ To(w, g, [r EXCEPT !.pc = "slot", !.left = <<sc.edts[r.edt].gpu>>])

\* arts_find_gpu: then what the locality scheme proposes, in the order of the
\* fit: from a random device, or for round_robin_fit from the next in turn.
FindGpu(w) ==
  LET r == W(w) IN
  /\ r.pc = "find" /\ (sc.edts[r.edt].gpu = Nowhere \/ r.fitted)
  /\ \E start \in Gpus :
       /\ sc.fit = "rr" => start = g.turn
       /\ To(w, [g EXCEPT !.turn = IF sc.fit = "rr" THEN (@ + 1) % sc.gpus ELSE @],
             [r EXCEPT !.pc = "slot", !.fitted = TRUE,
                       !.left = SelectSeq(Rotation(start),
                                          LAMBDA d : d \in Proposed(r.edt))])

\* best_fit and worst_fit pass over a device that is no better than the one
\* they hold (the difference is unsigned).
BestFitSkips(r, d) == (g.avail[d] - Needed(r.edt)) % Word > r.selAvail
WorstFitSkips(r, d) == (g.avail[d] - Needed(r.edt)) % Word < r.selAvail
Skipped(r, d) ==
  /\ r.fitted /\ r.sel # Nowhere
  /\ IF sc.fit = "best" THEN BestFitSkips(r, d) ELSE WorstFitSkips(r, d)

(* Mutant: one EDT too many. *)
FreeSlot_OneMore(d) == g.slots[d] <= sc.maxEdts
FreeSlot(d) == g.slots[d] < sc.maxEdts

\* The loop of the fit: the next device, or the end of the search.  An EDT
\* that fits nowhere goes back to the worker's deque.
TryNext(w) ==
  LET r == W(w)
      d == Head(r.left) IN
  /\ r.pc = "slot"
  /\ \/ /\ r.left # <<>> /\ Skipped(r, d)
        /\ To(w, g, [r EXCEPT !.left = Tail(@)])
     \/ /\ r.left # <<>> /\ ~Skipped(r, d)
        /\ To(w, [g EXCEPT !.slots[d] = @ + 1],
              [r EXCEPT !.gpu = d, !.left = Tail(@),
                        !.pc = IF FreeSlot(d) THEN "mem" ELSE "unslot"])
     \/ /\ r.left = <<>> /\ r.sel # Nowhere
        /\ To(w, g, [r EXCEPT !.pc = "run", !.gpu = r.sel])
     \/ /\ r.left = <<>> /\ r.sel = Nowhere /\ ~r.fitted
        /\ To(w, g, [r EXCEPT !.pc = "find", !.fitted = TRUE])
     \/ /\ r.left = <<>> /\ r.sel = Nowhere /\ r.fitted
        /\ To(w, [g EXCEPT !.deque[w] = <<r.edt>> \o @],
              [IdleWorker EXCEPT !.pc = "idle", !.gc = r.gc, !.backedOff = r.backedOff])

\* try_reserve, after the slot was taken: read the memory left ...
ReadAvail(w) ==
  /\ W(w).pc = "mem"
  /\ LET a == g.avail[W(w).gpu] IN
     To(w, g, IF a >= Needed(W(w).edt)
              THEN [W(w) EXCEPT !.pc = "swap", !.seen = a]
              ELSE [W(w) EXCEPT !.pc = "unslot", !.gc = W(w).gpu])

\* ... and swap it.  The swap returns the value it found, and any value but
\* zero is taken for success, whether or not it was the value read.
SwapAvail(w) ==
  LET r == W(w)
      d == r.gpu
      size == Needed(r.edt)
      found == g.avail[d]
      s == [g EXCEPT !.avail[d] = IF found = r.seen THEN found - size ELSE @]
      better == r.fitted /\ sc.fit \in {"best", "worst"} IN
  /\ r.pc = "swap"
  /\ IF found = 0
     THEN To(w, s, [r EXCEPT !.pc = "mem"])
     ELSE IF ~better THEN To(w, s, [r EXCEPT !.pc = "run", !.gc = Nowhere])
     ELSE To(w, IF r.sel = Nowhere THEN s
                ELSE [s EXCEPT !.avail[r.sel] = @ + size],
             [r EXCEPT !.pc = "slot", !.sel = d, !.selAvail = s.avail[d],
                       !.gc = Nowhere])

ReleaseSlot(w) ==
  /\ W(w).pc = "unslot"
  /\ To(w, [g EXCEPT !.slots[W(w).gpu] = @ - 1],
        [W(w) EXCEPT !.pc = "slot", !.gpu = Nowhere])

\* The end of a turn without a GPU EDT: check_streams, then the collector, as
\* the scheduler loop has it: over some device every time ...
IdleLoop(w, s, r) == sc.idleGc = "random" /\ \E d \in Gpus : To(w, Collect(s, d), r)
\* ... or, once it has run, only on some turns ...
BackoffLoop(w, s, r) ==
  /\ sc.idleGc = "backoff"
  /\ \/ \E d \in Gpus : To(w, Collect(s, d), [r EXCEPT !.backedOff = TRUE])
     \/ r.backedOff /\ To(w, s, r)
\* ... or over the device that was full ...
DemandLoop(w, s, r) ==
  /\ sc.idleGc = "demand" /\ r.gc # Nowhere
  /\ To(w, Collect(s, r.gc), [r EXCEPT !.gc = Nowhere])
\* ... or not at all.
Idle(w) ==
  /\ W(w).pc = "idle"
  /\ LET s == CheckStreams(g)
         r == [W(w) EXCEPT !.pc = "loop"] IN
     \/ IdleLoop(w, s, r) \/ BackoffLoop(w, s, r) \/ DemandLoop(w, s, r)
     \/ /\ sc.idleGc = "off" \/ (sc.idleGc = "demand" /\ r.gc = Nowhere)
        /\ To(w, s, r)

-----------------------------------------------------------------------------
(* Launching an EDT                                                        *)

\* arts_run_gpu, up to the closure's item.
RunGpu(w) ==
  LET r == W(w)
      s == IF sc.preGc THEN Collect(g, r.gpu) ELSE g IN
  /\ r.pc = "run"
  /\ To(w, [s EXCEPT !.running[r.gpu] = @ + 1, !.at[r.edt] = "launched",
                     !.by[r.edt] = w,
                     !.items = AddItem(@, r.gpu, r.edt, TRUE, ClosureItemSize(r.edt))],
        [r EXCEPT !.pc = "dep"])

Dep(r) == Deps(r.edt)[r.k]
NextDep(r, i) == [r EXCEPT !.pc = "dep", !.k = @ + 1, !.held = Append(@, i)]

(* Mutant: a hit keeps what was reserved for a copy. *)
LookupDep_Keep(w) ==
  LET r == W(w)
      i == Found(g.items, r.gpu, Dep(r).db)
      used == [g EXCEPT !.items[i].count = @ + 1] IN
  /\ r.pc = "dep" /\ r.k <= Len(Deps(r.edt))
  /\ IF i = 0 THEN To(w, g, [r EXCEPT !.pc = "reserve"])
     ELSE IF ~g.items[i].real THEN To(w, used, [r EXCEPT !.pc = "reserve"])
     ELSE To(w, used, NextDep(r, i))

\* A dependence: look the device's copy up.
LookupDep(w) ==
  LET r == W(w)
      i == Found(g.items, r.gpu, Dep(r).db)
      used == [g EXCEPT !.items[i].count = @ + 1] IN
  /\ r.pc = "dep" /\ r.k <= Len(Deps(r.edt))
  /\ IF i = 0 THEN To(w, g, [r EXCEPT !.pc = "reserve"])
     ELSE IF ~g.items[i].real THEN To(w, used, [r EXCEPT !.pc = "reserve"])
     ELSE To(w, [used EXCEPT !.avail[r.gpu] = @ + AllocSize(Dep(r).db)], NextDep(r, i))

\* No copy, or one whose address is not known yet: create it or wait for it.
ReserveItem(w) ==
  LET r == W(w)
      db == Dep(r).db
      i == Found(g.items, r.gpu, db)
      s == [g EXCEPT !.items = AddItem(@, r.gpu, db, FALSE, AllocSize(db))] IN
  /\ r.pc = "reserve"
  /\ To(w, s, [r EXCEPT !.pc = IF i = 0 THEN "copy" ELSE "wait",
                        !.item = Found(s.items, r.gpu, db)])

\* The winner allocates and sends the DB (or clears it) ...
CopyDep(w) ==
  LET r == W(w) IN
  /\ r.pc = "copy"
  /\ To(w, PushTo(g, r.gpu,
                  CopyIn(r.item, IF Dep(r).mode \in {"memset", "no copy"} THEN "zero"
                                 ELSE "host", Dep(r).db),
                  Buffered(r.edt)),
        [r EXCEPT !.pc = "real"])
\* ... and only then publishes the address.
SetRealData(w) ==
  LET r == W(w) IN
  /\ r.pc = "real"
  /\ To(w, [g EXCEPT !.items[r.item].real = TRUE], NextDep(r, r.item))

\* The others wait for it, and give back what they had reserved.
WaitRealData(w) ==
  LET r == W(w)
      s == IF sc.kind[Dep(r).db] = "gpu" /\ Dep(r).mode = "memset"
           THEN PushTo(g, r.gpu, CopyIn(r.item, "zero", Dep(r).db), Buffered(r.edt))
           ELSE g IN
  /\ r.pc = "wait" /\ g.items[r.item].real
  /\ To(w, [s EXCEPT !.avail[r.gpu] = @ + AllocSize(Dep(r).db)], NextDep(r, r.item))

\* What is pushed once the DBs are on their way: the closure, the kernel, the
\* copies back of written GPU DBs, the callback.
Pushes(r) ==
  LET e == r.edt
      back == SelectSeq([k \in DOMAIN Deps(e) |-> k],
                LAMBDA k : sc.kind[Deps(e)[k].db] = "gpu" /\ Deps(e)[k].mode \in {"ew", "memset"})
  IN <<CopyIn(0, "host", ""), [op |-> "kernel", edt |-> e, held |-> r.held]>>
     \o [k \in DOMAIN back |->
           [op |-> "d2h", db |-> Deps(e)[back[k]].db, item |-> r.held[back[k]]]]
     \o <<[op |-> "wrap", edt |-> e]>>

DepsDone(w) ==
  LET r == W(w) IN
  /\ r.pc = "dep" /\ r.k > Len(Deps(r.edt))
  /\ To(w, g, [r EXCEPT !.pc = "push", !.todo = Pushes(r)])

\* A library EDT runs on the worker, launching on the stream itself.
\* arts_put_in_db_from_gpu launches the copy of what it computed into the DB,
\* or, when there is no such DB yet, into a buffer of its own, and defers the
\* put to the creation of the DB; the device memory (free_data) is left to the
\* collector.  (cudaFree waits for what the device has still to do.)
PutItem(d, db) == [NewItem(d, db, 0, TRUE, 0) EXCEPT !.state = "del"]
(* Mutant: a put in a DB that is not there yet is dropped. *)
PutFromGpu_Drop(s, d, e) ==
  FoldLeft(LAMBDA x, db :
             IF db \in x.present
             THEN [x EXCEPT !.items = Append(@, PutItem(d, db)),
                            !.stream[d] = Append(@, [op |-> "put", edt |-> e,
                                                     db |-> db, to |-> 0])]
             ELSE x,
           s, SetToSeq(s.sc.edts[e].put))

PutFromGpu(s, d, e) ==
  FoldLeft(LAMBDA x, db :
             LET here == db \in x.present IN
             [x EXCEPT !.items = Append(@, PutItem(d, db)),
                       !.late = IF here THEN @
                                ELSE Append(@, [db |-> db, data |-> <<"unset">>]),
                       !.stream[d] = Append(@, [op |-> "put", edt |-> e, db |-> db,
                                       to |-> IF here THEN 0 ELSE Len(x.late) + 1])],
           s, SetToSeq(s.sc.edts[e].put))

Push(w) ==
  LET r == W(w)
      op == Head(r.todo)
      s == PushTo(g, r.gpu, op, Buffered(r.edt)) IN
  /\ r.pc = "push" /\ r.todo # <<>>
  /\ To(w, IF op.op = "kernel" THEN PutFromGpu(s, r.gpu, r.edt) ELSE s,
        [r EXCEPT !.todo = Tail(@)])

Launched(w) ==
  /\ W(w).pc = "push" /\ W(w).todo = <<>>
  /\ To(w, g, [IdleWorker EXCEPT !.gc = W(w).gc])

-----------------------------------------------------------------------------
(* The device                                                              *)

\* A kernel appends its EDT to what it writes.
RunKernel(s, op) ==
  LET ds == s.sc.edts[op.edt].deps
      written == {k \in DOMAIN ds : ds[k].mode \in {"ew", "memset"}} IN
  [s EXCEPT !.items = [i \in DOMAIN @ |->
                         IF \E k \in written : op.held[k] = i
                         THEN [@[i] EXCEPT !.data = Append(@, op.edt)] ELSE @[i]],
            !.wrote = [db \in DOMAIN @ |->
                         IF \E k \in written : ds[k].db = db /\ ds[k].mode = "ew"
                         THEN Append(@[db], op.edt)
                         ELSE IF \/ \E k \in written : ds[k].db = db
                                 \/ db \in s.sc.edts[op.edt].put THEN <<op.edt>>
                         ELSE @[db]]]

\* arts_gpu_host_wrap_up: the EDT is over and signals its successors; those
\* that are ready go to the list of the worker that launched it.
HostWrapUp(s, e) ==
  LET next == s.sc.edts[e].next IN
  [s EXCEPT !.need = [f \in DOMAIN @ |-> IF f \in next THEN @[f] - 1 ELSE @[f]],
            !.new[s.by[e]] = @ \o SetToSeq({f \in next : s.need[f] = 1}),
            !.at[e] = "ended"]

\* arts_wrap_up, the callback at the end of an EDT's operations.
WrapUp(s, d, e) ==
  LET ds == s.sc.edts[e].deps
      returned == FoldLeft(LAMBDA t, k :
                    ReturnDb(IF s.sc.kind[ds[k].db] = "gpu"
                             THEN InvalidateOthers(t, ds[k].db, d) ELSE t,
                             d, ds[k].db, s.sc.freeAfter),
                    s.items, [k \in DOMAIN ds |-> k]) IN
  HostWrapUp([s EXCEPT !.slots[d] = @ - 1, !.running[d] = @ - 1,
                       !.items = ReturnDb(returned, d, e, TRUE)], e)

\* The next operation of the stream takes place.
Execute(d) ==
  /\ g.stream[d] # <<>>
  /\ LET op == Head(g.stream[d])
         s == [g EXCEPT !.stream[d] = Tail(@)] IN
     g' = CASE op.op = "h2d" /\ op.item = 0 -> s
            [] op.op = "h2d" /\ op.item # 0 ->
                 [s EXCEPT !.items[op.item].data =
                             IF op.from = "zero" THEN <<>> ELSE s.host[op.db]]
            [] op.op = "kernel" -> RunKernel(s, op)
            [] op.op = "d2h" -> [s EXCEPT !.host[op.db] = s.items[op.item].data]
            [] op.op = "put" /\ op.to = 0 -> [s EXCEPT !.host[op.db] = <<op.edt>>]
            [] op.op = "put" /\ op.to # 0 -> [s EXCEPT !.late[op.to].data = <<op.edt>>]
            [] OTHER -> WrapUp(s, d, op.edt)

\* The program creates a DB: the deferred puts are applied, with what their
\* buffers hold by then, and the EDTs that waited for it acquire it.
CreateDb(db) ==
  LET puts == {k \in DOMAIN g.late : g.late[k].db = db}
      waiting == {e \in Edts : db \in Missing(sc, e)} IN
  /\ db \notin g.present
  /\ g' = [g EXCEPT !.present = @ \cup {db},
                    !.host[db] = IF puts = {} THEN @ ELSE g.late[Max(puts)].data,
                    !.need = [e \in DOMAIN @ |-> IF e \in waiting THEN @[e] - 1 ELSE @[e]],
                    !.new[1] = @ \o SetToSeq({e \in waiting : g.need[e] = 1})]

Step(w) == \/ Take(w) \/ RequiredGpu(w) \/ FindGpu(w) \/ TryNext(w) \/ ReadAvail(w) \/ SwapAvail(w)
           \/ ReleaseSlot(w) \/ Idle(w) \/ RunGpu(w) \/ LookupDep(w) \/ ReserveItem(w)
           \/ CopyDep(w) \/ SetRealData(w) \/ WaitRealData(w) \/ DepsDone(w) \/ Push(w)
           \/ Launched(w)
Next == \/ \E w \in GpuWorkers : Step(w)
        \/ \E d \in Gpus : Execute(d)
        \/ \E db \in sc.absent : CreateDb(db)

\* Every worker keeps running its loop, unless it waits for an address, and
\* every device the operations of its stream, and the program creates what its
\* EDTs need.  (A step of a worker changes
\* its record, a step of a device shortens its stream.)
FairWorker(w) ==
  \/ []<>(w \notin GpuWorkers \/ (g.w[w].pc = "wait" /\ ~g.items[g.w[w].item].real))
  \/ []<><<w \in GpuWorkers /\ g'.w[w] # g.w[w]>>_g
FairDevice(d) ==
  \/ []<>(d \notin Gpus \/ g.stream[d] = <<>>)
  \/ []<><<d \in Gpus /\ Len(g'.stream[d]) < Len(g.stream[d])>>_g
Fairness == /\ \A w \in 1 .. Max({s.workers : s \in Scenes}) : FairWorker(w)
            /\ \A d \in 0 .. Max({s.gpus : s \in Scenes}) - 1 : FairDevice(d)
            /\ <>(sc.absent \subseteq g.present)

-----------------------------------------------------------------------------
(* Properties                                                              *)

\* A DB was created while the copy of what had been put in it was still under
\* way to its buffer: it has whatever the buffer held.
Torn(db) == \E k \in DOMAIN g.late :
              g.late[k].db = db /\ db \in g.present /\ g.host[db] = <<"unset">>

\* When a kernel starts, every DB it was given is in memory that has not been
\* freed, with the contents left by the last EDT that wrote the DB, on
\* whichever device that was, or put it there from a device:
\* arts_schedule_to_gpu_internal launches a copy before it publishes its
\* address, flush_stream empties copies before kernels, arts_wrap_up
\* invalidates the other devices' copies before the next user is readied, and
\* a put is copied, or deferred, before its EDT ends.  (Not so for a library
\* EDT under gpu_buff_on, nor for a DB that is created while a deferred put is
\* still being copied: arts_put_in_db_from_gpu does not wait for that copy.)
KernelSeesData ==
  \A d \in Gpus :
    (g.stream[d] # <<>> /\ Head(g.stream[d]).op = "kernel") =>
      LET op == Head(g.stream[d]) IN
      \A k \in DOMAIN op.held :
        LET it == g.items[op.held[k]]
            dep == Deps(op.edt)[k] IN
        /\ it.state # "free" /\ it.real
        /\ \/ it.data = IF dep.mode = "memset" THEN <<>> ELSE g.wrote[dep.db]
           \/ Torn(dep.db)

\* Memory of device d that worker w has reserved and not turned into a copy.
Unresolved(r) ==
  CASE r.pc \in {"run", "dep", "reserve", "wait"} -> NeededFrom(r.edt, r.k)
    [] r.pc \in {"copy", "real"} -> NeededFrom(r.edt, r.k + 1)
    [] OTHER -> 0
InFlight(w, d) ==
  LET r == g.w[w] IN
  (IF r.gpu = d THEN Unresolved(r) + (IF r.pc = "run" THEN ClosureSize(r.edt) ELSE 0)
   ELSE 0)
  + (IF r.sel = d /\ r.pc \in {"slot", "mem", "swap", "unslot"} THEN Needed(r.edt) ELSE 0)

\* What is left of a device's memory, what its live copies and closures take
\* and what is reserved for EDTs being launched
Accounted(d) ==
  g.avail[d] + MapThenSumSet(LAMBDA i : IF g.items[i].key \in Edts
                                        THEN g.items[i].size - 1 ELSE g.items[i].size,
                             {i \in DOMAIN g.items :
                                g.items[i].gpu = d /\ g.items[i].state # "free"})
    + MapThenSumSet(LAMBDA w : InFlight(w, d), GpuWorkers)

\* No memory of a device is ever lost; and while one worker reserves, none is
\* promised twice.  (Two that reserve at a time may both be granted the same
\* memory: try_reserve takes any swap that found a value for a success.)
MemoryAccounted ==
  \A d \in Gpus : /\ Accounted(d) >= sc.total
                  /\ sc.workers = 1 => Accounted(d) = sc.total

\* Never more than gpu_max_edts EDTs at once on a device, and a slot is given
\* back for every one that ends: the slots taken are the EDTs running or being
\* launched and the attempts under way, at least, and under first_fit and
\* round_robin_fit exactly.  (best_fit and worst_fit keep the slot of a choice
\* they give up for a better one.)
SlotsCounted ==
  \A d \in Gpus :
    LET launching == {w \in GpuWorkers : g.w[w].gpu = d /\ g.w[w].pc = "run"}
        trying == {w \in GpuWorkers : g.w[w].gpu = d /\ g.w[w].pc \in {"mem", "swap", "unslot"}}
        chosen == {w \in GpuWorkers : g.w[w].sel = d
                                      /\ g.w[w].pc \in {"slot", "mem", "swap", "unslot"}}
        used == g.running[d] + Cardinality(launching) + Cardinality(trying)
                + Cardinality(chosen) IN
    /\ g.slots[d] >= used
    /\ sc.fit \in {"first", "rr"} => g.slots[d] = used
    /\ g.running[d] <= sc.maxEdts

\* Every GPU EDT is launched and wrapped up: nothing stays in a buffer that
\* no later launch fills, a worker that waits for another's copy gets its
\* address, and an EDT that found no room is tried again once others end.
EveryEdtEnds == <>(\A e \in Edts : g.at[e] = "ended")
=============================================================================
