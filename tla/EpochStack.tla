----------------------------- MODULE EpochStack -----------------------------
(***************************************************************************)
(* The epochs of running EDTs on one rank (core/compute/edt.c,             *)
(* core/sync/termination.c).  A worker keeps the list of the epochs its    *)
(* EDT takes part in; an EDT that waits for an epoch is suspended on the   *)
(* worker's stack, and the worker runs other EDTs on top of it.  Epochs    *)
(* are taken from pools that belong to the worker.                         *)
(***************************************************************************)
EXTENDS Integers, SequencesExt, FiniteSetsExt

CONSTANTS Scenes,     \* [workers, edts, epochs, waits, free, auto]: the
                      \* bounds, how many EDTs may wait on one worker, whether
                      \* EDTs need not nest their epochs, and auto_shutdown
          PoolSize    \* DEFAULT_EPOCH_POOL_SIZE

VARIABLE s

Workers == 1 .. s.scene.workers
Edts == DOMAIN s.edt
Epochs == DOMAIN s.epoch
None == 0

PoolOf(e) == (e - 1) \div PoolSize + 1
Top(w) == Last(s.stack[w])
Busy(w) == s.stack[w] # <<>>
Running(w) == Busy(w) /\ Top(w).pc = "run"
SetTop(w, f) == [s.stack EXCEPT ![w][Len(s.stack[w])] = f]

NewEdt == [st |-> "none", ep |-> None, anc |-> {}]
NewEpoch == [live |-> FALSE, active |-> 0, fin |-> 0, completed |-> FALSE]

(* arts_shutdown_epoch_create: the epoch of the whole program counts one   *)
(* for every worker.                                                       *)
Init == \E sc \in Scenes :
  s = [scene |-> sc, edt |-> [t \in 1 .. sc.edts |-> NewEdt],
       epoch |-> [e \in 1 .. sc.epochs |-> NewEpoch],
       stack |-> [w \in 1 .. sc.workers |-> <<>>],
       fire |-> [w \in 1 .. sc.workers |-> [at |-> "no", e |-> None]],
       pools |-> [w \in 1 .. sc.workers |-> <<>>],   \* epoch_thread_pool
       pool |-> <<>>,        \* all pools: index, outstanding, freed
       auto |-> [active |-> sc.workers, fin |-> 0, fired |-> FALSE],
       begun |-> {},         \* the workers that have done their start
       started |-> {}]       \* history: who has started which epoch

----------------------------------------------------------------------------
(* The list of epochs *)

(* arts_get_current_epoch_guid *)
CurrentEpoch(f) == IF f.list = <<>> THEN None ELSE Last(f.list)

(* arts_check_epoch_is_root *)
IsRoot(f, e) == e # None /\ Contains(f.list, e)

(* arts_set_current_epoch_guid.  The EDT's epoch_guid, which it also sets, *)
(* is read when the EDT begins and by the program only.                    *)
Enter(f, e) == IF e = None THEN f ELSE [f EXCEPT !.list = Append(@, e)]

(* arts_set_thread_local_edt_info: the list starts with the EDT's epoch. *)
Frame(t) == Enter([edt |-> t, list |-> <<>>, pc |-> "run", on |-> None],
                  s.edt[t].ep)

(* A program that nests its epochs waits for the last one it has started,  *)
(* creates no EDT after a wait and waits for all before it returns.        *)
MayCreate(f) == s.scene.free \/ CurrentEpoch(f) # None \/ f.list = <<>>
MayWait(f, e) == s.scene.free \/ CurrentEpoch(f) = e
MayReturn(f) == s.scene.free \/ ToSet(f.list) \subseteq {None, s.edt[f.edt].ep}

(* Mutant: the current epoch is the first of the list. *)
EpochFor_First(f, e) ==
  IF IsRoot(f, e) THEN e ELSE IF f.list = <<>> THEN None ELSE Head(f.list)

(* The epoch of a new EDT: the one asked for if the creator takes part in  *)
(* it, else the current one.                                               *)
EpochFor(f, e) == IF IsRoot(f, e) THEN e ELSE CurrentEpoch(f)

(* increment_active_epoch *)
Activate(ep, e) == IF e = None \/ ~ep[e].live THEN ep
                   ELSE [ep EXCEPT ![e].active = @ + 1]

(* arts_shutdown_epoch_inc_active, arts_shutdown_epoch_inc_finished *)
AutoActive(a) == IF s.scene.auto THEN [a EXCEPT !.active = @ + 1] ELSE a
AutoFinished(a) ==
  IF ~s.scene.auto THEN a
  ELSE [a EXCEPT !.fin = @ + 1, !.fired = @ \/ a.fin + 1 = a.active]

(* History: the epochs the creator is in, as far as the one asked for. *)
Around(f, e) ==
  ToSet(IF IsRoot(f, e) THEN SubSeq(f.list, 1, SelectInSeq(f.list, LAMBDA x : x = e))
        ELSE f.list) \ {None}

(* arts_edt_create_internal, with no dependences *)
Create(w, asked) ==
  /\ Running(w) /\ MayCreate(Top(w))
  /\ \E u \in Edts :
     /\ s.edt[u].st = "none" /\ \A v \in 1 .. u - 1 : s.edt[v].st # "none"
     /\ LET f == Top(w)
            e == EpochFor(f, asked)
        IN s' = [s EXCEPT
                   !.edt[u] = [st |-> "ready", ep |-> e,
                               anc |-> s.edt[f.edt].anc \cup Around(f, asked)],
                   !.epoch = Activate(@, e),
                   !.auto = AutoActive(@)]

----------------------------------------------------------------------------
(* Starting an epoch *)

(* get_pool_epoch: the first pool of the worker with an epoch left, or a   *)
(* new one at the end of its list.                                         *)
Usable(w) == {p \in ToSet(s.pools[w]) : s.pool[p].index < PoolSize}
GetPoolEpoch(w) ==
  IF Usable(w) = {}
  THEN LET p == Len(s.pool) + 1 IN
       [s EXCEPT !.pool = Append(@, [index |-> 1, outstanding |-> PoolSize,
                                     freed |-> FALSE]),
                 !.pools[w] = Append(@, p)]
  ELSE [s EXCEPT !.pool[Min(Usable(w))].index = @ + 1]
PoolEpoch(w) ==
  LET p == IF Usable(w) = {} THEN Len(s.pool) + 1 ELSE Min(Usable(w))
      i == IF Usable(w) = {} THEN 0 ELSE s.pool[p].index
  IN (p - 1) * PoolSize + i + 1

(* arts_initialize_and_start_epoch *)
StartEpoch(w) ==
  /\ Running(w)
  /\ LET e == PoolEpoch(w) IN
     /\ e \in Epochs
     /\ s' = [GetPoolEpoch(w) EXCEPT
                !.epoch[e] = [@ EXCEPT !.live = TRUE, !.active = 1],
                !.stack = SetTop(w, Enter(Top(w), e)),
                !.started = @ \cup {<<Top(w).edt, e>>}]

(* arts_start_epoch, on the EDT's own epoch *)
JoinEpoch(w) ==
  /\ Running(w)
  /\ LET e == s.edt[Top(w).edt].ep IN
     /\ e # None /\ Top(w).list = <<e>>
     /\ s' = [s EXCEPT !.epoch = Activate(@, e),
                       !.stack = SetTop(w, Enter(Top(w), e))]

----------------------------------------------------------------------------
(* Finishing *)

(* increment_finished_epoch_impl with one rank: one atomic addition counts *)
(* and reads both counters.  Nobody else can fire: active only grows.      *)
Finish(st, w, e) ==
  IF e = None \/ ~st.epoch[e].live THEN st
  ELSE [st EXCEPT
          !.epoch[e].fin = @ + 1,
          !.fire[w] = IF st.epoch[e].fin + 1 = st.epoch[e].active
                      THEN [at |-> "fire", e |-> e] ELSE @]

(* The exchange of the phase and the completion flag; then delete_epoch    *)
(* removes the epoch and counts it off its pool; the last one removes the  *)
(* pool, whose GUID it reads from the epoch.                               *)
Fire(w) ==
  /\ s.fire[w].at = "fire"
  /\ s' = [s EXCEPT !.epoch[s.fire[w].e].completed = TRUE,
                    !.fire[w].at = "delete"]
DeleteEpoch(w) ==
  /\ s.fire[w].at = "delete"
  /\ LET e == s.fire[w].e  p == PoolOf(e) IN
     s' = [s EXCEPT !.epoch[e].live = FALSE,
                    !.pool[p].outstanding = @ - 1,
                    !.fire[w] = IF s.pool[p].outstanding = 1
                                THEN [at |-> "pool", e |-> e]
                                ELSE [at |-> "no", e |-> None]]
DeletePool(w) ==
  /\ s.fire[w].at = "pool"
  /\ s' = [s EXCEPT !.fire[w] = [at |-> "no", e |-> None]]

Return(w) ==
  /\ Running(w) /\ s.fire[w].at = "no" /\ MayReturn(Top(w))
  /\ s' = [s EXCEPT !.stack = SetTop(w, [Top(w) EXCEPT !.pc = "end"])]

(* Mutant: the loop stops at an entry that was waited for. *)
FinishList_Stops(w) ==
  /\ Busy(w) /\ Top(w).pc = "end" /\ s.fire[w].at = "no"
  /\ LET f == Top(w) IN
     /\ f.list # <<>>
     /\ s' = [Finish(s, w, Head(f.list)) EXCEPT
                !.stack = SetTop(w, [f EXCEPT
                    !.list = IF Head(f.list) = None THEN <<>> ELSE Tail(@)])]

(* arts_increment_finished_epoch_list: one turn of the loop *)
FinishList(w) ==
  /\ Busy(w) /\ Top(w).pc = "end" /\ s.fire[w].at = "no"
  /\ LET f == Top(w) IN
     /\ f.list # <<>>
     /\ s' = [Finish(s, w, Head(f.list)) EXCEPT
                !.stack = SetTop(w, [f EXCEPT !.list = Tail(@)])]

(* The rest of arts_unset_thread_local_edt_info, and arts_edt_delete *)
EndEdt(w) ==
  /\ Busy(w) /\ Top(w).pc = "end" /\ s.fire[w].at = "no"
  /\ Top(w).list = <<>>
  /\ s' = [s EXCEPT !.edt[Top(w).edt].st = "done",
                    !.auto = AutoFinished(@),
                    !.stack[w] = Front(@)]

----------------------------------------------------------------------------
(* Waiting *)

Waits(w) == Cardinality({i \in DOMAIN s.stack[w] : s.stack[w][i].on # None})

(* Mutant: the entry of the list is left. *)
Wait_Kept(w) ==
  /\ Running(w) /\ Waits(w) < s.scene.waits /\ s.fire[w].at = "no"
  /\ \E e \in Epochs :
     /\ <<Top(w).edt, e>> \in s.started /\ IsRoot(Top(w), e)
     /\ MayWait(Top(w), e)
     /\ s' = [Finish(s, w, e) EXCEPT
                !.stack = SetTop(w, [Top(w) EXCEPT !.pc = "wait", !.on = e])]

(* arts_wait_on_handle: the EDT takes itself out of the epoch, then the    *)
(* worker goes back to its scheduler.                                      *)
Wait(w) ==
  /\ Running(w) /\ Waits(w) < s.scene.waits /\ s.fire[w].at = "no"
  /\ \E e \in Epochs :
     /\ <<Top(w).edt, e>> \in s.started /\ IsRoot(Top(w), e)
     /\ MayWait(Top(w), e)
     /\ LET f == Top(w)
            i == SelectInSeq(f.list, LAMBDA x : x = e)
        IN s' = [Finish(s, w, e) EXCEPT
                   !.stack = SetTop(w, [f EXCEPT !.list[i] = None,
                                                 !.pc = "wait", !.on = e])]

Idle(w) == IF Busy(w) THEN Top(w).pc \in {"wait", "drain"} ELSE w \in s.begun

(* arts_run_edt, from the worker's loop or from inside a wait:             *)
(* arts_save_thread_local has put the suspended EDT's list aside.          *)
Run(w) ==
  /\ Idle(w) /\ s.fire[w].at = "no"
  /\ \E t \in Edts :
     /\ s.edt[t].st = "ready"
     /\ s' = [s EXCEPT !.edt[t].st = "running",
                       !.stack[w] = Append(@, Frame(t))]

(* The flag of the epoch is polled. *)
SeeCompleted(w) ==
  /\ Busy(w) /\ Top(w).pc = "wait" /\ s.fire[w].at = "no"
  /\ s.epoch[Top(w).on].completed
  /\ s' = [s EXCEPT !.stack = SetTop(w, [Top(w) EXCEPT !.pc = "drain"])]

(* clean_epoch_pool *)
Reusable(p) == s.pool[p].index = PoolSize /\ s.pool[p].outstanding = 0
CleanPools(st, w) ==
  [st EXCEPT !.pools[w] = SelectSeq(@, LAMBDA p : ~Reusable(p)),
             !.pool = [p \in DOMAIN @ |->
                         IF p \in ToSet(s.pools[w]) /\ Reusable(p)
                         THEN [@[p] EXCEPT !.freed = TRUE] ELSE @[p]]]

(* The scheduler of this worker finds nothing, whatever is ready on the    *)
(* others; arts_restore_thread_local.                                      *)
Resume(w) ==
  /\ Busy(w) /\ Top(w).pc = "drain" /\ s.fire[w].at = "no"
  /\ s' = [CleanPools(s, w) EXCEPT
             !.stack = SetTop(w, [Top(w) EXCEPT !.pc = "run", !.on = None])]

----------------------------------------------------------------------------
(* Start *)

(* arts_increment_finished_epoch_list, called by each worker as it starts;  *)
(* the main EDT is created when all have passed the barriers.              *)
WorkerStarts(w) ==
  /\ w \notin s.begun
  /\ s' = [s EXCEPT !.begun = @ \cup {w}, !.auto = AutoFinished(@)]
CreateMain ==
  /\ s.begun = Workers /\ s.edt[1].st = "none"
  /\ s' = [s EXCEPT !.edt[1].st = "ready", !.auto = AutoActive(@)]

Next == \/ CreateMain
        \/ \E w \in Workers :
             \/ WorkerStarts(w)
             \/ \E e \in Epochs \cup {None} : Create(w, e)
             \/ StartEpoch(w) \/ JoinEpoch(w)
             \/ Fire(w) \/ DeleteEpoch(w) \/ DeletePool(w)
             \/ Return(w) \/ FinishList(w) \/ EndEdt(w)
             \/ Wait(w) \/ Run(w) \/ SeeCompleted(w) \/ Resume(w)

----------------------------------------------------------------------------
Entries(e) == Cardinality(
  {<<w, i, j>> \in Workers \X Edts \X (1 .. Cardinality(Epochs) + 2) :
     /\ i \in DOMAIN s.stack[w] /\ j \in DOMAIN s.stack[w][i].list
     /\ s.stack[w][i].list[j] = e})
Waiting(e) == Cardinality({t \in Edts : s.edt[t].st = "ready" /\ s.edt[t].ep = e})

(* An epoch that goes on counts exactly the EDTs created in it that have   *)
(* not begun and the entries of the lists of the running and the suspended *)
(* EDTs: nested waits neither lose nor repeat a count (edt.c,              *)
(* arts_save_thread_local; termination.c, arts_wait_on_handle).            *)
EpochBalance == \A e \in Epochs :
  s.epoch[e].live => s.epoch[e].active - s.epoch[e].fin = Waiting(e) + Entries(e)

(* When an epoch completes, every EDT created in it, and every EDT created *)
(* by those, has ended or counts itself off no more, if the program nests  *)
(* its epochs (termination.c, increment_finished_epoch_impl).              *)
EndsAfterDescendants == \A e \in Epochs : s.epoch[e].completed /\ ~s.scene.free =>
  \A t \in Edts : e \in s.edt[t].anc => s.edt[t].st = "done" \/ \E w \in Workers :
      Busy(w) /\ Top(w).edt = t /\ Top(w).pc = "end" /\ ~Contains(Top(w).list, e)

(* Suspended EDTs never wait for each other in a circle: whenever no EDT   *)
(* is ready and no worker can go on, all EDTs have ended (termination.c,   *)
(* arts_wait_on_handle; the waits of one worker return in stack order).    *)
Stopped(w) == /\ s.fire[w].at = "no"
              /\ Busy(w) => Top(w).pc = "wait" /\ ~s.epoch[Top(w).on].completed
NoCircularWait ==
  (\A w \in Workers : Stopped(w)) /\ (\A t \in Edts : s.edt[t].st # "ready")
    => \A w \in Workers : ~Busy(w)

(* "Pool epoch: memory stays alive after delete_epoch (owned by pool)": no *)
(* EDT polls the flag of an epoch whose pool was freed.  It does not hold: *)
(* the worker of the pool frees it once its epochs are deleted.            *)
PolledPoolKept == \A w \in Workers : \A i \in DOMAIN s.stack[w] :
  LET f == s.stack[w][i] IN f.pc = "wait" => ~s.pool[PoolOf(f.on)].freed

(* auto_shutdown: the program is stopped when all its EDTs have ended.  It *)
(* does not hold: the workers count themselves off as they start, and the  *)
(* counts agree before there is a main EDT.                                *)
StopsWhenDone == s.auto.fired => \A t \in Edts : s.edt[t].st = "done"
=============================================================================
