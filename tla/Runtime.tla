------------------------------ MODULE Runtime ------------------------------
(***************************************************************************)
(* The life of the threads of one rank (libs/src/core/scheduler.c and      *)
(* system/threads.c): they start through a row of barriers, workers look   *)
(* for ready EDTs in their inbox, in their deque and in those of others,   *)
(* and sleep when they find none for long; an EDT or a packet shuts the    *)
(* rank down, and the threads leave through a last barrier.                *)
(*                                                                         *)
(* A deque is a sequence whose head is the front, and its operations are   *)
(* atomic here: module Deque has their steps.                              *)
(***************************************************************************)
EXTENDS Naturals, Sequences, FiniteSets, SequencesExt, TLC

CONSTANTS
  NThreads,    \* total_thread_count; threads are numbered from 0
  NWorkers,    \* worker_thread_count; workers have the lowest numbers
  NReceivers,  \* receiver_thread_count; after the workers
  Numa,        \* thread_numa_ids of the workers
  MaxSpinners, \* max_spinners
  NEdts,       \* EDT 1 is main_edt
  Spawns(_),   \* the EDTs that an EDT makes ready, in order
  Prefers(_),  \* numa_domain of an EDT
  Arrives,     \* EDTs that other ranks send
  Quits        \* sets of EDTs that call arts_shutdown: one is chosen

Threads == 0..(NThreads - 1)
Workers == 0..(NWorkers - 1)
Receivers == NWorkers..(NWorkers + NReceivers - 1)
Network == NWorkers..(NThreads - 1)
Edts == 1..NEdts

(* What the constants must be. *)
RuntimeAssumption ==
  /\ NWorkers \in Nat \ {0} /\ NWorkers + NReceivers <= NThreads
  /\ MaxSpinners \in 1..NWorkers /\ Arrives \subseteq Edts
  /\ Quits \subseteq SUBSET Edts

VARIABLES
  quits, started,  \* the EDTs that do; arts_shutdown_started
  count,       \* ready_to_push, _parallel_start, _inspect, _execute, _clean,
               \* and _network
  stage,       \* how many barriers a thread has left behind
  inside,      \* the threads that wait in the barrier of their stage
  registered,  \* local_spin is set
  alive,
  guids,       \* which generator makes GUIDs: "none", "global" or "own"
  pc,          \* what a thread does in its loop
  edt,         \* the EDT a worker runs, and how many it has made ready
  left,        \* how many threads arts_runtime_stop has still to signal
  deque, inbox,
  back_off,    \* 0: same NUMA domain only, 1: all of them, 2: may sleep
  spinning,    \* n_spinning
  seen,        \* EDTs that were ready
  freed        \* the threads whose deque is deleted

bvars == <<count, stage, inside, registered, guids>>
wvars == <<edt, left, deque, inbox, back_off, spinning, seen>>
vars == <<quits, started, bvars, alive, pc, wvars, freed>>

Barriers == <<"push", "parallel", "inspect", "execute">>

(* arts_runtime_node_init *)
Init ==
  /\ quits \in Quits /\ started = FALSE
  /\ count = [b \in {"push", "parallel", "inspect", "execute", "clean"} |->
                NThreads] @@ [b \in {"network"} |-> Cardinality(Network)]
  /\ stage = [t \in Threads |-> 0] /\ inside = {} /\ registered = {}
  /\ alive = [t \in Threads |-> FALSE]
  /\ guids = "none"
  /\ pc = [t \in Threads |-> "start"]
  /\ edt = [w \in Workers |-> [id |-> 0, made |-> 0]] /\ left = 0
  /\ deque = [t \in Threads |-> <<>>] /\ inbox = [w \in Workers |-> <<>>]
  /\ back_off = [w \in Workers |-> 0] /\ spinning = NWorkers
  /\ seen = {} /\ freed = {}

----------------------------------------------------------------------------
(* Starting: arts_runtime_private_init, arts_thread_zero_node_start.       *)

(* A thread registers its flag before it sets it. *)
Register(t) ==
  /\ pc[t] = "start" /\ t \notin registered
  /\ registered' = registered \cup {t}
  /\ UNCHANGED <<quits, started, count, stage, inside, guids, alive, pc, wvars, freed>>

SetAlive(t) ==
  /\ pc[t] = "start" /\ t \in registered
  /\ alive' = [alive EXCEPT ![t] = TRUE]
  /\ pc' = [pc EXCEPT ![t] = "barrier"]
  /\ UNCHANGED <<quits, started, bvars, wvars, freed>>

(* Thread 0 makes the GUIDs of init_per_node with the global generator and *)
(* then lets every thread use its own, before it joins the second barrier. *)
NodeStart ==
  /\ pc[0] = "barrier" /\ stage[0] = 1 /\ 0 \notin inside /\ guids # "own"
  /\ guids' = IF guids = "none" THEN "global" ELSE "own"
  /\ UNCHANGED <<quits, started, count, stage, inside, registered, alive, pc, wvars>>
  /\ UNCHANGED freed

(* arts_atomic_sub on the counter of a barrier, and leaving it at 0 *)
Enter(t) ==
  LET b == Barriers[stage[t] + 1] IN
  /\ pc[t] = "barrier" /\ t \notin inside
  /\ t = 0 /\ stage[t] = 1 => guids = "own"
  /\ count' = [count EXCEPT ![b] = @ - 1]
  /\ inside' = inside \cup {t}
  /\ UNCHANGED <<quits, started, stage, registered, guids, alive, pc, wvars, freed>>

(* Mutant: the last thread to come is not waited for. *)
LeaveEarly(t) ==
  /\ pc[t] = "barrier" /\ t \in inside /\ count[Barriers[stage[t] + 1]] <= 1
  /\ inside' = inside \ {t}
  /\ stage' = [stage EXCEPT ![t] = @ + 1]
  /\ pc' = [pc EXCEPT ![t] = IF stage[t] + 1 < Len(Barriers) THEN "barrier"
                             ELSE IF t = 0 THEN "main" ELSE "loop"]
  /\ count' = IF stage[t] + 1 = Len(Barriers) /\ t \in Network
              THEN [count EXCEPT !["network"] = @ - 1] ELSE count
  /\ UNCHANGED <<quits, started, registered, guids, alive, wvars, freed>>

Leave(t) ==
  /\ pc[t] = "barrier" /\ t \in inside /\ count[Barriers[stage[t] + 1]] = 0
  /\ inside' = inside \ {t}
  /\ stage' = [stage EXCEPT ![t] = @ + 1]
  /\ pc' = [pc EXCEPT ![t] = IF stage[t] + 1 < Len(Barriers) THEN "barrier"
                             ELSE IF t = 0 THEN "main" ELSE "loop"]
  /\ count' = IF stage[t] + 1 = Len(Barriers) /\ t \in Network
              THEN [count EXCEPT !["network"] = @ - 1] ELSE count
  /\ UNCHANGED <<quits, started, registered, guids, alive, wvars, freed>>

----------------------------------------------------------------------------
(* Making an EDT ready.                                                    *)

(* arts_pick_worker_for_numa *)
pick_worker_for_numa(numa, start) ==
  LET near == SelectSeq([i \in 1..NWorkers |-> i - 1], LAMBDA w : Numa[w] = numa)
  IN IF near # <<>> THEN near[(start % Len(near)) + 1] ELSE start % NWorkers

(* arts_enqueue_ready_cpu_edt by thread t: arts_pick_ready_worker starts   *)
(* anywhere.                                                               *)
EnqueueReady(t, e, start) ==
  LET w == pick_worker_for_numa(Prefers(e), start) IN
  /\ IF t = w
     THEN deque' = [deque EXCEPT ![w] = <<e>> \o @] /\ UNCHANGED inbox
     ELSE inbox' = [inbox EXCEPT ![w] = Append(@, e)] /\ UNCHANGED deque
  /\ seen' = seen \cup {e}

(* main_edt, once the network threads run *)
CreateMain(start) ==
  /\ pc[0] = "main" /\ count["network"] = 0
  /\ EnqueueReady(0, 1, start)
  /\ pc' = [pc EXCEPT ![0] = "wakeloop"]
  /\ UNCHANGED <<quits, started, bvars, alive, edt, left, back_off, spinning, freed>>

(* arts_wake_one_worker after an EDT was made ready: one that sleeps wakes *)
Asleep == {w \in Workers : pc[w] = "asleep"}
After == [wakeloop |-> "loop", wakerun |-> "run"]

Wake(t) ==
  /\ pc[t] \in {"wakeloop", "wakerun"}
  /\ IF spinning >= NWorkers \/ Asleep = {}
     THEN pc' = [pc EXCEPT ![t] = After[pc[t]]]
     ELSE \E w \in Asleep :
            pc' = [pc EXCEPT ![t] = After[pc[t]], ![w] = "woken"]
  /\ UNCHANGED <<quits, started, bvars, alive, wvars, freed>>

(* arts_handle_remote_stolen_edt by a receiver: into its own deque, which  *)
(* is the receiver_deque of its position                                   *)
Arrive(t, e) ==
  /\ t \in Receivers /\ pc[t] = "loop" /\ alive[t]
  /\ e \in Arrives \ seen
  /\ deque' = [deque EXCEPT ![t] = <<e>> \o @] /\ seen' = seen \cup {e}
  /\ pc' = [pc EXCEPT ![t] = "wakeloop"]
  /\ UNCHANGED <<quits, started, bvars, alive, edt, left, inbox, back_off, spinning>>
  /\ UNCHANGED freed

----------------------------------------------------------------------------
(* A worker looks for an EDT: arts_find_edt.                               *)

(* arts_runtime_steal_from_worker: the workers it may rob, those of its    *)
(* own NUMA domain first, in the order of the search                       *)
Victims(w, start) ==
  LET order == [i \in 1..NWorkers |-> (start + i - 1) % NWorkers]
      same == SelectSeq(order, LAMBDA v : v # w /\ Numa[v] = Numa[w])
      other == SelectSeq(order, LAMBDA v : Numa[v] # Numa[w])
  IN IF back_off[w] > 0 THEN same \o other ELSE same

HasWork(v) == deque[v] # <<>> \/ inbox[v] # <<>>

(* arts_runtime_steal_from_network *)
Receiver == {r \in Receivers : deque[r] # <<>>}

Run(w, e) ==
  /\ edt' = [edt EXCEPT ![w] = [id |-> e, made |-> 0]]
  /\ back_off' = [back_off EXCEPT ![w] = 0]

(* arts_runtime_pop_ready_inbox *)
TakeInbox(w) ==
  /\ inbox' = [inbox EXCEPT ![w] = Tail(@)] /\ UNCHANGED deque
  /\ Run(w, Head(inbox[w])) /\ pc' = [pc EXCEPT ![w] = "run"]

TakeOwn(w) ==
  /\ deque' = [deque EXCEPT ![w] = Tail(@)] /\ UNCHANGED inbox
  /\ Run(w, Head(deque[w])) /\ pc' = [pc EXCEPT ![w] = "run"]

(* arts_try_steal_from_worker: half of the deque of v, from its back, or   *)
(* the oldest of its inbox; what it does not run goes into its own deque,  *)
(* and another worker is woken.                                            *)
Steal(w, v) ==
  IF deque[v] = <<>>
  THEN /\ inbox' = [inbox EXCEPT ![v] = Tail(@)] /\ UNCHANGED deque
       /\ Run(w, Head(inbox[v])) /\ pc' = [pc EXCEPT ![w] = "run"]
  ELSE LET n == Len(deque[v])
           k == IF n = 1 THEN 1 ELSE n \div 2
           rest == SubSeq(deque[v], n - k + 1, n - 1)
       IN /\ deque' = [deque EXCEPT ![v] = SubSeq(@, 1, n - k),
                                    ![w] = rest \o @]
          /\ UNCHANGED inbox
          /\ Run(w, deque[v][n])
          /\ pc' = [pc EXCEPT ![w] = IF k > 1 THEN "wakerun" ELSE "run"]

StealNetwork(w) ==
  \E r \in Receiver :
    /\ deque' = [deque EXCEPT ![r] = Front(@)] /\ UNCHANGED inbox
    /\ Run(w, Last(deque[r])) /\ pc' = [pc EXCEPT ![w] = "run"]

FindEdt(w, start) ==
  LET vs == SelectSeq(Victims(w, start), HasWork) IN
  /\ pc[w] = "loop" /\ alive[w]
  /\ \/ inbox[w] # <<>> /\ TakeInbox(w)
     \/ inbox[w] = <<>> /\ deque[w] # <<>> /\ TakeOwn(w)
     \/ ~HasWork(w) /\ vs # <<>> /\ Steal(w, vs[1])
     \/ ~HasWork(w) /\ vs = <<>> /\ Receiver # {} /\ StealNetwork(w)
  /\ UNCHANGED <<quits, started, bvars, alive, left, spinning, seen, freed>>

(* Mutant: the last spinner sleeps too. *)
BackOffAll(w) ==
  /\ pc[w] = "loop" /\ alive[w] /\ ~HasWork(w)
  /\ IF back_off[w] < 2
     THEN back_off' = [back_off EXCEPT ![w] = @ + 1] /\ UNCHANGED <<spinning, pc>>
     ELSE /\ spinning > 0
          /\ spinning' = spinning - 1 /\ pc' = [pc EXCEPT ![w] = "dosleep"]
          /\ UNCHANGED back_off
  /\ UNCHANGED <<quits, started, bvars, alive, edt, left, deque, inbox, seen, freed>>

(* ... or finds none, perhaps because other thieves were faster, and backs *)
(* off: arts_runtime_idle_backoff, and arts_worker_try_sleep up to the     *)
(* lock                                                                    *)
BackOff(w) ==
  /\ pc[w] = "loop" /\ alive[w] /\ ~HasWork(w)
  /\ IF back_off[w] < 2
     THEN back_off' = [back_off EXCEPT ![w] = @ + 1] /\ UNCHANGED <<spinning, pc>>
     ELSE /\ spinning > MaxSpinners
          /\ spinning' = spinning - 1 /\ pc' = [pc EXCEPT ![w] = "dosleep"]
          /\ UNCHANGED back_off
  /\ UNCHANGED <<quits, started, bvars, alive, edt, left, deque, inbox, seen, freed>>

(* Mutant: it does not look again whether it is to stop. *)
SleepBlind(w) ==
  /\ pc[w] = "dosleep"
  /\ pc' = [pc EXCEPT ![w] = "asleep"]
  /\ UNCHANGED <<quits, started, bvars, alive, wvars, freed>>

(* ... with the lock: unless it is to stop, it waits to be woken. *)
Sleep(w) ==
  /\ pc[w] = "dosleep"
  /\ pc' = [pc EXCEPT ![w] = IF alive[w] THEN "asleep" ELSE "woken"]
  /\ UNCHANGED <<quits, started, bvars, alive, wvars, freed>>

Resume(w) ==
  /\ pc[w] = "woken"
  /\ spinning' = spinning + 1
  /\ back_off' = [back_off EXCEPT ![w] = 0]
  /\ pc' = [pc EXCEPT ![w] = "loop"]
  /\ UNCHANGED <<quits, started, bvars, alive, edt, left, deque, inbox, seen, freed>>

----------------------------------------------------------------------------
(* arts_run_edt.                                                           *)

(* The EDT makes the next one ready. *)
Spawn(w, start) ==
  LET r == edt[w] IN
  /\ pc[w] = "run" /\ r.made < Len(Spawns(r.id))
  /\ EnqueueReady(w, Spawns(r.id)[r.made + 1], start)
  /\ edt' = [edt EXCEPT ![w].made = @ + 1]
  /\ pc' = [pc EXCEPT ![w] = "wakerun"]
  /\ UNCHANGED <<quits, started, bvars, alive, left, back_off, spinning, freed>>

(* arts_shutdown, and arts_runtime_stop: one thread after the other, then  *)
(* those that sleep                                                        *)
BeginStop(w) ==
  /\ pc[w] = "run" /\ edt[w].made = Len(Spawns(edt[w].id))
  /\ edt[w].id \in quits
  /\ started' = TRUE
  /\ left' = IF started THEN left ELSE NThreads
  /\ pc' = [pc EXCEPT ![w] = IF started THEN "end" ELSE "stop"]
  /\ UNCHANGED <<quits, bvars, alive, edt, deque, inbox, back_off, spinning>>
  /\ UNCHANGED <<seen, freed>>

StopOne(w) ==
  LET t == NThreads - left IN
  /\ pc[w] = "stop" /\ left > 0 /\ t \in registered
  /\ alive' = [alive EXCEPT ![t] = FALSE]
  /\ left' = left - 1
  /\ UNCHANGED <<quits, started, bvars, pc, edt, deque, inbox, back_off, spinning>>
  /\ UNCHANGED <<seen, freed>>

Broadcast(w) ==
  /\ pc[w] = "stop" /\ left = 0
  /\ pc' = [t \in Threads |-> IF t = w THEN "end"
                              ELSE IF pc[t] = "asleep" THEN "woken" ELSE pc[t]]
  /\ UNCHANGED <<quits, started, bvars, alive, wvars, freed>>

Finish(w) ==
  /\ \/ pc[w] = "end"
     \/ pc[w] = "run" /\ edt[w].made = Len(Spawns(edt[w].id))
        /\ edt[w].id \notin quits
  /\ edt' = [edt EXCEPT ![w] = [id |-> 0, made |-> 0]]
  /\ pc' = [pc EXCEPT ![w] = "loop"]
  /\ UNCHANGED <<quits, started, bvars, alive, left, deque, inbox, back_off, spinning>>
  /\ UNCHANGED <<seen, freed>>

----------------------------------------------------------------------------
(* arts_runtime_loop ends; arts_runtime_private_cleanup.                   *)
Exit(t) ==
  /\ pc[t] = "loop" /\ ~alive[t]
  /\ count' = [count EXCEPT !["clean"] = @ - 1]
  /\ pc' = [pc EXCEPT ![t] = "clean"]
  /\ UNCHANGED <<quits, started, stage, inside, registered, guids, alive, wvars, freed>>

(* Mutant: a thread deletes its deque without waiting for the others. *)
DeleteEarly(t) ==
  /\ pc[t] = "clean"
  /\ freed' = freed \cup {t}
  /\ pc' = [pc EXCEPT ![t] = "gone"]
  /\ UNCHANGED <<quits, started, bvars, alive, wvars>>

Delete(t) ==
  /\ pc[t] = "clean" /\ count["clean"] = 0
  /\ freed' = freed \cup {t}
  /\ pc' = [pc EXCEPT ![t] = "gone"]
  /\ UNCHANGED <<quits, started, bvars, alive, wvars>>

(* arts_thread_main_join: thread 0 waits for the others, and               *)
(* arts_runtime_global_cleanup frees what the threads shared.              *)
Join ==
  /\ \A t \in Threads : pc[t] = "gone"
  /\ pc' = [pc EXCEPT ![0] = "joined"]
  /\ UNCHANGED <<quits, started, bvars, alive, wvars, freed>>

Starts(t) == Register(t) \/ SetAlive(t) \/ Enter(t) \/ Leave(t)
Works(w) ==
  \/ \E start \in Workers : FindEdt(w, start) \/ Spawn(w, start)
  \/ BackOff(w) \/ Sleep(w) \/ Resume(w)
  \/ BeginStop(w) \/ StopOne(w) \/ Broadcast(w) \/ Finish(w)

Next ==
  \/ NodeStart \/ Join \/ \E start \in Workers : CreateMain(start)
  \/ \E t \in Threads : Starts(t) \/ Wake(t) \/ Exit(t) \/ Delete(t)
  \/ \E w \in Workers : Works(w)
  \/ \E t \in Receivers, e \in Arrives : Arrive(t, e)

(* Every thread that runs goes on running. *)
Fairness ==
  /\ WF_vars(NodeStart \/ Join \/ \E start \in Workers : CreateMain(start))
  /\ \A t \in Threads : WF_vars(Starts(t) \/ Wake(t) \/ Exit(t) \/ Delete(t))
  /\ \A w \in Workers : WF_vars(Works(w))

Spec == Init /\ [][Next]_vars /\ Fairness

----------------------------------------------------------------------------
(* An EDT runs only when every thread has finished its initialisation and  *)
(* makes its own GUIDs, and main_edt exists only when the network threads  *)
(* are in their loops.                                                     *)
StartsInOrder ==
  /\ (\E w \in Workers : edt[w].id # 0) =>
       guids = "own" /\ \A t \in Threads : stage[t] >= Len(Barriers) - 1
  /\ 1 \in seen => \A t \in Network : stage[t] = Len(Barriers)

(* While a thread can still steal, no deque is deleted. *)
DequesOutlive ==
  freed # {} => \A t \in Threads : pc[t] \in {"clean", "gone", "joined"}

(* An EDT that is ready is run, although a worker may miss the signal that *)
(* is meant for it and go to sleep, and may not rob other NUMA domains     *)
(* before it has backed off; unless the rank shuts down first.             *)
Queued(e) ==
  \/ \E t \in Threads : e \in Range(deque[t])
  \/ \E w \in Workers : e \in Range(inbox[w])
Stopping == \E t \in Threads : stage[t] = Len(Barriers) /\ ~alive[t]
ReadyRuns == \A e \in Edts : Queued(e) ~> (~Queued(e) \/ Stopping)

(* When the rank is shut down, by one EDT or by two at a time, every       *)
(* thread ends, also one that was about to sleep when it was told to stop, *)
(* and thread 0 joins them.                                                *)
StopsAll == Stopping ~> pc[0] = "joined"
=============================================================================
