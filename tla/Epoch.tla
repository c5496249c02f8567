------------------------------- MODULE Epoch -------------------------------
(***************************************************************************)
(* The detection of the end of an epoch (libs/src/core/sync/termination.c).*)
(* Each rank counts the EDTs it creates for the epoch (active), those that *)
(* end on it (finished) and those ready or running on it (queued).  When   *)
(* the queue of the owner drains it asks the other ranks for their counts; *)
(* a rank answers when its queue is empty.  The epoch is over when active  *)
(* and finished are equal, and the same, in two successive rounds.  With   *)
(* one rank the last EDT to finish ends the epoch itself.                  *)
(***************************************************************************)
EXTENDS Integers, Sequences, FiniteSets

CONSTANTS
  Ranks,
  Worlds,    \* the configurations explored: which ranks take part, on which of
             \* them EDTs are created, and the number of workers of a rank
  Owner,     \* the rank of the epoch's GUID
  Edts,
  Root,      \* the EDT that starts the epoch, on the owner
  Receivers  \* the number of receiver threads of the owner

(* What the constants must be. *)
EpochAssumption ==
  /\ Owner \in Ranks /\ Root \in Edts
  /\ Worlds \subseteq [ranks : SUBSET Ranks, places : SUBSET Ranks,
                       workers : Nat \ {0}]
  /\ \A w \in Worlds : Owner \in w.ranks /\ w.places \subseteq w.ranks
  /\ IsFiniteSet(Ranks)

VARIABLES
  world,        \* the member of Worlds this behaviour is about
  st,           \* where an EDT is
  at,           \* its rank
  active, finished, queued,
  bit,          \* EPOCH_BIT of queued: nobody waits for the counts
  snap,         \* the counts an EDT saw as it finished
  req,          \* requests on their way to a rank
  spc, ssnap,   \* where send_epoch is on a rank, and what it has read
  resp,         \* answers on their way to the owner
  rpc, rsum,    \* where reduce_epoch is with the answer of a rank; its sums
  global,       \* global_active_count, global_finished_count
  outstanding, phase, last,
  fired         \* how often the epoch has been signalled

evars == <<st, at, snap>>
cvars == <<active, finished, queued, bit>>
svars == <<req, spc, ssnap, resp>>
rvars == <<rpc, rsum, global, phase, last, fired>>
vars == <<world, evars, cvars, svars, rvars, outstanding>>

N == Cardinality(world.ranks)
Others == world.ranks \ {Owner}
Zero == [a |-> 0, f |-> 0]

(* arts_initialize_and_start_epoch: the EDT that starts the epoch counts. *)
Init ==
  /\ world \in Worlds
  /\ st = [t \in Edts |-> IF t = Root THEN "running" ELSE "none"]
  /\ at = [t \in Edts |-> Owner]
  /\ active = [r \in Ranks |-> IF r = Owner THEN 1 ELSE 0]
  /\ queued = active
  /\ finished = [r \in Ranks |-> 0]
  /\ bit = [r \in Ranks |-> r # Owner]
  /\ snap = [t \in Edts |-> Zero]
  /\ req = [r \in Ranks |-> 0]
  /\ spc = [r \in Ranks |-> "idle"] /\ ssnap = [r \in Ranks |-> Zero]
  /\ resp = [r \in Ranks |-> <<>>]
  /\ rpc = [r \in Ranks |-> "idle"] /\ rsum = [r \in Ranks |-> Zero]
  /\ global = Zero
  /\ outstanding = 0 /\ phase = 1 /\ last = Zero
  /\ fired = 0

Goto(t, l) == st' = [st EXCEPT ![t] = l]
Inc(c, r) == [c EXCEPT ![r] = @ + 1]

----------------------------------------------------------------------------
(* EDTs *)

(* Its worker is not still in increment_finished_epoch for another EDT. *)
HasWorker(t) ==
  world.workers = 1 =>
    \A u \in Edts \ {t} : at[u] = at[t] => st[u] \notin {"drain", "kick", "fire"}

(* increment_active_epoch on the rank of the creator; the EDT goes to its   *)
(* own rank and waits there for its dependences.                            *)
Create(t, u, r) ==
  /\ st[t] = "running" /\ HasWorker(t) /\ st[u] = "none" /\ r \in world.places
  /\ active' = Inc(active, at[t])
  /\ Goto(u, "waiting")
  /\ at' = [at EXCEPT ![u] = r]
  /\ UNCHANGED <<world, finished, queued, bit, snap, svars, rvars, outstanding>>

(* increment_queue_epoch: it is ready and will run. *)
Ready(u) ==
  /\ st[u] = "waiting"
  /\ queued' = Inc(queued, at[u])
  /\ Goto(u, "running")
  /\ UNCHANGED <<world, active, finished, bit, at, snap, svars, rvars,
                 outstanding>>

(* increment_finished_epoch: one atomic step counts the EDT and reads both  *)
(* counters.                                                                *)
Finish(t) ==
  LET r == at[t]
      f == finished[r] + 1
  IN  /\ st[t] = "running" /\ HasWorker(t)
      /\ finished' = Inc(finished, r)
      /\ snap' = [snap EXCEPT ![t] = [a |-> active[r], f |-> f]]
      /\ Goto(t, IF N > 1 THEN "drain"
                 ELSE IF f = active[r] THEN "fire" ELSE "done")
      /\ UNCHANGED <<world, active, queued, bit, at, svars, rvars, outstanding>>

(* One rank: the CAS on phase lets one EDT end the epoch. *)
Fire(t) ==
  /\ st[t] = "fire"
  /\ phase' = 3
  /\ fired' = IF phase = 1 THEN fired + 1 ELSE fired
  /\ Goto(t, "done")
  /\ UNCHANGED <<world, at, snap, cvars, svars, rpc, rsum, global, last,
                 outstanding>>

Drain_Owner(t) ==
  /\ st[t] = "drain" /\ at[t] = Owner
  /\ queued' = [queued EXCEPT ![Owner] = @ - 1]
  /\ Goto(t, IF queued[Owner] = 1 THEN "kick" ELSE "done")
  /\ UNCHANGED <<world, active, finished, bit, at, snap, svars, rvars,
                 outstanding>>

(* broadcast_epoch_request *)
Broadcast == req' = [r \in Ranks |-> IF r \in Others THEN req[r] + 1 ELSE 0]

(* Mutant: a round is started even if one is open. *)
Kick_Always(t) ==
  /\ st[t] = "kick"
  /\ outstanding' = N /\ Broadcast
  /\ Goto(t, "done")
  /\ UNCHANGED <<world, at, snap, cvars, spc, ssnap, resp, rvars>>

(* The CAS on outstanding: a round is started unless one is open. *)
Kick(t) ==
  /\ st[t] = "kick"
  /\ IF outstanding = 0
     THEN outstanding' = N /\ Broadcast
     ELSE UNCHANGED <<outstanding, req>>
  /\ Goto(t, "done")
  /\ UNCHANGED <<world, at, snap, cvars, spc, ssnap, resp, rvars>>

(* Mutant: the last one out leaves the answer to the next request. *)
Drain_Other_Silent(t) ==
  LET r == at[t]
  IN  /\ st[t] = "drain" /\ r # Owner
      /\ queued' = [queued EXCEPT ![r] = @ - 1]
      /\ Goto(t, "done")
      /\ UNCHANGED <<world, active, finished, bit, at, snap, svars, rvars,
                     outstanding>>

(* decrement_queue_epoch: the last one out answers if a request waits. *)
Drain_Other(t) ==
  LET r == at[t]
      answers == queued[r] = 1 /\ ~bit[r]
  IN  /\ st[t] = "drain" /\ r # Owner
      /\ queued' = [queued EXCEPT ![r] = @ - 1]
      /\ bit' = IF answers THEN [bit EXCEPT ![r] = TRUE] ELSE bit
      /\ resp' = IF answers THEN [resp EXCEPT ![r] = Append(@, snap[t])] ELSE resp
      /\ Goto(t, "done")
      /\ UNCHANGED <<world, active, finished, at, snap, req, spc, ssnap, rvars,
                     outstanding>>

----------------------------------------------------------------------------
(* send_epoch on another rank *)

Send_Clear(r) ==
  /\ req[r] > 0 /\ spc[r] = "idle"
  /\ req' = [req EXCEPT ![r] = @ - 1]
  /\ bit' = [bit EXCEPT ![r] = FALSE]
  /\ spc' = [spc EXCEPT ![r] = "claim"]
  /\ UNCHANGED <<world, evars, active, finished, queued, ssnap, resp, rvars,
                 outstanding>>

(* The CAS of queued from 0 to EPOCH_BIT. *)
Send_Claim(r) ==
  LET empty == queued[r] = 0 /\ ~bit[r]
  IN  /\ spc[r] = "claim"
      /\ bit' = IF empty THEN [bit EXCEPT ![r] = TRUE] ELSE bit
      /\ spc' = [spc EXCEPT ![r] = IF empty THEN "read" ELSE "idle"]
      /\ UNCHANGED <<world, evars, active, finished, queued, req, ssnap, resp,
                     rvars,
                     outstanding>>

(* The two counts are read one after the other, in either order. *)
Send_Active(r) ==
  /\ spc[r] \in {"read", "active"}
  /\ ssnap' = [ssnap EXCEPT ![r].a = active[r]]
  /\ spc' = [spc EXCEPT ![r] = IF @ = "read" THEN "finished" ELSE "send"]
  /\ UNCHANGED <<world, evars, cvars, req, resp, rvars, outstanding>>

Send_Finished(r) ==
  /\ spc[r] \in {"read", "finished"}
  /\ ssnap' = [ssnap EXCEPT ![r].f = finished[r]]
  /\ spc' = [spc EXCEPT ![r] = IF @ = "read" THEN "active" ELSE "send"]
  /\ UNCHANGED <<world, evars, cvars, req, resp, rvars, outstanding>>

(* arts_remote_epoch_send *)
Send(r) ==
  /\ spc[r] = "send"
  /\ resp' = [resp EXCEPT ![r] = Append(@, ssnap[r])]
  /\ spc' = [spc EXCEPT ![r] = "idle"]
  /\ UNCHANGED <<world, evars, cvars, req, ssnap, rvars, outstanding>>

----------------------------------------------------------------------------
(* reduce_epoch on the owner, with the answer of rank r *)

GotoR(r, l) == rpc' = [rpc EXCEPT ![r] = l]
Plus(x, y) == [a |-> x.a + y.a, f |-> x.f + y.f]

(* The answer is added to the sums of the round, if one is open. *)
Reduce_Add(r) ==
  LET sum == Plus(global, Head(resp[r]))
  IN  /\ resp[r] # <<>> /\ rpc[r] = "idle" /\ phase # 3
      /\ Receivers = 1 => \A o \in Ranks : rpc[o] = "idle"
      /\ resp' = [resp EXCEPT ![r] = Tail(@)]
      /\ IF outstanding <= 1
         THEN UNCHANGED <<global, rsum, rpc>>
         ELSE /\ global' = sum
              /\ rsum' = [rsum EXCEPT ![r] = sum]
              /\ GotoR(r, "count")
      /\ UNCHANGED <<world, evars, cvars, req, spc, ssnap, phase, last, fired,
                     outstanding>>

(* The CAS loop on outstanding.  The round cannot have been closed since    *)
(* the answer was added: it is one of those the round waits for.            *)
Reduce_Count(r) ==
  /\ rpc[r] = "count"
  /\ outstanding' = outstanding - 1
  /\ GotoR(r, IF outstanding = 2 THEN "active" ELSE "idle")
  /\ UNCHANGED <<world, evars, cvars, svars, rsum, global, phase, last, fired>>

(* The last answer: add the owner's own counts. *)
Reduce_Active(r) ==
  /\ rpc[r] = "active"
  /\ rsum' = [rsum EXCEPT ![r].a = @ + active[Owner]]
  /\ GotoR(r, "finished")
  /\ UNCHANGED <<world, evars, cvars, svars, global, phase, last, fired,
                 outstanding>>

Reduce_Finished(r) ==
  /\ rpc[r] = "finished"
  /\ rsum' = [rsum EXCEPT ![r].f = @ + finished[Owner]]
  /\ global' = Zero
  /\ GotoR(r, "check")
  /\ UNCHANGED <<world, evars, cvars, svars, phase, last, fired, outstanding>>

(* Mutant: one round is enough. *)
Check_Once(r) ==
  LET balanced == rsum[r].f > 0 /\ rsum[r].a = rsum[r].f
  IN  /\ rpc[r] = "check"
      /\ IF balanced
         THEN /\ phase' = 3 /\ fired' = fired + 1
              /\ GotoR(r, "close")
         ELSE /\ phase' = 1 /\ UNCHANGED fired
              /\ GotoR(r, IF queued[Owner] = 0 THEN "next" ELSE "close")
      /\ UNCHANGED <<world, evars, cvars, svars, rsum, global, last,
                     outstanding>>

(* check_epoch *)
Check(r) ==
  LET balanced == rsum[r].f > 0 /\ rsum[r].a = rsum[r].f
      again == phase = 2 /\ last = rsum[r]
  IN  /\ rpc[r] = "check"
      /\ phase' = IF ~balanced THEN 1 ELSE IF again THEN 3 ELSE 2
      /\ fired' = IF balanced /\ again THEN fired + 1 ELSE fired
      /\ last' = IF balanced THEN rsum[r] ELSE last
      /\ GotoR(r, IF balanced
                  THEN IF again THEN "close" ELSE "next"
                  ELSE IF queued[Owner] = 0 THEN "next" ELSE "close")
      /\ UNCHANGED <<world, evars, cvars, svars, rsum, global, outstanding>>

(* Another round ... *)
Reduce_Next(r) ==
  /\ rpc[r] = "next"
  /\ outstanding' = outstanding + N - 1
  /\ Broadcast
  /\ GotoR(r, "idle")
  /\ UNCHANGED <<world, evars, cvars, spc, ssnap, resp, rsum, global, phase,
                 last, fired>>

(* ... or none: the next EDT that drains the queue of the owner starts it.  *)
Reduce_Close(r) ==
  /\ rpc[r] = "close"
  /\ outstanding' = outstanding - 1
  /\ GotoR(r, "idle")
  /\ UNCHANGED <<world, evars, cvars, svars, rsum, global, phase, last, fired>>

----------------------------------------------------------------------------
Edt(t) ==
  \/ \E u \in Edts, r \in Ranks : Create(t, u, r)
  \/ Ready(t) \/ Finish(t) \/ Fire(t)
  \/ Drain_Owner(t) \/ Kick(t) \/ Drain_Other(t)

(* A rank goes on: what it has to do without being asked by the user. *)
EdtGoesOn(t) ==
  \/ Ready(t) \/ Finish(t) \/ Fire(t)
  \/ Drain_Owner(t) \/ Kick(t) \/ Drain_Other(t)

SendEpoch(r) ==
  \/ Send_Clear(r) \/ Send_Claim(r)
  \/ Send_Active(r) \/ Send_Finished(r) \/ Send(r)

ReduceEpoch(r) ==
  \/ Reduce_Add(r) \/ Reduce_Count(r) \/ Reduce_Active(r) \/ Reduce_Finished(r)
  \/ Check(r) \/ Reduce_Next(r) \/ Reduce_Close(r)

Next ==
  \/ \E t \in Edts : Edt(t)
  \/ \E r \in Ranks \ {Owner} : SendEpoch(r) \/ ReduceEpoch(r)

Spec == Init /\ [][Next]_vars

(* Threads run on, EDTs get their dependences and end, messages arrive. *)
Fairness ==
  /\ \A t \in Edts : WF_vars(EdtGoesOn(t))
  /\ \A r \in Ranks \ {Owner} : WF_vars(SendEpoch(r)) /\ WF_vars(ReduceEpoch(r))

LiveSpec == Spec /\ Fairness

----------------------------------------------------------------------------
(* Properties *)

EdtStates == {"none", "waiting", "running", "drain", "kick", "fire", "done"}
Counts == [a : Nat, f : Nat]

(* Every variable has its type: no count goes below zero, in particular     *)
(* queued and outstanding, which are unsigned.                              *)
TypeOK ==
  /\ world \in Worlds
  /\ st \in [Edts -> EdtStates] /\ at \in [Edts -> Ranks]
  /\ snap \in [Edts -> Counts]
  /\ active \in [Ranks -> Nat] /\ finished \in [Ranks -> Nat]
  /\ queued \in [Ranks -> Nat] /\ bit \in [Ranks -> BOOLEAN]
  /\ req \in [Ranks -> Nat]
  /\ spc \in [Ranks -> {"idle", "claim", "read", "active", "finished", "send"}]
  /\ ssnap \in [Ranks -> Counts] /\ resp \in [Ranks -> Seq(Counts)]
  /\ rpc \in [Ranks -> {"idle", "count", "active", "finished", "check", "next",
                        "close"}]
  /\ rsum \in [Ranks -> Counts] /\ global \in Counts
  /\ outstanding \in 0 .. N /\ phase \in 1 .. 3 /\ last \in Counts
  /\ fired \in Nat

Live == {t \in Edts : st[t] \in {"waiting", "running"}}
Over == {t \in Edts : st[t] \in {"drain", "kick", "fire", "done"}}

(* The epoch fires once, when every EDT created in it, however deep, has    *)
(* finished: "When the epoch detects global quiescence (no active or        *)
(* pending tasks remain)" it satisfies the EDT that waits for it.           *)
Q == INSTANCE Quiescence WITH live <- Live, over <- Over
EndsAtQuiescence == Q!Spec

(* A rank asked for its counts answers once: each request still to be       *)
(* answered is counted in outstanding, and in nothing else, so no answer is *)
(* ignored as one that no round waits for; and no count goes below zero     *)
(* (TypeOK).                                                                *)
Asked(r) ==
  req[r] + Len(resp[r])
  + (IF ~bit[r] THEN 1 ELSE 0)
  + (IF spc[r] \in {"read", "active", "finished", "send"} THEN 1 ELSE 0)
  + (IF rpc[r] = "count" THEN 1 ELSE 0)
OneAnswerEach ==
  /\ TypeOK
  /\ \A r \in Others : Asked(r) <= 1 /\ (Asked(r) = 1 => outstanding > 1)

(* The epoch is over in the end. *)
EventuallyFires == <>(fired > 0)

(* It is unless an EDT other than the root runs on the owner of a           *)
(* distributed epoch: with the root alone the queue of the owner drains     *)
(* once, and every round that is not the last is followed by another.       *)
OwnerRunsMore ==
  N > 1 /\ \E t \in Edts \ {Root} : st[t] # "none" /\ at[t] = Owner
=============================================================================
