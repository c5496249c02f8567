----------------------------- MODULE MCCluster -----------------------------
(***************************************************************************)
(* Memory and Epoch for TLC, in one run: a behaviour is about one of them, *)
(* its part; an epoch that a behaviour is not about stays as it is at      *)
(* first, and the variables of Memory keep the value 0.  An epoch is that  *)
(* of one rank with two workers, or with one worker each of two ranks with *)
(* EDTs on both or of three with EDTs on the two that do not own it; two   *)
(* runs have an epoch of two ranks with two workers each.                  *)
(***************************************************************************)
EXTENDS Epoch, TLC

CONSTANT Programs  \* the scenes of Memory

VARIABLES
  part,  \* "memory" or "epoch"
  scene, s

----------------------------------------------------------------------------
(* Memory: three ranks, a datablock 1 of rank 0 and a datablock 2 of rank   *)
(* 1, and three EDTs *)
MCRanks == {0, 1, 2}
MCEdts == {"a", "b", "c"}
MCOwner == (1 :> 0) @@ (2 :> 1)
M == INSTANCE Memory WITH
       Dbs <- {1, 2}, Owner <- MCOwner, Edts <- MCEdts, Scenes <- Programs

(* Its operators on programs, to say which ones are explored *)
P == INSTANCE Memory WITH
       Dbs <- {1, 2}, Owner <- MCOwner, Edts <- MCEdts, Scenes <- {}

abc(x, y, z) == ("a" :> x) @@ ("b" :> y) @@ ("c" :> z)
Use(d, m) == <<[db |-> d, mode |-> m]>>
None == [e \in MCEdts |-> {}]
Chain == abc({"b"}, {"c"}, {})

Program(on, deps, signals, early) ==
  [on |-> on, deps |-> deps, signals |-> signals,
   early |-> [e \in MCEdts |-> early],
   makes |-> None, puts |-> None, destroys |-> None, waits |-> None]

(* The owner writes and all ranks read. *)
Writing ==
  {Program(abc(0, y, z), abc(Use(1, "EW"), Use(1, m), Use(1, n)), g, FALSE) :
     y \in {0, 1}, z \in {0, 2}, m \in {"RO", "SLICE"}, n \in {"RO", "SLICE", "EW"},
     g \in {None, abc({"b", "c"}, {}, {}), Chain}}

(* EDTs with two datablocks, each written by its owner *)
Both(m, n) == <<[db |-> 1, mode |-> m], [db |-> 2, mode |-> n]>>
Sharing ==
  {Program(abc(0, y, 1), abc(Both("EW", m), Both("RO", n), Use(2, "EW")), g, FALSE) :
     y \in {0, 2}, m \in {"RO", "SLICE"}, n \in {"RO", "SLICE"},
     g \in {None, abc({}, {}, {"b"})}}

(* One EDT after the other, on two ranks *)
Handing ==
  {Program(on, abc(Use(1, x), Use(1, y), Use(1, z)), Chain, TRUE) :
     on \in [MCEdts -> {0, 1}], x \in {"EW", "RO"}, y \in {"EW", "RO"},
     z \in {"EW", "RO", "SLICE"}}

(* A datablock is created, here or for another rank, while it is asked for. *)
Making ==
  {[Program(abc(x, y, z), abc(<<>>, Use(2, m), Use(2, n)), g, FALSE)
      EXCEPT !.makes["a"] = {2}, !.puts["a"] = q] :
     x \in {0, 1}, y \in {1, 2}, z \in {0, 1}, m \in {"RO", "SLICE"},
     n \in {"RO", "EW"}, q \in {{}, {2}}, g \in {None, abc({"b"}, {}, {})}}

(* It is written from afar, *)
Putting ==
  {[Program(abc(x, 0, z), abc(<<>>, Use(1, m), Use(1, "RO")), g, FALSE)
      EXCEPT !.puts["a"] = {1}] :
     x \in {0, 1}, z \in {0, 2}, m \in {"RO", "EW"}, g \in {None, abc({"b"}, {}, {})}}

(* and destroyed by its last user. *)
Destroying ==
  {[Program(abc(2, 0, z), abc(Use(1, "RO"), Use(1, m), Use(1, "RO")),
            abc({"c"}, {"c"}, {}), FALSE) EXCEPT !.destroys["c"] = {1}] :
     z \in {0, 1}, m \in {"RO", "EW"}}

(* A writer waits for another EDT that uses what it holds. *)
Waiting1 ==
  {[Program(abc(0, y, z), abc(Use(1, "EW"), Use(1, m), Use(1, "RO")), g, FALSE)
      EXCEPT !.waits["a"] = {"b"}] :
     y \in {0, 1}, z \in {0, 2}, m \in {"RO", "EW"}, g \in {None, abc({"c"}, {}, {})}}

(* Writers of two other ranks, in no order *)
Racing == {Program(abc(1, 1, 2), [e \in MCEdts |-> Use(1, "EW")], None, FALSE)}

MCScenes ==
  {p \in Writing \cup Sharing \cup Handing \cup Making \cup Putting \cup Destroying \cup Waiting1 :
     P!Disciplined(p)} \cup Racing

(* A rank writes, the owner writes after it, and the rank reads. *)
StaleScenes ==
  {Program(abc(1, 0, 1), abc(Use(1, "EW"), Use(1, "EW"), Use(1, "RO")), Chain, TRUE)}

----------------------------------------------------------------------------
(* Epoch *)

MCWorlds == {[ranks |-> {0}, places |-> {0}, workers |-> 2],
             [ranks |-> {0, 1}, places |-> {0, 1}, workers |-> 1],
             [ranks |-> {0, 1, 2}, places |-> {1, 2}, workers |-> 1]}
TwoWorkers == {[ranks |-> {0, 1}, places |-> {0, 1}, workers |-> 2]}
FiveEdts == {"a", "b", "c", "d", "e"}

memoryvars == <<scene, s>>
allvars == <<part, vars, memoryvars>>

NoEpoch == Init /\ world = CHOOSE w \in Worlds : TRUE
NoMemory == scene = 0 /\ s = 0

BothInit ==
  \/ part = "memory" /\ M!MemoryAssumption /\ M!Init /\ NoEpoch
  \/ part = "epoch" /\ EpochAssumption /\ Init /\ NoMemory

BothNext ==
  /\ UNCHANGED part
  /\ \/ part = "memory" /\ M!Next /\ UNCHANGED vars
     \/ part = "epoch" /\ Next /\ UNCHANGED memoryvars

(* The fairness of both, asked of the one the behaviour is about *)
MemoryGoesOn ==
  []<>(part = "memory" => ~M!Busy) \/ []<><<part = "memory" /\ M!Next>>_memoryvars
EpochGoesOn ==
  /\ \A t \in Edts : WF_vars(part = "epoch" /\ EdtGoesOn(t))
  /\ \A r \in Ranks \ {Owner} :
       /\ WF_vars(part = "epoch" /\ SendEpoch(r))
       /\ WF_vars(part = "epoch" /\ ReduceEpoch(r))
BothSpec == BothInit /\ [][BothNext]_allvars /\ MemoryGoesOn /\ EpochGoesOn

(* One of them alone *)
MemorySpec == part = "memory" /\ BothInit /\ [][BothNext]_allvars
EpochSpec == part = "epoch" /\ BothInit /\ [][BothNext]_allvars /\ EpochGoesOn

(* The four EDTs the root leads to are three on rank 1, created in the      *)
(* order of their names, and one that comes back to the owner; each rank    *)
(* creates at most two of them.                                             *)
OneComesBack ==
  /\ \A t \in {"b", "c", "d"} : st[t] # "none" => at[t] = 1
  /\ st["c"] # "none" => st["b"] # "none"
  /\ st["d"] # "none" => st["c"] # "none"
  /\ st["e"] # "none" => at["e"] = 0
  /\ active[0] <= 3 /\ active[1] <= 2

----------------------------------------------------------------------------
(* Properties *)

(* depc_needed of an EDT that acquires its datablocks is the number of its  *)
(* slots without one, and the sentinel: no slot is satisfied twice, none is *)
(* counted without being satisfied (arts_db_request_callback).              *)
OpenSlotsCounted == part = "memory" => M!NeedIsOpenSlots

(* In a program that uses its datablocks in one of the two disciplined      *)
(* ways, an EDT reads the writes of all the EDTs that it comes after,       *)
(* wherever they ran, and no write is lost: when all is quiet the owner has *)
(* it (arts_remote_update_db, arts_close_frontier).                         *)
WritesKept == part = "memory" => M!SeesEarlierWrites /\ M!WritesReachOwner

(* In such a program every EDT gets its datablocks and runs.                *)
EveryUserRuns ==
  <>(part = "memory" =>
       (\A e \in MCEdts : s.pc[e] = "done") \/ ~M!Disciplined(scene))

(* What an EDT reads has the writes of all the EDTs that it comes after.    *)
SeesWrites == part = "memory" => M!SeesWrites

(* The epoch ends, if no EDT but the root runs on the owner of an epoch     *)
(* that several ranks take part in: every round that is not the last is     *)
(* followed by another.                                                     *)
FiresIfOwnerIdle == <>(part = "epoch" => fired > 0 \/ OwnerRunsMore)
=============================================================================
