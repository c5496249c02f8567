----------------------------- MODULE MCAcquire -----------------------------
(***************************************************************************)
(* Frontier and OutOfOrder for TLC, in one run: a behaviour is about one   *)
(* of them, its part; a list that a behaviour is not about stays as it is  *)
(* at first, and the variables of Frontier keep the value 0.               *)
(***************************************************************************)
EXTENDS OutOfOrder, TLC

CONSTANTS
  ec, ed, ee, ef, s1, s2, s3,
  Users, Requests, RequestOf, Acquires  \* the EDTs, requests and scenes of Frontier

VARIABLES
  part,  \* "frontier" or "list"
  scene, fr, head, fwriter, freaders, rpc, cur, at, granted, epc, waits

(* ed writes through slot 1 and reads the datablock through slot 2, ee      *)
(* writes, ef reads the whole of it or a byte range.                        *)
FourEdts == {ec, ed, ee, ef}
Slots == {"d1", "d2", "e1", "f1"}
SlotEdt == "d1" :> ed @@ "d2" :> ed @@ "e1" :> ee @@ "f1" :> ef
Reads == "d1" :> "EW" @@ "d2" :> "RO" @@ "e1" :> "EW" @@ "f1" :> "RO"
Copies == [Reads EXCEPT !["f1"] = "SLICE"]

(* The reader comes late; or the creator waits for all the others. *)
LateReader == [mode |-> Reads, late |-> {"f1"}, waiters |-> {}]
Waits == [mode |-> Copies, late |-> {}, waiters |-> {ec}]
PassingScenes == {LateReader, Waits}

(* Two EDTs that write, and come late. *)
ThreeEdts == {ec, ed, ee}
TwoSlots == {"d1", "e1"}
TwoEdt == "d1" :> ed @@ "e1" :> ee
LateWriters ==
  {[mode |-> [r \in TwoSlots |-> "EW"], late |-> TwoSlots, waiters |-> {}]}

(* Three signals of an EDT that is created here, or comes from another rank *)
ThreeSigs == {s1, s2, s3}

F == INSTANCE Frontier WITH
       Edts <- Users, Creator <- ec, Reqs <- Requests, EdtOf <- RequestOf,
       Scenes <- Acquires, writer <- fwriter, readers <- freaders

frontiervars == <<scene, fr, head, fwriter, freaders, rpc, cur, at, granted, epc,
                  waits>>
allvars == <<part, vars, frontiervars>>

NoFrontier ==
  /\ scene = 0 /\ fr = 0 /\ head = 0 /\ fwriter = 0 /\ freaders = 0 /\ rpc = 0
  /\ cur = 0 /\ at = 0 /\ granted = 0 /\ epc = 0 /\ waits = 0
NoList == Init /\ origin = "local"

BothInit ==
  \/ part = "frontier" /\ F!FrontierAssumption /\ F!Init /\ NoList
  \/ part = "list" /\ OOAssumption /\ Init /\ NoFrontier

BothNext ==
  /\ UNCHANGED part
  /\ \/ part = "frontier" /\ F!Next /\ UNCHANGED vars
     \/ part = "list" /\ Next /\ UNCHANGED frontiervars

(* The fairness of both, asked of the one the behaviour is about.  Threads  *)
(* run on; a call that waits for a lock again and again gets it.            *)
Slot == <<"d1", "d2", "e1", "f1">>
Edt1 == <<ec, ed, ee, ef>>
Sig == <<s1, s2, s3>>
InFrontier(A) == part = "frontier" /\ A /\ UNCHANGED vars
InList(A) == part = "list" /\ A /\ UNCHANGED frontiervars

RunsOn(i) ==
  \/ i <= 4 /\ InFrontier(F!Push(Slot[i]))
  \/ i > 4 /\ InFrontier(F!Edt(Edt1[i - 4]))
  \/ i <= 3 /\ InList(SigStep(Sig[i]))
  \/ i = 4 /\ InList(CreateStep)
GetsLock(i) ==
  \/ i <= 4 /\ InFrontier(F!Push_Enter(Slot[i]))
  \/ i > 4 /\ InFrontier(F!Edt_Lock(Edt1[i - 4]) \/ F!Wait_Lock(Edt1[i - 4]))
  \/ i <= 3 /\ InList(~writer /\ Sig_Enter(Sig[i]))
  \/ i \in 4 .. 6 /\ InList(~writer /\ Sig_Recheck(Sig[i - 3]))

BothSpec ==
  /\ BothInit /\ [][BothNext]_allvars
  /\ \A i \in 1 .. 8 :
       WF_<<vars, frontiervars>>(RunsOn(i)) /\ SF_<<vars, frontiervars>>(GetsLock(i))

(* Frontier alone *)
FrontierSpec == part = "frontier" /\ F!FrontierAssumption /\ F!Init /\ NoList /\ [][BothNext]_allvars

----------------------------------------------------------------------------
(* Properties *)

(* Acquires of a datablock on its owner (arts_push_db_to_list,              *)
(* arts_progress_frontier): no two EDTs have it for writing at once; a slot *)
(* is satisfied once, after the writers of all frontiers before its own;    *)
(* and an acquire made while the creator holds the datablock is taken by    *)
(* some frontier.                                                           *)
GrantsInOrder ==
  part = "frontier" =>
    /\ F!TypeOK /\ F!SingleWriter /\ F!AfterEarlierWriters
    /\ F!GrantedOnce /\ F!SomeFrontierAccepts

(* No two EDTs have the datablock for writing at once. *)
SingleWriter == F!SingleWriter

(* In the end every EDT runs, if all acquires are made while the creator    *)
(* holds the datablock: arts_progress_frontier reaches every frontier.      *)
EveryAcquirerRuns ==
  \A e \in FourEdts : <>(part = "frontier" => F!Late # {} \/ epc[e] = "done")

(* The EDT becomes ready, however creation and signals interleave, unless   *)
(* the attempts of arts_out_of_order_list_fire_callback are used up.        *)
EventuallyReady == <>(part = "list" => ready > 0 \/ gaveUp)
=============================================================================
