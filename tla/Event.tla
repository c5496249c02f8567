------------------------------- MODULE Event -------------------------------
(***************************************************************************)
(* One counter-based event (LATCH, ONCE, STICKY, IDEM or COUNTED) of       *)
(* libs/src/core/sync/event.c: threads that satisfy a slot of the event    *)
(* race with threads that register dependents on it.  No lock protects the *)
(* two: the latch, the fired flag, the dependent count and the published   *)
(* position are separate words, and each access to one of them is a step.  *)
(***************************************************************************)
EXTENDS Integers, FiniteSets

CONSTANTS
  Deps,       \* the calls of arts_add_dependence, one per dependent
  Sats,       \* the calls of arts_event_satisfy_slot
  SlotOf,     \* SlotOf[s]: the slot call s satisfies, "DECR" or "INCR"
  DataOf,     \* DataOf[s]: the data GUID call s carries, or NoData
  NoData,     \* NULL_GUID
  After,      \* After[s]: the satisfy calls the program orders before s
  EventTypes, \* those of the five counter types the event may have
  InitLatch,  \* the latch count it is created with
  BlockSize,  \* INITIAL_DEPENDENT_SIZE, the cells of the first list block
  Mod         \* the modulus of unsigned int, 2^32 in the code

Types == {"LATCH", "ONCE", "STICKY", "IDEM", "COUNTED"}

ASSUME EventAssumption ==
  /\ EventTypes \subseteq Types
  /\ SlotOf \in [Sats -> {"DECR", "INCR"}]
  /\ After \in [Sats -> SUBSET Sats]
  /\ Mod \in Nat \ {0}
  /\ InitLatch \in 0 .. Mod - 1
  /\ BlockSize \in Nat \ {0}
  /\ IsFiniteSet(Deps)

VARIABLES
  type,     \* event->event_type; it never changes
  latch,    \* event->latch_count
  fired,    \* event->fired
  data,     \* event->data
  count,    \* event->dependent_count
  pos,      \* event->pos, 0 until the firing thread publishes it
  blocks,   \* how many blocks of the dependent list are linked
  freed,    \* the event was removed from the route table and freed
  aborted,  \* ARTS_ERROR was reached: the process is gone
  spc,      \* where each satisfy call is
  last,     \* its local last_known
  idx,      \* its local i
  dpc,      \* where each registration call is
  place,    \* its local position
  signals,  \* how often each dependent was signalled
  got       \* the data it was signalled with most recently

evars == <<type, latch, fired, data, count, pos, blocks, freed, aborted>>
svars == <<spc, last, idx>>
dvars == <<dpc, place>>
vars == <<evars, svars, dvars, signals, got>>

Persists == type \in {"STICKY", "IDEM"}

Init ==
  /\ type \in EventTypes
  /\ latch = InitLatch /\ fired = FALSE /\ data = NoData
  /\ count = 0 /\ pos = 0 /\ blocks = 1 /\ freed = FALSE /\ aborted = FALSE
  /\ spc = [s \in Sats |-> "idle"]
  /\ last = [s \in Sats |-> 0]
  /\ idx = [s \in Sats |-> 0]
  /\ dpc = [d \in Deps |-> "idle"]
  /\ place = [d \in Deps |-> 0]
  /\ signals = [d \in Deps |-> 0]
  /\ got = [d \in Deps |-> NoData]

(***************************************************************************)
(* The dependent list: block b holds BlockSize * 2^b cells.  FirstCell(b)  *)
(* is the position of its first cell; the registration that draws that     *)
(* position is the one that allocates and links the block, every other one *)
(* (and the firing thread) spins until it is linked.                       *)
(***************************************************************************)
FirstCell(b) == BlockSize * (2^b - 1)
Linked(p) == p < FirstCell(blocks)

(* arts_signal_edt / arts_event_satisfy_slot / the callback, on dependent d *)
Deliver(d) ==
  /\ signals' = [signals EXCEPT ![d] = @ + 1]
  /\ got' = [got EXCEPT ![d] = data]

----------------------------------------------------------------------------
(* arts_event_satisfy_slot *)

(* The calls that end in ARTS_ERROR: a re-satisfy of an auto-destroyed      *)
(* event, and an increment of a ONCE or COUNTED one.                        *)
Rejected(s) ==
  IF fired THEN ~Persists
           ELSE SlotOf[s] = "INCR" /\ type \in {"ONCE", "COUNTED"}

(* The re-satisfy guard and the slot check.  The auto-destroyed types are   *)
(* used as OCR requires: no registration is under way any more when the     *)
(* event is satisfied, and a count is added before one is given back.       *)
Sat_Guard(s) ==
  /\ ~aborted /\ spc[s] = "idle"
  /\ ~freed
  /\ Persists \/ /\ \A d \in Deps : dpc[d] = "done"
                 /\ \A t \in After[s] : spc[t] = "done"
  /\ aborted' = Rejected(s)
  /\ spc' = [spc EXCEPT ![s] = IF Rejected(s) THEN @
                              ELSE IF fired THEN "done"
                              ELSE IF SlotOf[s] = "INCR" \/ DataOf[s] = NoData
                              THEN "latch" ELSE "data"]
  /\ UNCHANGED <<type, latch, fired, data, count, pos, blocks, freed, last, idx,
                 dvars, signals, got>>

(* event->data = data_guid *)
Sat_Data(s) ==
  /\ ~aborted /\ spc[s] = "data"
  /\ data' = DataOf[s]
  /\ spc' = [spc EXCEPT ![s] = "latch"]
  /\ UNCHANGED <<type, latch, fired, count, pos, blocks, freed, aborted, last, idx,
                 dvars, signals, got>>

(* Mutant: the test is on the value before the operation, so the event      *)
(* fires one decrement early.                                               *)
Sat_Latch_Early(s) ==
  /\ ~aborted /\ spc[s] = "latch"
  /\ latch' = (latch + (IF SlotOf[s] = "INCR" THEN 1 ELSE Mod - 1)) % Mod
  /\ spc' = [spc EXCEPT ![s] = IF latch' <= 1 THEN "swap" ELSE "done"]
  /\ UNCHANGED <<type, fired, data, count, pos, blocks, freed, aborted, last, idx,
                 dvars, signals, got>>

(* The atomic add or sub on the latch, and the test of its result. *)
Sat_Latch(s) ==
  /\ ~aborted /\ spc[s] = "latch"
  /\ latch' = (latch + (IF SlotOf[s] = "INCR" THEN 1 ELSE Mod - 1)) % Mod
  /\ spc' = [spc EXCEPT ![s] = IF latch' = 0 THEN "swap" ELSE "done"]
  /\ UNCHANGED <<type, fired, data, count, pos, blocks, freed, aborted, last, idx,
                 dvars, signals, got>>

(* arts_atomic_swap_bool(&event->fired, true) *)
Sat_Swap(s) ==
  /\ ~aborted /\ spc[s] = "swap"
  /\ fired' = TRUE
  /\ aborted' = fired
  /\ spc' = [spc EXCEPT ![s] = IF fired THEN @ ELSE "capture"]
  /\ UNCHANGED <<type, latch, data, count, pos, blocks, freed, last, idx,
                 dvars, signals, got>>

(* last_known = the dependent count *)
Sat_Capture(s) ==
  /\ ~aborted /\ spc[s] = "capture"
  /\ last' = [last EXCEPT ![s] = count]
  /\ spc' = [spc EXCEPT ![s] = "publish"]
  /\ UNCHANGED <<evars, idx, dvars, signals, got>>

(* event->pos = last_known + 1 *)
Sat_Publish(s) ==
  /\ ~aborted /\ spc[s] = "publish"
  /\ pos' = last[s] + 1
  /\ spc' = [spc EXCEPT ![s] = "fire"]
  /\ UNCHANGED <<type, latch, fired, data, count, blocks, freed, aborted, last, idx,
                 dvars, signals, got>>

(* One turn of the fire loop: spin on done_writing of cell i, then signal.  *)
Sat_Fire(s) ==
  /\ ~aborted /\ spc[s] = "fire"
  /\ idx[s] < last[s]
  /\ \E d \in Deps :
       /\ dpc[d] \in {"check", "waitpos", "done"}
       /\ place[d] = idx[s]
       /\ Deliver(d)
  /\ idx' = [idx EXCEPT ![s] = @ + 1]
  /\ UNCHANGED <<evars, spc, last, dvars>>

(* The end of the loop: LATCH, ONCE and COUNTED events leave the route      *)
(* table and are freed, STICKY and IDEM events stay.                        *)
Sat_Finish(s) ==
  /\ ~aborted /\ spc[s] = "fire"
  /\ idx[s] >= last[s]
  /\ spc' = [spc EXCEPT ![s] = "done"]
  /\ freed' = ~Persists
  /\ UNCHANGED <<type, latch, fired, data, count, pos, blocks, aborted, last, idx,
                 dvars, signals, got>>

----------------------------------------------------------------------------
(* arts_add_dependence_ex, event source *)

(* position = fetch_add(dependent_count, 1) *)
Add_Place(d) ==
  /\ ~aborted /\ dpc[d] = "idle"
  /\ ~freed
  /\ Persists \/ \A s \in Sats : spc[s] = "idle"
  /\ place' = [place EXCEPT ![d] = count]
  /\ count' = count + 1
  /\ dpc' = [dpc EXCEPT ![d] = "get"]
  /\ UNCHANGED <<type, latch, fired, data, pos, blocks, freed, aborted, svars,
                 signals, got>>

(* Mutant: only a position past the first cell of the next block links it. *)
Add_Link_Late(d) ==
  /\ ~aborted /\ dpc[d] = "get"
  /\ place[d] > FirstCell(blocks)
  /\ blocks' = blocks + 1
  /\ UNCHANGED <<type, latch, fired, data, count, pos, freed, aborted, svars, dvars,
                 signals, got>>

(* arts_dependent_get: link the next block when this position opens it, ... *)
Add_Link(d) ==
  /\ ~aborted /\ dpc[d] = "get"
  /\ place[d] = FirstCell(blocks)
  /\ blocks' = blocks + 1
  /\ UNCHANGED <<type, latch, fired, data, count, pos, freed, aborted, svars, dvars,
                 signals, got>>

(* ... then write the cell and set done_writing. *)
Add_Write(d) ==
  /\ ~aborted /\ dpc[d] = "get"
  /\ Linked(place[d])
  /\ dpc' = [dpc EXCEPT ![d] = "check"]
  /\ UNCHANGED <<evars, svars, place, signals, got>>

(* if (event->fired) *)
Add_Check(d) ==
  /\ ~aborted /\ dpc[d] = "check"
  /\ dpc' = [dpc EXCEPT ![d] = IF fired THEN "waitpos" ELSE "done"]
  /\ UNCHANGED <<evars, svars, place, signals, got>>

(* Mutants: the comparison with pos is off by one, either way. *)
Add_Self_Low(d) ==
  /\ ~aborted /\ dpc[d] = "waitpos"
  /\ pos # 0
  /\ IF place[d] + 1 >= pos - 1 THEN Deliver(d) ELSE UNCHANGED <<signals, got>>
  /\ dpc' = [dpc EXCEPT ![d] = "done"]
  /\ UNCHANGED <<evars, svars, place>>

Add_Self_High(d) ==
  /\ ~aborted /\ dpc[d] = "waitpos"
  /\ pos # 0
  /\ IF place[d] > pos - 1 THEN Deliver(d) ELSE UNCHANGED <<signals, got>>
  /\ dpc' = [dpc EXCEPT ![d] = "done"]
  /\ UNCHANGED <<evars, svars, place>>

(* Spin until pos is published; signal the dependent if the fire loop does  *)
(* not reach its cell.                                                      *)
Add_Self(d) ==
  /\ ~aborted /\ dpc[d] = "waitpos"
  /\ pos # 0
  /\ IF place[d] >= pos - 1 THEN Deliver(d) ELSE UNCHANGED <<signals, got>>
  /\ dpc' = [dpc EXCEPT ![d] = "done"]
  /\ UNCHANGED <<evars, svars, place>>

----------------------------------------------------------------------------
SatStep(s) ==
  \/ Sat_Data(s) \/ Sat_Latch(s) \/ Sat_Swap(s) \/ Sat_Capture(s)
  \/ Sat_Publish(s) \/ Sat_Fire(s) \/ Sat_Finish(s)

AddStep(d) ==
  Add_Link(d) \/ Add_Write(d) \/ Add_Check(d) \/ Add_Self(d)

Finished ==
  /\ \/ aborted
     \/ /\ \A s \in Sats : spc[s] = "done" \/ (freed /\ spc[s] = "idle")
        /\ \A d \in Deps : dpc[d] = "done" \/ (freed /\ dpc[d] = "idle")
  /\ UNCHANGED vars

Next ==
  \/ \E s \in Sats : Sat_Guard(s) \/ SatStep(s)
  \/ \E d \in Deps : Add_Place(d) \/ AddStep(d)
  \/ Finished

Spec == Init /\ [][Next]_vars

(* A call that has started runs on: worker threads are scheduled fairly.    *)
Fairness ==
  /\ \A s \in Sats : WF_vars(SatStep(s))
  /\ \A d \in Deps : WF_vars(AddStep(d))

LiveSpec == Spec /\ Fairness

----------------------------------------------------------------------------
(* Properties *)

SatPCs == {"idle", "data", "latch", "swap", "capture", "publish", "fire",
           "done"}
DepPCs == {"idle", "get", "check", "waitpos", "done"}

(* Every variable has its type. *)
TypeOK ==
  /\ type \in Types
  /\ latch \in 0 .. Mod - 1
  /\ fired \in BOOLEAN /\ freed \in BOOLEAN /\ aborted \in BOOLEAN
  /\ count \in Nat /\ pos \in Nat /\ blocks \in Nat \ {0}
  /\ spc \in [Sats -> SatPCs]
  /\ last \in [Sats -> Nat]
  /\ idx \in [Sats -> Nat]
  /\ dpc \in [Deps -> DepPCs]
  /\ place \in [Deps -> Nat]
  /\ signals \in [Deps -> Nat]

(* However the registration interleaves with the firing, the fire loop and  *)
(* the self-signal of add_dependence never both signal a dependent, and     *)
(* nothing signals it twice.                                                *)
AtMostOnce == \A d \in Deps : signals[d] <= 1

(* No dependent is missed: once the firing thread has left the fire loop,   *)
(* every registration that has returned was signalled, by the loop if its   *)
(* cell lies below last_known and by itself otherwise.                      *)
NoneMissed ==
  (pos # 0 /\ \A s \in Sats : spc[s] # "fire") =>
    \A d \in Deps : dpc[d] = "done" => signals[d] = 1

(* The auto-destroyed event is not freed under a thread that still uses it: *)
(* every satisfy call and every registration that touches it has returned.  *)
NoUseAfterFree ==
  freed => /\ \A s \in Sats : spc[s] \in {"idle", "done"}
           /\ \A d \in Deps : dpc[d] \in {"idle", "done"}

(* All dependents of one auto-destroyed event see the same data, though     *)
(* the calls that count it down may each bring their own.                   *)
SameData ==
  ~Persists =>
    \A d, e \in Deps : (signals[d] > 0 /\ signals[e] > 0) => got[d] = got[e]

(* Once the event has fired, every registration under way or to come is     *)
(* signalled: the spins on done_writing, on the next block and on pos end.  *)
EventuallySignalled ==
  \A d \in Deps : (fired /\ dpc[d] # "idle") ~> (signals[d] = 1 \/ aborted)

----------------------------------------------------------------------------
(* The inductive invariant behind AtMostOnce and NoneMissed.                *)

Firing == {"capture", "publish", "fire"}

(* At most one call fires the event, and pos is published by it alone. *)
OneFirer ==
  /\ \A s, t \in Sats : (spc[s] \in Firing /\ spc[t] \in Firing) => s = t
  /\ \A s \in Sats : spc[s] \in Firing => fired
  /\ ~fired => pos = 0
  /\ \A s \in Sats : spc[s] \in {"capture", "publish"} => pos = 0

(* Registrations hold distinct positions below the dependent count. *)
Places ==
  /\ \A d \in Deps : dpc[d] # "idle" => place[d] < count
  /\ \A d, e \in Deps :
       (dpc[d] # "idle" /\ dpc[e] # "idle" /\ place[d] = place[e]) => d = e

(* The firing call's local variables. *)
Loop ==
  \A s \in Sats :
    /\ spc[s] \notin {"fire", "done"} => idx[s] = 0
    /\ spc[s] \in {"publish", "fire"} => last[s] <= count
    /\ spc[s] = "fire" => pos = last[s] + 1 /\ idx[s] <= last[s]

(* A registration that returned without seeing fired is below last_known. *)
Seen ==
  \A s \in Sats : spc[s] = "publish" =>
    \A d \in Deps : dpc[d] = "done" => place[d] < last[s]

(* Who has signalled whom: nobody before pos is published; afterwards the   *)
(* loop those below last_known it has passed, and the registrations above   *)
(* it themselves.                                                           *)
Signalled ==
  /\ pos = 0 => \A d \in Deps : signals[d] = 0
  /\ pos - 1 <= count
  /\ \A d \in Deps : dpc[d] = "idle" => signals[d] = 0
  /\ pos # 0 =>
       \A d \in Deps : (dpc[d] # "idle" /\ place[d] >= pos - 1) =>
         signals[d] = IF dpc[d] = "done" THEN 1 ELSE 0
  /\ \A s \in Sats : spc[s] = "fire" =>
       \A d \in Deps : (dpc[d] # "idle" /\ place[d] < last[s]) =>
         signals[d] = IF place[d] < idx[s] THEN 1 ELSE 0
  /\ (pos # 0 /\ \A s \in Sats : spc[s] # "fire") =>
       \A d \in Deps : (dpc[d] # "idle" /\ place[d] < pos - 1) =>
         signals[d] = 1

IInv == TypeOK /\ OneFirer /\ Places /\ Loop /\ Seen /\ Signalled
=============================================================================
