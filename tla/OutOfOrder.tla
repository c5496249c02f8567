----------------------------- MODULE OutOfOrder -----------------------------
(***************************************************************************)
(* Signals to an EDT whose GUID is known before the EDT exists.  A signal  *)
(* that does not find the EDT in the route table is deferred on the GUID's *)
(* out-of-order list; the thread that creates the EDT publishes it and     *)
(* replays the list.  The list is protected by a reader count and a writer *)
(* word (out_of_order_list.c), readiness by the counter depc_needed        *)
(* (edt.c).                                                                *)
(***************************************************************************)
EXTENDS Integers, Sequences, FiniteSets

CONSTANTS
  Sigs,    \* the signals, one per dependence slot of the EDT
  Origins  \* how the EDT may come to be: "local", created here under a
           \* reserved GUID, or "moved", received from another rank (edt_move)

(* What the constants must be. *)
OOAssumption ==
  IsFiniteSet(Sigs) /\ Origins \subseteq {"local", "moved"}

VARIABLES
  origin,   \* the member of Origins this behaviour is about; it never changes
  item,     \* the route-table state of the GUID
  writer,   \* list->writerLock: FIRE_LOCK held or not
  readers,  \* list->readerLock
  isFired,  \* list->isFired
  queue,    \* the deferred signals
  needed,   \* edt->depc_needed
  ready,    \* how often arts_handle_ready_edt was called on the EDT
  applied,  \* history: the signals that have decremented depc_needed
  gaveUp,   \* history: the attempts to fire the list were used up
  spc,      \* where each signalling call is
  cpc       \* where the creating call is

ovars == <<origin, gaveUp>>
lvars == <<writer, readers, isFired, queue>>
vars == <<origin, item, lvars, needed, ready, applied, gaveUp, spc, cpc>>

Depc == Cardinality(Sigs)

Moved == origin = "moved"

Init ==
  /\ origin \in Origins
  /\ item = "none"
  /\ writer = FALSE /\ readers = 0 /\ isFired = FALSE /\ queue = <<>>
  /\ needed = 0 /\ ready = 0 /\ applied = {} /\ gaveUp = FALSE
  /\ spc = [s \in Sigs |-> "idle"]
  /\ cpc = "idle"

(* Mutant: the test is off by one. *)
Countdown_Low ==
  /\ needed' = needed - 1
  /\ ready' = IF needed' <= 1 THEN ready + 1 ELSE ready

(* The atomic decrement of depc_needed and the test of its result. *)
Countdown ==
  /\ needed' = needed - 1
  /\ ready' = IF needed' = 0 THEN ready + 1 ELSE ready

----------------------------------------------------------------------------
(* internal_signal_edt_ex *)

Goto(s, l) == spc' = [spc EXCEPT ![s] = l]

(* arts_route_table_lookup_item *)
Sig_Lookup(s) ==
  /\ spc[s] \in {"idle", "retry"}
  /\ Goto(s, IF item = "available" THEN "sub" ELSE "reserve")
  /\ UNCHANGED <<ovars, item, lvars, needed, ready, applied, cpc>>

(* The EDT is there: write the slot, decrement, fire if it was the last. *)
Sig_Sub(s) ==
  /\ spc[s] = "sub"
  /\ Countdown
  /\ applied' = applied \cup {s}
  /\ Goto(s, "done")
  /\ UNCHANGED <<ovars, item, lvars, cpc>>

(* arts_route_table_add_oo: reserve the GUID, or signal directly after all  *)
(* if the EDT was published in between.                                     *)
Sig_Reserve(s) ==
  /\ spc[s] = "reserve"
  /\ item' = IF item = "none" THEN "reserved" ELSE item
  /\ Goto(s, IF item = "available" THEN "retry" ELSE "try")
  /\ UNCHANGED <<ovars, lvars, needed, ready, applied, cpc>>

(* reader_oo_try_lock: look at the writer word, ... *)
Sig_Try(s) ==
  /\ spc[s] = "try"
  /\ Goto(s, IF writer THEN "retry" ELSE "enter")
  /\ UNCHANGED <<ovars, item, lvars, needed, ready, applied, cpc>>

(* ... count this reader in, ... *)
Sig_Enter(s) ==
  /\ spc[s] = "enter"
  /\ readers' = readers + 1
  /\ Goto(s, "recheck")
  /\ UNCHANGED <<ovars, item, writer, isFired, queue, needed, ready, applied, cpc>>

(* Mutant: the reader does not look at the writer word again. *)
Sig_Recheck_Trust(s) ==
  /\ spc[s] = "recheck"
  /\ Goto(s, "append")
  /\ UNCHANGED <<ovars, item, lvars, needed, ready, applied, cpc>>

(* ... and look again: a writer that came in meanwhile goes first. *)
Sig_Recheck(s) ==
  /\ spc[s] = "recheck"
  /\ Goto(s, IF writer THEN "leave" ELSE "append")
  /\ UNCHANGED <<ovars, item, lvars, needed, ready, applied, cpc>>

Sig_Leave(s) ==
  /\ spc[s] = "leave"
  /\ readers' = readers - 1
  /\ Goto(s, "try")
  /\ UNCHANGED <<ovars, item, writer, isFired, queue, needed, ready, applied, cpc>>

(* Mutant: the fired flag is not looked at. *)
Sig_Append_Blind(s) ==
  /\ spc[s] = "append"
  /\ queue' = Append(queue, s)
  /\ Goto(s, "unlock")
  /\ UNCHANGED <<ovars, item, writer, readers, isFired, needed, ready, applied, cpc>>

(* arts_out_of_order_list_add_item, as a reader: a list that has been fired *)
(* takes no more items, the caller signals directly.                        *)
Sig_Append(s) ==
  /\ spc[s] = "append"
  /\ IF isFired
     THEN Goto(s, "retry") /\ readers' = readers - 1 /\ UNCHANGED queue
     ELSE Goto(s, "unlock") /\ queue' = Append(queue, s) /\ UNCHANGED readers
  /\ UNCHANGED <<ovars, item, writer, isFired, needed, ready, applied, cpc>>

Sig_Unlock(s) ==
  /\ spc[s] = "unlock"
  /\ readers' = readers - 1
  /\ Goto(s, "done")
  /\ UNCHANGED <<ovars, item, writer, isFired, queue, needed, ready, applied, cpc>>

----------------------------------------------------------------------------
(* arts_edt_create_internal under a reserved GUID, and edt_move *)

(* Mutant: no sentinel on the counter of a locally created EDT. *)
Create_Publish_Bare ==
  /\ cpc = "idle"
  /\ needed' = Depc
  /\ item' = "available"
  /\ cpc' = IF Moved THEN "check" ELSE "cas"
  /\ UNCHANGED <<ovars, lvars, ready, applied, spc>>

(* depc_needed, with a sentinel when created here, and add_item_race. *)
Create_Publish ==
  /\ cpc = "idle"
  /\ needed' = IF Moved THEN Depc ELSE Depc + 1
  /\ item' = "available"
  /\ cpc' = IF Moved THEN "check" ELSE "cas"
  /\ UNCHANGED <<ovars, lvars, ready, applied, spc>>

(* edt_move alone reads the counter again after publishing the EDT. *)
Move_Check ==
  /\ cpc = "check"
  /\ ready' = IF needed = 0 THEN ready + 1 ELSE ready
  /\ cpc' = IF needed = 0 THEN "done" ELSE "cas"
  /\ UNCHANGED <<ovars, item, lvars, needed, applied, spc>>

(* writer_try_oo_lock: swap the writer word, ... *)
Fire_Cas ==
  /\ cpc = "cas"
  /\ ~writer
  /\ writer' = TRUE
  /\ cpc' = "count"
  /\ UNCHANGED <<ovars, item, readers, isFired, queue, needed, ready, applied, spc>>

(* ... then look for readers. *)
Fire_Count ==
  /\ cpc = "count"
  /\ cpc' = IF readers = 0 THEN "replay" ELSE "release"
  /\ isFired' = (isFired \/ readers = 0)
  /\ UNCHANGED <<ovars, item, writer, readers, queue, needed, ready, applied, spc>>

(* With readers present the word is given back and the attempt repeated. *)
Fire_Release ==
  /\ cpc = "release"
  /\ writer' = FALSE
  /\ cpc' = "cas"
  /\ UNCHANGED <<ovars, item, readers, isFired, queue, needed, ready, applied, spc>>

(* The last of the attempts: warn and go on. *)
Fire_GiveUp ==
  /\ cpc = "release"
  /\ gaveUp' = TRUE
  /\ writer' = FALSE
  /\ cpc' = IF Moved THEN "done" ELSE "sentinel"
  /\ UNCHANGED <<origin, item, readers, isFired, queue, needed, ready, applied, spc>>

(* One deferred signal through arts_out_of_order_handler. *)
Fire_Replay ==
  /\ cpc = "replay"
  /\ queue # <<>>
  /\ queue' = Tail(queue)
  /\ Countdown
  /\ applied' = applied \cup {Head(queue)}
  /\ UNCHANGED <<ovars, item, writer, readers, isFired, spc, cpc>>

Fire_Unlock ==
  /\ cpc = "replay"
  /\ queue = <<>>
  /\ writer' = FALSE
  /\ cpc' = IF Moved THEN "done" ELSE "sentinel"
  /\ UNCHANGED <<ovars, item, readers, isFired, queue, needed, ready, applied, spc>>

Create_Sentinel ==
  /\ cpc = "sentinel"
  /\ Countdown
  /\ cpc' = "done"
  /\ UNCHANGED <<ovars, item, lvars, applied, spc>>

----------------------------------------------------------------------------
SigStep(s) ==
  \/ Sig_Lookup(s) \/ Sig_Sub(s) \/ Sig_Reserve(s) \/ Sig_Try(s)
  \/ Sig_Enter(s) \/ Sig_Recheck(s) \/ Sig_Leave(s) \/ Sig_Append(s)
  \/ Sig_Unlock(s)

CreateStep ==
  \/ Create_Publish \/ Move_Check \/ Fire_Cas \/ Fire_Count \/ Fire_Release
  \/ Fire_GiveUp \/ Fire_Replay \/ Fire_Unlock \/ Create_Sentinel

Quiescent == cpc = "done" /\ \A s \in Sigs : spc[s] = "done"

Next == CreateStep \/ (\E s \in Sigs : SigStep(s)) \/ (Quiescent /\ UNCHANGED vars)

Spec == Init /\ [][Next]_vars

(* Calls that have begun run on.  Weak fairness alone admits a cycle in     *)
(* which readers are always counted in when an attempt to fire looks for    *)
(* them and always back off from the attempt.  The attempts are spaced by   *)
(* sleeps with the writer word clear: strong fairness says that a reader    *)
(* that finds the word clear again and again at last gets through.          *)
LiveSpec ==
  /\ Spec
  /\ WF_vars(CreateStep)
  /\ \A s \in Sigs :
       /\ WF_vars(SigStep(s))
       /\ SF_vars(Sig_Enter(s) /\ ~writer)
       /\ SF_vars(Sig_Recheck(s) /\ ~writer)

----------------------------------------------------------------------------
(* Properties *)

SigPCs == {"idle", "retry", "sub", "reserve", "try", "enter", "recheck",
           "leave", "append", "unlock", "done"}
CreatePCs == {"idle", "check", "cas", "count", "release", "replay",
              "sentinel", "done"}

(* Every variable has its type; depc_needed never goes below zero. *)
TypeOK ==
  /\ origin \in Origins /\ gaveUp \in BOOLEAN
  /\ item \in {"none", "reserved", "available"}
  /\ writer \in BOOLEAN /\ readers \in Nat /\ isFired \in BOOLEAN
  /\ queue \in Seq(Sigs)
  /\ needed \in Nat /\ ready \in Nat
  /\ applied \in SUBSET Sigs
  /\ spc \in [Sigs -> SigPCs]
  /\ cpc \in CreatePCs

(* Exactly one thread observes depc_needed = 0 and calls                    *)
(* arts_handle_ready_edt.                                                   *)
ReadyOnce == ready <= 1

(* For an EDT created on this rank, that is so: the sentinel in depc_needed *)
(* keeps the signals and the replay from reaching zero twice or too early.  *)
LocalReadyOnce == ~Moved => ReadyOnce

(* The EDT is not handed to the scheduler before every slot is satisfied    *)
(* and, when it is created here, before the creating thread has removed its *)
(* sentinel and will not touch it again.                                    *)
ReadyLast ==
  ready > 0 => applied = Sigs /\ (~Moved => cpc = "done")

(* The replay and an insertion never overlap: while the list is replayed no *)
(* signalling call is between its second look at the writer word and its    *)
(* release of the reader count.                                             *)
ReplayExcludes ==
  cpc = "replay" => \A s \in Sigs : spc[s] \notin {"append", "unlock"}

(* No signal is lost: when every call has returned, and the attempts to     *)
(* fire the list were not used up, every signal has been counted and the    *)
(* EDT is ready.                                                            *)
NoSignalLost == Quiescent /\ ~gaveUp => applied = Sigs /\ ready > 0

(* Together: what the counter, the sentinel and the list's lock promise of  *)
(* readiness (edt.c, out_of_order_list.c).  That an EDT is made ready only  *)
(* once is promised of those created here, not of one that was moved here.  *)
ReadyOnceAndLast ==
  TypeOK /\ LocalReadyOnce /\ ReadyLast /\ ReplayExcludes /\ NoSignalLost
=============================================================================
