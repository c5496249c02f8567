------------------------------ MODULE Frontier ------------------------------
(***************************************************************************)
(* The frontier list that orders the accesses to one datablock on the rank *)
(* that owns it (libs/src/core/memory/frontier.c, db.c).  A frontier takes *)
(* readers until it has taken a writer; later requests go to the next one. *)
(* What is on the head frontier may use the datablock; the writer of the   *)
(* head, when its EDT is done, makes the next frontier the head.  The      *)
(* datablock is created by an EDT that holds it for writing.               *)
(***************************************************************************)
EXTENDS Integers, Sequences, FiniteSets

CONSTANTS
  Edts,     \* the EDTs that use the datablock
  Creator,  \* the EDT that created it
  Reqs,     \* the acquires, one for each dependence slot
  EdtOf,    \* the EDT of a request
  Scenes    \* the uses explored, each with
            \*   mode: the access mode of a request, "RO", "EW" or "SLICE" (a
            \*     copied byte range),
            \*   late: the requests that may come after the creator is done,
            \*   waiters: the EDTs that release the datablock while they wait
            \*     on an epoch, the epoch of all others

(* What the constants must be. *)
FrontierAssumption ==
  /\ Creator \in Edts
  /\ EdtOf \in [Reqs -> Edts \ {Creator}]
  /\ Scenes \subseteq [mode : [Reqs -> {"RO", "EW", "SLICE"}],
                      late : SUBSET Reqs, waiters : SUBSET Edts]

VARIABLES
  scene,    \* the member of Scenes this behaviour is about
  fr,       \* the frontiers created so far
  head,     \* db_list->head, 0 for NULL
  writer,   \* db_list->writer
  readers,  \* who holds db_list->reader
  rpc,      \* where the push of a request is
  cur,      \* the frontier it is looking at
  at,       \* history: the frontier that accepted it
  granted,  \* how often its slot has been satisfied
  epc,      \* where an EDT is
  waits     \* 0: it has not waited, 1: it is waiting, 2: it is back

rvars == <<rpc, cur, at>>
evars == <<epc, waits>>
vars == <<scene, fr, head, writer, readers, rvars, granted, evars>>

NoEdt == "none"
Mode == scene.mode
Late == scene.late
Waiters == scene.waiters

(* arts_new_db_frontier *)
NewFrontier ==
  [write |-> FALSE, owner |-> NoEdt, next |-> 0, delayed |-> <<>>]

(* arts_db_create: the creator has set WRITE_SET on the first frontier. *)
Init ==
  /\ scene \in Scenes
  /\ fr = <<[NewFrontier EXCEPT !.write = TRUE]>>
  /\ head = 1
  /\ writer = FALSE /\ readers = {}
  /\ rpc = [r \in Reqs |-> "idle"]
  /\ cur = [r \in Reqs |-> 0]
  /\ at = [r \in Reqs |-> 0]
  /\ granted = [r \in Reqs |-> 0]
  /\ epc = [e \in Edts |-> IF e = Creator THEN "run" ELSE "acquire"]
  /\ waits = [e \in Edts |-> 0]

Goto(r, l) == rpc' = [rpc EXCEPT ![r] = l]
GotoE(e, l) == epc' = [epc EXCEPT ![e] = l]

----------------------------------------------------------------------------
(* arts_push_db_to_list, arts_request_db_slice *)

Push_Look(r) ==
  /\ rpc[r] = "idle"
  /\ Goto(r, IF head = 0 THEN "make" ELSE "enter")
  /\ UNCHANGED <<scene, fr, head, writer, readers, cur, at, granted, evars>>

(* arts_writer_try_lock: not to wait for another writer, ... *)
Push_Try(r) ==
  /\ rpc[r] = "make"
  /\ writer' = TRUE
  /\ Goto(r, IF writer THEN "enter" ELSE "new")
  /\ UNCHANGED <<scene, fr, head, readers, cur, at, granted, evars>>

(* ... but for the readers. *)
Push_New(r) ==
  /\ rpc[r] = "new"
  /\ readers = {}
  /\ fr' = Append(fr, NewFrontier)
  /\ head' = Len(fr) + 1
  /\ writer' = FALSE
  /\ Goto(r, "enter")
  /\ UNCHANGED <<scene, readers, cur, at, granted, evars>>

Push_Enter(r) ==
  /\ rpc[r] = "enter"
  /\ ~writer
  /\ readers' = readers \cup {r}
  /\ cur' = [cur EXCEPT ![r] = head]
  /\ Goto(r, "walk")
  /\ UNCHANGED <<scene, fr, head, writer, at, granted, evars>>

Leave(r) == Goto(r, "done") /\ readers' = readers \ {r}

(* Mutant: the slot is satisfied at once wherever it is. *)
Place_Now(r, f, g) ==
  /\ at' = [at EXCEPT ![r] = f]
  /\ fr' = [fr EXCEPT ![f] =
              IF f = head THEN g ELSE [g EXCEPT !.delayed = Append(@, r)]]
  /\ granted' = [granted EXCEPT ![r] = @ + 1]
  /\ Leave(r)
  /\ UNCHANGED <<scene, head, writer, cur, evars>>

(* The frontier that takes the request; behind the head it is put on the    *)
(* list of delayed slots, on the head the slot is satisfied at once.        *)
Place(r, f, g) ==
  /\ at' = [at EXCEPT ![r] = f]
  /\ fr' = [fr EXCEPT ![f] =
              IF f = head THEN g ELSE [g EXCEPT !.delayed = Append(@, r)]]
  /\ granted' = IF f = head THEN [granted EXCEPT ![r] = @ + 1] ELSE granted
  /\ Leave(r)
  /\ UNCHANGED <<scene, head, writer, cur, evars>>

(* Mutant: a writer is taken by a frontier without sealing it. *)
Push_Accept_Open(r) ==
  LET f == cur[r]
  IN  /\ rpc[r] = "walk" /\ f # 0
      /\ ~fr[f].write
      /\ Place(r, f, fr[f])

(* arts_push_db_to_frontier: no writer here yet. *)
Push_Accept(r) ==
  LET f == cur[r]
  IN  /\ rpc[r] = "walk" /\ f # 0
      /\ ~fr[f].write
      /\ Place(r, f, IF Mode[r] = "EW"
                     THEN [fr[f] EXCEPT !.write = TRUE, !.owner = EdtOf[r]]
                     ELSE fr[f])

SameWriter(r, f) == Mode[r] # "SLICE" /\ fr[f].owner = EdtOf[r]

(* arts_try_join_same_local_writer: another slot of the writing EDT. *)
Push_Join(r) ==
  LET f == cur[r]
  IN  /\ rpc[r] = "walk" /\ f # 0
      /\ fr[f].write /\ SameWriter(r, f)
      /\ Place(r, f, fr[f])

(* Mutant: the walk stops at the last frontier. *)
Push_Next_Stop(r) ==
  LET f == cur[r]
  IN  /\ rpc[r] = "walk" /\ f # 0
      /\ fr[f].write /\ ~SameWriter(r, f)
      /\ cur' = [cur EXCEPT ![r] = fr[f].next]
      /\ UNCHANGED <<scene, fr, head, writer, readers, rpc, at, granted, evars>>

(* On to the next frontier, which is created if there is none. *)
Push_Next(r) ==
  LET f == cur[r]
      n == Len(fr) + 1
  IN  /\ rpc[r] = "walk" /\ f # 0
      /\ fr[f].write /\ ~SameWriter(r, f)
      /\ IF fr[f].next = 0
         THEN /\ fr' = Append([fr EXCEPT ![f].next = n], NewFrontier)
              /\ cur' = [cur EXCEPT ![r] = n]
         ELSE /\ cur' = [cur EXCEPT ![r] = fr[f].next]
              /\ UNCHANGED fr
      /\ UNCHANGED <<scene, head, writer, readers, rpc, at, granted, evars>>

(* The list was empty: no frontier takes the request. *)
Push_None(r) ==
  /\ rpc[r] = "walk" /\ cur[r] = 0
  /\ Leave(r)
  /\ UNCHANGED <<scene, fr, head, writer, cur, at, granted, evars>>

----------------------------------------------------------------------------
(* EDTs *)

ReqsOf(e) == {r \in Reqs : EdtOf[r] = e}
Writes(e) == e = Creator \/ \E r \in ReqsOf(e) : Mode[r] = "EW"

(* All slots are satisfied: the EDT runs. *)
Edt_Run(e) ==
  /\ epc[e] = "acquire"
  /\ \A r \in ReqsOf(e) : rpc[r] = "done" /\ granted[r] > 0
  /\ GotoE(e, "run")
  /\ UNCHANGED <<scene, fr, head, writer, readers, rvars, granted, waits>>

(* release_dbs of an EDT that has only read. *)
Edt_Return(e) ==
  /\ epc[e] = "run"
  /\ ~Writes(e)
  /\ GotoE(e, "done")
  /\ UNCHANGED <<scene, fr, head, writer, readers, rvars, granted, waits>>

(* release_dbs, arts_release_created_dbs: a writer progresses the list,     *)
(* once however many of its slots write.                                    *)
Edt_Lock(e) ==
  /\ epc[e] = "run"
  /\ Writes(e)
  /\ e = Creator => \A r \in Reqs \ Late : rpc[r] = "done"
  /\ e \in Waiters => waits[e] = 2
  /\ ~writer
  /\ writer' = TRUE
  /\ GotoE(e, "advance")
  /\ UNCHANGED <<scene, fr, head, readers, rvars, granted, waits>>

(* arts_wait_release_dbs: progress the list while the EDT waits. *)
Wait_Lock(e) ==
  /\ epc[e] = "run"
  /\ e \in Waiters /\ Writes(e) /\ waits[e] = 0
  /\ e = Creator => \A r \in Reqs \ Late : rpc[r] = "done"
  /\ ~writer
  /\ writer' = TRUE
  /\ waits' = [waits EXCEPT ![e] = 1]
  /\ GotoE(e, "advance")
  /\ UNCHANGED <<scene, fr, head, readers, rvars, granted>>

Signalled(f) ==
  [r \in Reqs |-> granted[r] +
     Cardinality({k \in 1 .. Len(fr[f].delayed) : fr[f].delayed[k] = r})]

(* Mutant: the slots delayed on the next frontier but one are satisfied too. *)
Progress_Far(e) ==
  /\ epc[e] = "advance"
  /\ readers = {}
  /\ head' = IF head = 0 THEN 0 ELSE fr[head].next
  /\ granted' = IF head' = 0 THEN granted
                ELSE IF fr[head'].next = 0 THEN Signalled(head')
                ELSE Signalled(fr[head'].next)
  /\ GotoE(e, "unlock")
  /\ UNCHANGED <<scene, fr, writer, readers, rvars, waits>>

(* Mutant: the slots delayed on the new head are not satisfied. *)
Progress_Quiet(e) ==
  /\ epc[e] = "advance"
  /\ readers = {}
  /\ head' = IF head = 0 THEN 0 ELSE fr[head].next
  /\ GotoE(e, "unlock")
  /\ UNCHANGED <<scene, fr, writer, readers, rvars, granted, waits>>

(* arts_progress_frontier, arts_signal_frontier_local. *)
Progress(e) ==
  /\ epc[e] = "advance"
  /\ readers = {}
  /\ head' = IF head = 0 THEN 0 ELSE fr[head].next
  /\ granted' = IF head' = 0 THEN granted ELSE Signalled(head')
  /\ GotoE(e, "unlock")
  /\ UNCHANGED <<scene, fr, writer, readers, rvars, waits>>

Progress_Unlock(e) ==
  /\ epc[e] = "unlock"
  /\ writer' = FALSE
  /\ GotoE(e, IF waits[e] = 1 THEN "away" ELSE "done")
  /\ UNCHANGED <<scene, fr, head, readers, rvars, granted, waits>>

(* arts_wait_reacquire_dbs, after the epoch: seal the head again, or a new  *)
(* one if there is none.                                                    *)
Reacquire_Lock(e) ==
  /\ epc[e] = "away"
  /\ \A a \in Edts \ Waiters : epc[a] = "done"
  /\ ~writer
  /\ writer' = TRUE
  /\ GotoE(e, "reacquire")
  /\ UNCHANGED <<scene, fr, head, readers, rvars, granted, waits>>

Reacquire(e) ==
  /\ epc[e] = "reacquire"
  /\ readers = {}
  /\ IF head = 0
     THEN /\ fr' = Append(fr, [NewFrontier EXCEPT !.write = TRUE])
          /\ head' = Len(fr) + 1
     ELSE /\ fr' = [fr EXCEPT ![head].write = TRUE]
          /\ UNCHANGED head
  /\ writer' = FALSE
  /\ waits' = [waits EXCEPT ![e] = 2]
  /\ GotoE(e, "run")
  /\ UNCHANGED <<scene, readers, rvars, granted>>

----------------------------------------------------------------------------
Push(r) ==
  \/ Push_Look(r) \/ Push_Try(r) \/ Push_New(r) \/ Push_Enter(r)
  \/ Push_Accept(r) \/ Push_Join(r) \/ Push_Next(r) \/ Push_None(r)

Edt(e) ==
  \/ Edt_Run(e) \/ Edt_Return(e) \/ Edt_Lock(e) \/ Wait_Lock(e)
  \/ Progress(e) \/ Progress_Unlock(e)
  \/ Reacquire_Lock(e) \/ Reacquire(e)

Next == (\E r \in Reqs : Push(r)) \/ \E e \in Edts : Edt(e)

Spec == Init /\ [][Next]_vars

(* Threads run on and the spin locks are fair enough that a call waiting    *)
(* for one gets it: strong fairness for the steps that take a lock.         *)
Fairness ==
  /\ \A r \in Reqs : WF_vars(Push(r)) /\ SF_vars(Push_Enter(r))
  /\ \A e \in Edts : WF_vars(Edt(e)) /\ SF_vars(Edt_Lock(e) \/ Wait_Lock(e))

LiveSpec == Spec /\ Fairness

----------------------------------------------------------------------------
(* Properties *)

PushPCs == {"idle", "make", "new", "enter", "walk", "done"}
EdtPCs == {"acquire", "run", "advance", "unlock", "away", "reacquire", "done"}

(* Every variable has its type. *)
TypeOK ==
  /\ scene \in Scenes
  /\ fr \in Seq([write : BOOLEAN, owner : Edts \cup {NoEdt}, next : Nat,
                 delayed : Seq(Reqs)])
  /\ head \in 0 .. Len(fr)
  /\ writer \in BOOLEAN /\ readers \in SUBSET Reqs
  /\ rpc \in [Reqs -> PushPCs]
  /\ cur \in [Reqs -> 0 .. Len(fr)] /\ at \in [Reqs -> 0 .. Len(fr)]
  /\ granted \in [Reqs -> Nat]
  /\ epc \in [Edts -> EdtPCs] /\ waits \in [Edts -> 0 .. 2]

(* An EDT that has the datablock for writing: from the moment its slot is   *)
(* satisfied until it progresses the list.                                  *)
Holds(e) ==
  \/ epc[e] \in {"run", "advance"} /\ Writes(e)
  \/ epc[e] = "acquire" /\ \E r \in ReqsOf(e) : Mode[r] = "EW" /\ granted[r] > 0

(* DB_MODE_EW, "Exclusive Write (single writer, frontier progression)": no  *)
(* two EDTs have the datablock for writing at once.                         *)
SingleWriter == \A d, e \in Edts : Holds(d) /\ Holds(e) => d = e

(* An EDT has progressed the list at least once. *)
Released(e) == epc[e] \in {"unlock", "away", "reacquire", "done"} \/ waits[e] = 2

(* A slot is not satisfied while an EDT that asked for writing earlier, on  *)
(* a frontier before its own, has not released: whoever comes after a       *)
(* writer sees what it wrote.                                               *)
AfterEarlierWriters ==
  \A r \in Reqs : granted[r] > 0 =>
    /\ Released(Creator)
    /\ \A w \in Reqs :
         Mode[w] = "EW" /\ at[w] # 0 /\ at[w] < at[r] => Released(EdtOf[w])

(* No slot is satisfied twice: depc_needed is decremented once for each. *)
GrantedOnce == \A r \in Reqs : granted[r] <= 1

(* Every acquire made while the creator holds the datablock is taken by     *)
(* some frontier: "Tries each frontier from head to tail until one accepts  *)
(* the push".                                                               *)
SomeFrontierAccepts == \A r \in Reqs \ Late : rpc[r] = "done" => at[r] # 0

(* If all of them are, every slot is satisfied in the end and every EDT     *)
(* runs.                                                                    *)
EveryEdtRuns == \A e \in Edts : <>(Late # {} \/ epc[e] = "done")
=============================================================================
