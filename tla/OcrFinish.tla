----------------------------- MODULE OcrFinish ------------------------------
(***************************************************************************)
(* EDTs of the OCR interface on top of ARTS (benchmarks/ocr_shim).  An OCR *)
(* EDT runs inside a trampoline.  A finish EDT with an output event gets   *)
(* an epoch of its own and a helper EDT that waits for the epoch and for   *)
(* the value the EDT returns, and then satisfies the event.  A finish EDT  *)
(* without an output event gets neither.                                   *)
(*                                                                         *)
(* An epoch is what Quiescence.tla promises: it may fire once its counts   *)
(* agree.  An event is what Event.tla promises: it passes on once.         *)
(***************************************************************************)
EXTENDS Integers, SequencesExt, FiniteSets

CONSTANTS Scenes      \* [edts, each, plain]: how many EDTs, the helpers included,
                      \* how many calls of ocrEdtCreate one EDT makes, and
                      \* whether the main EDT creates others than finish EDTs

VARIABLE t            \* [scene, edt, epoch, fired]

Edts == DOMAIN t.edt
Epochs == DOMAIN t.epoch
Events == DOMAIN t.fired

(* The words of paramv: own epoch, output event, helper; the dependences   *)
(* are events, and for a helper also epochs and the return of another EDT. *)
NewEdt(kind, parent, in, own, out, helper, deps) ==
  [kind |-> kind, st |-> "created", parent |-> parent, in |-> in, own |-> own,
   out |-> out, helper |-> helper, deps |-> deps, list |-> <<>>, ret |-> 0]

(* main_edt: the main EDT has no epoch. *)
Init == \E sc \in Scenes :
  t = [scene |-> sc, fired |-> <<>>, epoch |-> <<>>,
       edt |-> <<NewEdt("plain", 0, 0, 0, 0, 0, {})>>]

(* The epoch of an EDT that i creates (arts_edt_create_internal): the own  *)
(* epoch of a new finish EDT is on nobody's list yet.                      *)
Current(i) == IF t.edt[i].list = <<>> THEN 0 ELSE Last(t.edt[i].list)

Activate(ep, e, k) == IF e = 0 THEN ep ELSE [ep EXCEPT ![e].active = @ + k]

Room(i, k) ==
  /\ Len(t.edt) + k <= t.scene.edts
  /\ Cardinality({c \in Edts : t.edt[c].parent = i /\ t.edt[c].kind # "helper"}) < t.scene.each

Plain(i) == i # 1 \/ t.scene.plain

(* ocrEdtCreate without EDT_PROP_FINISH, or without an output event *)
EdtCreate(i, kind, out, deps) ==
  /\ t.edt[i].st = "running" /\ Room(i, 1) /\ Plain(i)
  /\ LET ev == IF out THEN Len(t.fired) + 1 ELSE 0 IN
     t' = [t EXCEPT
             !.fired = IF out THEN Append(@, 0) ELSE @,
             !.epoch = Activate(@, Current(i), 1),
             !.edt = Append(@, NewEdt(kind, i, Current(i), 0, ev, 0, deps))]

(* Mutant: the helper EDT is created in no epoch. *)
FinishCreate_Helper(i, deps) ==
  /\ t.edt[i].st = "running" /\ Room(i, 2)
  /\ LET ev == Len(t.fired) + 1
         e == Len(t.epoch) + 1
         h == Len(t.edt) + 1
     IN t' = [t EXCEPT
                !.fired = Append(@, 0),
                !.epoch = Append(Activate(@, Current(i), 1),
                                 [active |-> 0, fin |-> 0, done |-> FALSE, helper |-> h]),
                !.edt = @ \o <<NewEdt("helper", i, 0, 0, ev, 0, {<<"epoch", e>>, <<"edt", h + 1>>}),
                               NewEdt("finish", i, Current(i), e, ev, h, deps)>>]

(* ocrEdtCreate with EDT_PROP_FINISH and an output event: the helper is    *)
(* created first, then its epoch, then the EDT.                            *)
FinishCreate(i, deps) ==
  /\ t.edt[i].st = "running" /\ Room(i, 2)
  /\ LET ev == Len(t.fired) + 1
         e == Len(t.epoch) + 1
         h == Len(t.edt) + 1
     IN t' = [t EXCEPT
                !.fired = Append(@, 0),
                !.epoch = Append(Activate(@, Current(i), 2),
                                 [active |-> 0, fin |-> 0, done |-> FALSE, helper |-> h]),
                !.edt = @ \o <<NewEdt("helper", i, Current(i), 0, ev, 0,
                                      {<<"epoch", e>>, <<"edt", h + 1>>}),
                               NewEdt("finish", i, Current(i), e, ev, h, deps)>>]

(* A slot is satisfied: the event has fired; the epoch has fired; the EDT  *)
(* has returned, and if it returned an event that one has fired.           *)
Satisfied(d) ==
  CASE d[1] = "event" -> t.fired[d[2]] > 0
    [] d[1] = "epoch" -> t.epoch[d[2]].done
    [] d[1] = "edt" -> /\ t.edt[d[2]].st \in {"ended", "done"}
                       /\ t.edt[d[2]].ret # 0 => t.fired[t.edt[d[2]].ret] > 0

Ready(i) == t.edt[i].st = "created" /\ \A d \in t.edt[i].deps : Satisfied(d)

(* The list starts with the EDT's epoch; the trampoline of a finish EDT    *)
(* enters its own epoch and counts itself in it.                           *)
Trampoline(i) ==
  /\ Ready(i) /\ t.edt[i].kind # "helper"
  /\ LET x == t.edt[i] IN
     t' = [t EXCEPT
             !.edt[i].st = "running",
             !.edt[i].list = SelectSeq(<<x.in, x.own>>, LAMBDA e : e # 0),
             !.epoch = Activate(@, x.own, 1)]

(* Mutant: the output event of a finish EDT is satisfied as it returns. *)
Returned_Early(i, ret) ==
  /\ t.edt[i].st = "running" /\ t.edt[i].kind # "helper"
  /\ t' = [t EXCEPT
             !.edt[i].st = "ended", !.edt[i].ret = ret,
             !.fired = IF t.edt[i].out = 0 THEN @ ELSE [@ EXCEPT ![t.edt[i].out] = @ + 1]]

(* The function has returned null or an event: an EDT that is not a finish *)
(* EDT satisfies its event, the other one has its helper's slot 1 wait for *)
(* what it returned.                                                       *)
Returned(i, ret) ==
  /\ t.edt[i].st = "running" /\ t.edt[i].kind # "helper"
  /\ t' = [t EXCEPT
             !.edt[i].st = "ended", !.edt[i].ret = ret,
             !.fired = IF t.edt[i].out = 0 \/ t.edt[i].kind # "plain" THEN @
                       ELSE [@ EXCEPT ![t.edt[i].out] = @ + 1]]

(* arts_increment_finished_epoch_list *)
EndEdt(i) ==
  /\ t.edt[i].st = "ended"
  /\ t' = [t EXCEPT
             !.edt[i].st = "done", !.edt[i].list = <<>>,
             !.epoch = [e \in Epochs |->
                 [@[e] EXCEPT !.fin = IF e \in ToSet(t.edt[i].list) THEN @ + 1 ELSE @]]]

EpochFires(e) ==
  /\ t.epoch[e].active = t.epoch[e].fin /\ t.epoch[e].fin > 0 /\ ~t.epoch[e].done
  /\ t' = [t EXCEPT !.epoch[e].done = TRUE]

(* epoch_termination_edt *)
EpochTerminationEdt(i) ==
  /\ Ready(i) /\ t.edt[i].kind = "helper"
  /\ t' = [t EXCEPT
             !.edt[i].st = "ended",
             !.edt[i].list = SelectSeq(<<t.edt[i].in>>, LAMBDA e : e # 0),
             !.fired[t.edt[i].out] = @ + 1]

(* The events i has got from the EDTs it created *)
OutputsOf(i) == {t.edt[k].out : k \in {k \in Edts : t.edt[k].parent = i}} \ {0}

Dependences(i) == {{}} \cup {{<<"event", ev>>} : ev \in OutputsOf(i)}

Next ==
  \/ \E i \in Edts :
       \/ \E d \in Dependences(i) :
            \/ \E out \in BOOLEAN : EdtCreate(i, "plain", out, d)
            \/ EdtCreate(i, "quiet", FALSE, d)
            \/ FinishCreate(i, d)
       \/ Trampoline(i) \/ EndEdt(i) \/ EpochTerminationEdt(i)
       \/ \E ret \in OutputsOf(i) \cup {0} : Returned(i, ret)
  \/ \E e \in Epochs : EpochFires(e)

----------------------------------------------------------------------------
RECURSIVE IsUnder(_, _)
IsUnder(k, i) == LET p == t.edt[k].parent IN p # 0 /\ (p = i \/ IsUnder(p, i))

(* The output event of a finish EDT is satisfied when the EDT and all its  *)
(* descendants have ended, nested finish EDTs with an epoch of their own   *)
(* and finish EDTs without one included (arts_ocr.c, ocrEdtCreate: "the    *)
(* root epoch to miss deeply-nested descendants and fire prematurely").    *)
OutputAfterDescendants ==
  \A i \in Edts : t.edt[i].kind = "finish" /\ t.fired[t.edt[i].out] > 0 =>
    \A k \in Edts : k = i \/ IsUnder(k, i) => t.edt[k].st = "done"

(* Every output event is satisfied once: never twice, and when nothing can *)
(* run any more none is left (arts_ocr.c, ocr_edt_trampoline).             *)
OutputOnce ==
  /\ \A ev \in Events : t.fired[ev] <= 1
  /\ (\A i \in Edts : t.edt[i].st = "done" \/ (t.edt[i].st = "created" /\ ~Ready(i)))
     /\ (\A e \in Epochs : t.epoch[e].done \/ t.epoch[e].active # t.epoch[e].fin)
       => \A ev \in Events : t.fired[ev] = 1
=============================================================================
