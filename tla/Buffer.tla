------------------------------- MODULE Buffer -------------------------------
(***************************************************************************)
(* Local buffers (edt.c): a stub in the route table of the rank that made  *)
(* it, with a number of uses.  Sets, local or from another rank, write to  *)
(* it, gets read it, a block waits until its own use is the last one; the  *)
(* last user removes the stub.  An access is a thread of its own, a set    *)
(* from elsewhere once its message is there.  Contents are sequences of    *)
(* cells, each the number of the set that wrote it; the cells past the end *)
(* of a source are Garbage.  A copy is one step: no property tells the     *)
(* cells of one set from those of another.                                 *)
(***************************************************************************)
EXTENDS Integers, Sequences, FiniteSets

CONSTANT Scenes   \* [size, given, uses, accs: sequence of [op, size, away]]

VARIABLE f

Accs == DOMAIN f.scene.accs
Acc(i) == f.scene.accs[i]
Garbage == 0
Null == <<>>
Fresh(n) == [k \in 1 .. n |-> Garbage]

(* arts_allocate_local_buffer: with a size, the buffer is the one given or *)
(* a new one; without, it is the one given, if any.                        *)
Init == \E s \in Scenes :
  f = [scene |-> s,
       live  |-> TRUE,                  \* the stub is in the table
       size  |-> s.size,
       buf   |-> IF s.size > 0 THEN Fresh(s.size)
                 ELSE IF s.given > 0 THEN Fresh(s.given) ELSE Null,
       uses  |-> s.uses,
       epoch |-> [active |-> 1, queue |-> 0, fin |-> 0],
       pc    |-> [i \in DOMAIN s.accs |->
                    IF s.accs[i].away THEN "away" ELSE "start"],
       got   |-> [i \in DOMAIN s.accs |-> Null]]

Goto(x, i, pc) == [x EXCEPT !.pc[i] = pc]

(* A set from another rank: ARTS_REMOTE_BUFFER_SEND_MSG *)
BufferSend(i) == f.pc[i] = "away" /\ f' = Goto(f, i, "start")

(* arts_route_table_lookup_item *)
Lookup(i) ==
  /\ f.pc[i] = "start"
  /\ f' = IF ~f.live THEN Goto(f, i, "null")
          ELSE CASE Acc(i).op = "set" ->
                      [Goto(f, i, IF Acc(i).size <= f.size \/ f.size > 0 THEN "copy"
                                  ELSE IF f.buf = Null THEN "alloc" ELSE "resize")
                       EXCEPT !.epoch.queue = @ + 1]
                 [] Acc(i).op = "get"   -> Goto(f, i, "read")
                 [] Acc(i).op = "block" -> Goto(f, i, "wait")

(* arts_set_buffer: a stub without a size takes that of the data *)
Resize(i) ==
  /\ f.pc[i] \in {"alloc", "resize"}
  /\ f' = [Goto(f, i, "copy") EXCEPT
             !.size = Acc(i).size,
             !.buf = IF f.pc[i] = "alloc" THEN Fresh(Acc(i).size) ELSE @]

(* memcpy of the size of the stub *)
Copy(i) ==
  /\ f.pc[i] = "copy"
  /\ f' = IF f.buf = Null THEN Goto(f, i, "drop")
          ELSE [Goto(f, i, "drop") EXCEPT
                  !.buf = [k \in 1 .. Len(@) |->
                             IF k > f.size THEN @[k]
                             ELSE IF k <= Acc(i).size THEN i ELSE Garbage]]

(* Mutant: the block also goes on while one other use is to come. *)
Wait_One(i) ==
  /\ f.pc[i] = "wait" /\ f.uses <= 2
  /\ f' = Goto(f, i, "read")

(* arts_block_for_buffer polls the uses between its yields. *)
Wait(i) ==
  /\ f.pc[i] = "wait" /\ f.uses <= 1
  /\ f' = Goto(f, i, "read")

(* arts_get_buffer and arts_block_for_buffer return the pointer *)
Read(i) ==
  /\ f.pc[i] = "read"
  /\ f' = [Goto(f, i, "drop") EXCEPT !.got[i] = f.buf]

(* The last use removes the stub. *)
Drop(i) ==
  /\ f.pc[i] = "drop"
  /\ f' = [Goto(f, i, IF Acc(i).op = "set" THEN "finish" ELSE "done") EXCEPT
             !.uses = @ - 1, !.live = @ /\ f.uses # 1]

Finish(i) ==
  /\ f.pc[i] = "finish"
  /\ f' = [Goto(f, i, "done") EXCEPT !.epoch.fin = @ + 1]

Next == \E i \in Accs :
  \/ BufferSend(i) \/ Lookup(i) \/ Resize(i) \/ Copy(i)
  \/ Wait(i) \/ Read(i) \/ Drop(i) \/ Finish(i)

----------------------------------------------------------------------------
(* Where an access holds a pointer to the stub *)
Inside == {"alloc", "resize", "copy", "wait", "read", "drop"}

(* With as many accesses as uses, no access reads the stub after the last  *)
(* one freed it or finds it gone, and what a block returns is data of the  *)
(* sets, after all of them.                                                *)
BlockIsLast ==
  /\ \A i \in Accs : f.pc[i] \in Inside => f.live
  /\ \A i \in Accs : f.pc[i] # "null"
  /\ \A i \in Accs : Acc(i).op = "block" /\ f.pc[i] \in {"drop", "done"} =>
       /\ \A j \in Accs \ {i} : f.pc[j] \in {"finish", "done"}
       /\ \A c \in DOMAIN f.got[i] :
            f.got[i][c] \in {j \in Accs : Acc(j).op = "set"}

(* "Epoch for termination-detection accounting": when every access has     *)
(* been made, what the buffer added to its epoch is finished.  It does not *)
(* hold with other than one set: the buffer counts once, each set once.    *)
EpochSettled ==
  (\A i \in Accs : f.pc[i] = "done") => f.epoch.active = f.epoch.fin
=============================================================================
