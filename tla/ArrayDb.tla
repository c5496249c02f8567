------------------------------ MODULE ArrayDb ------------------------------
(***************************************************************************)
(* The distributed array (array_db.c) over the put and get operations of   *)
(* db.c: one ARTS_DB_LOCAL block of the same GUID on each rank, element i  *)
(* in block i / elements_per_block.  The creator enqueues its block for    *)
(* the other ranks; an EDT on scene.by puts every element, and then the    *)
(* array is read there, by gets, a gather or one of the two for_each       *)
(* loops: at once ("order"), from an EDT that the puts signal ("signal"),  *)
(* or after the epoch of the puts ("epoch").  A put or a get that reaches  *)
(* a rank before its block waits in the out-of-order list of the GUID; a   *)
(* value that reaches a rank before the EDT it is for waits in the list of *)
(* the EDT.                                                                *)
(*                                                                         *)
(* The links are FIFO; scene.receivers says whether one receiver thread of *)
(* a rank serves all of them, or each its own.  The payload of the move of *)
(* a block is read when it is sent, after it was enqueued: any content     *)
(* that the block of the creator has had meanwhile.                        *)
(***************************************************************************)
EXTENDS Integers, Sequences, FiniteSets, SequencesExt

CONSTANT Scenes   \* [ranks, num, by, receivers, gate, read, route, stride]

VARIABLE a

Ranks == 0 .. a.scene.ranks - 1
Creator == 0
By == a.scene.by
Reader == 0       \* the EDT that the puts signal; the others are 1, 2, ...

(* arts_new_array_db_with_guid *)
Shape(n, ranks) ==
  LET per == n \div ranks IN
  IF per = 0 THEN [per |-> 1, blocks |-> n]
  ELSE [per |-> IF n % ranks # 0 THEN per + 1 ELSE per, blocks |-> ranks]

Per == Shape(a.scene.num, a.scene.ranks).per
Blocks == Shape(a.scene.num, a.scene.ranks).blocks
Size == Per * Blocks                            \* arts_get_size_array_db
Block(i) == i \div Per                          \* get_rank_from_index
Offset(i) == i % Per                            \* get_offset_from_index

NoBlock == <<>>
NoEdt == [made |-> FALSE, need |-> 0, slots |-> <<>>, oo |-> <<>>, ran |-> FALSE]

Init == \E s \in Scenes :
  LET sh == Shape(s.num, s.ranks) IN
  a = [scene |-> s,
       pc    |-> "new",
       i     |-> 0,
       block |-> [r \in 0 .. s.ranks - 1 |-> NoBlock],
       past  |-> {},
       fire  |-> [r \in 0 .. s.ranks - 1 |-> FALSE],
       oo    |-> [r \in 0 .. s.ranks - 1 |-> <<>>],
       net   |-> [q \in (0 .. s.ranks - 1) \X (0 .. s.ranks - 1) |-> <<>>],
       ep    |-> [active |-> 0, queue |-> 0, fin |-> 0],
       edt   |-> [e \in 0 .. sh.per * sh.blocks |-> NoEdt],
       seen  |-> [i \in 0 .. sh.per * sh.blocks - 1 |-> <<>>]]

Send(x, from, to, m) == [x EXCEPT !.net[<<from, to>>] = Append(@, m)]

----------------------------------------------------------------------------
(* Signals *)

(* Where an EDT was routed to *)
Home(e) ==
  CASE e = Reader -> By
    [] e # Reader /\ a.scene.read = "each" -> Block(e - 1)
    [] e # Reader /\ a.scene.read = "data" -> e - 1
    [] OTHER -> a.scene.route

RemoteSignalEdtWithPtr(x, r, m) == Send(x, r, Home(m.edt), [m EXCEPT !.op = "signal"])
OutOfOrderSignal(x, m) == [x EXCEPT !.edt[m.edt].oo = Append(@, m)]

(* internal_signal_edt_ex with DB_MODE_PTR, or with the GUID of the array *)
SignalEdt(x, r, m) ==
  IF Home(m.edt) # r THEN RemoteSignalEdtWithPtr(x, r, m)
  ELSE IF ~x.edt[m.edt].made THEN OutOfOrderSignal(x, m)
  ELSE [x EXCEPT !.edt[m.edt].slots[m.slot] = m.val, !.edt[m.edt].need = @ - 1]

(* arts_edt_create; an EDT routed elsewhere is moved there.  Then the      *)
(* signals that came before it are replayed.                               *)
Made(x, r, m) ==
  FoldLeft(LAMBDA y, n : SignalEdt(y, r, n),
           [x EXCEPT !.edt[m.edt].made = TRUE, !.edt[m.edt].need = m.slot,
                     !.edt[m.edt].slots = [k \in 0 .. m.slot - 1 |-> <<>>],
                     !.edt[m.edt].oo = <<>>],
           x.edt[m.edt].oo)
EdtCreate(x, r, e, depc) ==
  LET m == [op |-> "edt", edt |-> e, slot |-> depc, rank |-> 0,
            off |-> 0, len |-> 0, val |-> <<>>]
  IN IF Home(e) = r THEN Made(x, r, m) ELSE Send(x, r, Home(e), m)

----------------------------------------------------------------------------
(* Puts and gets *)

RemotePutInDb(x, r, m) == Send(x, r, m.rank, m)
RemoteGetFromDb(x, r, m) == Send(x, r, m.rank, m)
OutOfOrderPutInDb(x, r, m) == [x EXCEPT !.oo[r] = Append(@, m)]
OutOfOrderGetFromDb(x, r, m) == [x EXCEPT !.oo[r] = Append(@, m)]

Written(x, r, m) ==
  LET y == [x EXCEPT !.block[r][m.off + 1] = m.val[1]]
  IN  IF r = Creator THEN [y EXCEPT !.past = @ \cup {y.block[r]}] ELSE y

(* Mutant: the put ends for its epoch and its EDT when it is put off. *)
InternalPutInDb_Early(x, r, m) ==
  LET ended(y) ==
        LET z == [y EXCEPT !.ep.queue = @ + 1, !.ep.fin = @ + 1]
        IN  IF m.edt = -1 THEN z ELSE SignalEdt(z, r, [m EXCEPT !.val = <<>>])
  IN IF m.rank # r THEN Send(x, r, m.rank, m)
     ELSE IF x.block[r] = NoBlock
     THEN ended([x EXCEPT !.oo[r] = Append(@, m)])
     ELSE ended(Written(x, r, m))

(* internal_put_in_db: an EDT is signalled when the data are in place, and *)
(* the put counts as queued and finished for its epoch.                    *)
InternalPutInDb(x, r, m) ==
  IF m.rank # r THEN RemotePutInDb(x, r, m)
  ELSE IF x.block[r] = NoBlock THEN OutOfOrderPutInDb(x, r, m)
  ELSE LET y == [Written(x, r, m) EXCEPT !.ep.queue = @ + 1, !.ep.fin = @ + 1]
       IN  IF m.edt = -1 THEN y ELSE SignalEdt(y, r, [m EXCEPT !.val = <<>>])

(* arts_put_in_db_at, arts_put_in_db_epoch *)
PutInDbAt(x, r, e, slot, off, rank, v) ==
  InternalPutInDb([x EXCEPT !.ep.active = @ + 1], r,
                  [op |-> "put", edt |-> e, slot |-> slot, rank |-> rank,
                   off |-> off, len |-> 1, val |-> <<v>>])

(* arts_put_in_array_db *)
PutInArrayDb(x, r, e, i, v) == PutInDbAt(x, r, e, i, Offset(i), Block(i), v)

(* arts_alloc_db_slice_payload: what goes to the EDT is a copy *)
SlicePayload(block, off, len) == SubSeq(block, off + 1, off + len)

(* internal_get_from_db for an ARTS_DB_LOCAL block *)
InternalGetFromDb(x, r, m) ==
  IF m.rank # r THEN RemoteGetFromDb(x, r, m)
  ELSE IF x.block[r] = NoBlock THEN OutOfOrderGetFromDb(x, r, m)
  ELSE SignalEdt(x, r, [m EXCEPT !.val = SlicePayload(x.block[r], m.off, m.len)])

GetFromDbAt(x, r, e, slot, off, len, rank) ==
  InternalGetFromDb(x, r, [op |-> "get", edt |-> e, slot |-> slot, rank |-> rank,
                           off |-> off, len |-> len, val |-> <<>>])

(* arts_get_from_array_db *)
GetFromArrayDb(x, r, e, slot, i) ==
  GetFromDbAt(x, r, e, slot, Offset(i), 1, Block(i))

Perform(x, r, m) == IF m.op = "put" THEN InternalPutInDb(x, r, m)
                    ELSE InternalGetFromDb(x, r, m)

----------------------------------------------------------------------------
(* The program *)

Zeros == [k \in 1 .. Per |-> 0]
Packet(op) == [op |-> op, edt |-> 0, slot |-> 0, rank |-> 0,
         off |-> 0, len |-> 0, val |-> <<>>]

(* arts_new_array_db: the block is enqueued for the other ranks, those     *)
(* that no element falls to included, and then adopted.  The EDT that puts *)
(* gets the GUID of the array.                                             *)
NewArrayDb ==
  /\ a.pc = "new"
  /\ LET x == [a EXCEPT !.pc = "sent", !.block[Creator] = Zeros, !.past = {Zeros}]
         y == FoldLeft(LAMBDA z, r : Send(z, Creator, r, Packet("move")), x,
                       [k \in 1 .. a.scene.ranks - 1 |-> k])
     IN a' = Send(y, Creator, By, Packet("array"))

Started(x) ==
  LET y == [x EXCEPT !.pc = "put"] IN
  IF a.scene.gate = "signal" THEN EdtCreate(y, By, Reader, a.scene.num) ELSE y

(* Value k + 1 is put in element k. *)
Put ==
  /\ a.pc = "put"
  /\ IF a.i < a.scene.num
     THEN LET e == IF a.scene.gate = "signal" THEN Reader ELSE -1
          IN a' = [PutInArrayDb(a, By, e, a.i, a.i + 1) EXCEPT !.i = @ + 1]
     ELSE a' = [a EXCEPT !.i = 0, !.pc = "gate"]

(* The reading starts *)
Gate ==
  /\ a.pc = "gate"
  /\ CASE a.scene.gate = "order"  -> TRUE
       [] a.scene.gate = "signal" -> a.edt[Reader].need = 0
       [] a.scene.gate = "epoch"  -> a.ep.active = a.ep.fin
  /\ a' = [a EXCEPT !.pc = "read"]

(* Each pass of the loops of for_each_in_array_db, gather_array_db, and    *)
(* for_each_in_array_db_at_data, and the gets of an EDT with a slot for    *)
(* each element.                                                           *)
CreateFirst(x, e, depc) == IF a.i = 0 THEN EdtCreate(x, By, e, depc) ELSE x
ForEach == GetFromArrayDb(EdtCreate(a, By, a.i + 1, 1),
                          By, a.i + 1, 0, a.i)
GatherInEdt(x, e) == GetFromDbAt(x, By, e, a.i, 0, Per, a.i)
Gather == GatherInEdt(CreateFirst(a, 1, Blocks), 1)
Gets == GetFromArrayDb(CreateFirst(a, 1, Size), By, 1, a.i, a.i)
AtData == SignalEdt(EdtCreate(a, By, a.i + 1, 1), By,
                    [op |-> "signal", edt |-> a.i + 1, slot |-> 0, rank |-> 0,
                     off |-> 0, len |-> 0, val |-> <<>>])

Read ==
  /\ a.pc = "read"
  /\ LET passes == IF a.scene.read \in {"gather", "data"} THEN Blocks ELSE Size
         x == CASE a.scene.read = "each"   -> ForEach
                [] a.scene.read = "gather" -> Gather
                [] a.scene.read = "get"    -> Gets
                [] a.scene.read = "data"   -> AtData
     IN a' = [x EXCEPT !.i = @ + 1, !.pc = IF a.i + 1 = passes THEN "end" ELSE @]

(* loop_policy: the index goes on by the stride, the data by one element *)
LoopPolicy(r) ==
  [i \in 0 .. Size - 1 |->
     LET d == i - r * Per IN
     IF i \div Per = r /\ d % a.scene.stride = 0
     THEN <<a.block[r][d \div a.scene.stride + 1]>> ELSE <<>>]

(* An EDT runs when its slots are filled: what it sees of each element *)
RunEdt(e) ==
  /\ e # Reader /\ a.edt[e].made /\ a.edt[e].need = 0 /\ ~a.edt[e].ran
  /\ a.scene.read = "data" => a.block[Home(e)] # NoBlock
  /\ LET got == CASE a.scene.read = "data"   -> LoopPolicy(e - 1)
                  [] a.scene.read = "gather" ->
                       [i \in 0 .. Size - 1 |->
                          <<a.edt[e].slots[Block(i)][Offset(i) + 1]>>]
                  [] a.scene.read = "get"    ->
                       [i \in 0 .. Size - 1 |-> a.edt[e].slots[i]]
                  [] a.scene.read = "each"   ->
                       [i \in 0 .. Size - 1 |->
                          IF i = e - 1 THEN a.edt[e].slots[0] ELSE <<>>]
     IN a' = [a EXCEPT !.edt[e].ran = TRUE,
                       !.seen = [i \in DOMAIN @ |-> @[i] \o got[i]]]

----------------------------------------------------------------------------
(* Receivers *)

(* arts_remote_handle_db_move: the block enters the route table, and the   *)
(* operations that waited for it are replayed.                             *)
HandleDbMove(q) ==
  /\ a.net[q] # <<>> /\ Head(a.net[q]).op = "move"
  /\ \E b \in a.past :
       a' = [a EXCEPT !.net[q] = Tail(@), !.block[q[2]] = b, !.fire[q[2]] = TRUE]

FireOo(r) ==
  /\ a.fire[r]
  /\ a' = IF a.oo[r] = <<>> THEN [a EXCEPT !.fire[r] = FALSE]
          ELSE Perform([a EXCEPT !.oo[r] = Tail(@)], r, Head(a.oo[r]))

(* The receiver that replays the list handles no other packet meanwhile. *)
Deliver(q) ==
  /\ a.net[q] # <<>> /\ Head(a.net[q]).op # "move"
  /\ a.fire[q[2]] => q[1] # Creator /\ a.scene.receivers > 1
  /\ LET m == Head(a.net[q])
         x == [a EXCEPT !.net[q] = Tail(@)]
     IN a' = CASE m.op = "edt"    -> Made(x, q[2], m)
               [] m.op = "array"  -> Started(x)
               [] m.op = "signal" -> SignalEdt(x, q[2], m)
               [] OTHER           -> Perform(x, q[2], m)

Next == \/ NewArrayDb \/ Put \/ Gate \/ Read
        \/ \E e \in DOMAIN a.edt : RunEdt(e)
        \/ \E q \in DOMAIN a.net : HandleDbMove(q) \/ Deliver(q)
        \/ \E r \in Ranks : FireOo(r)

----------------------------------------------------------------------------
(* Nothing is left to do. *)
Quiet ==
  /\ a.pc = "end" /\ \A q \in DOMAIN a.net : a.net[q] = <<>>
  /\ \A r \in Ranks : ~a.fire[r]
  /\ \A e \in DOMAIN a.edt \ {Reader} : a.edt[e].made => a.edt[e].ran

(* Whatever orders the reading after the puts - the program order of one   *)
(* thread, the signals of the puts, or the end of their epoch - each       *)
(* element is read as it was put, whether its block, its put or the EDT    *)
(* that reads it came late; and in the end each element has been read      *)
(* exactly once.                                                           *)
ReadsWhatWasPut ==
  \A i \in 0 .. a.scene.num - 1 :
    /\ \A k \in DOMAIN a.seen[i] : a.seen[i][k] = i + 1
    /\ Quiet => Len(a.seen[i]) = 1

(* "We have to manually create the db so it isn't updated before we send   *)
(* it...": an element that nothing was put in reads as zero.  It does not  *)
(* hold: the payload of the move is the block of the creator itself, where *)
(* puts may have come before it is sent.                                   *)
UnputIsZero ==
  \A i \in a.scene.num .. Size - 1 : \A k \in DOMAIN a.seen[i] : a.seen[i][k] = 0
=============================================================================
