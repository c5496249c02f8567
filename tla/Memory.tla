------------------------------- MODULE Memory -------------------------------
(***************************************************************************)
(* The distributed memory model: datablocks, each owned by one rank, used  *)
(* by EDTs of all ranks (memory/db.c, memory/frontier.c, remote/handler.c, *)
(* gas/out_of_order.c, transport/dispatcher.c).  An EDT acquires its       *)
(* datablocks slot by slot; the owner orders the accesses in a list of     *)
(* frontiers; ranks hold copies, entered in their route tables; messages   *)
(* between two ranks arrive in order.  One call of a handler is one step,  *)
(* and what it calls is an operator from state to state, named after the   *)
(* function.  The data of a copy is the set of EDTs whose writes it has.   *)
(***************************************************************************)
EXTENDS Integers, Sequences, FiniteSets, SequencesExt

CONSTANTS
  Ranks,   \* the ranks
  Dbs,     \* the datablocks, numbers in the order of their GUIDs
  Owner,   \* the rank a datablock's GUID names
  Edts,    \* the EDTs
  Scenes   \* the programs explored, each with
           \*   on: the rank of an EDT,
           \*   deps: its dependence slots, a sequence of [db, mode], mode
           \*     "RO", "EW" or "SLICE" (a copied byte range),
           \*   signals: the EDTs its body signals,
           \*   early: whether it releases its datablocks first (arts_db_release),
           \*   makes, puts, destroys: the datablocks its body creates, writes
           \*     with arts_put_in_db, and destroys,
           \*   waits: the EDTs its body waits for (arts_wait_on_handle)

(* What the constants must be. *)
MemoryAssumption ==
  /\ Dbs \subseteq Nat
  /\ Owner \in [Dbs -> Ranks]

VARIABLES
  scene,   \* the member of Scenes this behaviour is about
  s        \* the state: a record with
           \*   item: a rank's route-table item for a datablock,
           \*   heap: the copies a rank has allocated of it,
           \*   fr: the frontiers of its list, head first,
           \*   net: the messages from one rank to another, in order,
           \*   sig: the signals an EDT has still to get,
           \*   pc, todo, need, ptr: where an EDT is, the slots it has still
           \*     to ask for, depc_needed, and the copy each slot points to,
           \*   own: the data of a slot that has a copy of its own,
           \*   seen: history, what each slot held when the body read it

vars == <<scene, s>>

On(e) == scene.on[e]
Slots(e) == DOMAIN scene.deps[e]
Db(e, i) == scene.deps[e][i].db
Mode(e, i) == scene.deps[e][i].mode
Makers(d) == {e \in Edts : d \in scene.makes[e]}

Open == 0    \* depv[slot].ptr == NULL
Null == -1   \* the slot was turned into a NULL dependence
Own == -2    \* it points to a byte range copied for it
NoEdt == "none"

NoItem == [st |-> "none", rank |-> Null, fired |-> FALSE, oo |-> <<>>]

(* arts_new_db_frontier *)
NewFrontier == [write |-> FALSE, nodes |-> <<>>, ex |-> <<>>, writer |-> NoEdt,
                delayed |-> <<>>, slices |-> <<>>]

----------------------------------------------------------------------------
(* Route table and messages *)

Avail(t, r, d) == t.item[r][d].st = "available"
Owns(r, d) == Owner[d] = r
Allocated(t, r, d) == t.item[r][d].st \in {"available", "requested"}
Copy(t, r, d) == Len(t.heap[r][d])
Data(t, r, d) == Last(t.heap[r][d])

Send(t, r, q, m) == [t EXCEPT !.net[r][q] = Append(@, m)]

(* arts_db_malloc and the route-table entry of the new copy *)
Enter(t, r, d, data) ==
  [t EXCEPT !.heap[r][d] = Append(@, data),
            !.item[r][d].st = "available",
            !.item[r][d].rank = r,
            !.fr[d] = IF Owns(r, d) THEN <<NewFrontier>> ELSE @]

(* arts_route_table_update_item, over the data that is there *)
Overwrite(t, r, d, data) ==
  [t EXCEPT !.heap[r][d][Copy(t, r, d)] = data,
            !.item[r][d].st = "available",
            !.item[r][d].rank = r]

(* arts_route_table_invalidate_item, arts_route_table_mark_delete *)
Invalidate(t, r, d) == IF Avail(t, r, d) THEN [t EXCEPT !.item[r][d] = NoItem] ELSE t

(* arts_route_table_add_oo: an item that is being fetched takes none. *)
AddOo(t, r, d, x) ==
  LET it == t.item[r][d]
  IN  IF it.st \in {"none", "reserved"} /\ ~it.fired
      THEN [ok |-> TRUE,
            t |-> [t EXCEPT !.item[r][d].st = "reserved",
                            !.item[r][d].oo = Append(@, x)]]
      ELSE [ok |-> FALSE, t |-> t]

----------------------------------------------------------------------------
(* EDT slots *)

(* arts_db_request_callback, arts_signal_frontier_local: the slot gets its  *)
(* datablock, and the last one queues the EDT.                              *)
Callback(t, e, i, c) ==
  [t EXCEPT !.ptr[e][i] = c,
            !.need[e] = @ - 1,
            !.pc[e] = IF t.need[e] = 1 THEN "ready" ELSE @]

(* internal_signal_edt_ex *)
Signal(t, r, e, a) ==
  IF On(e) = r THEN [t EXCEPT !.sig[e] = @ \ {a}]
  ELSE Send(t, r, On(e), [t |-> "SIGNAL", e |-> e, a |-> a])

(* arts_signal_edt_ptr_with_guid, arts_satisfy_local_edt_slice: a slot gets *)
(* a copy of its own.                                                       *)
GiveSlice(t, r, e, i, data) ==
  IF On(e) = r THEN Callback([t EXCEPT !.own[e][i] = data], e, i, Own)
  ELSE Send(t, r, On(e), [t |-> "SIGNAL_PTR", d |-> Db(e, i), e |-> e, i |-> i,
                          data |-> data])

(* arts_remote_get_from_db, arts_remote_put_in_db *)
RemoteGet(t, r, q, d, e, i) == Send(t, r, q, [t |-> "GET", d |-> d, e |-> e, i |-> i])
RemotePut(t, r, q, d, e) == Send(t, r, q, [t |-> "PUT", d |-> d, e |-> e])

(* arts_out_of_order_get_from_db, arts_out_of_order_put_in_db, and the same  *)
(* for requests of other ranks: they are kept until the datablock comes.     *)
OoGet(t, r, d, e, i) == AddOo(t, r, d, [t |-> "GET", e |-> e, i |-> i]).t
OoPut(t, r, d, e) == AddOo(t, r, d, [t |-> "PUT", e |-> e]).t
OoSend(t, r, d, q) == AddOo(t, r, d, [t |-> "SEND", req |-> q]).t
OoFullSend(t, r, d, q, e, i) ==
  AddOo(t, r, d, [t |-> "FULL", req |-> q, e |-> e, i |-> i]).t

----------------------------------------------------------------------------
(* Frontiers of the owner *)

(* The first frontier from the head that takes a request; one is appended   *)
(* if none does.                                                            *)
Accepting(t, d, K) == Min(K \cup {Len(t.fr[d]) + 1})
WithFrontier(t, d, k) ==
  IF k <= Len(t.fr[d]) THEN t ELSE [t EXCEPT !.fr[d] = Append(@, NewFrontier)]

(* arts_push_db_to_frontier: rank q joins, for slot i of EDT e if that is   *)
(* known.                                                                   *)
JoinFrontier(f, d, q, e, i, write) ==
  LET new == ~Contains(f.nodes, q)
  IN  [f EXCEPT !.write = @ \/ write,
                !.nodes = IF new THEN Append(@, q) ELSE @,
                !.ex = IF new /\ write /\ ~Owns(q, d) THEN <<q, e, i>> ELSE @,
                !.writer = IF write /\ Owns(q, d) THEN e ELSE @]

(* arts_push_db_to_list, arts_add_db_duplicate_ex: a frontier takes         *)
(* requests until it has a writer, and further slots of its local writer.   *)
Pushed(u, k, d, q, e, i, write) ==
  LET f == u.fr[d][k]
      g == IF f.write THEN f ELSE JoinFrontier(f, d, q, e, i, write)
  IN  [t |-> [u EXCEPT !.fr[d][k] =
                IF Owns(q, d) /\ k > 1 THEN [g EXCEPT !.delayed = Append(@, <<e, i>>)]
                ELSE g],
       head |-> k = 1,
       unique |-> ~f.write /\ ~Contains(f.nodes, q)]
PushAt(t, k, d, q, e, i, write) == Pushed(WithFrontier(t, d, k), k, d, q, e, i, write)
PushDb(t, d, q, e, i, write) ==
  LET takes(f) == ~f.write \/ (Owns(q, d) /\ e # NoEdt /\ f.writer = e)
  IN  PushAt(t, Accepting(t, d, {k \in DOMAIN t.fr[d] : takes(t.fr[d][k])}),
             d, q, e, i, write)

(* arts_request_db_slice at rank r *)
RequestSlice(t, r, d, e, i) ==
  LET k == Accepting(t, d, {j \in DOMAIN t.fr[d] : ~t.fr[d][j].write})
      u == WithFrontier(t, d, k)
  IN  IF ~Owns(r, d) THEN GiveSlice(t, r, e, i, Data(t, r, d))
      ELSE IF k = 1 THEN GiveSlice(u, r, e, i, Data(t, r, d))
      ELSE [u EXCEPT !.fr[d][k].slices = Append(@, <<e, i>>)]

(* arts_remote_db_send_now, arts_remote_db_full_send_now: a snapshot. *)
SendNow(t, r, q, d) ==
  Send(t, r, q, [t |-> "DB_SEND", d |-> d, data |-> Data(t, r, d)])
FullSendNow(t, r, q, d, e, i) ==
  Send(t, r, q, [t |-> "FULL_SEND", d |-> d, e |-> e, i |-> i, data |-> Data(t, r, d)])

(* The ranks of a frontier that wait for a copy, other than its writer. *)
Waiting(f, d) ==
  SelectSeq(f.nodes, LAMBDA q : ~Owns(q, d) /\ ~(f.ex # <<>> /\ f.ex[1] = q))

GiveSlices(t, d, f) ==
  FoldLeft(LAMBDA u, x : GiveSlice(u, Owner[d], x[1], x[2], Data(t, Owner[d], d)),
           t, f.slices)

(* arts_signal_frontier_local: the owner has the data. *)
SignalLocal(t, d) ==
  LET f == Head(t.fr[d])
      r == Owner[d]
      t1 == IF f.ex = <<>> THEN t
            ELSE FullSendNow(t, r, f.ex[1], d, f.ex[2], f.ex[3])
      t2 == FoldLeft(LAMBDA u, q : SendNow(u, r, q, d), t1, Waiting(f, d))
      t3 == FoldLeft(LAMBDA u, x : Callback(u, x[1], x[2], Copy(t, r, d)),
                     t2, f.delayed)
  IN  GiveSlices(t3, d, f)

(* arts_route_table_add_sent, arts_remote_db_request: one request is under  *)
(* way for all the slots that wait on the item.                             *)
RemoteDbRequest(t, r, d, q, e, i) ==
  LET it == t.item[r][d]
      ask == it.st \in {"none", "available"}
      t1 == [t EXCEPT !.item[r][d].st =
               IF it.st = "none" THEN "reserved"
               ELSE IF it.st = "available" THEN "requested" ELSE @]
      t2 == IF it.fired THEN Callback(t1, e, i, IF Allocated(t, r, d) THEN Copy(t, r, d) ELSE Null)
            ELSE [t1 EXCEPT !.item[r][d].oo =
                    Append(@, [t |-> "REQ", e |-> e, i |-> i])]
  IN  IF ask THEN Send(t2, r, q, [t |-> "DB_REQUEST", d |-> d, req |-> r]) ELSE t2

(* arts_signal_frontier_remote: rank q has the data and the owner not. *)
SignalRemote(t, d, q) ==
  LET f == Head(t.fr[d])
      r == Owner[d]
      t1 == IF f.ex = <<>> THEN t
            ELSE IF f.ex[1] = q
            THEN Send(t, r, q, [t |-> "ALREADY_LOCAL", d |-> d, e |-> f.ex[2], i |-> f.ex[3]])
            ELSE Send(t, r, q, [t |-> "FULL_REQUEST", d |-> d, req |-> f.ex[1],
                                e |-> f.ex[2], i |-> f.ex[3]])
      t2 == FoldLeft(LAMBDA u, n : Send(u, r, q, [t |-> "DB_REQUEST", d |-> d, req |-> n]),
                     t1, Waiting(f, d))
      t3 == FoldLeft(LAMBDA u, x : RemoteDbRequest(u, r, d, q, x[1], x[2]),
                     t2, f.delayed)
      t4 == GiveSlices(t3, d, f)
  IN  [t4 EXCEPT !.fr[d][1].nodes = IF Contains(@, q) THEN @ ELSE Append(@, q)]

(* Mutant: the next frontier is not told. *)
Progress_Silent(t, d, q) == [t EXCEPT !.fr[d] = IF @ = <<>> THEN @ ELSE Tail(@)]

(* arts_progress_frontier *)
Progress(t, d, q) ==
  LET u == [t EXCEPT !.fr[d] = IF @ = <<>> THEN @ ELSE Tail(@)]
  IN  IF u.fr[d] = <<>> THEN u
      ELSE IF Owns(q, d) THEN SignalLocal(u, d) ELSE SignalRemote(u, d, q)

----------------------------------------------------------------------------
(* Requests at the rank they are sent to *)

(* arts_remote_db_send_check *)
SendPushed(p, r, q, d) == IF p.unique THEN SendNow(p.t, r, q, d) ELSE p.t
SendCheck(t, r, q, d) ==
  IF ~Owns(r, d) THEN SendNow(t, r, q, d)
  ELSE SendPushed(PushDb(t, d, q, NoEdt, 0, FALSE), r, q, d)

(* arts_clear_exclusive_request *)
ClearExclusive(t, d) == [t EXCEPT !.fr[d][1].ex = <<>>]

(* arts_remote_db_full_send_check *)
FullSendPushed(p, r, q, d, e, i) ==
  IF p.unique /\ p.head THEN ClearExclusive(FullSendNow(p.t, r, q, d, e, i), d)
  ELSE p.t
FullSendCheck(t, r, q, d, e, i) ==
  IF ~Owns(r, d) THEN FullSendNow(t, r, q, d, e, i)
  ELSE FullSendPushed(PushDb(t, d, q, e, i, TRUE), r, q, d, e, i)

(* internal_put_in_db, the datablock is here *)
PutHere(t, r, d, e) == [t EXCEPT !.heap[r][d][Copy(t, r, d)] = @ \cup {e}]

(* internal_get_from_db, the datablock is here *)
GetHere(t, r, d, e, i) ==
  LET v == t.item[r][d].rank
  IN  IF v = r THEN RequestSlice(t, r, d, e, i)
      ELSE RemoteGet(t, r, v, d, e, i)

(* arts_out_of_order_handler *)
Replay(t, r, d, x) ==
  CASE x.t = "SEND" -> SendCheck(t, r, x.req, d)
    [] x.t = "REQ"  -> Callback(t, x.e, x.i, Copy(t, r, d))
    [] x.t = "FULL" -> FullSendCheck(t, r, x.req, d, x.e, x.i)
    [] x.t = "GET"  -> GetHere(t, r, d, x.e, x.i)
    [] x.t = "PUT"  -> PutHere(t, r, d, x.e)

(* arts_route_table_fire_oo *)
FireOo(t, r, d) ==
  FoldLeft(LAMBDA u, x : Replay(u, r, d, x),
           [t EXCEPT !.item[r][d].fired = TRUE, !.item[r][d].oo = <<>>],
           t.item[r][d].oo)

(* arts_remote_db_send *)
DbSend(t, r, m) ==
  LET it == t.item[r][m.d]
  IN  IF ~Avail(t, r, m.d)
      THEN OoSend(t, r, m.d, m.req)
      ELSE IF it.rank # r THEN Send(t, r, it.rank, m)
      ELSE IF ~Owns(r, m.d) /\ m.req = r THEN FireOo(t, r, m.d)
      ELSE SendCheck(t, r, m.req, m.d)

(* arts_remote_db_full_send *)
DbFullSend(t, r, m) ==
  LET it == t.item[r][m.d]
  IN  IF ~Avail(t, r, m.d)
      THEN OoFullSend(t, r, m.d, m.req, m.e, m.i)
      ELSE IF it.rank # r THEN Send(t, r, it.rank, m)
      ELSE FullSendCheck(t, r, m.req, m.d, m.e, m.i)

(* arts_remote_handle_db_received: a copy that is already here stays as it  *)
(* is.                                                                      *)
DbReceived(t, r, m) ==
  IF Avail(t, r, m.d) THEN t
  ELSE FireOo(IF Allocated(t, r, m.d) THEN Overwrite(t, r, m.d, m.data)
              ELSE Enter(t, r, m.d, m.data), r, m.d)

(* arts_remote_handle_db_full_recieved: one that is here is overwritten. *)
FullReceived(t, r, m) ==
  LET u == FireOo(IF Allocated(t, r, m.d) THEN Overwrite(t, r, m.d, m.data)
                  ELSE Enter(t, r, m.d, m.data), r, m.d)
  IN  Callback(u, m.e, m.i, Copy(u, r, m.d))

(* Mutant: the copies of the other ranks stay. *)
CloseHead_Silent(t, d, q, type) ==
  IF t.fr[d] = <<>> THEN t ELSE [t EXCEPT !.fr[d][1].write = TRUE]

(* arts_route_table_get_rank_duplicates, arts_close_frontier: the head takes *)
(* no more requests, and its ranks but the owner and q are told.             *)
CloseHead(t, d, q, type) ==
  IF t.fr[d] = <<>> THEN t
  ELSE FoldLeft(LAMBDA u, n : Send(u, Owner[d], n, [t |-> type, d |-> d]),
                [t EXCEPT !.fr[d][1].write = TRUE],
                SelectSeq(t.fr[d][1].nodes, LAMBDA n : n \notin {Owner[d], q}))

(* arts_remote_update_route_table at the owner: rank q is about to write     *)
(* (Null: an EDT of the owner), the other copies are stale.                  *)
UpdateRouteTable(t, d, q) ==
  LET r == Owner[d]
  IN  IF ~Avail(t, r, d) THEN t
      ELSE CloseHead(IF q = Null THEN t
                     ELSE [t EXCEPT !.item[r][d].fired = FALSE, !.item[r][d].rank = q],
                     d, q, "INVALIDATE")

(* arts_remote_update_db at a rank that is not the owner *)
UpdateDb(t, r, d) ==
  Send(t, r, Owner[d],
       [t |-> "UPDATE", d |-> d, req |-> r, full |-> Avail(t, r, d),
        data |-> IF Avail(t, r, d) THEN Data(t, r, d) ELSE {}])

(* Mutant: the frontier goes on without the new data. *)
HandleUpdateDb_NoCopy(t, d, m) ==
  IF Allocated(t, Owner[d], d) THEN Progress(t, d, Owner[d]) ELSE t

(* arts_remote_handle_update_db *)
HandleUpdateDb(t, d, m) ==
  LET r == Owner[d]
      u == [t EXCEPT !.heap[r][d][Copy(t, r, d)] = m.data,
                     !.item[r][d].rank = IF Avail(t, r, d) THEN r ELSE @]
  IN  IF ~Allocated(t, r, d) THEN t
      ELSE IF m.full THEN Progress(u, d, r) ELSE Progress(t, d, m.req)

(* arts_remote_db_destroy at the owner, for rank q; arts_db_destroy_safe *)
DestroyOwned(t, d, q) ==
  IF Avail(t, Owner[d], d) THEN Invalidate(CloseHead(t, d, q, "DESTROY"), Owner[d], d)
  ELSE t

----------------------------------------------------------------------------
(* Messages, arts_server_process_packet *)

Receives(q, r, type) == s.net[q][r] # <<>> /\ Head(s.net[q][r]).t = type
Msg(q, r) == Head(s.net[q][r])
Taken(q, r) == [s EXCEPT !.net[q][r] = Tail(@)]

Handle_DbRequest(q, r) ==
  Receives(q, r, "DB_REQUEST") /\ s' = DbSend(Taken(q, r), r, Msg(q, r))
Handle_DbSend(q, r) ==
  Receives(q, r, "DB_SEND") /\ s' = DbReceived(Taken(q, r), r, Msg(q, r))
Handle_FullRequest(q, r) ==
  Receives(q, r, "FULL_REQUEST") /\ s' = DbFullSend(Taken(q, r), r, Msg(q, r))
Handle_FullSend(q, r) ==
  Receives(q, r, "FULL_SEND") /\ s' = FullReceived(Taken(q, r), r, Msg(q, r))

(* arts_remote_handle_send_already_local *)
Handle_AlreadyLocal(q, r) ==
  LET m == Msg(q, r)
  IN  /\ Receives(q, r, "ALREADY_LOCAL")
      /\ s' = Callback(Taken(q, r), m.e, m.i,
                       IF Avail(s, r, m.d) THEN Copy(s, r, m.d) ELSE Null)

Handle_UpdateGuid(q, r) ==
  /\ Receives(q, r, "UPDATE_GUID")
  /\ s' = UpdateRouteTable(Taken(q, r), Msg(q, r).d, q)
Handle_Invalidate(q, r) ==
  Receives(q, r, "INVALIDATE") /\ s' = Invalidate(Taken(q, r), r, Msg(q, r).d)
Handle_Update(q, r) ==
  /\ Receives(q, r, "UPDATE")
  /\ s' = HandleUpdateDb(Taken(q, r), Msg(q, r).d, Msg(q, r))

Handle_DestroyForward(q, r) ==
  /\ Receives(q, r, "DESTROY_FORWARD")
  /\ s' = DestroyOwned(Taken(q, r), Msg(q, r).d, q)
Handle_Destroy(q, r) ==
  Receives(q, r, "DESTROY") /\ s' = Invalidate(Taken(q, r), r, Msg(q, r).d)

(* internal_get_from_db, internal_put_in_db: while the item is being        *)
(* fetched the call and its deferral call each other.                       *)
Fetching(r, d) == s.item[r][d].st = "requested"

Handle_Get(q, r) ==
  LET m == Msg(q, r)
  IN  /\ Receives(q, r, "GET")
      /\ ~Fetching(r, m.d)
      /\ s' = IF Avail(s, r, m.d) THEN GetHere(Taken(q, r), r, m.d, m.e, m.i)
              ELSE OoGet(Taken(q, r), r, m.d, m.e, m.i)
Handle_Put(q, r) ==
  LET m == Msg(q, r)
  IN  /\ Receives(q, r, "PUT")
      /\ ~Fetching(r, m.d)
      /\ s' = IF Avail(s, r, m.d) THEN PutHere(Taken(q, r), r, m.d, m.e)
              ELSE OoPut(Taken(q, r), r, m.d, m.e)
Handle_SignalPtr(q, r) ==
  LET m == Msg(q, r)
  IN  /\ Receives(q, r, "SIGNAL_PTR")
      /\ s' = GiveSlice(Taken(q, r), r, m.e, m.i, m.data)

Handle_Signal(q, r) ==
  /\ Receives(q, r, "SIGNAL")
  /\ s' = Signal(Taken(q, r), r, Msg(q, r).e, Msg(q, r).a)

Message(q, r) ==
  /\ \/ Handle_DbRequest(q, r) \/ Handle_DbSend(q, r)
     \/ Handle_FullRequest(q, r) \/ Handle_FullSend(q, r)
     \/ Handle_AlreadyLocal(q, r)
     \/ Handle_UpdateGuid(q, r) \/ Handle_Invalidate(q, r) \/ Handle_Update(q, r)
     \/ Handle_DestroyForward(q, r) \/ Handle_Destroy(q, r)
     \/ Handle_Get(q, r) \/ Handle_Put(q, r) \/ Handle_SignalPtr(q, r)
     \/ Handle_Signal(q, r)
  /\ UNCHANGED scene

----------------------------------------------------------------------------
(* EDTs *)

Init ==
  /\ scene \in Scenes
  /\ LET there(d) == Makers(d) = {}
     IN  s = [item |-> [r \in Ranks |-> [d \in Dbs |->
                IF there(d) /\ Owns(r, d)
                THEN [NoItem EXCEPT !.st = "available", !.rank = r]
                ELSE NoItem]],
              heap |-> [r \in Ranks |-> [d \in Dbs |->
                IF there(d) /\ Owns(r, d) THEN <<{}>> ELSE <<>>]],
              fr |-> [d \in Dbs |-> IF there(d) THEN <<NewFrontier>> ELSE <<>>],
              net |-> [q \in Ranks |-> [r \in Ranks |-> <<>>]],
              sig |-> [e \in Edts |-> {a \in Edts : e \in scene.signals[a]}],
              pc |-> [e \in Edts |-> "wait"],
              todo |-> [e \in Edts |-> Slots(e)],
              need |-> [e \in Edts |-> Len(scene.deps[e]) + 1],
              ptr |-> [e \in Edts |-> [i \in Slots(e) |-> Open]],
              own |-> [e \in Edts |-> [i \in Slots(e) |-> {}]],
              seen |-> [e \in Edts |-> [i \in Slots(e) |-> {}]]]

(* arts_handle_ready_edt: its signals are in. *)
Ready(e) ==
  /\ s.pc[e] = "wait"
  /\ s.sig[e] = {}
  /\ s' = [s EXCEPT !.pc[e] = "acquire"]
  /\ UNCHANGED scene

(* acquire_dbs, for one slot: a byte range, *)
AcquireSlice(t, r, d, e, i) ==
  IF Avail(t, r, d) THEN GetHere(t, r, d, e, i)
  ELSE IF Owns(r, d) THEN OoGet(t, r, d, e, i)
  ELSE RemoteGet(t, r, Owner[d], d, e, i)

FullRequest(t, r, q, d, e, i) ==
  Send(t, r, q, [t |-> "FULL_REQUEST", d |-> d, req |-> r, e |-> e, i |-> i])

(* Mutant: a request behind the head is granted at once. *)
AcquireOwned_NonHead(t, r, d, e, i) ==
  Callback(PushDb(t, d, r, e, i, Mode(e, i) = "EW").t, e, i, Copy(t, r, d))

(* a datablock of this rank, *)
AcquirePushed(p, r, d, e, i) ==
  LET q == p.t.item[r][d].rank
  IN  IF q = r /\ p.head THEN Callback(p.t, e, i, Copy(p.t, r, d))
      ELSE IF q = r THEN p.t
      ELSE IF Mode(e, i) = "RO" THEN RemoteDbRequest(p.t, r, d, q, e, i)
      ELSE FullRequest(p.t, r, q, d, e, i)
AcquireOwned(t, r, d, e, i) ==
  AcquirePushed(PushDb(t, d, r, e, i, Mode(e, i) = "EW"), r, d, e, i)

(* one that is not in the route table. *)
AcquireMissing(t, r, d, e, i) ==
  LET o == AddOo(t, r, d, [t |-> "REQ", e |-> e, i |-> i])
  IN  IF Owns(r, d) THEN IF o.ok THEN o.t ELSE Callback(t, e, i, Null)
      ELSE IF Mode(e, i) = "EW" THEN FullRequest(t, r, Owner[d], d, e, i)
      ELSE RemoteDbRequest(t, r, d, Owner[d], e, i)

AcquireSlot(t, r, d, e, i) ==
  IF Mode(e, i) = "SLICE" THEN AcquireSlice(t, r, d, e, i)
  ELSE IF ~Avail(t, r, d) THEN AcquireMissing(t, r, d, e, i)
  ELSE IF Owns(r, d) THEN AcquireOwned(t, r, d, e, i)
  ELSE Callback(t, e, i, Copy(t, r, d))

(* The slots are asked for in the order of the GUIDs. *)
NextSlot(e) ==
  CHOOSE i \in s.todo[e] : \A j \in s.todo[e] :
    Db(e, i) < Db(e, j) \/ (Db(e, i) = Db(e, j) /\ i <= j)

Spins(e, i) ==
  Mode(e, i) = "SLICE" /\ Owns(On(e), Db(e, i)) /\ Fetching(On(e), Db(e, i))

Acquire(e) ==
  LET i == NextSlot(e)
  IN  /\ s.pc[e] = "acquire" /\ s.todo[e] # {}
      /\ ~Spins(e, i)
      /\ s' = AcquireSlot([s EXCEPT !.todo[e] = @ \ {i}], On(e), Db(e, i), e, i)
      /\ UNCHANGED scene

(* ... and the sentinel on depc_needed is taken away. *)
Acquired(e) ==
  /\ s.pc[e] = "acquire" /\ s.todo[e] = {}
  /\ s' = [s EXCEPT !.need[e] = @ - 1,
                    !.pc[e] = IF s.need[e] = 1 THEN "ready" ELSE "blocked"]
  /\ UNCHANGED scene

(* The slots an EDT writes through; FirstWrites leaves out the ones         *)
(* arts_seen_write_dep finds written already.                               *)
Writes(e) ==
  SelectSeq([i \in Slots(e) |-> i], LAMBDA i : Mode(e, i) = "EW" /\ s.ptr[e][i] > 0)
FirstWrites(e) ==
  SelectSeq(Writes(e), LAMBDA i : \A j \in ToSet(Writes(e)) : Db(e, j) = Db(e, i) => i <= j)

(* prep_dbs *)
Prep(e) ==
  /\ s.pc[e] = "ready"
  /\ s' = FoldLeft(
       LAMBDA t, i : IF Owns(On(e), Db(e, i)) THEN UpdateRouteTable(t, Db(e, i), Null)
                     ELSE Send(t, On(e), Owner[Db(e, i)],
                               [t |-> "UPDATE_GUID", d |-> Db(e, i)]),
       [s EXCEPT !.pc[e] = "run"], Writes(e))
  /\ UNCHANGED scene

InOrder(D) == SetToSortSeq(D, <)

(* arts_db_create_with_guid: the creator, who owns it, holds it for writing  *)
(* (arts_db_auto_acquire).                                                   *)
CreateHere(t, e, d) ==
  [FireOo(Enter(t, On(e), d, {e}), On(e), d) EXCEPT !.fr[d][1].write = TRUE]

(* arts_db_create for another rank: a stub is sent. *)
CreateAway(t, e, d) ==
  Send(t, On(e), Owner[d], [t |-> "DB_SEND", d |-> d, data |-> {}])

Create(t, e, d) == IF Owns(On(e), d) THEN CreateHere(t, e, d) ELSE CreateAway(t, e, d)

(* arts_put_in_db *)
Put(t, e, d) ==
  IF Owns(On(e), d) /\ Avail(t, On(e), d) THEN PutHere(t, On(e), d, e)
  ELSE IF Owns(On(e), d) THEN OoPut(t, On(e), d, e)
  ELSE RemotePut(t, On(e), Owner[d], d, e)

(* arts_wait_release_dbs: an EDT that waits lets the owner's frontiers go    *)
(* on ...                                                                    *)
HeldHere(e) == SelectSeq(FirstWrites(e), LAMBDA i : Owns(On(e), Db(e, i)))

WaitRelease(e) ==
  /\ s.pc[e] = "run" /\ scene.waits[e] # {}
  /\ s' = FoldLeft(LAMBDA t, i : Progress(t, Db(e, i), On(e)),
                   [s EXCEPT !.pc[e] = "waiting"], HeldHere(e))
  /\ UNCHANGED scene

(* ... and arts_wait_reacquire_dbs takes what is their head then.            *)
WaitReacquire(e) ==
  /\ s.pc[e] = "waiting"
  /\ \A a \in scene.waits[e] : s.pc[a] = "done"
  /\ s' = FoldLeft(LAMBDA t, i :
             [WithFrontier(t, Db(e, i), 1) EXCEPT !.fr[Db(e, i)][1].write = TRUE],
             [s EXCEPT !.pc[e] = "resumed"], HeldHere(e))
  /\ UNCHANGED scene

(* arts_db_release, and arts_db_destroy after it *)
ReleaseDb(t, e, d) ==
  LET first == SelectSeq(FirstWrites(e), LAMBDA i : Db(e, i) = d)
      made == d \in scene.makes[e] /\ Owns(On(e), d)
      u == IF made \/ (first # <<>> /\ Owns(On(e), d)) THEN Progress(t, d, On(e))
           ELSE IF first # <<>> THEN UpdateDb(t, On(e), d) ELSE t
  IN  [u EXCEPT !.ptr[e] = [i \in Slots(e) |-> IF Db(e, i) = d THEN Null ELSE @[i]]]

Destroy(t, e, d) ==
  LET u == ReleaseDb(t, e, d)
  IN  IF Owns(On(e), d) THEN DestroyOwned(u, d, Null)
      ELSE Invalidate(Send(u, On(e), Owner[d], [t |-> "DESTROY_FORWARD", d |-> d]),
                      On(e), d)

AtBody(e) == s.pc[e] = IF scene.waits[e] = {} THEN "run" ELSE "resumed"

(* The body of the EDT: it reads its slots, writes the ones it may, and     *)
(* signals its successors.                                                  *)
Body(e) ==
  LET r == On(e)
      reads == [i \in Slots(e) |->
                  CASE s.ptr[e][i] = Own -> s.own[e][i]
                    [] s.ptr[e][i] = Null -> {}
                    [] OTHER -> s.heap[r][Db(e, i)][s.ptr[e][i]]]
      writes(d) == {s.ptr[e][i] : i \in {j \in ToSet(Writes(e)) : Db(e, j) = d}}
      heap == [d \in Dbs |-> [c \in DOMAIN s.heap[r][d] |->
                 s.heap[r][d][c] \cup (IF c \in writes(d) THEN {e} ELSE {})]]
      t == [s EXCEPT !.seen[e] = reads, !.pc[e] = "wrote", !.heap[r] = heap]
      made == FoldLeft(LAMBDA u, d : Create(u, e, d), t, InOrder(scene.makes[e]))
      put == FoldLeft(LAMBDA u, d : Put(u, e, d), made, InOrder(scene.puts[e]))
      gone == FoldLeft(LAMBDA u, d : Destroy(u, e, d), put, InOrder(scene.destroys[e]))
      early == IF scene.early[e] THEN {Db(e, i) : i \in Slots(e)} \ scene.destroys[e]
               ELSE {}
      free == FoldLeft(LAMBDA u, d : ReleaseDb(u, e, d), gone, InOrder(early))
  IN  /\ AtBody(e)
      /\ \A d \in scene.puts[e] : ~Fetching(r, d)
      /\ s' = FoldLeft(LAMBDA u, a : Signal(u, r, a, e), free,
                       SetToSeq(scene.signals[e]))
      /\ UNCHANGED scene

(* arts_release_created_dbs *)
ReleaseCreated(t, e) ==
  FoldLeft(LAMBDA u, d : Progress(u, d, On(e)), t,
           InOrder({d \in scene.makes[e] \ scene.destroys[e] :
                      Owns(On(e), d) /\ Avail(t, On(e), d)}))

(* release_dbs: once for each datablock written. *)
Release(e) ==
  LET back(t, i) == IF Owns(On(e), Db(e, i)) THEN Progress(t, Db(e, i), On(e))
                    ELSE UpdateDb(t, On(e), Db(e, i))
  IN  /\ s.pc[e] = "wrote"
      /\ s' = ReleaseCreated(FoldLeft(back, [s EXCEPT !.pc[e] = "done"], FirstWrites(e)), e)
      /\ UNCHANGED scene

Edt(e) == Ready(e) \/ Acquire(e) \/ Acquired(e) \/ Prep(e)
          \/ WaitRelease(e) \/ WaitReacquire(e) \/ Body(e) \/ Release(e)

Done == (\A e \in Edts : s.pc[e] = "done") /\ \A q, r \in Ranks : s.net[q][r] = <<>>

Next == (\E q, r \in Ranks : Message(q, r)) \/ \E e \in Edts : Edt(e)

Spec == Init /\ [][Next]_vars

(* Some rank has a step to take: ENABLED Next, written out. *)
Busy ==
  \/ \E q, r \in Ranks :
       s.net[q][r] # <<>> /\ ~(Msg(q, r).t \in {"GET", "PUT"} /\ Fetching(r, Msg(q, r).d))
  \/ \E e \in Edts :
       \/ s.pc[e] = "wait" /\ s.sig[e] = {}
       \/ s.pc[e] = "acquire" /\ (s.todo[e] = {} \/ ~Spins(e, NextSlot(e)))
       \/ s.pc[e] \in {"ready", "wrote"}
       \/ s.pc[e] = "waiting" /\ \A a \in scene.waits[e] : s.pc[a] = "done"
       \/ s.pc[e] = "run" /\ scene.waits[e] # {}
       \/ AtBody(e) /\ \A d \in scene.puts[e] : ~Fetching(On(e), d)

(* WF_vars(Next): the workers and the receivers of all ranks do not all stop *)
(* while one of them has something to do.                                    *)
LiveSpec == Spec /\ ([]<>~Busy \/ []<><<Next>>_vars)

----------------------------------------------------------------------------
(* Properties *)

(* depc_needed of an EDT that acquires its datablocks is the number of its  *)
(* slots without one, and the sentinel: no slot is satisfied twice, none is *)
(* counted without being satisfied (arts_db_request_callback).              *)
NeedIsOpenSlots ==
  \A e \in Edts : s.need[e] =
    Cardinality({i \in Slots(e) : s.ptr[e][i] = Open})
    + (IF s.pc[e] \in {"wait", "acquire"} THEN 1 ELSE 0)

(* What a program p does with a datablock, and the EDTs that come before one *)
Uses(p, e, d) == \E i \in DOMAIN p.deps[e] : p.deps[e][i].db = d
WritesTo(p, e, d) ==
  d \in p.makes[e] \/ \E i \in DOMAIN p.deps[e] : p.deps[e][i] = [db |-> d, mode |-> "EW"]
Before(p, e) ==
  LET B[n \in 0..Cardinality(Edts)] ==
        IF n = 0 THEN {a \in Edts : e \in p.signals[a]}
        ELSE B[n - 1] \cup {a \in Edts : p.signals[a] \cap B[n - 1] # {}}
  IN  B[Cardinality(Edts)]

(* Two ways of using a datablock d: all its writers run on its owner, and    *)
(* no other rank uses it twice ...                                           *)
OwnerWrites(p, d) ==
  /\ \A e \in Edts : WritesTo(p, e, d) => Owns(p.on[e], d)
  /\ \A a, b \in Edts :
       Uses(p, a, d) /\ Uses(p, b, d) /\ p.on[a] = p.on[b] /\ a # b => Owns(p.on[a], d)

(* ... or it goes to and fro between the owner and one other rank, released  *)
(* before the next user is signalled, and the owner does not write it again  *)
(* once the other rank has, if that rank goes on using it.                   *)
HandedOver(p, d) ==
  LET U == {e \in Edts : Uses(p, e, d)}
      far == {e \in U : ~Owns(p.on[e], d)}
  IN  /\ \A a, b \in U : a # b => a \in Before(p, b) \/ b \in Before(p, a)
      /\ \A e \in U : p.early[e]
      /\ Cardinality({p.on[e] : e \in far}) <= 1
      /\ ~\E a, c \in far, b \in U \ far :
            a \in Before(p, b) /\ b \in Before(p, c) /\ WritesTo(p, a, d) /\ WritesTo(p, b, d)

Disciplined(p) == \A d \in Dbs : OwnerWrites(p, d) \/ HandedOver(p, d)

(* "Writes flow through the owner; the owner invalidates cached copies"      *)
(* (docs/programming_model/datablocks.rst): what an EDT reads has the        *)
(* writes of all the EDTs that it comes after.                               *)
SeesWrites ==
  \A e \in Edts : s.pc[e] \in {"wrote", "done"} =>
    \A i \in Slots(e), a \in Before(scene, e) :
      WritesTo(scene, a, Db(e, i)) => a \in s.seen[e][i]

SeesEarlierWrites == Disciplined(scene) => SeesWrites

(* When all is quiet the owner has every write. *)
WritesReachOwner ==
  Done /\ Disciplined(scene) =>
    \A d \in Dbs : Avail(s, Owner[d], d) =>
      \A e \in Edts : WritesTo(scene, e, d) => e \in Data(s, Owner[d], d)

(* Every EDT runs. *)
EveryEdtRuns == <>((\A e \in Edts : s.pc[e] = "done") \/ ~Disciplined(scene))
=============================================================================
