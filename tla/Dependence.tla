----------------------------- MODULE Dependence -----------------------------
(***************************************************************************)
(* Adding dependences across ranks (core/sync/event.c, arts_add_dependence *)
(* and its variants; core/compute/edt.c, arts_set_dep_metadata_ext and     *)
(* internal_signal_edt_ex; core/gas/out_of_order.c).  A dependence on an   *)
(* event is two messages: one writes the access mode and the byte slice to *)
(* the slot of the EDT, the other registers the slot with the event.  The  *)
(* EDT, the event and the caller may be on three ranks, and the EDT and    *)
(* the event need not exist yet.                                           *)
(***************************************************************************)
EXTENDS Integers, SequencesExt, FiniteSetsExt

CONSTANTS Scenes   \* [edt: the rank of the EDT, ports, events: TRUE if the
                   \* events exist from the start, slots: a sequence of
                   \* [by: the caller's rank, src: "db", "event" (one that
                   \*  counts) or "channel", ev: the event's rank, at: a byte
                   \*  slice is asked for, here: the rank of the event has the
                   \*  datablock it is satisfied with]]

VARIABLE d

Slots == DOMAIN d.scene.slots
Slot(k) == d.scene.slots[k]
Owner == d.scene.edt
Ranks(sc) == {sc.edt} \cup UNION {{sc.slots[k].by, sc.slots[k].ev} : k \in DOMAIN sc.slots}
Queues(sc) == Ranks(sc) \X Ranks(sc) \X (1 .. sc.ports)

(* DB_MODE_NULL, DB_MODE_PTR and the mode asked for *)
Null == "null"
Ptr == "ptr"
Asked == "asked"

Init == \E sc \in Scenes :
  LET K == DOMAIN sc.slots IN
  d = [scene |-> sc,
       made  |-> FALSE, need |-> Len(sc.slots), readied |-> 0,
       mode  |-> [k \in K |-> Null], slice |-> [k \in K |-> FALSE],
       oo    |-> <<>>,                       \* deferred until the EDT exists
       event |-> [k \in K |-> [made |-> sc.events, fired |-> FALSE,
                               deps |-> <<>>, oo |-> <<>>]],
       net   |-> [q \in Queues(sc) |-> <<>>],
       call  |-> [k \in K |-> "metadata"]]   \* what the caller does next

(* out_queue_id_for_rank: the queue depends on the thread that sends; a    *)
(* worker and a receiver have different ports if there are two.            *)
Worker == 1
Receiver == d.scene.ports

Send(x, from, to, port, m) ==
  [x EXCEPT !.net[<<from, to, port>>] = Append(@, m)]

(* arts_set_dep_metadata_ext, arts_out_of_order_set_dep_metadata_ext *)
SetDepMetadata(x, r, port, m) ==
  IF r # Owner THEN Send(x, r, Owner, port, [m EXCEPT !.op = "metadata"])
  ELSE IF x.made
  THEN [x EXCEPT !.mode[m.slot] = m.mode, !.slice[m.slot] = m.slice]
  ELSE [x EXCEPT !.oo = Append(@, [m EXCEPT !.op = "metadata"])]

(* Mutant: a signal always writes the mode it carries. *)
SignalEdt_Overwrite(x, r, port, m) ==
  IF r # Owner THEN Send(x, r, Owner, port, [m EXCEPT !.op = "signal"])
  ELSE IF x.made
  THEN [x EXCEPT !.mode[m.slot] = m.mode, !.need = @ - 1,
                 !.readied = @ + IF x.need = 1 THEN 1 ELSE 0]
  ELSE [x EXCEPT !.oo = Append(@, [m EXCEPT !.op = "signal"])]

(* internal_signal_edt_ex: a signal with DB_MODE_NULL keeps the mode and   *)
(* the slice of the slot, any other replaces them.                         *)
SignalEdt(x, r, port, m) ==
  IF r # Owner THEN Send(x, r, Owner, port, [m EXCEPT !.op = "signal"])
  ELSE IF x.made
  THEN [x EXCEPT !.mode[m.slot] = IF m.mode # Null THEN m.mode ELSE @,
                 !.slice[m.slot] = IF m.mode # Null THEN FALSE ELSE @,
                 !.need = @ - 1,
                 !.readied = @ + IF x.need = 1 THEN 1 ELSE 0]
  ELSE [x EXCEPT !.oo = Append(@, [m EXCEPT !.op = "signal"])]

(* The event has fired and signals the slot: with its data only, or, if a  *)
(* slice is registered, with a copy of these bytes, which                  *)
(* channel_fire_dependents takes from the datablock, if its rank has it.   *)
Fire(x, port, m) ==
  LET k == m.slot IN
  IF ~m.slice THEN SignalEdt(x, Slot(k).ev, port, [m EXCEPT !.mode = Null])
  ELSE IF Slot(k).here
  THEN SignalEdt(x, Slot(k).ev, port, [m EXCEPT !.mode = Ptr, !.slice = FALSE])
  ELSE x

(* Step 2: the slot is registered with the event, which fires at once if   *)
(* it has been satisfied.  Neither a message nor the deferred list carries *)
(* the slice.  An event that counts has its slices in a list of versions   *)
(* that its firing loop does not read.                                     *)
RegisterWaiter(x, r, port, m) ==
  LET k == m.slot
      whole == [m EXCEPT !.op = "add", !.slice = FALSE] IN
  IF r # Slot(k).ev THEN Send(x, r, Slot(k).ev, port, whole)
  ELSE IF ~x.event[k].made THEN [x EXCEPT !.event[k].oo = Append(@, whole)]
  ELSE IF x.event[k].fired THEN Fire(x, port, m)
  ELSE IF m.slice /\ Slot(k).src = "event" THEN x
  ELSE [x EXCEPT !.event[k].deps = <<m>>]

(* arts_add_dependence_ex for an event, as a message or a deferred         *)
(* operation makes a rank do it: both steps again, with what it carries.   *)
AddDependence(x, r, port, m) ==
  RegisterWaiter(SetDepMetadata(x, r, port, m), r, port, m)

----------------------------------------------------------------------------
(* The caller *)

Request(k) == [op |-> "call", slot |-> k, mode |-> Asked, slice |-> Slot(k).at]

(* arts_add_dependence_ex, arts_add_dependence_at_ex, step 1; a whole data *)
(* block is signalled at once with the mode.                               *)
CallMetadata(k) ==
  /\ d.call[k] = "metadata"
  /\ LET r == Slot(k).by IN
     IF Slot(k).src = "db" /\ ~Slot(k).at
     THEN d' = [SignalEdt(d, r, Worker, Request(k)) EXCEPT !.call[k] = "done"]
     ELSE d' = [SetDepMetadata(d, r, Worker, Request(k)) EXCEPT !.call[k] = "waiter"]

(* Step 2.  A slice is passed on with DB_MODE_NULL, to                     *)
(* arts_event_add_dependence_with_byte_offset.                             *)
CallWaiter(k) ==
  /\ d.call[k] = "waiter"
  /\ LET r == Slot(k).by
         m == [Request(k) EXCEPT !.mode = IF Slot(k).at THEN Null ELSE @]
     IN d' = [IF Slot(k).src = "db" THEN SignalEdt(d, r, Worker, m)
              ELSE RegisterWaiter(d, r, Worker, m) EXCEPT !.call[k] = "done"]

----------------------------------------------------------------------------
(* arts_out_of_order_handler, and the handlers of the messages *)
Perform(x, r, port, m) ==
  CASE m.op = "metadata" -> SetDepMetadata(x, r, port, m)
    [] m.op = "signal"   -> SignalEdt(x, r, port, m)
    [] m.op = "add"      -> AddDependence(x, r, port, m)
Replay(x, r, port, ms) == FoldLeft(LAMBDA y, m : Perform(y, r, port, m), x, ms)

(* A message arrives: arts_server_process_packet *)
Deliver(q) ==
  /\ d.net[q] # <<>>
  /\ d' = Perform([d EXCEPT !.net[q] = Tail(@)], q[2], Receiver, Head(d.net[q]))

(* arts_edt_create_internal and the replay of what was deferred *)
CreateEdt ==
  /\ ~d.made
  /\ d' = Replay([d EXCEPT !.made = TRUE, !.oo = <<>>], Owner, Worker, d.oo)

(* arts_event_create_with_guid and the replay *)
CreateEvent(k) ==
  /\ ~d.event[k].made /\ Slot(k).src # "db"
  /\ d' = Replay([d EXCEPT !.event[k].made = TRUE, !.event[k].oo = <<>>],
                 Slot(k).ev, Worker, d.event[k].oo)

(* arts_event_satisfy_slot by a worker of the event's rank, or             *)
(* channel_satisfy_slot *)
Satisfy(k) ==
  /\ d.event[k].made /\ ~d.event[k].fired /\ Slot(k).src # "db"
  /\ LET x == [d EXCEPT !.event[k].fired = TRUE, !.event[k].deps = <<>>]
     IN d' = IF d.event[k].deps # <<>> THEN Fire(x, Worker, d.event[k].deps[1])
             ELSE x

Next == \/ CreateEdt
        \/ \E k \in Slots : \/ CallMetadata(k) \/ CallWaiter(k)
                            \/ CreateEvent(k) \/ Satisfy(k)
        \/ \E q \in DOMAIN d.net : Deliver(q)

----------------------------------------------------------------------------
(* A slice of what an event is satisfied with *)
OfEvent(k) == Slot(k).at /\ Slot(k).src # "db"

(* Everything has been called, created, satisfied and delivered, and no    *)
(* slice is asked of an event that cannot deliver it: the datablock is not *)
(* on its rank, or it is one that counts.                                  *)
Settled ==
  /\ d.made /\ \A q \in DOMAIN d.net : d.net[q] = <<>>
  /\ \A k \in Slots :
       /\ d.call[k] = "done"
       /\ Slot(k).src = "db" \/ d.event[k].fired
       /\ OfEvent(k) => Slot(k).here /\ Slot(k).src = "channel"

(* An EDT that has all its signals has, in every slot, the access mode and *)
(* the slice that were asked for, whatever the order in which the EDT, the *)
(* events and the messages came, and it is made ready once, and in the end *)
(* always: the fire loop delivers data only "so mode is preserved"         *)
(* (arts.h, arts_add_dependence; event.c, arts_add_dependence_ex).  A      *)
(* slice of what an event is satisfied with comes as a copy, with          *)
(* DB_MODE_PTR in place of the mode.                                       *)
ReadyAsAsked ==
  /\ d.readied <= 1
  /\ d.readied = 1 =>
       \A k \in Slots : IF OfEvent(k) THEN d.mode[k] = Ptr /\ ~d.slice[k]
                        ELSE d.mode[k] = Asked /\ d.slice[k] = Slot(k).at
  /\ Settled => d.readied = 1
=============================================================================
