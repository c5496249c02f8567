---------------------------- MODULE EventChannel ----------------------------
(***************************************************************************)
(* The CHANNEL event of libs/src/core/sync/event.c: a queue of versions    *)
(* (generations), each with its own latch, dependents and data.  Every     *)
(* operation runs under event->lock from its first read to the end of the  *)
(* fire loop, so each is one atomic action.  A channel created with a      *)
(* latch count of zero is coupled to a datablock and driven by increments  *)
(* and decrements; one created with a positive count matches each satisfy  *)
(* with one registration.                                                  *)
(***************************************************************************)
EXTENDS Integers, Sequences, FiniteSets

CONSTANTS
  Edts,       \* dependents that are EDTs
  Callbacks,  \* dependents that are local callbacks
  Data,       \* data GUIDs
  NoData,     \* NULL_GUID
  Latches,    \* the values of event->latch_count the channel is created with
  Coupled,    \* event->data of a channel that is coupled to a datablock
  MaxSats     \* bound on the satisfy calls explored

(* What the constants must be. *)
ChannelAssumption ==
  /\ Latches \subseteq Nat
  /\ Coupled \in Data
  /\ NoData \notin Data
  /\ MaxSats \in Nat

Deps == Edts \cup Callbacks

VARIABLES
  latch_count,  \* event->latch_count, 0 for a datablock-coupled channel; it
                \* never changes
  versions,  \* event->versions, front first
  adds,      \* history: the dependents in the order they registered
  sats,      \* history: the satisfy calls, as <<slot, data>>
  fires      \* history: each firing, with the signals it sent, in order, as
             \* <<dependent, data>>, and how many calls preceded it

vars == <<latch_count, versions, adds, sats, fires>>

(* channel_push_version appends this; channel_free_version resets the only  *)
(* version to it.                                                           *)
EventData == IF latch_count = 0 THEN Coupled ELSE NoData
NewVersion == [latch |-> 0, deps |-> <<>>, data |-> EventData]

Init ==
  /\ latch_count \in Latches
  /\ versions = <<NewVersion>>
  /\ adds = <<>> /\ sats = <<>> /\ fires = <<>>

(* The versions with a new one at the back if push holds, and the one the   *)
(* caller goes on with: the new one, or else the front.                     *)
Pushed(push) == IF push THEN Append(versions, NewVersion) ELSE versions
Target(push) == IF push THEN Len(versions) + 1 ELSE 1

(* channel_fire_dependents on version i: an EDT is only signalled when      *)
(* there is data for it; then channel_free_version drops the front.         *)
Signals(v) ==
  LET told == SelectSeq(v.deps, LAMBDA d : d \in Edts => v.data # NoData)
  IN  [k \in 1 .. Len(told) |-> <<told[k], v.data>>]

(* Mutant: the front is dropped even when it is the only version and more   *)
(* registrations are to come, and a second version is lost with it.         *)
FreeFront_Drop(vs) == IF Len(vs) <= 2 THEN <<NewVersion>> ELSE Tail(vs)

FreeFront(vs) == IF Len(vs) = 1 THEN <<NewVersion>> ELSE Tail(vs)

(* The end of every operation: fire version i of vs if its latch is zero. *)
Settle(vs, i) ==
  IF vs[i].latch = 0
  THEN /\ versions' = FreeFront(vs)
       /\ fires' = Append(fires, [told |-> Signals(vs[i]),
                                  adds |-> Len(adds'), sats |-> Len(sats')])
  ELSE versions' = vs /\ UNCHANGED fires

(* Mutant: a version already waiting behind the front is counted up again. *)
Incr_Reuse ==
  LET push == versions[1].latch = 1 /\ Len(versions) = 1
      i == Len(Pushed(push))
  IN  /\ sats' = Append(sats, <<"INCR", NoData>>)
      /\ UNCHANGED <<latch_count, adds>>
      /\ Settle([Pushed(push) EXCEPT ![i].latch = @ + 1], i)

(* channel_satisfy_slot, ARTS_EVENT_LATCH_INCR_SLOT *)
Incr ==
  LET push == versions[1].latch = 1
      i == Target(push)
  IN  /\ sats' = Append(sats, <<"INCR", NoData>>)
      /\ UNCHANGED <<latch_count, adds>>
      /\ Settle([Pushed(push) EXCEPT ![i].latch = @ + 1], i)

(* Mutant: the new datum goes to the front version before the push check. *)
Decr_DataFirst(x) ==
  LET push == versions[1].latch = -1
      i == Target(push)
  IN  /\ sats' = Append(sats, <<"DECR", x>>)
      /\ UNCHANGED <<latch_count, adds>>
      /\ Settle([Pushed(push) EXCEPT ![i].latch = @ - 1,
                                     ![1].data = IF x = NoData THEN @ ELSE x], i)

(* channel_satisfy_slot, ARTS_EVENT_LATCH_DECR_SLOT; -1 is UINT_MAX. *)
Decr(x) ==
  LET push == versions[1].latch = -1
      i == Target(push)
  IN  /\ sats' = Append(sats, <<"DECR", x>>)
      /\ UNCHANGED <<latch_count, adds>>
      /\ Settle([Pushed(push) EXCEPT ![i].latch = @ - 1,
                                     ![i].data = IF x = NoData THEN @ ELSE x], i)

(* channel_satisfy_slot, ARTS_EVENT_UPDATE *)
Update ==
  /\ sats' = Append(sats, <<"UPDATE", NoData>>)
  /\ UNCHANGED <<latch_count, adds>>
  /\ Settle(versions, 1)

(* arts_event_add_dependence_with_mode and _with_byte_offset *)
AddDependence(d) ==
  LET push == latch_count > 0 /\ versions[1].deps # <<>>
      i == Target(push)
  IN  /\ adds' = Append(adds, d)
      /\ UNCHANGED <<latch_count, sats>>
      /\ Settle([Pushed(push) EXCEPT
                   ![i].latch = IF latch_count > 0 THEN @ + 1 ELSE @,
                   ![i].deps = Append(@, d)], i)

(* arts_add_local_event_callback: on the last version. *)
AddCallback(d) ==
  LET i == Len(versions)
  IN  /\ adds' = Append(adds, d)
      /\ UNCHANGED <<latch_count, sats>>
      /\ Settle([versions EXCEPT ![i].deps = Append(@, d)], i)

----------------------------------------------------------------------------
Registered == {adds[k] : k \in DOMAIN adds}

Registers ==
  \/ \E d \in Edts \ Registered : AddDependence(d)
  \/ \E d \in Callbacks \ Registered : AddCallback(d)

Satisfies ==
  /\ Len(sats) < MaxSats
  /\ Incr \/ Update \/ \E x \in Data \cup {NoData} : Decr(x)

Next == Registers \/ Satisfies

Spec == Init /\ [][Next]_vars

----------------------------------------------------------------------------
(* Properties *)

SlotNames == {"INCR", "DECR", "UPDATE"}

(* Every variable has its type. *)
TypeOK ==
  /\ latch_count \in Latches
  /\ versions \in Seq([latch : Int, deps : Seq(Deps), data : Data \cup {NoData}])
  /\ versions # <<>>
  /\ adds \in Seq(Deps)
  /\ sats \in Seq(SlotNames \X (Data \cup {NoData}))
  /\ fires \in Seq([told : Seq(Deps \X (Data \cup {NoData})),
                    adds : Nat, sats : Nat])

(* channel_free_version frees the front whatever version was fired; that is *)
(* right because a version behind the front always waits: its latch is not  *)
(* zero, and no operation but the one that pushed it touches it.            *)
BehindFrontWaits ==
  \A k \in 2 .. Len(versions) : versions[k].latch \in {-1, 1}

Waiting(d) ==
  {k \in 1 .. Len(versions) :
     \E j \in 1 .. Len(versions[k].deps) : versions[k].deps[j] = d}
Told(d) ==
  {k \in 1 .. Len(fires) :
     \E j \in 1 .. Len(fires[k].told) : fires[k].told[j][1] = d}

(* No dependent is lost when channel_free_version frees a version, and none *)
(* is signalled by two of them: each one registered waits in exactly one    *)
(* version or has been signalled exactly once.  The channel is coupled to a *)
(* datablock, so that there is always data to deliver.                      *)
NoneLost ==
  latch_count = 0 =>
    \A d \in Registered : Cardinality(Waiting(d)) + Cardinality(Told(d)) = 1

OnlyData ==
  /\ Registered \subseteq Edts
  /\ \A k \in 1 .. Len(sats) : sats[k][1] = "DECR" /\ sats[k][2] # NoData
Matched == IF Len(adds) <= Len(sats) THEN Len(adds) ELSE Len(sats)

(* A channel that is not coupled, driven by decrements with data and        *)
(* registrations of EDTs alone, is a FIFO of generations: the k-th satisfy  *)
(* fires exactly the k-th registration, with its own data, as soon as both  *)
(* are there.                                                               *)
FifoMatch ==
  latch_count > 0 /\ OnlyData =>
    /\ Len(fires) = Matched
    /\ \A k \in 1 .. Matched : fires[k].told = << <<adds[k], sats[k][2]>> >>
=============================================================================
