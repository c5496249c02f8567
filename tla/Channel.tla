------------------------------ MODULE Channel ------------------------------
(***************************************************************************)
(* What the transport promises the layers above it, between one rank and   *)
(* another: a message given to it is delivered once, and over a lasting    *)
(* connection in the order it was given.  Nothing is promised once the     *)
(* sending rank has begun to shut down.                                    *)
(***************************************************************************)
EXTENDS Naturals, Sequences, SequencesExt

CONSTANT Messages

VARIABLES
  up,        \* no shutdown has begun
  fifo,      \* the order is kept
  inflight,  \* the messages given and not delivered, oldest first
  delivered

cvars == <<inflight, delivered>>

Init == inflight = <<>> /\ delivered = <<>>

Send(m) == inflight' = Append(inflight, m) /\ UNCHANGED delivered

Deliver(i) ==
  /\ i \in 1..Len(inflight) /\ (fifo => i = 1)
  /\ delivered' = Append(delivered, inflight[i])
  /\ inflight' = RemoveAt(inflight, i)

DeliverSome == up /\ \E i \in 1..Len(inflight) : Deliver(i)

Next == ~up \/ DeliverSome \/ \E m \in Messages : Send(m)

Spec == Init /\ [][Next]_cvars /\ WF_cvars(DeliverSome)
=============================================================================
