----------------------------- MODULE Quiescence -----------------------------
(***************************************************************************)
(* What an epoch promises: EDTs spawn EDTs, and the epoch fires once, when *)
(* every EDT it was ever given has finished.                               *)
(***************************************************************************)
CONSTANTS Edts, Root

VARIABLES
  live, over,
  fired   \* how often the epoch has fired

Init == live = {Root} /\ over = {} /\ fired = 0

Spawn(u) ==
  /\ live # {} /\ u \notin live \cup over
  /\ live' = live \cup {u}
  /\ UNCHANGED <<over, fired>>

Finish(t) ==
  /\ t \in live
  /\ live' = live \ {t} /\ over' = over \cup {t}
  /\ UNCHANGED fired

Fire ==
  /\ live = {} /\ fired = 0
  /\ fired' = 1
  /\ UNCHANGED <<live, over>>

Next == Fire \/ \E t \in Edts : Spawn(t) \/ Finish(t)

Spec == Init /\ [][Next]_<<live, over, fired>>
=============================================================================
