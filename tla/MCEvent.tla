------------------------------ MODULE MCEvent ------------------------------
(***************************************************************************)
(* Instances of Event for TLC.                                             *)
(***************************************************************************)
EXTENDS Event, TLC

CONSTANTS d1, d2, d3, s1, s2, s3, x, null

ThreeDeps == {d1, d2, d3}

(* In a LATCH event the EDT that holds its one count adds another (s1)      *)
(* before it gives its own back (s2) and the new one is given back (s3).    *)
(* In a STICKY event the calls come in any order, and the latch may come    *)
(* back to zero after the event has fired.                                  *)
ThreeSats == {s1, s2, s3}
Slots == s1 :> "INCR" @@ s2 :> "DECR" @@ s3 :> "DECR"
Order == s1 :> {} @@ s2 :> {s1} @@ s3 :> {s1}
Carried == s1 :> null @@ s2 :> null @@ s3 :> x
=============================================================================
