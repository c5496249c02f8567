---------------------------- MODULE EventProofs ----------------------------
(***************************************************************************)
(* Proofs about Event: for every number of registrations and satisfy calls,*)
(* every event type and every initial latch, each dependent is signalled   *)
(* exactly once.                                                           *)
(***************************************************************************)
EXTENDS Event, TLAPS

USE SMTT(30), Zenon

(* The latch stays an unsigned int: what the atomic operations leave is     *)
(* reduced modulo the word size.                                            *)
LEMMA LatchRange ==
  ASSUME NEW l \in 0 .. Mod - 1, NEW k \in Nat
  PROVE  (l + k) % Mod \in 0 .. Mod - 1
BY EventAssumption

(* It does not wrap upwards below the word size, *)
LEMMA LatchUp ==
  ASSUME NEW l \in 0 .. Mod - 1, l + 1 < Mod
  PROVE  (l + 1) % Mod = l + 1
BY EventAssumption

(* nor downwards above zero. *)
LEMMA LatchDown ==
  ASSUME NEW l \in 0 .. Mod - 1, l >= 1
  PROVE  (l + (Mod - 1)) % Mod = l - 1
BY EventAssumption

(* The type invariant is inductive. *)
LEMMA TypeStep == TypeOK /\ [Next]_vars => TypeOK'
<1> SUFFICES ASSUME TypeOK, [Next]_vars PROVE TypeOK'
  OBVIOUS
<1> USE DEF TypeOK, SatPCs, DepPCs, evars, svars, dvars
<1>1. ASSUME NEW s \in Sats, Sat_Guard(s) PROVE TypeOK'
  BY <1>1, Zenon DEF Sat_Guard, Rejected
<1>2. ASSUME NEW s \in Sats, Sat_Data(s) PROVE TypeOK'
  BY <1>2 DEF Sat_Data
<1>3. ASSUME NEW s \in Sats, Sat_Latch(s) PROVE TypeOK'
  <2>1. latch' \in 0 .. Mod - 1
    BY <1>3, LatchRange, EventAssumption DEF Sat_Latch
  <2> QED
    BY <1>3, <2>1 DEF Sat_Latch
<1>4. ASSUME NEW s \in Sats, Sat_Swap(s) PROVE TypeOK'
  BY <1>4 DEF Sat_Swap
<1>5. ASSUME NEW s \in Sats, Sat_Capture(s) PROVE TypeOK'
  BY <1>5 DEF Sat_Capture
<1>6. ASSUME NEW s \in Sats, Sat_Publish(s) PROVE TypeOK'
  BY <1>6 DEF Sat_Publish
<1>7. ASSUME NEW s \in Sats, Sat_Fire(s) PROVE TypeOK'
  BY <1>7 DEF Sat_Fire, Deliver
<1>8. ASSUME NEW s \in Sats, Sat_Finish(s) PROVE TypeOK'
  BY <1>8 DEF Sat_Finish
<1>9. ASSUME NEW d \in Deps, Add_Place(d) PROVE TypeOK'
  BY <1>9 DEF Add_Place
<1>10. ASSUME NEW d \in Deps, Add_Link(d) PROVE TypeOK'
  BY <1>10 DEF Add_Link
<1>11. ASSUME NEW d \in Deps, Add_Write(d) PROVE TypeOK'
  BY <1>11 DEF Add_Write
<1>12. ASSUME NEW d \in Deps, Add_Check(d) PROVE TypeOK'
  BY <1>12 DEF Add_Check
<1>13. ASSUME NEW d \in Deps, Add_Self(d) PROVE TypeOK'
  BY <1>13 DEF Add_Self, Deliver
<1>14. ASSUME UNCHANGED vars PROVE TypeOK'
  BY <1>14 DEF vars
<1> QED
  BY <1>1, <1>2, <1>3, <1>4, <1>5, <1>6, <1>7, <1>8, <1>9, <1>10, <1>11,
     <1>12, <1>13, <1>14 DEF Next, SatStep, AddStep, Finished

(* The whole inductive invariant is preserved by every step. *)
LEMMA InvStep == IInv /\ [Next]_vars => IInv'
<1> SUFFICES ASSUME IInv, [Next]_vars PROVE IInv'
  OBVIOUS
<1>0. TypeOK /\ TypeOK'
  BY TypeStep DEF IInv
<1> USE <1>0 DEF TypeOK, SatPCs, DepPCs, evars, svars, dvars, Firing
<1>1. ASSUME NEW s \in Sats, Sat_Guard(s) PROVE IInv'
  <2>1. OneFirer'
    BY <1>1 DEF Sat_Guard, Rejected, IInv, OneFirer, Places, Loop, Seen, Signalled
  <2>2. Places'
    BY <1>1 DEF Sat_Guard, Rejected, IInv, OneFirer, Places, Loop, Seen, Signalled
  <2>3. Loop'
    BY <1>1 DEF Sat_Guard, Rejected, IInv, OneFirer, Places, Loop, Seen, Signalled
  <2>4. Seen'
    BY <1>1 DEF Sat_Guard, Rejected, IInv, OneFirer, Places, Loop, Seen, Signalled
  <2>5. Signalled'
    BY <1>1 DEF Sat_Guard, Rejected, IInv, OneFirer, Places, Loop, Seen, Signalled
  <2> QED
    BY <1>0, <2>1, <2>2, <2>3, <2>4, <2>5 DEF IInv
<1>2. ASSUME NEW s \in Sats, Sat_Data(s) PROVE IInv'
  <2>1. OneFirer'
    BY <1>2 DEF Sat_Data, IInv, OneFirer, Places, Loop, Seen, Signalled
  <2>2. Places'
    BY <1>2 DEF Sat_Data, IInv, OneFirer, Places, Loop, Seen, Signalled
  <2>3. Loop'
    BY <1>2 DEF Sat_Data, IInv, OneFirer, Places, Loop, Seen, Signalled
  <2>4. Seen'
    BY <1>2 DEF Sat_Data, IInv, OneFirer, Places, Loop, Seen, Signalled
  <2>5. Signalled'
    BY <1>2 DEF Sat_Data, IInv, OneFirer, Places, Loop, Seen, Signalled
  <2> QED
    BY <1>0, <2>1, <2>2, <2>3, <2>4, <2>5 DEF IInv
<1>3. ASSUME NEW s \in Sats, Sat_Latch(s) PROVE IInv'
  <2>1. OneFirer'
    BY <1>3 DEF Sat_Latch, IInv, OneFirer, Places, Loop, Seen, Signalled
  <2>2. Places'
    BY <1>3 DEF Sat_Latch, IInv, OneFirer, Places, Loop, Seen, Signalled
  <2>3. Loop'
    BY <1>3 DEF Sat_Latch, IInv, OneFirer, Places, Loop, Seen, Signalled
  <2>4. Seen'
    BY <1>3 DEF Sat_Latch, IInv, OneFirer, Places, Loop, Seen, Signalled
  <2>5. Signalled'
    BY <1>3 DEF Sat_Latch, IInv, OneFirer, Places, Loop, Seen, Signalled
  <2> QED
    BY <1>0, <2>1, <2>2, <2>3, <2>4, <2>5 DEF IInv
<1>4. ASSUME NEW s \in Sats, Sat_Swap(s) PROVE IInv'
  <2>1. OneFirer'
    BY <1>4 DEF Sat_Swap, IInv, OneFirer, Places, Loop, Seen, Signalled
  <2>2. Places'
    BY <1>4 DEF Sat_Swap, IInv, OneFirer, Places, Loop, Seen, Signalled
  <2>3. Loop'
    BY <1>4 DEF Sat_Swap, IInv, OneFirer, Places, Loop, Seen, Signalled
  <2>4. Seen'
    BY <1>4 DEF Sat_Swap, IInv, OneFirer, Places, Loop, Seen, Signalled
  <2>5. Signalled'
    BY <1>4 DEF Sat_Swap, IInv, OneFirer, Places, Loop, Seen, Signalled
  <2> QED
    BY <1>0, <2>1, <2>2, <2>3, <2>4, <2>5 DEF IInv
<1>5. ASSUME NEW s \in Sats, Sat_Capture(s) PROVE IInv'
  <2>1. OneFirer'
    BY <1>5 DEF Sat_Capture, IInv, OneFirer, Places, Loop, Seen, Signalled
  <2>2. Places'
    BY <1>5 DEF Sat_Capture, IInv, OneFirer, Places, Loop, Seen, Signalled
  <2>3. Loop'
    BY <1>5 DEF Sat_Capture, IInv, OneFirer, Places, Loop, Seen, Signalled
  <2>4. Seen'
    BY <1>5 DEF Sat_Capture, IInv, OneFirer, Places, Loop, Seen, Signalled
  <2>5. Signalled'
    BY <1>5 DEF Sat_Capture, IInv, OneFirer, Places, Loop, Seen, Signalled
  <2> QED
    BY <1>0, <2>1, <2>2, <2>3, <2>4, <2>5 DEF IInv
<1>6. ASSUME NEW s \in Sats, Sat_Publish(s) PROVE IInv'
  <2>1. OneFirer'
    BY <1>6 DEF Sat_Publish, IInv, OneFirer, Places, Loop, Seen, Signalled
  <2>2. Places'
    BY <1>6 DEF Sat_Publish, IInv, OneFirer, Places, Loop, Seen, Signalled
  <2>3. Loop'
    BY <1>6 DEF Sat_Publish, IInv, OneFirer, Places, Loop, Seen, Signalled
  <2>4. Seen'
    BY <1>6 DEF Sat_Publish, IInv, OneFirer, Places, Loop, Seen, Signalled
  <2>5. Signalled'
    BY <1>6 DEF Sat_Publish, IInv, OneFirer, Places, Loop, Seen, Signalled
  <2> QED
    BY <1>0, <2>1, <2>2, <2>3, <2>4, <2>5 DEF IInv
<1>7. ASSUME NEW s \in Sats, Sat_Fire(s) PROVE IInv'
  <2>1. OneFirer'
    BY <1>7 DEF Sat_Fire, Deliver, IInv, OneFirer, Places, Loop, Seen, Signalled
  <2>2. Places'
    BY <1>7 DEF Sat_Fire, Deliver, IInv, OneFirer, Places, Loop, Seen, Signalled
  <2>3. Loop'
    BY <1>7 DEF Sat_Fire, Deliver, IInv, OneFirer, Places, Loop, Seen, Signalled
  <2>4. Seen'
    BY <1>7 DEF Sat_Fire, Deliver, IInv, OneFirer, Places, Loop, Seen, Signalled
  <2>5. Signalled'
    BY <1>7 DEF Sat_Fire, Deliver, IInv, OneFirer, Places, Loop, Seen, Signalled
  <2> QED
    BY <1>0, <2>1, <2>2, <2>3, <2>4, <2>5 DEF IInv
<1>8. ASSUME NEW s \in Sats, Sat_Finish(s) PROVE IInv'
  <2>1. OneFirer'
    BY <1>8 DEF Sat_Finish, IInv, OneFirer, Places, Loop, Seen, Signalled
  <2>2. Places'
    BY <1>8 DEF Sat_Finish, IInv, OneFirer, Places, Loop, Seen, Signalled
  <2>3. Loop'
    BY <1>8 DEF Sat_Finish, IInv, OneFirer, Places, Loop, Seen, Signalled
  <2>4. Seen'
    BY <1>8 DEF Sat_Finish, IInv, OneFirer, Places, Loop, Seen, Signalled
  <2>5. Signalled'
    BY <1>8 DEF Sat_Finish, IInv, OneFirer, Places, Loop, Seen, Signalled
  <2> QED
    BY <1>0, <2>1, <2>2, <2>3, <2>4, <2>5 DEF IInv
<1>9. ASSUME NEW d \in Deps, Add_Place(d) PROVE IInv'
  <2>1. OneFirer'
    BY <1>9 DEF Add_Place, IInv, OneFirer, Places, Loop, Seen, Signalled
  <2>2. Places'
    BY <1>9 DEF Add_Place, IInv, OneFirer, Places, Loop, Seen, Signalled
  <2>3. Loop'
    BY <1>9 DEF Add_Place, IInv, OneFirer, Places, Loop, Seen, Signalled
  <2>4. Seen'
    BY <1>9 DEF Add_Place, IInv, OneFirer, Places, Loop, Seen, Signalled
  <2>5. Signalled'
    BY <1>9 DEF Add_Place, IInv, OneFirer, Places, Loop, Seen, Signalled
  <2> QED
    BY <1>0, <2>1, <2>2, <2>3, <2>4, <2>5 DEF IInv
<1>10. ASSUME NEW d \in Deps, Add_Link(d) PROVE IInv'
  <2>1. OneFirer'
    BY <1>10 DEF Add_Link, IInv, OneFirer, Places, Loop, Seen, Signalled
  <2>2. Places'
    BY <1>10 DEF Add_Link, IInv, OneFirer, Places, Loop, Seen, Signalled
  <2>3. Loop'
    BY <1>10 DEF Add_Link, IInv, OneFirer, Places, Loop, Seen, Signalled
  <2>4. Seen'
    BY <1>10 DEF Add_Link, IInv, OneFirer, Places, Loop, Seen, Signalled
  <2>5. Signalled'
    BY <1>10 DEF Add_Link, IInv, OneFirer, Places, Loop, Seen, Signalled
  <2> QED
    BY <1>0, <2>1, <2>2, <2>3, <2>4, <2>5 DEF IInv
<1>11. ASSUME NEW d \in Deps, Add_Write(d) PROVE IInv'
  <2>1. OneFirer'
    BY <1>11 DEF Add_Write, IInv, OneFirer, Places, Loop, Seen, Signalled
  <2>2. Places'
    BY <1>11 DEF Add_Write, IInv, OneFirer, Places, Loop, Seen, Signalled
  <2>3. Loop'
    BY <1>11 DEF Add_Write, IInv, OneFirer, Places, Loop, Seen, Signalled
  <2>4. Seen'
    BY <1>11 DEF Add_Write, IInv, OneFirer, Places, Loop, Seen, Signalled
  <2>5. Signalled'
    BY <1>11 DEF Add_Write, IInv, OneFirer, Places, Loop, Seen, Signalled
  <2> QED
    BY <1>0, <2>1, <2>2, <2>3, <2>4, <2>5 DEF IInv
<1>12. ASSUME NEW d \in Deps, Add_Check(d) PROVE IInv'
  <2>1. OneFirer'
    BY <1>12 DEF Add_Check, IInv, OneFirer, Places, Loop, Seen, Signalled
  <2>2. Places'
    BY <1>12 DEF Add_Check, IInv, OneFirer, Places, Loop, Seen, Signalled
  <2>3. Loop'
    BY <1>12 DEF Add_Check, IInv, OneFirer, Places, Loop, Seen, Signalled
  <2>4. Seen'
    BY <1>12 DEF Add_Check, IInv, OneFirer, Places, Loop, Seen, Signalled
  <2>5. Signalled'
    BY <1>12 DEF Add_Check, IInv, OneFirer, Places, Loop, Seen, Signalled
  <2> QED
    BY <1>0, <2>1, <2>2, <2>3, <2>4, <2>5 DEF IInv
<1>13. ASSUME NEW d \in Deps, Add_Self(d) PROVE IInv'
  <2>1. OneFirer'
    BY <1>13 DEF Add_Self, Deliver, IInv, OneFirer, Places, Loop, Seen, Signalled
  <2>2. Places'
    BY <1>13 DEF Add_Self, Deliver, IInv, OneFirer, Places, Loop, Seen, Signalled
  <2>3. Loop'
    BY <1>13 DEF Add_Self, Deliver, IInv, OneFirer, Places, Loop, Seen, Signalled
  <2>4. Seen'
    BY <1>13 DEF Add_Self, Deliver, IInv, OneFirer, Places, Loop, Seen, Signalled
  <2>5. Signalled'
    BY <1>13 DEF Add_Self, Deliver, IInv, OneFirer, Places, Loop, Seen, Signalled
  <2> QED
    BY <1>0, <2>1, <2>2, <2>3, <2>4, <2>5 DEF IInv
<1>14. ASSUME UNCHANGED vars PROVE IInv'
  BY <1>14 DEF vars, IInv, OneFirer, Places, Loop, Seen, Signalled
<1> QED
  BY <1>1, <1>2, <1>3, <1>4, <1>5, <1>6, <1>7, <1>8, <1>9, <1>10, <1>11, <1>12, <1>13, <1>14
     DEF Next, SatStep, AddStep, Finished

(* The initial state: nothing is registered and nothing has fired. *)
LEMMA InitInv == Init => IInv
<1> SUFFICES ASSUME Init PROVE IInv
  OBVIOUS
<1>1. TypeOK
  <2>1. fired \in BOOLEAN /\ freed \in BOOLEAN /\ aborted \in BOOLEAN
    BY Zenon DEF Init
  <2>2. /\ spc \in [Sats -> SatPCs] /\ dpc \in [Deps -> DepPCs]
        /\ last \in [Sats -> Nat] /\ idx \in [Sats -> Nat]
        /\ place \in [Deps -> Nat] /\ signals \in [Deps -> Nat]
    BY DEF Init, SatPCs, DepPCs
  <2>3. /\ latch \in 0 .. Mod - 1 /\ type \in Types
        /\ count \in Nat /\ pos \in Nat /\ blocks \in Nat \ {0}
    BY EventAssumption DEF Init
  <2> QED
    BY <2>1, <2>2, <2>3 DEF TypeOK
<1>2. OneFirer /\ Places /\ Loop /\ Seen
  BY DEF Init, OneFirer, Places, Loop, Seen, Firing
<1>3. Signalled
  BY DEF Init, Signalled
<1> QED
  BY <1>1, <1>2, <1>3 DEF IInv

(* The inductive invariant holds in every state of every behaviour. *)
LEMMA Invariance == Spec => []IInv
<1>1. Init => IInv
  BY InitInv
<1>2. IInv /\ [Next]_vars => IInv'
  BY InvStep
<1> QED
  BY <1>1, <1>2, PTL DEF Spec

(* Every variable of the event keeps its type, the latch its word size. *)
THEOREM EventTypeCorrect == Spec => []TypeOK
<1>1. IInv => TypeOK
  BY DEF IInv
<1> QED
  BY <1>1, Invariance, PTL

(* The fire loop and the self-signal of arts_add_dependence never both      *)
(* signal a dependent, whatever the interleaving.                           *)
THEOREM SignalledAtMostOnce == Spec => []AtMostOnce
<1>1. IInv => AtMostOnce
  <2> SUFFICES ASSUME IInv, NEW d \in Deps PROVE signals[d] <= 1
    BY DEF AtMostOnce
  <2> USE DEF IInv, TypeOK, Signalled, Loop
  <2>1. CASE pos = 0 \/ dpc[d] = "idle"
    BY <2>1
  <2>2. CASE pos # 0 /\ dpc[d] # "idle" /\ place[d] >= pos - 1
    BY <2>2
  <2>3. CASE pos # 0 /\ dpc[d] # "idle" /\ place[d] < pos - 1
    <3>1. CASE \A s \in Sats : spc[s] # "fire"
      BY <2>3, <3>1
    <3>2. CASE \E s \in Sats : spc[s] = "fire"
      BY <2>3, <3>2
    <3> QED
      BY <3>1, <3>2
  <2> QED
    BY <2>1, <2>2, <2>3
<1> QED
  BY <1>1, Invariance, PTL

(* Once the fire loop is over, no registration that has returned was left   *)
(* out by both the loop and the self-signal.                                *)
THEOREM NoDependentMissed == Spec => []NoneMissed
<1>1. IInv => NoneMissed
  <2> SUFFICES ASSUME IInv, pos # 0, \A s \in Sats : spc[s] # "fire",
                      NEW d \in Deps, dpc[d] = "done"
               PROVE  signals[d] = 1
    BY DEF NoneMissed
  <2>1. CASE place[d] >= pos - 1
    BY <2>1 DEF IInv, Signalled
  <2>2. CASE place[d] < pos - 1
    BY <2>2 DEF IInv, Signalled
  <2> QED
    BY <2>1, <2>2 DEF IInv, TypeOK
<1> QED
  BY <1>1, Invariance, PTL

----------------------------------------------------------------------------
(* The life of an auto-destroyed event *)

Incs == {s \in Sats : SlotOf[s] = "INCR"}
Decs == {s \in Sats : SlotOf[s] = "DECR"}

(* How a program uses such an event: it adds its counts before it gives any *)
(* back, gives back no more than there are, and the counts fit the word.    *)
Balanced ==
  /\ IsFiniteSet(Sats)
  /\ \A s \in Decs : Incs \subseteq After[s]
  /\ Cardinality(Decs) <= InitLatch + Cardinality(Incs)
  /\ InitLatch + Cardinality(Incs) < Mod

(* The calls that have done their operation on the latch, those of them     *)
(* that brought it to zero, and how far it has been counted.                *)
Past == {"swap", "capture", "publish", "fire", "done"}
Last == {"swap", "capture", "publish", "fire"}
Did(S) == {s \in S : spc[s] \in Past}

LatchCounts == latch = InitLatch + Cardinality(Did(Incs)) - Cardinality(Did(Decs))

(* A satisfy call starts after the calls ordered before it, and after all   *)
(* registrations.                                                           *)
InOrder ==
  \A s \in Sats : spc[s] # "idle" =>
    /\ \A t \in After[s] : spc[t] = "done"
    /\ \A d \in Deps : dpc[d] = "done"

(* The call that brings the latch to zero is the last one. *)
ZeroIsLast ==
  /\ \A s \in Sats : spc[s] \in Last => \A t \in Sats \ {s} : spc[t] = "done"
  /\ fired => /\ \A s \in Sats : spc[s] \in Past
              /\ \A d \in Deps : dpc[d] = "done"
  /\ freed => fired /\ \A s \in Sats : spc[s] = "done"

(* What was signalled is what the event still holds. *)
Delivered ==
  DOMAIN got = Deps /\ \A d \in Deps : signals[d] > 0 => got[d] = data

Orderly ==
  IF Persists THEN ~freed ELSE LatchCounts /\ InOrder /\ ZeroIsLast /\ Delivered

(* A call that does not pass the latch is counted as before. *)
LEMMA DidSame ==
  ASSUME TypeOK, NEW S \in SUBSET Sats, NEW s \in Sats, NEW l \in SatPCs,
         spc' = [spc EXCEPT ![s] = l], s \notin S \/ (spc[s] \in Past <=> l \in Past)
  PROVE  Did(S)' = Did(S)
BY DEF Did, TypeOK

(* What the operation on the latch does to an auto-destroyed event. *)
LatchMoves ==
  \A s \in Sats : Sat_Latch(s) =>
    /\ LatchCounts'
    /\ latch' = 0 => \A t \in Sats \ {s} : spc[t] \in Past

(* Every step keeps an auto-destroyed event in order, if the latch counts.  *)
LEMMA OrderlyStep ==
  ASSUME IInv, Orderly, [Next]_vars, ~Persists => LatchMoves
  PROVE  Orderly'
<1>0. TypeOK /\ TypeOK' /\ OneFirer /\ Signalled
  BY TypeStep DEF IInv
<1>a. Persists' = Persists
  BY DEF Next, SatStep, AddStep, Finished, Persists, vars, evars, Sat_Guard, Sat_Data,
         Sat_Latch, Sat_Swap, Sat_Capture, Sat_Publish, Sat_Fire, Sat_Finish,
         Add_Place, Add_Link, Add_Write, Add_Check, Add_Self
<1>b. CASE Persists
  <2>1. ~freed'
    BY <1>b, Zenon DEF Orderly, Next, SatStep, AddStep, Finished, vars, evars, Sat_Guard,
         Sat_Data, Sat_Latch, Sat_Swap, Sat_Capture, Sat_Publish, Sat_Fire, Sat_Finish,
         Add_Place, Add_Link, Add_Write, Add_Check, Add_Self
  <2> QED
    BY <1>a, <1>b, <2>1 DEF Orderly
<1>c. CASE ~Persists
  <2>0. LatchCounts /\ InOrder /\ ZeroIsLast /\ Delivered
    BY <1>c DEF Orderly
  <2> SUFFICES LatchCounts' /\ InOrder' /\ ZeroIsLast' /\ Delivered'
    BY <1>a, <1>c DEF Orderly
  <2>a. ASSUME NEW s \in Sats, NEW l \in SatPCs, spc' = [spc EXCEPT ![s] = l],
               spc[s] \in Past <=> l \in Past, latch' = latch
        PROVE  LatchCounts'
    <3>1. Incs \in SUBSET Sats /\ Decs \in SUBSET Sats
      BY DEF Incs, Decs
    <3>2. Did(Incs)' = Did(Incs) /\ Did(Decs)' = Did(Decs)
      BY <1>0, <2>a, <3>1, DidSame, Zenon
    <3> QED
      BY <2>0, <2>a, <3>2 DEF LatchCounts
  <2>b. ASSUME UNCHANGED <<latch, spc>> PROVE LatchCounts'
    BY <2>0, <2>b DEF LatchCounts, Did
  <2> USE <1>0, <2>0 DEF TypeOK, SatPCs, DepPCs, evars, svars, dvars, Past, Last
  <2>1. ASSUME NEW s \in Sats, Sat_Guard(s)
        PROVE  LatchCounts' /\ InOrder' /\ ZeroIsLast' /\ Delivered'
    <3>1. ~fired
      BY <2>1 DEF Sat_Guard, ZeroIsLast
    <3>2. CASE Rejected(s)
      BY <2>1, <2>b, <3>2 DEF Sat_Guard, InOrder, ZeroIsLast, Delivered
    <3>3. CASE ~Rejected(s)
      <4>1. PICK l \in {"latch", "data"} : spc' = [spc EXCEPT ![s] = l]
        BY <2>1, <3>1, <3>3, Zenon DEF Sat_Guard
      <4>2. LatchCounts'
        BY <2>1, <2>a, <4>1, Zenon DEF Sat_Guard
      <4>3. InOrder'
        BY <1>c, <2>1, <4>1, EventAssumption DEF Sat_Guard, InOrder
      <4>4. ZeroIsLast' /\ Delivered'
        BY <2>1, <3>1, <4>1 DEF Sat_Guard, ZeroIsLast, Delivered
      <4> QED
        BY <4>2, <4>3, <4>4
    <3> QED
      BY <3>2, <3>3
  <2>2. ASSUME NEW s \in Sats, Sat_Data(s)
        PROVE  LatchCounts' /\ InOrder' /\ ZeroIsLast' /\ Delivered'
    <3>1. ~fired /\ \A d \in Deps : signals[d] = 0
      BY <2>2 DEF Sat_Data, ZeroIsLast, OneFirer, Signalled
    <3>2. LatchCounts'
      BY <2>2, <2>a, Zenon DEF Sat_Data
    <3>3. InOrder' /\ ZeroIsLast'
      BY <2>2, <3>1, EventAssumption DEF Sat_Data, InOrder, ZeroIsLast
    <3>4. Delivered'
      BY <2>2, <3>1 DEF Sat_Data, Delivered
    <3> QED
      BY <3>2, <3>3, <3>4
  <2>3. ASSUME NEW s \in Sats, Sat_Latch(s)
        PROVE  LatchCounts' /\ InOrder' /\ ZeroIsLast' /\ Delivered'
    <3>1. LatchCounts' /\ (latch' = 0 => \A t \in Sats \ {s} : spc[t] \in Past)
      BY <1>c, <2>3 DEF LatchMoves
    <3>2. InOrder' /\ Delivered'
      BY <2>3, EventAssumption DEF Sat_Latch, InOrder, Delivered
    <3>3. ZeroIsLast'
      BY <2>3, <3>1 DEF Sat_Latch, ZeroIsLast
    <3> QED
      BY <3>1, <3>2, <3>3
  <2>4. ASSUME NEW s \in Sats, Sat_Swap(s)
        PROVE  LatchCounts' /\ InOrder' /\ ZeroIsLast' /\ Delivered'
    <3>1. LatchCounts'
      BY <2>4, <2>a, <2>b, Zenon DEF Sat_Swap
    <3>2. InOrder' /\ ZeroIsLast' /\ Delivered'
      BY <2>4, EventAssumption DEF Sat_Swap, InOrder, ZeroIsLast, Delivered
    <3> QED
      BY <3>1, <3>2
  <2>5. ASSUME NEW s \in Sats, Sat_Capture(s)
        PROVE  LatchCounts' /\ InOrder' /\ ZeroIsLast' /\ Delivered'
    <3>1. LatchCounts'
      BY <2>5, <2>a, Zenon DEF Sat_Capture
    <3>2. InOrder' /\ ZeroIsLast' /\ Delivered'
      BY <2>5, EventAssumption DEF Sat_Capture, InOrder, ZeroIsLast, Delivered
    <3> QED
      BY <3>1, <3>2
  <2>6. ASSUME NEW s \in Sats, Sat_Publish(s)
        PROVE  LatchCounts' /\ InOrder' /\ ZeroIsLast' /\ Delivered'
    <3>1. LatchCounts'
      BY <2>6, <2>a, Zenon DEF Sat_Publish
    <3>2. InOrder' /\ ZeroIsLast' /\ Delivered'
      BY <2>6, EventAssumption DEF Sat_Publish, InOrder, ZeroIsLast, Delivered
    <3> QED
      BY <3>1, <3>2
  <2>7. ASSUME NEW s \in Sats, Sat_Fire(s)
        PROVE  LatchCounts' /\ InOrder' /\ ZeroIsLast' /\ Delivered'
    BY <2>7, <2>b DEF Sat_Fire, Deliver, InOrder, ZeroIsLast, Delivered
  <2>8. ASSUME NEW s \in Sats, Sat_Finish(s)
        PROVE  LatchCounts' /\ InOrder' /\ ZeroIsLast' /\ Delivered'
    <3>1. LatchCounts'
      BY <2>8, <2>a, Zenon DEF Sat_Finish
    <3>2. InOrder' /\ Delivered'
      BY <2>8, EventAssumption DEF Sat_Finish, InOrder, Delivered
    <3>3. ZeroIsLast'
      BY <2>8 DEF Sat_Finish, ZeroIsLast, OneFirer, Firing
    <3> QED
      BY <3>1, <3>2, <3>3
  <2>9. ASSUME NEW d \in Deps, Add_Place(d)
        PROVE  LatchCounts' /\ InOrder' /\ ZeroIsLast' /\ Delivered'
    BY <1>c, <2>9, <2>b DEF Add_Place, InOrder, ZeroIsLast, Delivered
  <2>10. ASSUME NEW d \in Deps, Add_Link(d)
        PROVE  LatchCounts' /\ InOrder' /\ ZeroIsLast' /\ Delivered'
    BY <2>10, <2>b DEF Add_Link, InOrder, ZeroIsLast, Delivered
  <2>11. ASSUME NEW d \in Deps, Add_Write(d) \/ Add_Check(d)
        PROVE  LatchCounts' /\ InOrder' /\ ZeroIsLast' /\ Delivered'
    BY <2>11, <2>b DEF Add_Write, Add_Check, InOrder, ZeroIsLast, Delivered
  <2>12. ASSUME NEW d \in Deps, Add_Self(d)
        PROVE  LatchCounts' /\ InOrder' /\ ZeroIsLast' /\ Delivered'
    BY <2>12 DEF Add_Self, ZeroIsLast, OneFirer
  <2>13. ASSUME UNCHANGED vars
        PROVE  LatchCounts' /\ InOrder' /\ ZeroIsLast' /\ Delivered'
    BY <2>13, <2>b DEF vars, InOrder, ZeroIsLast, Delivered
  <2> QED
    BY <2>1, <2>2, <2>3, <2>4, <2>5, <2>6, <2>7, <2>8, <2>9, <2>10, <2>11, <2>12,
       <2>13 DEF Next, SatStep, AddStep, Finished
<1> QED
  BY <1>b, <1>c

----------------------------------------------------------------------------
(* The latch counts.  Facts about finite sets are used from here on only. *)

INSTANCE FiniteSetTheorems

(* The calls that have passed the latch, when call s goes to l. *)
LEMMA DidStep ==
  ASSUME Balanced, TypeOK, NEW S \in SUBSET Sats, NEW s \in Sats, NEW l \in SatPCs,
         spc' = [spc EXCEPT ![s] = l]
  PROVE  /\ IsFiniteSet(Did(S)) /\ Cardinality(Did(S)) \in Nat
         /\ Cardinality(Did(S)) <= Cardinality(S) /\ Cardinality(S) \in Nat
         /\ Cardinality(Did(S)) = Cardinality(S) => Did(S) = S
         /\ s \notin S \/ (spc[s] \in Past <=> l \in Past) => Did(S)' = Did(S)
         /\ s \in S /\ spc[s] \notin Past /\ l \in Past =>
              /\ Did(S)' = Did(S) \cup {s}
              /\ Cardinality(Did(S)') = Cardinality(Did(S)) + 1
              /\ Cardinality(Did(S)) < Cardinality(S)
              /\ Cardinality(Did(S)') = Cardinality(S) => Did(S)' = S
<1>1. IsFiniteSet(S) /\ Cardinality(S) \in Nat
  BY FS_Subset, FS_CardinalityType DEF Balanced
<1>2. /\ IsFiniteSet(Did(S)) /\ Cardinality(Did(S)) <= Cardinality(S)
      /\ Cardinality(Did(S)) = Cardinality(S) => Did(S) = S
      /\ Cardinality(Did(S)) \in Nat
  BY <1>1, FS_Subset, FS_CardinalityType, Did(S) \in SUBSET S DEF Did
<1>3. s \notin S \/ (spc[s] \in Past <=> l \in Past) => Did(S)' = Did(S)
  BY DidSame, Zenon
<1>4. ASSUME s \in S, spc[s] \notin Past, l \in Past
      PROVE  /\ Did(S)' = Did(S) \cup {s}
             /\ Cardinality(Did(S)') = Cardinality(Did(S)) + 1
             /\ Cardinality(Did(S)) < Cardinality(S)
             /\ Cardinality(Did(S)') = Cardinality(S) => Did(S)' = S
  <2>1. Did(S)' = Did(S) \cup {s} /\ s \notin Did(S)
    BY <1>4 DEF Did, TypeOK
  <2>2. Cardinality(Did(S)') = Cardinality(Did(S)) + 1
    BY <1>2, <2>1, FS_AddElement
  <2>3. /\ Cardinality(Did(S)') <= Cardinality(S)
        /\ Cardinality(Did(S)') = Cardinality(S) => Did(S)' = S
    BY <1>1, <1>4, <2>1, FS_Subset, Did(S)' \in SUBSET S DEF Did
  <2> QED
    BY <1>1, <1>2, <2>1, <2>2, <2>3
<1> QED
  BY <1>1, <1>2, <1>3, <1>4

(* The operation on the latch of an auto-destroyed event, when it is not    *)
(* the last: it counts, without a wrap.                                     *)
LEMMA LatchStep ==
  ASSUME Balanced, TypeOK, ~Persists, LatchCounts, InOrder,
         NEW s \in Sats, Sat_Latch(s)
  PROVE  /\ LatchCounts'
         /\ latch' = 0 => \A t \in Sats \ {s} : spc[t] \in Past
<1>1. PICK l \in Past : spc' = [spc EXCEPT ![s] = l]
  BY Zenon DEF Sat_Latch, Past
<1>2. l \in SatPCs /\ spc[s] = "latch" /\ spc[s] \notin Past /\ l \in Past
  BY <1>1 DEF Sat_Latch, Past, SatPCs
<1>3. /\ Incs \in SUBSET Sats /\ Decs \in SUBSET Sats
      /\ latch \in 0 .. Mod - 1 /\ Mod \in Nat \ {0} /\ InitLatch \in Nat
  BY EventAssumption DEF Incs, Decs, TypeOK
<1>4. CASE SlotOf[s] = "INCR"
  <2>1. s \in Incs /\ s \notin Decs
    BY <1>4 DEF Incs, Decs
  <2>2. Did(Decs) = {} /\ Did(Decs)' = {} /\ Cardinality(Did(Decs)) = 0
    <3>1. ASSUME NEW t \in Decs, spc[t] \in Past PROVE FALSE
      BY <1>2, <2>1, <3>1 DEF Balanced, InOrder, Decs, Past
    <3>2. Did(Decs) = {}
      BY <3>1 DEF Did
    <3> QED
      BY <1>1, <1>2, <1>3, <2>1, <3>2, DidStep, FS_EmptySet, Zenon
  <2>3. /\ Cardinality(Did(Incs)') = Cardinality(Did(Incs)) + 1
        /\ Cardinality(Did(Incs)) < Cardinality(Incs)
        /\ Cardinality(Did(Incs)) \in Nat /\ Cardinality(Incs) \in Nat
    BY <1>1, <1>2, <1>3, <2>1, DidStep, Zenon
  <2>4. latch' = latch + 1 /\ latch + 1 # 0
    <3>1. latch' = (latch + 1) % Mod
      BY <1>4 DEF Sat_Latch
    <3>2. latch + 1 < Mod
      BY <1>3, <2>2, <2>3 DEF LatchCounts, Balanced
    <3> QED
      BY <1>3, <3>1, <3>2, LatchUp
  <2> QED
    BY <1>3, <2>2, <2>3, <2>4 DEF LatchCounts
<1>5. CASE SlotOf[s] = "DECR"
  <2>1. s \in Decs /\ s \notin Incs
    BY <1>5 DEF Incs, Decs
  <2>2. Did(Incs) = Incs /\ Did(Incs)' = Incs /\ Cardinality(Incs) \in Nat
    <3>1. Did(Incs) = Incs
      BY <1>2, <2>1 DEF Balanced, InOrder, Did, Incs, Past
    <3> QED
      BY <1>1, <1>2, <1>3, <2>1, <3>1, DidStep, Zenon
  <2>3. /\ Cardinality(Did(Decs)') = Cardinality(Did(Decs)) + 1
        /\ Cardinality(Did(Decs)) < Cardinality(Decs)
        /\ Cardinality(Did(Decs)') = Cardinality(Decs) => Did(Decs)' = Decs
        /\ Cardinality(Did(Decs)) \in Nat /\ Cardinality(Decs) \in Nat
    BY <1>1, <1>2, <1>3, <2>1, DidStep, Zenon
  <2>4. latch >= 1 /\ latch' = latch - 1
    <3>1. latch' = (latch + (Mod - 1)) % Mod
      BY <1>5 DEF Sat_Latch
    <3>2. latch >= 1
      BY <1>3, <2>2, <2>3 DEF LatchCounts, Balanced
    <3> QED
      BY <1>3, <3>1, <3>2, LatchDown
  <2>5. LatchCounts'
    BY <1>3, <2>2, <2>3, <2>4 DEF LatchCounts
  <2>6. ASSUME latch' = 0, NEW t \in Sats \ {s} PROVE spc[t] \in Past
    <3>1. Did(Decs)' = Decs
      <4>1. latch = InitLatch + Cardinality(Incs) - Cardinality(Did(Decs)) /\ latch = 1
        BY <1>3, <2>2, <2>4, <2>6 DEF LatchCounts
      <4>2. Cardinality(Did(Decs)') = Cardinality(Decs)
        BY <1>3, <2>2, <2>3, <4>1 DEF Balanced
      <4> QED
        BY <2>3, <4>2
    <3>2. t \in Incs \/ t \in Decs
      BY EventAssumption DEF Incs, Decs
    <3> QED
      BY <1>1, <2>2, <3>1, <3>2 DEF Did, TypeOK
  <2> QED
    BY <2>5, <2>6
<1> QED
  BY <1>4, <1>5, EventAssumption

(* A balanced program keeps its events in order. *)
LEMMA OrderlyInvariance == Balanced => (Spec => []Orderly)
<1> SUFFICES ASSUME Balanced PROVE Spec => []Orderly
  OBVIOUS
<1>1. Init => Orderly
  <2> SUFFICES ASSUME Init PROVE Orderly
    OBVIOUS
  <2>1. Did(Incs) = {} /\ Did(Decs) = {}
    BY DEF Init, Did, Incs, Decs, Past
  <2>2. LatchCounts
    BY <2>1, FS_EmptySet, EventAssumption DEF Init, LatchCounts
  <2> QED
    BY <2>2 DEF Init, Orderly, InOrder, ZeroIsLast, Delivered, Last
<1>2. IInv /\ Orderly /\ [Next]_vars => Orderly'
  <2> SUFFICES ASSUME IInv, Orderly, [Next]_vars PROVE Orderly'
    OBVIOUS
  <2>1. ~Persists => LatchMoves
    BY LatchStep DEF IInv, Orderly, LatchMoves
  <2> QED
    BY <2>1, OrderlyStep
<1> QED
  BY <1>1, <1>2, Invariance, PTL DEF Spec

(* A LATCH, ONCE or COUNTED event of a balanced program is freed by the     *)
(* call that fired it when every other call on it has returned.             *)
THEOREM NotFreedInUse == Balanced => (Spec => []NoUseAfterFree)
<1> SUFFICES ASSUME Balanced PROVE Spec => []NoUseAfterFree
  OBVIOUS
<1>1. Orderly => NoUseAfterFree
  BY DEF Orderly, ZeroIsLast, NoUseAfterFree
<1> QED
  BY <1>1, OrderlyInvariance, PTL

(* The dependents of an auto-destroyed event of a balanced program all get  *)
(* the data it holds when the latch reaches zero.                           *)
THEOREM DependentsShareData == Balanced => (Spec => []SameData)
<1> SUFFICES ASSUME Balanced PROVE Spec => []SameData
  OBVIOUS
<1>1. Orderly => SameData
  BY DEF Orderly, Delivered, SameData
<1> QED
  BY <1>1, OrderlyInvariance, PTL
=============================================================================
