-------------------------- MODULE OutOfOrderProofs --------------------------
(***************************************************************************)
(* Proofs about OutOfOrder: for every number of signals, however they and  *)
(* the creation of the EDT interleave, the EDT becomes ready once and      *)
(* last, and the list is not changed while it is replayed.                 *)
(***************************************************************************)
EXTENDS OutOfOrder, FiniteSetTheorems, TLAPS

USE SMTT(30), Zenon

(* The inductive invariant *)

Inside == {"recheck", "leave", "append", "unlock"}
Deferred == {queue[i] : i \in 1 .. Len(queue)}

(* The two words of the list's lock say who is where. *)
LockWords ==
  /\ readers = Cardinality({s \in Sigs : spc[s] \in Inside})
  /\ writer <=> cpc \in {"count", "release", "replay"}
  /\ cpc = "replay" => \A s \in Sigs : spc[s] \notin {"append", "unlock"}

(* The list is fired by the replay, which empties it for good. *)
FiredList ==
  /\ isFired => cpc \in {"replay", "sentinel", "done"}
  /\ cpc = "replay" => isFired
  /\ isFired /\ cpc # "replay" => queue = <<>>
  /\ cpc \in {"sentinel", "done"} => isFired \/ gaveUp \/ (Moved /\ needed = 0)

(* A signal is applied or deferred once, by the call that has passed it on. *)
Accounted ==
  /\ \A i, j \in 1 .. Len(queue) : queue[i] = queue[j] => i = j
  /\ Deferred \cap applied = {}
  /\ \A s \in Deferred : spc[s] \in {"unlock", "done"}
  /\ \A s \in applied : spc[s] = "done"
  /\ \A s \in Sigs : spc[s] \in {"unlock", "done"} => s \in Deferred \cup applied

(* The EDT is in the table from its creation on, and only then signalled. *)
Published ==
  /\ item = "available" <=> cpc # "idle"
  /\ \A s \in Sigs : spc[s] = "sub" => cpc # "idle"
  /\ cpc = "idle" => applied = {} /\ ready = 0
  /\ cpc = "check" => Moved
  /\ cpc = "sentinel" => ~Moved

(* depc_needed counts the signals not applied, and the sentinel until the   *)
(* creator removes it; the EDT was made ready if and only if it is zero.    *)
Sentinel == IF ~Moved /\ cpc # "done" THEN 1 ELSE 0
Counted ==
  cpc # "idle" =>
    /\ needed = Cardinality(Sigs \ applied) + Sentinel
    /\ ready > 0 => needed = 0
    /\ ~Moved => ready <= 1
    /\ needed = 0 /\ cpc # "check" => ready > 0

IInv == TypeOK /\ LockWords /\ FiredList /\ Accounted /\ Published /\ Counted

----------------------------------------------------------------------------
(* Counting *)

(* How the number of calls inside the lock follows one call's step. *)
LEMMA ReaderCount ==
  ASSUME OOAssumption, TypeOK, NEW s \in Sigs, NEW l \in SigPCs,
         spc' = [spc EXCEPT ![s] = l]
  PROVE  LET n == Cardinality({t \in Sigs : spc[t] \in Inside})
         IN  Cardinality({t \in Sigs : spc'[t] \in Inside}) =
               IF spc[s] \in Inside
               THEN IF l \in Inside THEN n ELSE n - 1
               ELSE IF l \in Inside THEN n + 1 ELSE n
<1> DEFINE In == {t \in Sigs : spc[t] \in Inside}
           Jn == {t \in Sigs : spc'[t] \in Inside}
<1>1. IsFiniteSet(In)
  BY FS_Subset, In \in SUBSET Sigs DEF OOAssumption
<1>2. /\ s \in In <=> spc[s] \in Inside
      /\ l \in Inside => Jn = In \cup {s}
      /\ l \notin Inside => Jn = In \ {s}
  BY DEF TypeOK
<1>3. /\ Cardinality(In \cup {s}) = IF s \in In THEN Cardinality(In) ELSE Cardinality(In) + 1
      /\ Cardinality(In \ {s}) = IF s \in In THEN Cardinality(In) - 1 ELSE Cardinality(In)
  BY <1>1, FS_AddElement, FS_RemoveElement, Zenon
<1> QED
  BY <1>2, <1>3

(* While a call is inside, the count is not zero. *)
LEMMA ReaderNat ==
  ASSUME OOAssumption, NEW s \in Sigs, spc[s] \in Inside
  PROVE  Cardinality({t \in Sigs : spc[t] \in Inside}) \in Nat \ {0}
<1> DEFINE In == {t \in Sigs : spc[t] \in Inside}
<1>1. IsFiniteSet(In) /\ s \in In
  BY FS_Subset, In \in SUBSET Sigs DEF OOAssumption
<1> QED
  BY <1>1, FS_CardinalityType, FS_EmptySet

(* A signal that is applied leaves one fewer to wait for. *)
LEMMA Remaining ==
  ASSUME OOAssumption, NEW A \in SUBSET Sigs, NEW s \in Sigs \ A
  PROVE  /\ Cardinality(Sigs \ A) \in Nat \ {0}
         /\ Cardinality(Sigs \ (A \cup {s})) = Cardinality(Sigs \ A) - 1
<1> DEFINE R == Sigs \ A
<1>1. IsFiniteSet(R) /\ s \in R
  BY FS_Subset, R \in SUBSET Sigs DEF OOAssumption
<1>2. Cardinality(R) \in Nat /\ Cardinality(R) # 0
  BY <1>1, FS_CardinalityType, FS_EmptySet
<1>3. Sigs \ (A \cup {s}) = R \ {s}
  OBVIOUS
<1> QED
  BY <1>1, <1>2, <1>3, FS_RemoveElement

(* Nothing is left to wait for exactly when every signal is applied. *)
LEMMA NoneRemaining ==
  ASSUME OOAssumption, NEW A \in SUBSET Sigs
  PROVE  /\ Cardinality(Sigs \ A) \in Nat
         /\ Cardinality(Sigs \ A) = 0 <=> A = Sigs
<1> DEFINE R == Sigs \ A
<1>1. IsFiniteSet(R)
  BY FS_Subset, R \in SUBSET Sigs DEF OOAssumption
<1>2. Cardinality(R) \in Nat /\ (Cardinality(R) = 0 <=> R = {})
  BY <1>1, FS_CardinalityType, FS_EmptySet
<1> QED
  BY <1>2

----------------------------------------------------------------------------
(* Every step keeps the invariant. *)

(* Init: no signal and no EDT yet. *)
LEMMA InitInv == OOAssumption /\ Init => IInv
<1> SUFFICES ASSUME OOAssumption, Init PROVE IInv
  OBVIOUS
<1>1. TypeOK
  <2>1. writer \in BOOLEAN /\ isFired \in BOOLEAN /\ gaveUp \in BOOLEAN
    BY Zenon DEF Init
  <2> QED
    BY <2>1 DEF Init, TypeOK, SigPCs, CreatePCs
<1>2. LockWords
  <2>1. {s \in Sigs : spc[s] \in Inside} = {}
    BY DEF Init, Inside
  <2> QED
    BY <2>1, FS_EmptySet, Zenon DEF Init, LockWords
<1>3. FiredList /\ Published /\ Counted
  BY DEF Init, FiredList, Published, Counted
<1>4. Accounted
  BY DEF Init, Accounted, Deferred
<1> QED
  BY <1>1, <1>2, <1>3, <1>4 DEF IInv

(* The words of the lock, when a signalling call moves from outside it to   *)
(* outside it.                                                              *)
LEMMA StaysOutside ==
  ASSUME OOAssumption, IInv, NEW s \in Sigs, NEW l \in SigPCs \ Inside,
         spc[s] \notin Inside, spc' = [spc EXCEPT ![s] = l],
         UNCHANGED <<writer, readers, cpc>>
  PROVE  LockWords'
BY ReaderCount, Zenon DEF IInv, LockWords, TypeOK, Inside

(* The same when the call counts itself out. *)
LEMMA CountsOut ==
  ASSUME OOAssumption, IInv, NEW s \in Sigs, NEW l \in SigPCs \ Inside,
         spc[s] \in Inside, spc' = [spc EXCEPT ![s] = l],
         readers' = readers - 1, UNCHANGED <<writer, cpc>>
  PROVE  readers' \in Nat /\ LockWords'
<1> DEFINE n == Cardinality({t \in Sigs : spc[t] \in Inside})
<1>1. n \in Nat \ {0}
  BY ReaderNat
<1>2. Cardinality({t \in Sigs : spc'[t] \in Inside}) = n - 1
  BY ReaderCount, Zenon DEF IInv
<1>3. readers = n
  BY DEF IInv, LockWords
<1> QED
  BY <1>1, <1>2, <1>3 DEF IInv, LockWords, TypeOK, Inside

(* internal_signal_edt_ex: the steps of one signal. *)
LEMMA SigInv ==
  ASSUME OOAssumption, IInv, NEW s \in Sigs, SigStep(s)
  PROVE  IInv'
<1> USE DEF IInv, ovars, lvars, Goto
<1>1. CASE Sig_Lookup(s)
  <2>1. TypeOK' /\ FiredList' /\ Published'
    BY <1>1 DEF Sig_Lookup, TypeOK, SigPCs, FiredList, Published, Moved
  <2>2. LockWords'
    BY <1>1, StaysOutside, Zenon DEF Sig_Lookup, SigPCs, Inside
  <2>3. Accounted'
    BY <1>1 DEF Sig_Lookup, TypeOK, Accounted, Deferred
  <2>4. Counted'
    BY <1>1 DEF Sig_Lookup, Counted, Sentinel, Moved
  <2> QED
    BY <2>1, <2>2, <2>3, <2>4
<1>2. CASE Sig_Sub(s)
  <2>1. s \in Sigs \ applied /\ applied \in SUBSET Sigs /\ cpc # "idle"
    BY <1>2 DEF Sig_Sub, TypeOK, Accounted, Published
  <2>2. /\ needed \in Nat \ {0}
        /\ needed' = Cardinality(Sigs \ applied') + Sentinel'
    BY <1>2, <2>1, Remaining DEF Sig_Sub, Countdown, Counted, Sentinel, Moved
  <2>3. TypeOK'
    BY <1>2, <2>2 DEF Sig_Sub, Countdown, TypeOK, SigPCs
  <2>4. LockWords'
    BY <1>2, StaysOutside, Zenon DEF Sig_Sub, SigPCs, Inside
  <2>5. FiredList' /\ Published'
    BY <1>2, <2>1, <2>2 DEF Sig_Sub, Countdown, TypeOK, FiredList, Published, Moved
  <2>6. Accounted'
    BY <1>2 DEF Sig_Sub, TypeOK, Accounted, Deferred
  <2>7. Counted'
    BY <1>2, <2>1, <2>2 DEF Sig_Sub, Countdown, TypeOK, Counted, Published, Moved
  <2> QED
    BY <2>3, <2>4, <2>5, <2>6, <2>7
<1>3. CASE Sig_Reserve(s)
  <2>1. TypeOK' /\ FiredList' /\ Published'
    BY <1>3 DEF Sig_Reserve, TypeOK, SigPCs, FiredList, Published, Moved
  <2>2. LockWords'
    BY <1>3, StaysOutside, Zenon DEF Sig_Reserve, SigPCs, Inside
  <2>3. Accounted'
    BY <1>3 DEF Sig_Reserve, TypeOK, Accounted, Deferred
  <2>4. Counted'
    BY <1>3 DEF Sig_Reserve, Counted, Sentinel, Moved
  <2> QED
    BY <2>1, <2>2, <2>3, <2>4
<1>4. CASE Sig_Try(s)
  <2>1. TypeOK' /\ FiredList' /\ Published'
    BY <1>4 DEF Sig_Try, TypeOK, SigPCs, FiredList, Published, Moved
  <2>2. LockWords'
    BY <1>4, StaysOutside, Zenon DEF Sig_Try, SigPCs, Inside
  <2>3. Accounted'
    BY <1>4 DEF Sig_Try, TypeOK, Accounted, Deferred
  <2>4. Counted'
    BY <1>4 DEF Sig_Try, Counted, Sentinel, Moved
  <2> QED
    BY <2>1, <2>2, <2>3, <2>4
<1>5. CASE Sig_Enter(s)
  <2>1. TypeOK' /\ FiredList' /\ Published'
    BY <1>5 DEF Sig_Enter, TypeOK, SigPCs, FiredList, Published, Moved
  <2>2. LockWords'
    BY <1>5, ReaderCount, Zenon DEF Sig_Enter, TypeOK, SigPCs, LockWords, Inside
  <2>3. Accounted'
    BY <1>5 DEF Sig_Enter, TypeOK, Accounted, Deferred
  <2>4. Counted'
    BY <1>5 DEF Sig_Enter, Counted, Sentinel, Moved
  <2> QED
    BY <2>1, <2>2, <2>3, <2>4
<1>6. CASE Sig_Recheck(s)
  <2>1. TypeOK' /\ FiredList' /\ Published'
    BY <1>6 DEF Sig_Recheck, TypeOK, SigPCs, FiredList, Published, Moved
  <2>2. LockWords'
    BY <1>6, ReaderCount, Zenon DEF Sig_Recheck, TypeOK, SigPCs, LockWords, Inside
  <2>3. Accounted'
    BY <1>6 DEF Sig_Recheck, TypeOK, Accounted, Deferred
  <2>4. Counted'
    BY <1>6 DEF Sig_Recheck, Counted, Sentinel, Moved
  <2> QED
    BY <2>1, <2>2, <2>3, <2>4
<1>7. CASE Sig_Leave(s)
  <2>1. readers' \in Nat /\ LockWords'
    BY <1>7, CountsOut, Zenon DEF Sig_Leave, SigPCs, Inside
  <2>2. TypeOK' /\ FiredList' /\ Published'
    BY <1>7, <2>1 DEF Sig_Leave, TypeOK, SigPCs, FiredList, Published, Moved
  <2>3. Accounted'
    BY <1>7 DEF Sig_Leave, TypeOK, Accounted, Deferred
  <2>4. Counted'
    BY <1>7 DEF Sig_Leave, Counted, Sentinel, Moved
  <2> QED
    BY <2>1, <2>2, <2>3, <2>4
<1>8. CASE Sig_Append(s)
  <2>1. readers' \in Nat /\ LockWords'
    <3>1. CASE isFired
      BY <1>8, <3>1, CountsOut DEF Sig_Append, SigPCs, Inside
    <3>2. CASE ~isFired
      BY <1>8, <3>2, ReaderCount, Zenon DEF Sig_Append, TypeOK, SigPCs, LockWords, FiredList, Inside
    <3> QED
      BY <3>1, <3>2
  <2>2. TypeOK' /\ FiredList' /\ Published'
    BY <1>8, <2>1 DEF Sig_Append, TypeOK, SigPCs, FiredList, Published, Moved
  <2>3. Accounted'
    <3>1. CASE isFired
      BY <1>8, <3>1 DEF Sig_Append, TypeOK, Accounted, Deferred
    <3>2. CASE ~isFired
      <4>1. /\ Len(queue') = Len(queue) + 1 /\ Len(queue) \in Nat
            /\ \A i \in 1 .. Len(queue') :
                 queue'[i] = IF i = Len(queue) + 1 THEN s ELSE queue[i]
        BY <1>8, <3>2 DEF Sig_Append, TypeOK
      <4>2. Deferred' = Deferred \cup {s} /\ s \notin Deferred \cup applied
        BY <1>8, <4>1 DEF Sig_Append, TypeOK, Accounted, Deferred
      <4>3. \A i, j \in 1 .. Len(queue') : queue'[i] = queue'[j] => i = j
        BY <4>1, <4>2 DEF Accounted, Deferred
      <4>4. applied' = applied /\ \A t \in Sigs :
                spc'[t] = IF t = s THEN "unlock" ELSE spc[t]
        BY <1>8, <3>2 DEF Sig_Append, TypeOK
      <4>5. applied \subseteq Sigs /\ Deferred \subseteq Sigs
        BY DEF TypeOK, Deferred
      <4> QED
        BY <4>2, <4>3, <4>4, <4>5 DEF Accounted
    <3> QED
      BY <3>1, <3>2
  <2>4. Counted'
    BY <1>8 DEF Sig_Append, Counted, Sentinel, Moved
  <2> QED
    BY <2>1, <2>2, <2>3, <2>4
<1>9. CASE Sig_Unlock(s)
  <2>1. readers' \in Nat /\ LockWords'
    BY <1>9, CountsOut, Zenon DEF Sig_Unlock, SigPCs, Inside
  <2>2. TypeOK' /\ FiredList' /\ Published'
    BY <1>9, <2>1 DEF Sig_Unlock, TypeOK, SigPCs, FiredList, Published, Moved
  <2>3. Accounted'
    BY <1>9 DEF Sig_Unlock, TypeOK, Accounted, Deferred
  <2>4. Counted'
    BY <1>9 DEF Sig_Unlock, Counted, Sentinel, Moved
  <2> QED
    BY <2>1, <2>2, <2>3, <2>4
<1> QED
  BY <1>1, <1>2, <1>3, <1>4, <1>5, <1>6, <1>7, <1>8, <1>9 DEF SigStep

(* A signal that the replay takes from the list is the first one, and it    *)
(* was not applied before.                                                  *)
LEMMA ReplayTakes ==
  ASSUME IInv, queue # <<>>, queue' = Tail(queue), applied' = applied \cup {Head(queue)}
  PROVE  /\ Head(queue) \in Sigs \ applied
         /\ queue' \in Seq(Sigs)
         /\ Deferred' = Deferred \ {Head(queue)} /\ Head(queue) \in Deferred
         /\ \A i, j \in 1 .. Len(queue') : queue'[i] = queue'[j] => i = j
<1> USE DEF IInv, TypeOK, Accounted, Deferred
<1>1. /\ Len(queue) \in Nat \ {0} /\ queue[1] = Head(queue) /\ queue[1] \in Sigs
      /\ Len(queue') = Len(queue) - 1 /\ queue' \in Seq(Sigs)
      /\ \A i \in 1 .. Len(queue') : queue'[i] = queue[i + 1]
  OBVIOUS
<1>2. Deferred' = Deferred \ {queue[1]}
  <2>1. ASSUME NEW x \in Deferred' PROVE x \in Deferred \ {queue[1]}
    BY <1>1, <2>1
  <2>2. ASSUME NEW x \in Deferred \ {queue[1]} PROVE x \in Deferred'
    <3>1. PICK i \in 1 .. Len(queue) : queue[i] = x
      BY <2>2
    <3>2. i - 1 \in 1 .. Len(queue') /\ queue'[i - 1] = x
      BY <1>1, <2>2, <3>1
    <3> QED
      BY <3>2
  <2> QED
    BY <2>1, <2>2, Zenon
<1>3. queue[1] \in Deferred /\ queue[1] \notin applied
  BY <1>1
<1>4. \A i, j \in 1 .. Len(queue') : queue'[i] = queue'[j] => i = j
  BY <1>1
<1> QED
  BY <1>1, <1>2, <1>3, <1>4

(* arts_edt_create_internal, edt_move and the replay: the creator's steps. *)
LEMMA CreateInv ==
  ASSUME OOAssumption, IInv, CreateStep
  PROVE  IInv'
<1> USE DEF IInv, ovars, lvars
<1>1. CASE Create_Publish
  <2>1. Depc \in Nat /\ Sigs \ applied = Sigs
    BY <1>1, FS_CardinalityType DEF Create_Publish, Published, OOAssumption, Depc
  <2>2. TypeOK'
    BY <1>1, <2>1 DEF Create_Publish, TypeOK, CreatePCs
  <2>3. LockWords' /\ FiredList' /\ Published'
    BY <1>1 DEF Create_Publish, LockWords, FiredList, Published, Moved
  <2>4. Accounted'
    BY <1>1 DEF Create_Publish, Accounted, Deferred
  <2>5. Counted'
    BY <1>1, <2>1 DEF Create_Publish, Counted, Sentinel, Published, Moved, Depc
  <2> QED
    BY <2>2, <2>3, <2>4, <2>5
<1>2. CASE Move_Check
  <2>1. TypeOK' /\ LockWords' /\ FiredList' /\ Published'
    BY <1>2 DEF Move_Check, TypeOK, CreatePCs, LockWords, FiredList, Published, Moved
  <2>2. Accounted'
    BY <1>2 DEF Move_Check, Accounted, Deferred
  <2>3. Counted'
    BY <1>2 DEF Move_Check, TypeOK, Counted, Sentinel, Published, Moved
  <2> QED
    BY <2>1, <2>2, <2>3
<1>3. CASE Fire_Cas
  <2>1. TypeOK' /\ LockWords' /\ FiredList' /\ Published'
    BY <1>3 DEF Fire_Cas, TypeOK, CreatePCs, LockWords, FiredList, Published, Moved
  <2>2. Accounted'
    BY <1>3 DEF Fire_Cas, Accounted, Deferred
  <2>3. Counted'
    BY <1>3 DEF Fire_Cas, Counted, Sentinel, Moved
  <2> QED
    BY <2>1, <2>2, <2>3
<1>4. CASE Fire_Count
  <2>1. LockWords'
    <3>1. readers = 0 => \A s \in Sigs : spc[s] \notin Inside
      BY ReaderNat, Zenon DEF LockWords
    <3> QED
      BY <1>4, <3>1 DEF Fire_Count, LockWords, Inside
  <2>2. TypeOK' /\ FiredList' /\ Published'
    BY <1>4, Zenon DEF Fire_Count, TypeOK, CreatePCs, FiredList, Published, Moved
  <2>3. Accounted'
    BY <1>4 DEF Fire_Count, Accounted, Deferred
  <2>4. Counted'
    BY <1>4 DEF Fire_Count, Counted, Sentinel, Moved
  <2> QED
    BY <2>1, <2>2, <2>3, <2>4
<1>5. CASE Fire_Release
  <2>1. TypeOK' /\ LockWords' /\ FiredList' /\ Published'
    BY <1>5, Zenon DEF Fire_Release, TypeOK, CreatePCs, LockWords, FiredList, Published, Moved
  <2>2. Accounted'
    BY <1>5 DEF Fire_Release, Accounted, Deferred
  <2>3. Counted'
    BY <1>5 DEF Fire_Release, Counted, Sentinel, Moved
  <2> QED
    BY <2>1, <2>2, <2>3
<1>6. CASE Fire_GiveUp
  <2>1. TypeOK' /\ LockWords' /\ FiredList' /\ Published'
    BY <1>6, Zenon DEF Fire_GiveUp, TypeOK, CreatePCs, LockWords, FiredList, Published, Moved
  <2>2. Accounted'
    BY <1>6 DEF Fire_GiveUp, Accounted, Deferred
  <2>3. Counted'
    BY <1>6 DEF Fire_GiveUp, Counted, Sentinel, Moved
  <2> QED
    BY <2>1, <2>2, <2>3
<1>7. CASE Fire_Replay
  <2>1. /\ Head(queue) \in Sigs \ applied /\ queue' \in Seq(Sigs)
        /\ Deferred' = Deferred \ {Head(queue)} /\ Head(queue) \in Deferred
        /\ \A i, j \in 1 .. Len(queue') : queue'[i] = queue'[j] => i = j
    BY <1>7, ReplayTakes DEF Fire_Replay
  <2>2. /\ needed \in Nat \ {0}
        /\ needed' = Cardinality(Sigs \ applied') + Sentinel'
    <3>1. applied \in SUBSET Sigs /\ applied' = applied \cup {Head(queue)}
      BY <1>7 DEF Fire_Replay, TypeOK
    <3>2. /\ Cardinality(Sigs \ applied) \in Nat \ {0}
          /\ Cardinality(Sigs \ applied') = Cardinality(Sigs \ applied) - 1
      BY <2>1, <3>1, Remaining
    <3> QED
      BY <1>7, <3>2 DEF Fire_Replay, Countdown, Counted, Sentinel, Moved
  <2>3. TypeOK'
    BY <1>7, <2>1, <2>2 DEF Fire_Replay, Countdown, TypeOK
  <2>4. LockWords' /\ FiredList' /\ Published'
    BY <1>7 DEF Fire_Replay, LockWords, FiredList, Published, Moved
  <2>5. Accounted'
    <3>1. applied' = applied \cup {Head(queue)} /\ spc' = spc
      BY <1>7 DEF Fire_Replay
    <3>2. spc[Head(queue)] = "done"
      BY <1>7, <2>1 DEF Fire_Replay, LockWords, Accounted
    <3>3. /\ Deferred' \cap applied' = {}
          /\ \A s \in Deferred' : spc[s] \in {"unlock", "done"}
      BY <2>1, <3>1 DEF Accounted
    <3>4. \A s \in applied' : spc[s] = "done"
      BY <3>1, <3>2 DEF Accounted
    <3>5. \A s \in Sigs : spc[s] \in {"unlock", "done"} => s \in Deferred' \cup applied'
      BY <2>1, <3>1 DEF Accounted
    <3> QED
      BY <2>1, <3>1, <3>3, <3>4, <3>5 DEF Accounted
  <2>6. Counted'
    BY <1>7, <2>1, <2>2 DEF Fire_Replay, Countdown, TypeOK, Counted, Moved
  <2> QED
    BY <2>3, <2>4, <2>5, <2>6
<1>8. CASE Fire_Unlock
  <2>1. TypeOK' /\ LockWords' /\ FiredList' /\ Published'
    BY <1>8, Zenon DEF Fire_Unlock, TypeOK, CreatePCs, LockWords, FiredList, Published, Moved
  <2>2. Accounted'
    BY <1>8 DEF Fire_Unlock, Accounted, Deferred
  <2>3. Counted'
    BY <1>8 DEF Fire_Unlock, Counted, Sentinel, Moved
  <2> QED
    BY <2>1, <2>2, <2>3
<1>9. CASE Create_Sentinel
  <2>1. /\ ~Moved /\ cpc = "sentinel" /\ ready = 0
        /\ needed = Cardinality(Sigs \ applied) + 1
        /\ Cardinality(Sigs \ applied) \in Nat
    <3>1. ~Moved /\ cpc = "sentinel" /\ needed = Cardinality(Sigs \ applied) + 1
      BY <1>9 DEF Create_Sentinel, Published, Counted, Sentinel
    <3>2. Cardinality(Sigs \ applied) \in Nat
      BY NoneRemaining, Zenon DEF TypeOK
    <3> QED
      BY <3>1, <3>2 DEF TypeOK, Counted
  <2>2. TypeOK'
    BY <1>9, <2>1 DEF Create_Sentinel, Countdown, TypeOK, CreatePCs
  <2>3. LockWords' /\ FiredList' /\ Published'
    BY <1>9, <2>1 DEF Create_Sentinel, LockWords, FiredList, Published, Moved
  <2>4. Accounted'
    BY <1>9 DEF Create_Sentinel, Accounted, Deferred
  <2>5. Counted'
    BY <1>9, <2>1 DEF Create_Sentinel, Countdown, Counted, Sentinel, Moved
  <2> QED
    BY <2>2, <2>3, <2>4, <2>5
<1> QED
  BY <1>1, <1>2, <1>3, <1>4, <1>5, <1>6, <1>7, <1>8, <1>9 DEF CreateStep

(* The inductive invariant holds in every state of every behaviour. *)
LEMMA Invariance == OOAssumption => (Spec => []IInv)
<1> SUFFICES ASSUME OOAssumption PROVE Spec => []IInv
  OBVIOUS
<1>1. Init => IInv
  BY InitInv
<1>2. IInv /\ [Next]_vars => IInv'
  <2> SUFFICES ASSUME IInv, [Next]_vars PROVE IInv'
    OBVIOUS
  <2>1. ASSUME UNCHANGED vars PROVE IInv'
    BY <2>1 DEF vars, lvars, IInv, TypeOK, LockWords, FiredList, Accounted,
                Deferred, Published, Counted, Sentinel, Moved
  <2> QED
    BY <2>1, SigInv, CreateInv DEF Next
<1> QED
  BY <1>1, <1>2, PTL DEF Spec

(* For every number of signals: an EDT created on this rank is made ready   *)
(* at most once, no EDT before all its signals are applied and its creator  *)
(* has removed the sentinel; no insertion overlaps the replay; and when all *)
(* calls have returned every signal was applied, unless the attempts of     *)
(* arts_out_of_order_list_fire_callback were used up.                       *)
THEOREM ReadyOnceAndLastHolds == OOAssumption => (Spec => []ReadyOnceAndLast)
<1> SUFFICES ASSUME OOAssumption PROVE Spec => []ReadyOnceAndLast
  OBVIOUS
<1>1. IInv => ReadyOnceAndLast
  <2> SUFFICES ASSUME IInv PROVE ReadyOnceAndLast
    OBVIOUS
  <2> USE DEF IInv
  <2>1. TypeOK /\ ReplayExcludes
    BY DEF LockWords, ReplayExcludes
  <2>2. LocalReadyOnce
    BY DEF LocalReadyOnce, ReadyOnce, Counted, Published
  <2>3. /\ applied \in SUBSET Sigs
        /\ Cardinality(Sigs \ applied) \in Nat
        /\ Cardinality(Sigs \ applied) = 0 <=> applied = Sigs
    BY NoneRemaining, Zenon DEF TypeOK
  <2>4. ReadyLast
    <3> SUFFICES ASSUME ready > 0 PROVE applied = Sigs /\ (~Moved => cpc = "done")
      BY DEF ReadyLast
    <3>1. cpc # "idle" /\ needed = 0 /\ Cardinality(Sigs \ applied) + Sentinel = 0
      BY DEF Counted, Published
    <3> QED
      BY <2>3, <3>1 DEF Sentinel
  <2>5. NoSignalLost
    <3> SUFFICES ASSUME Quiescent, ~gaveUp PROVE applied = Sigs /\ ready > 0
      BY DEF NoSignalLost
    <3>1. applied = Sigs
      <4>1. CASE isFired
        <5>1. Deferred = {}
          BY <4>1 DEF Quiescent, FiredList, Deferred
        <5> QED
          BY <2>3, <5>1 DEF Quiescent, Accounted
      <4>2. CASE Moved /\ needed = 0
        BY <2>3, <4>2 DEF Quiescent, Counted, Sentinel
      <4> QED
        BY <4>1, <4>2 DEF Quiescent, FiredList
    <3>2. needed = 0
      BY <2>3, <3>1 DEF Quiescent, Counted, Sentinel
    <3> QED
      BY <3>1, <3>2 DEF Quiescent, Counted
  <2> QED
    BY <2>1, <2>2, <2>4, <2>5 DEF ReadyOnceAndLast
<1> QED
  BY <1>1, Invariance, PTL
=============================================================================
