---------------------------- MODULE EpochProofs ----------------------------
(***************************************************************************)
(* Proofs about Epoch, for every number of ranks, workers and EDTs: each   *)
(* rank answers once in a round, and an epoch whose ranks have one worker  *)
(* each, or that has one rank only, fires once and at quiescence.          *)
(***************************************************************************)
EXTENDS EpochAnswers, EpochBounds, FiniteSetTheorems

(* The steps are many, and some need more than the default 5 seconds. *)
USE SMTT(30), Zenon

----------------------------------------------------------------------------
(* The counts at the start, and what fires the epoch *)

(* The epoch starts with its root counted, and with no sums. *)
LEMMA CountingInit ==
  ASSUME SetLaws, EpochAssumption, Init
  PROVE  Counting
<1>0. /\ Owner \in Ranks /\ Root \in Edts /\ world.ranks \subseteq Ranks
      /\ Owner \in world.ranks /\ IsFiniteSet(world.ranks) /\ IsFiniteSet(Others)
      /\ Others = world.ranks \ {Owner}
  <2>1. Owner \in Ranks /\ Root \in Edts /\ world \in Worlds
    BY DEF EpochAssumption, Init
  <2> QED
    BY <2>1, WorldFacts, Zenon DEF Others
<1>1. Live = {Root} /\ Over = {}
  BY <1>0 DEF Live, Over, Init
<1>2. Sums
  <2>1. /\ \A r \in Others : active[r] = 0 /\ active[Owner] = 1
        /\ \A r \in world.ranks : active[r] \in Nat /\ finished[r] = 0
    BY <1>0 DEF Init
  <2>2. Total(active, world.ranks) = active[Owner] + Total(active, Others)
    BY <1>0, <2>1, TotalSplit
  <2>3. Total(active, Others) = 0 /\ Total(finished, world.ranks) = 0
    BY <1>0, <2>1, TotalZero
  <2>4. active[Owner] = 1
    BY <1>0 DEF Init
  <2>5. Live \cup Over = {Root}
    BY <1>1
  <2>6. Total(active, world.ranks) = 1
    BY <2>2, <2>3, <2>4
  <2>7. IsFiniteSet({Root}) /\ Cardinality({Root}) = 1 /\ Cardinality({}) = 0
    BY CardFacts
  <2> QED
    BY <1>1, <2>3, <2>5, <2>6, <2>7 DEF Sums
<1>3. \A r \in Others : rpc[r] = "idle"
  BY <1>0 DEF Init
<1>4. SnapCurrent
  BY DEF SnapCurrent, Init
<1>5. OneReducer
  BY <1>3 DEF OneReducer, Init
<1>6. AtMostOver /\ MoreActive /\ FiredOver
  BY <1>3 DEF AtMostOver, MoreActive, FiredOver, Init
<1> QED
  BY <1>2, <1>4, <1>5, <1>6 DEF Counting

(* Every step keeps the sums of a round in one hand. *)
LEMMA ReducerStep ==
  ASSUME SetLaws, EpochAssumption, Serial, Answers, Answers', OneReducer, [Next]_vars
  PROVE  OneReducer'
<1>0. /\ TypeOK /\ Placed /\ Queues /\ Rounds /\ TypeOK' /\ Placed' /\ Rounds'
      /\ Others' = Others /\ Others \subseteq Ranks
      /\ N \in Nat /\ N >= 1 /\ outstanding \in Nat
  BY StepFacts
<1>t. TypeOK
  BY DEF Answers
<1>1. ASSUME UNCHANGED <<rpc, rsum, global>>, outstanding' = 0 => outstanding = 0
      PROVE  OneReducer'
  BY <1>0, <1>1 DEF OneReducer
<1>2. ASSUME NEW t \in Edts, Edt(t) PROVE OneReducer'
  <2>1. UNCHANGED <<rpc, rsum, global>>
    BY <1>2, EdtKeeps
  <2>2. outstanding' = outstanding \/ outstanding' = N
    BY <1>2, EdtKeeps DEF Kick
  <2> QED
    BY <1>0, <1>1, <2>1, <2>2
<1>3. ASSUME NEW r \in Ranks \ {Owner}, SendEpoch(r) PROVE OneReducer'
  <2>1. UNCHANGED <<rpc, rsum, global, outstanding>>
    BY <1>3, SendKeeps
  <2> QED
    BY <1>1, <2>1
<1>4. ASSUME NEW r \in Ranks \ {Owner}, Reduce_Add(r) PROVE OneReducer'
  <2>1. outstanding' = outstanding
    BY <1>4 DEF Reduce_Add, cvars, evars
  <2>2. /\ r \in Others /\ outstanding > 1
        /\ rpc'[r] = "count" /\ \A o \in Others \ {r} : rpc'[o] = "idle"
        /\ rsum'[r] = global'
    BY <1>0, <1>4, ToComeAdd
  <2> QED
    BY <1>0, <2>1, <2>2 DEF OneReducer
<1>5. ASSUME NEW r \in Ranks \ {Owner}, rpc[r] # "idle",
             \A o \in Others \ {r} : rpc'[o] = rpc[o]
      PROVE  r \in Others /\ \A o \in Others \ {r} : rpc[o] = "idle" /\ rpc'[o] = "idle"
  BY <1>0, <1>5, RoundFacts DEF OneReducer
<1>6. ASSUME NEW r \in Ranks \ {Owner}, Reduce_Count(r) PROVE OneReducer'
  <2>1. /\ rpc[r] = "count" /\ rpc'[r] \in {"active", "idle"}
        /\ \A o \in Others \ {r} : rpc'[o] = rpc[o]
    BY <1>t, <1>6 DEF Reduce_Count, GotoR, TypeOK
  <2>2. rsum' = rsum /\ global' = global
    BY <1>6 DEF Reduce_Count, cvars, evars, svars
  <2>3. outstanding' # 0
    BY <1>0, <1>6, RoundFacts DEF Reduce_Count
  <2> QED
    BY <1>0, <1>5, <2>1, <2>2, <2>3 DEF OneReducer
<1>7. ASSUME NEW r \in Ranks \ {Owner}, Reduce_Active(r) \/ Reduce_Finished(r) \/ Check(r)
      PROVE  OneReducer'
  <2>1. /\ rpc[r] \in {"active", "finished", "check"}
        /\ rpc'[r] \in {"finished", "check", "next", "close"}
        /\ \A o \in Others \ {r} : rpc'[o] = rpc[o]
    BY <1>0, <1>7 DEF Reduce_Active, Reduce_Finished, Check, GotoR, TypeOK
  <2>2. outstanding' = outstanding /\ outstanding = 1
    BY <1>0, <1>7, <2>1, RoundFacts DEF Reduce_Active, Reduce_Finished, Check, cvars, evars, svars
  <2>3. rpc'[r] # "finished" => global' = Zero
    <3>1. CASE Reduce_Active(r)
      BY <1>t, <3>1 DEF Reduce_Active, GotoR, TypeOK
    <3>2. CASE Reduce_Finished(r)
      BY <3>2 DEF Reduce_Finished
    <3>3. CASE Check(r)
      BY <1>5, <2>1, <3>3 DEF Check, OneReducer, cvars, evars, svars
    <3> QED
      BY <1>7, <3>1, <3>2, <3>3
  <2> QED
    BY <1>0, <1>5, <2>1, <2>2, <2>3 DEF OneReducer
<1>8. ASSUME NEW r \in Ranks \ {Owner}, Reduce_Next(r) \/ Reduce_Close(r)
      PROVE  OneReducer'
  <2>1. /\ rpc[r] \in {"next", "close"} /\ rpc'[r] = "idle"
        /\ \A o \in Others \ {r} : rpc'[o] = rpc[o]
    BY <1>0, <1>8 DEF Reduce_Next, Reduce_Close, GotoR, TypeOK
  <2>2. global' = global /\ global = Zero
    BY <1>5, <1>8, <2>1, Zenon DEF OneReducer, Reduce_Next, Reduce_Close, cvars, evars, svars
  <2> QED
    BY <1>0, <1>5, <2>1, <2>2, Zenon DEF OneReducer
<1>9. CASE UNCHANGED vars
  BY <1>1, <1>9 DEF vars, cvars, evars, rvars, svars
<1> QED
  BY <1>2, <1>3, <1>4, <1>6, <1>7, <1>8, <1>9 DEF Next, ReduceEpoch

(* Every step keeps the epoch unfired while an EDT lives: a second round    *)
(* that is balanced and the same would have counted it.                     *)
LEMMA FiredStep ==
  ASSUME SetLaws, EpochAssumption, Serial, Answers, Answers', Sums, OneReducer, MoreActive,
         FiredOver, [Next]_vars
  PROVE  FiredOver'
<1>0. /\ TypeOK /\ Placed /\ Queues /\ Rounds /\ TypeOK' /\ Placed' /\ Rounds'
      /\ Others' = Others /\ Others \subseteq Ranks /\ Owner \in Ranks
      /\ fired \in Nat /\ phase \in 1 .. 3
      /\ \A r \in Ranks : rsum[r].a \in Nat /\ rsum[r].f \in Nat
  BY StepFacts, Zenon DEF TypeOK
<1>t. TypeOK
  BY DEF Answers
<1>1. Live = {} => Live' = {}
  BY <1>0, SetsStep
<1>2. ASSUME NEW t \in Edts, Fire(t) PROVE FiredOver'
  <2>1. Others = {} /\ Live = {} /\ outstanding = 0
    BY <1>0, <1>2 DEF Placed, Fire, FiredOver
  <2>2. phase # 2
    BY <2>1 DEF MoreActive
  <2>3. fired' = 1 /\ phase' = 3
    BY <1>0, <1>2, <2>2 DEF Fire, FiredOver
  <2> QED
    BY <1>0, <1>1, <2>1, <2>3 DEF FiredOver
<1>3. ASSUME NEW t \in Edts, Finish(t) PROVE FiredOver'
  <2>1. UNCHANGED <<fired, phase, rpc>>
    BY <1>3 DEF Finish, rvars, svars
  <2>2. ASSUME st'[t] = "fire" PROVE Live' = {}
    <3>1. ~(N > 1) /\ finished[at[t]] + 1 = active[at[t]]
      <4>1. st'[t] = IF N > 1 THEN "drain"
                     ELSE IF finished[at[t]] + 1 = active[at[t]] THEN "fire" ELSE "done"
        BY <1>t, <1>3, Zenon DEF Finish, Goto, TypeOK
      <4> QED
        BY <2>2, <4>1
    <3>2. Others = {} /\ at[t] = Owner
      <4>1. Others = {}
        BY <1>0, <3>1, WorldFacts, Zenon DEF TypeOK
      <4> QED
        BY <1>0, <4>1 DEF Placed, Others
    <3>3. Total(active, Others) = 0 /\ Total(finished, Others) = 0
      BY <3>2, TotalZero
    <3>4. Cardinality(Live \cup Over) = Cardinality(Over) + 1
      BY <1>0, <3>1, <3>2, <3>3, CountFacts
    <3>5. t \in Live /\ t \notin Over /\ Live' = Live \ {t}
      BY <1>0, <1>3, SetsStep DEF Live, Over
    <3>6. Cardinality(Over \cup {t}) = Cardinality(Over) + 1 /\ IsFiniteSet(Over)
      BY <1>0, <3>5, CountFacts, CardAdd, Zenon
    <3>7. Over \cup {t} = Live \cup Over
      <4>1. IsFiniteSet(Live \cup Over) /\ Over \cup {t} \in SUBSET (Live \cup Over)
        BY <3>5 DEF Sums
      <4> QED
        BY <3>4, <3>6, <4>1, CardSubset
    <3> QED
      BY <3>5, <3>7 DEF Live, Over
  <2>3. ASSUME NEW u \in Edts, st'[u] = "fire" PROVE Live' = {}
    <3>1. CASE u = t
      BY <2>2, <2>3, <3>1
    <3>2. CASE u # t
      <4>1. st[u] = "fire"
        BY <1>t, <1>3, <2>3, <3>2, Zenon DEF Finish, Goto, TypeOK
      <4> QED
        BY <1>1, <4>1 DEF FiredOver
    <3> QED
      BY <3>1, <3>2
  <2> QED
    BY <1>0, <1>1, <2>1, <2>3 DEF FiredOver
<1>4. ASSUME NEW r \in Ranks \ {Owner}, Check(r) PROVE FiredOver'
  <2>1. st' = st
    BY <1>4 DEF Check, cvars, evars, svars
  <2>2. /\ rpc[r] = "check" /\ r \in Others
        /\ \A o \in Others \ {r} : rpc[o] = "idle"
    <3>1. rpc[r] = "check"
      BY <1>4 DEF Check
    <3> QED
      BY <1>0, <3>1, RoundFacts DEF OneReducer
  <2>3. phase # 3 /\ fired = 0
    BY <1>0, <2>2 DEF FiredOver
  <2>4. CASE phase' = 3
    <3>1. phase = 2 /\ last = rsum[r] /\ fired' = fired + 1 /\ rpc'[r] = "close"
      BY <1>t, <1>4, <2>4 DEF Check, GotoR, TypeOK
    <3>2. Live = {}
      BY <1>0, <2>2, <3>1 DEF MoreActive
    <3>3. \A o \in Others : rpc'[o] \in {"idle", "close"}
      BY <1>t, <1>4, <2>2, <3>1 DEF Check, GotoR, TypeOK
    <3>4. fired' = 1 /\ Live' = {}
      BY <1>1, <2>3, <3>1, <3>2
    <3> QED
      BY <1>0, <2>4, <3>3, <3>4 DEF FiredOver
  <2>5. CASE phase' # 3
    <3>1. fired' = fired
      BY <1>4, <2>5 DEF Check
    <3> QED
      BY <1>0, <1>1, <2>1, <2>3, <2>5, <3>1 DEF FiredOver
  <2> QED
    BY <2>4, <2>5
<1>5. ASSUME NEW r \in Ranks \ {Owner}, ReduceEpoch(r), ~Check(r) PROVE FiredOver'
  <2>1. UNCHANGED <<st, fired, phase>>
    BY <1>5, ReduceKeeps
  <2>2. ASSUME phase = 3, NEW o \in Others PROVE rpc'[o] \in {"idle", "close"}
    <3>1. \A x \in Others : rpc[x] \in {"idle", "close"}
      BY <2>2 DEF FiredOver
    <3>2. CASE Reduce_Close(r)
      BY <1>t, <3>1, <3>2 DEF Reduce_Close, GotoR, TypeOK
    <3>3. CASE ~Reduce_Close(r)
      <4>1. r \in Others => rpc[r] \in {"idle", "close"}
        BY <3>1
      <4>2. rpc[r] # "idle" => r \in Others
        BY <1>0, RoundFacts
      <4> QED
        BY <1>5, <2>2, <3>3, <4>1, <4>2
        DEF ReduceEpoch, Reduce_Add, Reduce_Count, Reduce_Active, Reduce_Finished,
            Reduce_Next
    <3> QED
      BY <3>2, <3>3
  <2> QED
    BY <1>0, <1>1, <2>1, <2>2 DEF FiredOver
<1>6. ASSUME UNCHANGED <<fired, phase, rpc>>,
             \A u \in Edts : st'[u] = "fire" => st[u] = "fire"
      PROVE  FiredOver'
  BY <1>0, <1>1, <1>6 DEF FiredOver
<1>7. ASSUME NEW t \in Edts, NEW u \in Edts, NEW r \in Ranks, Create(t, u, r)
      PROVE  FiredOver'
  <2>1. \A o \in Edts : st'[o] = "fire" => st[o] = "fire"
    BY <1>t, <1>7 DEF Create, Goto, TypeOK
  <2>2. UNCHANGED <<fired, phase, rpc>>
    BY <1>7 DEF Create, rvars, svars
  <2> QED
    BY <1>6, <2>1, <2>2
<1>8. ASSUME NEW t \in Edts, Ready(t) \/ Drain_Owner(t) \/ Kick(t) \/ Drain_Other(t)
      PROVE  FiredOver'
  <2>1. st'[t] # "fire" /\ \A o \in Edts \ {t} : st'[o] = st[o]
    BY <1>t, <1>8, Zenon DEF Ready, Drain_Owner, Kick, Drain_Other, Goto, TypeOK
  <2>2. UNCHANGED <<fired, phase, rpc>>
    BY <1>8 DEF Ready, Drain_Owner, Kick, Drain_Other, cvars, rvars, svars
  <2> QED
    BY <1>6, <2>1, <2>2
<1>9. ASSUME NEW r \in Ranks \ {Owner}, SendEpoch(r) PROVE FiredOver'
  <2>1. UNCHANGED <<st, fired, phase, rpc>>
    BY <1>9, SendKeeps
  <2> QED
    BY <1>6, <2>1
<1>10. CASE UNCHANGED vars
  <2>1. UNCHANGED <<st, fired, phase, rpc>>
    BY <1>10 DEF vars, cvars, evars, rvars, svars
  <2> QED
    BY <1>6, <2>1
<1> QED
  BY <1>2, <1>3, <1>4, <1>5, <1>7, <1>8, <1>9, <1>10 DEF Next, Edt

(* Every step of the protocol is one of the abstract epoch, or none that it *)
(* sees.                                                                    *)
LEMMA StepEnds ==
  ASSUME EpochAssumption, Serial, Answers, Answers', Counting, Counting', [Next]_vars
  PROVE  [Q!Next]_<<Live, Over, fired>>
<1>0. TypeOK /\ FiredOver /\ FiredOver' /\ fired \in Nat
  BY DEF Answers, Counting, TypeOK
<1>1. ASSUME NEW t \in Edts, NEW u \in Edts, NEW r \in Ranks, Create(t, u, r)
      PROVE  Q!Next
  <2>1. /\ Live # {} /\ u \notin Live \cup Over
        /\ Live' = Live \cup {u} /\ Over' = Over
    BY <1>0, <1>1, SetsStep
  <2>2. fired' = fired
    BY <1>1, Zenon DEF Create, rvars, svars
  <2>3. Q!Spawn(u)
    BY <2>1, <2>2 DEF Q!Spawn
  <2> QED
    BY <2>3 DEF Q!Next
<1>2. ASSUME NEW t \in Edts, Finish(t) PROVE Q!Next
  <2>1. t \in Live /\ Live' = Live \ {t} /\ Over' = Over \cup {t}
    BY <1>0, <1>2, SetsStep
  <2>2. fired' = fired
    BY <1>2, Zenon DEF Finish, rvars, svars
  <2>3. Q!Finish(t)
    BY <2>1, <2>2 DEF Q!Finish
  <2> QED
    BY <2>3 DEF Q!Next
<1>3. ASSUME Live' = Live, Over' = Over PROVE [Q!Next]_<<Live, Over, fired>>
  <2>1. fired' = fired \/ fired' = fired + 1
    BY EdtKeeps, SendKeeps, ReduceKeeps, Zenon DEF Next, Fire, Check, vars, rvars
  <2>2. CASE fired' = fired + 1
    <3>1. fired = 0 /\ fired' = 1 /\ Live = {}
      BY <1>0, <1>3, <2>2 DEF FiredOver
    <3>2. Q!Fire
      BY <1>3, <3>1 DEF Q!Fire
    <3> QED
      BY <3>2 DEF Q!Next
  <2>3. CASE fired' = fired
    BY <1>3, <2>3
  <2> QED
    BY <2>1, <2>2, <2>3
<1> QED
  BY <1>0, <1>1, <1>2, <1>3, SetsStep

----------------------------------------------------------------------------
(* The laws of sizes and sums *)

(* A sum over finitely many ranks is a natural number. *)
LEMMA UnitsFinite ==
  ASSUME NEW S, IsFiniteSet(S), NEW f, \A r \in S : f[r] \in Nat
  PROVE  IsFiniteSet(Units(f, S)) /\ Total(f, S) \in Nat
<1> DEFINE g == [r \in S |-> {r} \X (1 .. f[r])]
           T == {{r} \X (1 .. f[r]) : r \in S}
<1>1. g \in Surjection(S, T)
  BY Zenon DEF Surjection
<1>2. IsFiniteSet(T)
  BY <1>1, FS_Surjection
<1>3. \A r \in S : IsFiniteSet({r} \X (1 .. f[r]))
  <2> TAKE r \in S
  <2>1. IsFiniteSet(1 .. f[r])
    BY FS_Interval
  <2> QED
    BY <2>1, FS_Singleton, FS_Product, Zenon
<1>4. IsFiniteSet(UNION T)
  BY <1>2, <1>3, FS_UNION, Zenon
<1> QED
  BY <1>4, FS_CardinalityType DEF Units, Total

(* The share of one rank can be taken out of the sum. *)
LEMMA UnitsSplit ==
  ASSUME NEW S, IsFiniteSet(S), NEW f, \A o \in S : f[o] \in Nat, NEW r \in S
  PROVE  Total(f, S) = f[r] + Total(f, S \ {r})
<1> DEFINE A == Units(f, S \ {r})
           B == {r} \X (1 .. f[r])
<1>1. Units(f, S) = A \cup B
  BY DEF Units
<1>2. A \cap B = {}
  BY DEF Units
<1>3. IsFiniteSet(S \ {r})
  BY FS_RemoveElement
<1>4. IsFiniteSet(A) /\ Cardinality(A) \in Nat
  BY <1>3, UnitsFinite DEF Total
<1>5. IsFiniteSet(1 .. f[r]) /\ Cardinality(1 .. f[r]) = f[r]
  BY FS_Interval
<1>6. IsFiniteSet(B) /\ Cardinality(B) = f[r]
  <2>1. IsFiniteSet({r}) /\ Cardinality({r}) = 1
    BY FS_Singleton, Zenon
  <2>2. IsFiniteSet(B) /\ Cardinality(B) = 1 * Cardinality(1 .. f[r])
    BY <1>5, <2>1, FS_Product, Zenon
  <2> QED
    BY <1>5, <2>2
<1> HIDE DEF A, B
<1>7. Cardinality(A \cup B) = Cardinality(A) + Cardinality(B) - Cardinality({})
  BY <1>2, <1>4, <1>6, FS_Union
<1>8. Cardinality(A \cup B) = Cardinality(A) + f[r]
  BY <1>4, <1>6, <1>7, FS_EmptySet
<1> QED
  BY <1>1, <1>4, <1>8 DEF Total, A

(* The laws of finite sets and of sums. *)
LEMMA SetLawsHold == SetLaws
<1>1. /\ IsFiniteSet({}) /\ Cardinality({}) = 0
      /\ \A x : IsFiniteSet({x}) /\ Cardinality({x}) = 1
  BY FS_EmptySet, FS_Singleton
<1>2. ASSUME NEW S, IsFiniteSet(S)
      PROVE  /\ Cardinality(S) \in Nat /\ (Cardinality(S) = 0 <=> S = {})
             /\ \A x :
                  /\ IsFiniteSet(S \cup {x}) /\ IsFiniteSet(S \ {x})
                  /\ x \notin S => Cardinality(S \cup {x}) = Cardinality(S) + 1
                  /\ x \in S => Cardinality(S \ {x}) = Cardinality(S) - 1
  BY <1>2, FS_EmptySet, FS_CardinalityType, FS_AddElement, FS_RemoveElement
<1>3. ASSUME NEW S, IsFiniteSet(S), NEW R, R \subseteq S
      PROVE  /\ IsFiniteSet(R) /\ Cardinality(R) <= Cardinality(S)
             /\ Cardinality(R) = Cardinality(S) => R = S
  BY <1>3, FS_Subset
<1>4. ASSUME NEW S, IsFiniteSet(S), NEW f, \A r \in S : f[r] \in Nat
      PROVE  /\ IsFiniteSet(Units(f, S)) /\ Total(f, S) \in Nat
             /\ \A r \in S : Total(f, S) = f[r] + Total(f, S \ {r})
  BY <1>4, UnitsFinite, UnitsSplit
<1>5. CardLaws
  BY <1>1, <1>2, <1>3 DEF CardLaws
<1>6. SumLaws
  BY <1>4 DEF SumLaws
<1> QED
  BY <1>5, <1>6 DEF SetLaws

----------------------------------------------------------------------------
(* Each rank answers a round once *)

(* The types, the queues and the rounds are invariant: for any number of    *)
(* workers and of receiver threads.                                         *)
LEMMA AnswersInvariant == EpochAssumption => (Spec => []Answers)
<1> SUFFICES ASSUME EpochAssumption PROVE Spec => []Answers
  OBVIOUS
<1>1. Init => Answers
  BY SetLawsHold, AnswersInit
<1>2. Answers /\ [Next]_vars => Answers'
  BY SetLawsHold, AnswersKept
<1> QED
  BY <1>1, <1>2, PTL DEF Spec

(* Every rank that is asked for its counts answers once in a round, and     *)
(* every answer is one that a round waits for: the request, the rank's      *)
(* EPOCH_BIT, send_epoch, the answer and reduce_epoch hand over one token.  *)
(* In between the counts keep their types, and none goes below zero.       *)
THEOREM AnswersOnce == EpochAssumption => (Spec => []OneAnswerEach)
<1> SUFFICES ASSUME EpochAssumption PROVE Spec => []OneAnswerEach
  OBVIOUS
<1>1. Answers => OneAnswerEach
  <2> SUFFICES ASSUME Answers, NEW r \in Others
               PROVE  Asked(r) <= 1 /\ (Asked(r) = 1 => outstanding > 1)
    BY Zenon DEF OneAnswerEach, Answers
  <2>1. r \in Ranks
    BY SetLawsHold, WorldFacts DEF Answers, TypeOK
  <2>2. r \in Waiting => outstanding > 1
    BY <2>1, SetLawsHold, RoundFacts DEF Answers
  <2> QED
    BY <2>2 DEF Answers, Rounds, Waiting
<1>2. Spec => []Answers
  BY AnswersInvariant
<1> QED
  BY <1>1, <1>2, PTL

----------------------------------------------------------------------------
(* The epoch ends at quiescence *)

(* The invariant of the counts is inductive, together with that of the      *)
(* rounds.                                                                  *)
LEMMA CountingKept ==
  ASSUME SetLaws, EpochAssumption, Serial, Answers, Counting, [Next]_vars
  PROVE  Answers' /\ Counting'
<1>1. Answers'
  BY AnswersKept
<1>2. TypeOK /\ TypeOK' /\ Placed
  BY <1>1 DEF Answers
<1>3. Sums /\ SnapCurrent /\ OneReducer /\ AtMostOver /\ MoreActive /\ FiredOver
  BY DEF Counting
<1>4. Sums'
  BY <1>2, <1>3, SumsStep
<1>5. SnapCurrent'
  BY <1>2, <1>3, SnapStep
<1>6. OneReducer'
  BY <1>1, <1>3, ReducerStep
<1>7. AtMostOver' /\ MoreActive'
  BY <1>1, <1>3, <1>4, BoundsStep
<1>8. FiredOver'
  BY <1>1, <1>3, FiredStep
<1> QED
  BY <1>1, <1>4, <1>5, <1>6, <1>7, <1>8 DEF Counting

(* The counts and the rounds keep to their invariant. *)
LEMMA CountingInvariant ==
  EpochAssumption /\ Serial => (Spec => [](Answers /\ Counting))
<1> SUFFICES ASSUME EpochAssumption, Serial PROVE Spec => [](Answers /\ Counting)
  OBVIOUS
<1>1. Init => Answers /\ Counting
  BY SetLawsHold, AnswersInit, CountingInit
<1>2. Answers /\ Counting /\ [Next]_vars => (Answers /\ Counting)'
  BY SetLawsHold, CountingKept
<1> QED
  BY <1>1, <1>2, PTL DEF Spec

(* An epoch whose ranks have one worker each, or that has one rank, fires   *)
(* once, and when every EDT created in it has finished: the two rounds of   *)
(* check_epoch that are balanced and the same leave none that lives.        *)
THEOREM FiresAtQuiescence ==
  EpochAssumption /\ Serial => (Spec => EndsAtQuiescence)
<1> SUFFICES ASSUME EpochAssumption, Serial PROVE Spec => EndsAtQuiescence
  OBVIOUS
<1>1. Init => Q!Init
  <2> SUFFICES ASSUME Init PROVE Q!Init
    OBVIOUS
  <2>1. Live = {Root} /\ Over = {}
    BY DEF EpochAssumption, Live, Over, Init
  <2>2. fired = 0
    BY DEF Init
  <2> QED
    BY <2>1, <2>2 DEF Q!Init
<1>2. /\ Answers /\ Counting /\ (Answers /\ Counting)' /\ [Next]_vars
      => [Q!Next]_<<Live, Over, fired>>
  BY StepEnds
<1>3. Spec => [](Answers /\ Counting)
  BY CountingInvariant
<1> QED
  BY <1>1, <1>2, <1>3, PTL DEF Spec, EndsAtQuiescence, Q!Spec
=============================================================================
