---------------------------- MODULE EpochRounds ----------------------------
(***************************************************************************)
(* Lemmas about the rounds of Epoch, for every number of ranks and EDTs:   *)
(* the types, where things are, and the ranks that a round waits for.  The *)
(* laws of finite sets and of sums that they use are a hypothesis, SetLaws *)
(* (EpochProofs proves it).                                                *)
(***************************************************************************)
EXTENDS Epoch, TLAPS

(* The steps are many, and some need more than the default 5 seconds. *)
USE SMTT(30), Zenon

(* A sum of the values of a function over a set, as the number of units     *)
(* they count: so stated, no law of sums needs an induction.                *)
Units(f, S) == UNION {{r} \X (1 .. f[r]) : r \in S}
Total(f, S) == Cardinality(Units(f, S))

CardLaws ==
  /\ IsFiniteSet({}) /\ Cardinality({}) = 0
  /\ \A x : IsFiniteSet({x}) /\ Cardinality({x}) = 1
  /\ \A S : IsFiniteSet(S) =>
       /\ Cardinality(S) \in Nat /\ (Cardinality(S) = 0 <=> S = {})
       /\ \A x :
            /\ IsFiniteSet(S \cup {x}) /\ IsFiniteSet(S \ {x})
            /\ x \notin S => Cardinality(S \cup {x}) = Cardinality(S) + 1
            /\ x \in S => Cardinality(S \ {x}) = Cardinality(S) - 1
       /\ \A R : R \subseteq S =>
            /\ IsFiniteSet(R) /\ Cardinality(R) <= Cardinality(S)
            /\ Cardinality(R) = Cardinality(S) => R = S
SumLaws ==
  \A S : IsFiniteSet(S) =>
    \A f : (\A r \in S : f[r] \in Nat) =>
      /\ IsFiniteSet(Units(f, S)) /\ Total(f, S) \in Nat
      /\ \A r \in S : Total(f, S) = f[r] + Total(f, S \ {r})
SetLaws == CardLaws /\ SumLaws

----------------------------------------------------------------------------
(* The inductive invariants *)

(* Where things are: nothing is sent to a rank that does not take part, or  *)
(* to the owner; a single rank has no rounds.                               *)
Placed ==
  /\ \A t \in Edts : at[t] \in world.ranks
  /\ \A r \in Ranks \ Others :
       req[r] = 0 /\ spc[r] = "idle" /\ resp[r] = <<>> /\ rpc[r] = "idle"
  /\ \A t \in Edts : IF Others = {} THEN st[t] \notin {"drain", "kick"}
                                    ELSE st[t] # "fire"
  /\ Others = {} => outstanding = 0

(* queued counts the EDTs that are ready, running or about to drain. *)
InQueue(r) == {t \in Edts : at[t] = r /\ st[t] \in {"running", "drain"}}
Queues ==
  Others # {} =>
    \A r \in Ranks : IsFiniteSet(InQueue(r)) /\ queued[r] = Cardinality(InQueue(r))

(* The ranks whose answer the round waits for, and the one whose answer     *)
(* was the last: outstanding counts the former, and the owner.              *)
Waiting == {r \in Others : Asked(r) = 1}
Closing == {r \in Others : rpc[r] \in {"active", "finished", "check", "next", "close"}}
Rounds ==
  /\ \A r \in Others : Asked(r) \in {0, 1}
  /\ outstanding = 0 => Waiting = {}
  /\ outstanding > 0 => Cardinality(Waiting) = outstanding - 1
  /\ outstanding = 1 <=> Closing # {}
  /\ \A r, o \in Closing : r = o

Answers == TypeOK /\ Placed /\ Queues /\ Rounds

----------------------------------------------------------------------------
(* The ranks, the types and where things are *)

(* The laws, one by one: sizes are numbers, and zero for the empty set only; *)
LEMMA CardFacts ==
  SetLaws =>
    /\ IsFiniteSet({}) /\ Cardinality({}) = 0
    /\ \A x : IsFiniteSet({x}) /\ Cardinality({x}) = 1
    /\ \A S : IsFiniteSet(S) =>
         Cardinality(S) \in Nat /\ (Cardinality(S) = 0 <=> S = {})
BY DEF SetLaws, CardLaws

(* a set with one element more, *)
LEMMA CardAdd ==
  ASSUME SetLaws, NEW S, NEW x, IsFiniteSet(S), x \notin S
  PROVE  IsFiniteSet(S \cup {x}) /\ Cardinality(S \cup {x}) = Cardinality(S) + 1
BY DEF SetLaws, CardLaws

(* or one less; *)
LEMMA CardRemove ==
  ASSUME SetLaws, NEW S, NEW x, IsFiniteSet(S), x \in S
  PROVE  IsFiniteSet(S \ {x}) /\ Cardinality(S \ {x}) = Cardinality(S) - 1
BY DEF SetLaws, CardLaws

(* a subset is not larger, and smaller unless it is the set. *)
LEMMA CardSubset ==
  ASSUME SetLaws, NEW S, NEW R, IsFiniteSet(S), R \subseteq S
  PROVE  /\ IsFiniteSet(R) /\ Cardinality(R) <= Cardinality(S)
         /\ Cardinality(R) = Cardinality(S) => R = S
BY DEF SetLaws, CardLaws

(* Facts about sequences that the answers of a rank need. *)
LEMMA SeqFacts ==
  ASSUME NEW S, NEW s \in Seq(S)
  PROVE  /\ Len(s) \in Nat
         /\ s # <<>> => Len(s) > 0 /\ Head(s) \in S
OBVIOUS

(* What is asked of a rank is one of five tokens. *)
BitToken(r) == IF ~bit[r] THEN 1 ELSE 0
SendToken(r) == IF spc[r] \in {"read", "active", "finished", "send"} THEN 1 ELSE 0
CountToken(r) == IF rpc[r] = "count" THEN 1 ELSE 0

LEMMA AskedParts ==
  ASSUME NEW r
  PROVE  /\ Asked(r) = req[r] + Len(resp[r]) + BitToken(r) + SendToken(r) + CountToken(r)
         /\ Asked(r)' = req'[r] + Len(resp'[r]) + BitToken(r)' + SendToken(r)' + CountToken(r)'
         /\ BitToken(r) \in Nat /\ SendToken(r) \in Nat /\ CountToken(r) \in Nat
<1>1. Asked(r) = req[r] + Len(resp[r]) + BitToken(r) + SendToken(r) + CountToken(r)
  BY DEF Asked, BitToken, SendToken, CountToken
<1>2. Asked(r)' = req'[r] + Len(resp'[r]) + BitToken(r)' + SendToken(r)' + CountToken(r)'
  BY DEF Asked, BitToken, SendToken, CountToken
<1>3. BitToken(r) \in Nat /\ SendToken(r) \in Nat /\ CountToken(r) \in Nat
  BY DEF BitToken, SendToken, CountToken
<1> QED
  BY <1>1, <1>2, <1>3

(* What the assumption says of the ranks that take part. *)
LEMMA WorldFacts ==
  ASSUME SetLaws, EpochAssumption, world \in Worlds
  PROVE  /\ world.ranks \subseteq Ranks /\ world.places \subseteq world.ranks
         /\ Owner \in world.ranks
         /\ IsFiniteSet(world.ranks) /\ IsFiniteSet(Others)
         /\ Others \subseteq Ranks /\ Owner \notin Others
         /\ N \in Nat /\ N >= 1 /\ Cardinality(Others) = N - 1
         /\ N > 1 <=> Others # {}
<1>1. /\ world.ranks \subseteq Ranks /\ world.places \subseteq world.ranks
      /\ Owner \in world.ranks
  BY DEF EpochAssumption
<1>2. IsFiniteSet(world.ranks)
  BY <1>1, CardSubset DEF EpochAssumption
<1>3. IsFiniteSet(Others) /\ Cardinality(Others) = N - 1
  <2>1. /\ IsFiniteSet(world.ranks \ {Owner})
        /\ Cardinality(world.ranks \ {Owner}) = Cardinality(world.ranks) - 1
    BY <1>1, <1>2, CardRemove, Zenon
  <2> QED
    BY <2>1 DEF Others, N
<1>4. N \in Nat /\ Cardinality(Others) \in Nat
  BY <1>2, <1>3, CardFacts DEF N
<1>5. Cardinality(Others) = 0 <=> Others = {}
  BY <1>3, CardFacts, Zenon
<1> QED
  BY <1>1, <1>2, <1>3, <1>4, <1>5 DEF Others

(* A queue that an EDT has yet to leave is not empty. *)
LEMMA DrainCounted ==
  ASSUME SetLaws, EpochAssumption, TypeOK, Placed, Queues, NEW t \in Edts, st[t] = "drain"
  PROVE  Others # {} /\ at[t] \in Ranks /\ queued[at[t]] > 0
<1>1. Others # {} /\ at[t] \in Ranks
  BY DEF Placed, TypeOK
<1>2. t \in InQueue(at[t])
  BY DEF InQueue
<1>3. IsFiniteSet(InQueue(at[t])) /\ queued[at[t]] = Cardinality(InQueue(at[t]))
  BY <1>1 DEF Queues
<1>4. queued[at[t]] # 0
  BY <1>2, <1>3, CardFacts
<1> QED
  BY <1>1, <1>4 DEF TypeOK

(* A rank whose answer is awaited is counted in outstanding; the last       *)
(* answer leaves the owner only.                                            *)
LEMMA RoundFacts ==
  ASSUME SetLaws, EpochAssumption, TypeOK, Placed, Rounds, NEW r \in Ranks
  PROVE  /\ outstanding \in Nat /\ Asked(r) \in Nat
         /\ r \in Waiting => outstanding > 1
         /\ req[r] > 0 \/ resp[r] # <<>> => r \in Waiting
         /\ rpc[r] = "count" => r \in Waiting
         /\ rpc[r] \in {"active", "finished", "check", "next", "close"} =>
              /\ r \in Closing /\ outstanding = 1 /\ Waiting = {}
         /\ rpc[r] # "idle" => r \in Others
<1>0. /\ outstanding \in 0 .. N /\ N \in Nat /\ req[r] \in Nat
      /\ resp[r] \in Seq(Counts) /\ Len(resp[r]) \in Nat
      /\ Others \subseteq Ranks /\ IsFiniteSet(Others)
  BY WorldFacts DEF TypeOK
<1>1. Asked(r) \in Nat
  BY <1>0 DEF Asked
<1>2. IsFiniteSet(Waiting) /\ Cardinality(Waiting) \in Nat
      /\ (Cardinality(Waiting) = 0 <=> Waiting = {})
  BY <1>0, CardSubset, CardFacts DEF Waiting
<1>3. r \in Waiting => outstanding > 1
  BY <1>0, <1>2 DEF Rounds
<1>4. resp[r] # <<>> => Len(resp[r]) > 0
  BY <1>0, SeqFacts
<1>5. req[r] > 0 \/ resp[r] # <<>> => r \in Waiting
  <2> SUFFICES ASSUME req[r] > 0 \/ resp[r] # <<>> PROVE r \in Waiting
    OBVIOUS
  <2>1. r \in Others
    BY <1>0 DEF Placed
  <2>2. Asked(r) >= 1
    BY <1>0, <1>4 DEF Asked
  <2> QED
    BY <1>1, <2>1, <2>2 DEF Rounds, Waiting
<1>6. rpc[r] # "idle" => r \in Others
  BY DEF Placed
<1>7. rpc[r] = "count" => r \in Waiting
  <2> SUFFICES ASSUME rpc[r] = "count" PROVE r \in Waiting
    OBVIOUS
  <2>1. Asked(r) >= 1
    BY <1>0 DEF Asked
  <2> QED
    BY <1>1, <1>6, <2>1 DEF Rounds, Waiting
<1>8. rpc[r] \in {"active", "finished", "check", "next", "close"} =>
        r \in Closing /\ outstanding = 1 /\ Waiting = {}
  BY <1>2, <1>6 DEF Rounds, Closing
<1> QED
  BY <1>0, <1>1, <1>3, <1>5, <1>6, <1>7, <1>8

(* What the steps of an EDT leave alone, *)
LEMMA EdtKeeps ==
  ASSUME NEW t \in Edts, Edt(t)
  PROVE  /\ UNCHANGED <<world, spc, ssnap, rpc, rsum, global, last>>
         /\ (\E u \in Edts, r \in Ranks : Create(t, u, r)) \/ UNCHANGED <<at, active>>
         /\ Finish(t) \/ finished' = finished
         /\ Fire(t) \/ UNCHANGED <<phase, fired>>
         /\ Kick(t) \/ UNCHANGED <<req, outstanding>>
         /\ Drain_Other(t) \/ UNCHANGED <<bit, resp>>
<1>1. ASSUME NEW u \in Edts, NEW r \in Ranks, Create(t, u, r)
      PROVE  UNCHANGED <<world, finished, bit, svars, rvars, outstanding>>
  BY <1>1 DEF Create
<1>2. CASE \E u \in Edts, r \in Ranks : Create(t, u, r)
  BY <1>1, <1>2 DEF svars, rvars
<1>3. CASE Ready(t) \/ Finish(t) \/ Drain_Owner(t)
  BY <1>3 DEF Ready, Finish, Drain_Owner, svars, rvars
<1>4. CASE Fire(t)
  BY <1>4 DEF Fire, cvars, svars
<1>5. CASE Kick(t)
  BY <1>5 DEF Kick, cvars, rvars
<1>6. CASE Drain_Other(t)
  BY <1>6 DEF Drain_Other, rvars
<1> QED
  BY <1>2, <1>3, <1>4, <1>5, <1>6 DEF Edt

(* those of send_epoch *)
LEMMA SendKeeps ==
  ASSUME NEW r, SendEpoch(r)
  PROVE  UNCHANGED <<world, st, at, snap, active, finished, queued,
                     rpc, rsum, global, outstanding, phase, last, fired>>
<1>1. UNCHANGED <<world, evars, active, finished, queued, rvars, outstanding>>
  BY DEF SendEpoch, Send_Clear, Send_Claim, Send_Active, Send_Finished, Send, cvars
<1> QED
  BY <1>1 DEF evars, rvars

(* and those of reduce_epoch. *)
LEMMA ReduceKeeps ==
  ASSUME NEW r, ReduceEpoch(r)
  PROVE  /\ UNCHANGED <<world, st, at, snap, active, finished, queued, bit, spc, ssnap>>
         /\ Reduce_Add(r) \/ resp' = resp
         /\ Reduce_Next(r) \/ req' = req
         /\ Reduce_Count(r) \/ Reduce_Next(r) \/ Reduce_Close(r) \/ outstanding' = outstanding
         /\ Check(r) \/ UNCHANGED <<phase, last, fired>>
<1>1. CASE Reduce_Add(r)
  BY <1>1 DEF Reduce_Add, evars, cvars
<1>2. CASE Reduce_Count(r) \/ Reduce_Close(r)
  BY <1>2 DEF Reduce_Count, Reduce_Close, evars, cvars, svars
<1>3. CASE Reduce_Active(r) \/ Reduce_Finished(r) \/ Check(r)
  BY <1>3 DEF Reduce_Active, Reduce_Finished, Check, evars, cvars, svars
<1>4. CASE Reduce_Next(r)
  BY <1>4 DEF Reduce_Next, evars, cvars
<1> QED
  BY <1>1, <1>2, <1>3, <1>4 DEF ReduceEpoch

(* The ranks that take part do not change. *)
LEMMA WorldKept == [Next]_vars => world' = world /\ Others' = Others /\ N' = N
<1>1. [Next]_vars => world' = world
  BY EdtKeeps, SendKeeps, ReduceKeeps DEF Next, vars
<1> QED
  BY <1>1 DEF Others, N

(* Every step keeps the types; no count goes below zero. *)
LEMMA TypeStep ==
  ASSUME SetLaws, EpochAssumption, TypeOK, Placed, Queues, Rounds, [Next]_vars
  PROVE  TypeOK'
<1>0. /\ N \in Nat /\ N >= 1 /\ Owner \in Ranks /\ outstanding \in 0 .. N
      /\ world.places \subseteq world.ranks /\ world.ranks \subseteq Ranks
  BY WorldFacts, Zenon DEF EpochAssumption, TypeOK
<1>1. ASSUME NEW t \in Edts, NEW u \in Edts, NEW r \in Ranks, Create(t, u, r) PROVE TypeOK'
  <2>1. UNCHANGED <<world, snap, finished, queued, bit, req, spc, ssnap, resp, rpc, rsum, global, outstanding, phase, last, fired>>
    BY <1>1 DEF Create, svars, rvars
  <2>2. st' \in [Edts -> EdtStates]
    BY <1>0, <1>1 DEF TypeOK, Create, Goto, EdtStates
  <2>3. at' \in [Edts -> Ranks]
    BY <1>0, <1>1 DEF TypeOK, Create
  <2>4. active' \in [Ranks -> Nat]
    <3>1. at[t] \in Ranks /\ active \in [Ranks -> Nat]
      BY DEF TypeOK
    <3>2. active' = [active EXCEPT ![at[t]] = @ + 1]
      BY <1>1 DEF Create, Inc
    <3> QED
      BY <3>1, <3>2
  <2> QED
    BY <2>1, <2>2, <2>3, <2>4, Zenon DEF TypeOK, N
<1>2. ASSUME NEW t \in Edts, Ready(t) PROVE TypeOK'
  <2>1. UNCHANGED <<world, at, snap, active, finished, bit, req, spc, ssnap, resp, rpc, rsum, global, outstanding, phase, last, fired>>
    BY <1>2 DEF Ready, svars, rvars
  <2>2. st' \in [Edts -> EdtStates]
    BY <1>0, <1>2 DEF TypeOK, Ready, Goto, EdtStates
  <2>3. queued' \in [Ranks -> Nat]
    BY <1>0, <1>2 DEF TypeOK, Ready, Inc
  <2> QED
    BY <2>1, <2>2, <2>3 DEF TypeOK, N
<1>3. ASSUME NEW t \in Edts, Finish(t) PROVE TypeOK'
  <2>1. UNCHANGED <<world, at, active, queued, bit, req, spc, ssnap, resp, rpc, rsum, global, outstanding, phase, last, fired>>
    BY <1>3 DEF Finish, svars, rvars
  <2>2. st' \in [Edts -> EdtStates]
    BY <1>0, <1>3 DEF TypeOK, Finish, Goto, EdtStates
  <2>3. snap' \in [Edts -> Counts]
    <3>1. active[at[t]] \in Nat /\ finished[at[t]] \in Nat
      BY DEF TypeOK
    <3>2. [a |-> active[at[t]], f |-> finished[at[t]] + 1] \in Counts
      BY <3>1 DEF Counts
    <3> QED
      BY <1>3, <3>2 DEF TypeOK, Finish
  <2>4. finished' \in [Ranks -> Nat]
    BY <1>0, <1>3 DEF TypeOK, Finish, Inc
  <2> QED
    BY <2>1, <2>2, <2>3, <2>4 DEF TypeOK, N
<1>4. ASSUME NEW t \in Edts, Fire(t) PROVE TypeOK'
  <2>1. UNCHANGED <<world, at, snap, active, finished, queued, bit, req, spc, ssnap, resp, rpc, rsum, global, outstanding, last>>
    BY <1>4 DEF Fire, cvars, svars
  <2>2. st' \in [Edts -> EdtStates]
    BY <1>0, <1>4 DEF TypeOK, Fire, Goto, EdtStates
  <2>3. phase' \in 1 .. 3
    BY <1>0, <1>4 DEF TypeOK, Fire
  <2>4. fired' \in Nat
    BY <1>0, <1>4 DEF TypeOK, Fire
  <2> QED
    BY <2>1, <2>2, <2>3, <2>4 DEF TypeOK, N
<1>5. ASSUME NEW t \in Edts, Drain_Owner(t) PROVE TypeOK'
  <2>1. UNCHANGED <<world, at, snap, active, finished, bit, req, spc, ssnap, resp, rpc, rsum, global, outstanding, phase, last, fired>>
    BY <1>5 DEF Drain_Owner, svars, rvars
  <2>2. st' \in [Edts -> EdtStates]
    BY <1>0, <1>5 DEF TypeOK, Drain_Owner, Goto, EdtStates
  <2>3. queued' \in [Ranks -> Nat]
    BY <1>0, <1>5, DrainCounted DEF TypeOK, Drain_Owner
  <2> QED
    BY <2>1, <2>2, <2>3 DEF TypeOK, N
<1>6. ASSUME NEW t \in Edts, Kick(t) PROVE TypeOK'
  <2>1. UNCHANGED <<world, at, snap, active, finished, queued, bit, spc, ssnap, resp, rpc, rsum, global, phase, last, fired>>
    BY <1>6 DEF Kick, cvars, rvars
  <2>2. st' \in [Edts -> EdtStates]
    BY <1>0, <1>6 DEF TypeOK, Kick, Goto, EdtStates
  <2>3. req' \in [Ranks -> Nat]
    <3>1. \A r \in Ranks : req[r] \in Nat /\ req[r] + 1 \in Nat
      BY DEF TypeOK
    <3>2. req' = req \/ req' = [r \in Ranks |-> IF r \in Others THEN req[r] + 1 ELSE 0]
      BY <1>6 DEF Kick, Broadcast
    <3>3. [r \in Ranks |-> IF r \in Others THEN req[r] + 1 ELSE 0] \in [Ranks -> Nat]
      BY <3>1
    <3> QED
      BY <3>2, <3>3, Zenon DEF TypeOK
  <2>4. outstanding' \in 0 .. N
    BY <1>0, <1>6 DEF TypeOK, Kick
  <2> QED
    BY <2>1, <2>2, <2>3, <2>4 DEF TypeOK, N
<1>7. ASSUME NEW t \in Edts, Drain_Other(t) PROVE TypeOK'
  <2>1. UNCHANGED <<world, at, snap, active, finished, req, spc, ssnap, rpc, rsum, global, outstanding, phase, last, fired>>
    BY <1>7 DEF Drain_Other, rvars
  <2>2. st' \in [Edts -> EdtStates]
    BY <1>0, <1>7 DEF TypeOK, Drain_Other, Goto, EdtStates
  <2>3. queued' \in [Ranks -> Nat]
    <3>1. at[t] \in Ranks /\ queued[at[t]] > 0
      BY <1>7, DrainCounted DEF Drain_Other
    <3>2. queued' = [queued EXCEPT ![at[t]] = @ - 1]
      BY <1>7 DEF Drain_Other
    <3> QED
      BY <3>1, <3>2 DEF TypeOK
  <2>4. bit' \in [Ranks -> BOOLEAN]
    BY <1>0, <1>7 DEF TypeOK, Drain_Other
  <2>5. resp' \in [Ranks -> Seq(Counts)]
    BY <1>0, <1>7 DEF TypeOK, Drain_Other
  <2> QED
    BY <2>1, <2>2, <2>3, <2>4, <2>5 DEF TypeOK, N
<1>8. ASSUME NEW r \in Ranks \ {Owner}, Send_Clear(r) PROVE TypeOK'
  <2>1. UNCHANGED <<world, st, at, snap, active, finished, queued, ssnap, resp, rpc, rsum, global, outstanding, phase, last, fired>>
    BY <1>8 DEF Send_Clear, evars, rvars
  <2>2. req' \in [Ranks -> Nat]
    BY <1>0, <1>8 DEF TypeOK, Send_Clear
  <2>3. bit' \in [Ranks -> BOOLEAN]
    BY <1>0, <1>8 DEF TypeOK, Send_Clear
  <2>4. spc' \in [Ranks -> {"idle", "claim", "read", "active", "finished", "send"}]
    BY <1>0, <1>8 DEF TypeOK, Send_Clear
  <2> QED
    BY <2>1, <2>2, <2>3, <2>4 DEF TypeOK, N
<1>9. ASSUME NEW r \in Ranks \ {Owner}, Send_Claim(r) PROVE TypeOK'
  <2>1. UNCHANGED <<world, st, at, snap, active, finished, queued, req, ssnap, resp, rpc, rsum, global, outstanding, phase, last, fired>>
    BY <1>9 DEF Send_Claim, evars, rvars
  <2>2. bit' \in [Ranks -> BOOLEAN]
    BY <1>0, <1>9 DEF TypeOK, Send_Claim
  <2>3. spc' \in [Ranks -> {"idle", "claim", "read", "active", "finished", "send"}]
    BY <1>0, <1>9 DEF TypeOK, Send_Claim
  <2> QED
    BY <2>1, <2>2, <2>3 DEF TypeOK, N
<1>10. ASSUME NEW r \in Ranks \ {Owner}, Send_Active(r) PROVE TypeOK'
  <2>1. UNCHANGED <<world, st, at, snap, active, finished, queued, bit, req, resp, rpc, rsum, global, outstanding, phase, last, fired>>
    BY <1>10 DEF Send_Active, evars, cvars, rvars
  <2>2. ssnap' \in [Ranks -> Counts]
    BY <1>0, <1>10, Zenon DEF TypeOK, Send_Active, Counts
  <2>3. spc' \in [Ranks -> {"idle", "claim", "read", "active", "finished", "send"}]
    BY <1>0, <1>10 DEF TypeOK, Send_Active
  <2> QED
    BY <2>1, <2>2, <2>3 DEF TypeOK, N
<1>11. ASSUME NEW r \in Ranks \ {Owner}, Send_Finished(r) PROVE TypeOK'
  <2>1. UNCHANGED <<world, st, at, snap, active, finished, queued, bit, req, resp, rpc, rsum, global, outstanding, phase, last, fired>>
    BY <1>11 DEF Send_Finished, evars, cvars, rvars
  <2>2. ssnap' \in [Ranks -> Counts]
    BY <1>0, <1>11, Zenon DEF TypeOK, Send_Finished, Counts
  <2>3. spc' \in [Ranks -> {"idle", "claim", "read", "active", "finished", "send"}]
    BY <1>0, <1>11 DEF TypeOK, Send_Finished
  <2> QED
    BY <2>1, <2>2, <2>3 DEF TypeOK, N
<1>12. ASSUME NEW r \in Ranks \ {Owner}, Send(r) PROVE TypeOK'
  <2>1. UNCHANGED <<world, st, at, snap, active, finished, queued, bit, req, ssnap, rpc, rsum, global, outstanding, phase, last, fired>>
    BY <1>12 DEF Send, evars, cvars, rvars
  <2>2. resp' \in [Ranks -> Seq(Counts)]
    BY <1>0, <1>12 DEF TypeOK, Send
  <2>3. spc' \in [Ranks -> {"idle", "claim", "read", "active", "finished", "send"}]
    BY <1>0, <1>12 DEF TypeOK, Send
  <2> QED
    BY <2>1, <2>2, <2>3 DEF TypeOK, N
<1>13. ASSUME NEW r \in Ranks \ {Owner}, Reduce_Add(r) PROVE TypeOK'
  <2>1. UNCHANGED <<world, st, at, snap, active, finished, queued, bit, req, spc, ssnap, outstanding, phase, last, fired>>
    BY <1>13 DEF Reduce_Add, evars, cvars
  <2>2. resp' \in [Ranks -> Seq(Counts)]
    BY <1>0, <1>13 DEF TypeOK, Reduce_Add
  <2>3. rpc' \in [Ranks -> {"idle", "count", "active", "finished", "check", "next", "close"}]
    <3>1. rpc' = rpc \/ rpc' = [rpc EXCEPT ![r] = "count"]
      BY <1>13 DEF Reduce_Add, GotoR
    <3> QED
      BY <3>1, Zenon DEF TypeOK
  <2>4. Plus(global, Head(resp[r])) \in Counts
    <3>1. Head(resp[r]) \in Counts
      BY <1>13, SeqFacts DEF TypeOK, Reduce_Add
    <3>2. /\ global.a \in Nat /\ Head(resp[r]).a \in Nat
          /\ global.f \in Nat /\ Head(resp[r]).f \in Nat
      BY <3>1, Zenon DEF TypeOK, Counts
    <3> QED
      BY <3>2 DEF Plus, Counts
  <2>5. rsum' \in [Ranks -> Counts]
    <3>1. rsum' = rsum \/ rsum' = [rsum EXCEPT ![r] = Plus(global, Head(resp[r]))]
      BY <1>13 DEF Reduce_Add
    <3> QED
      BY <2>4, <3>1, Zenon DEF TypeOK
  <2>6. global' \in Counts
    BY <1>13, <2>4 DEF TypeOK, Reduce_Add
  <2> QED
    BY <2>1, <2>2, <2>3, <2>5, <2>6 DEF TypeOK, N
<1>14. ASSUME NEW r \in Ranks \ {Owner}, Reduce_Count(r) PROVE TypeOK'
  <2>1. UNCHANGED <<world, st, at, snap, active, finished, queued, bit, req, spc, ssnap, resp, rsum, global, phase, last, fired>>
    BY <1>14 DEF Reduce_Count, evars, cvars, svars
  <2>2. rpc' \in [Ranks -> {"idle", "count", "active", "finished", "check", "next", "close"}]
    BY <1>0, <1>14 DEF TypeOK, Reduce_Count, GotoR
  <2>3. outstanding' \in 0 .. N
    BY <1>0, <1>14, RoundFacts DEF TypeOK, Reduce_Count
  <2> QED
    BY <2>1, <2>2, <2>3 DEF TypeOK, N
<1>15. ASSUME NEW r \in Ranks \ {Owner}, Reduce_Active(r) PROVE TypeOK'
  <2>1. UNCHANGED <<world, st, at, snap, active, finished, queued, bit, req, spc, ssnap, resp, global, outstanding, phase, last, fired>>
    BY <1>15 DEF Reduce_Active, evars, cvars, svars
  <2>2. rpc' \in [Ranks -> {"idle", "count", "active", "finished", "check", "next", "close"}]
    BY <1>0, <1>15 DEF TypeOK, Reduce_Active, GotoR
  <2>3. rsum' \in [Ranks -> Counts]
    <3>1. rsum[r] \in Counts /\ active[Owner] \in Nat
      BY <1>0 DEF TypeOK
    <3>2. [rsum[r] EXCEPT !.a = @ + active[Owner]] \in Counts
      BY <3>1 DEF Counts
    <3>3. rsum' = [rsum EXCEPT ![r] = [rsum[r] EXCEPT !.a = @ + active[Owner]]]
      BY <1>15 DEF TypeOK, Reduce_Active
    <3> QED
      BY <3>2, <3>3 DEF TypeOK
  <2> QED
    BY <2>1, <2>2, <2>3 DEF TypeOK, N
<1>16. ASSUME NEW r \in Ranks \ {Owner}, Reduce_Finished(r) PROVE TypeOK'
  <2>1. UNCHANGED <<world, st, at, snap, active, finished, queued, bit, req, spc, ssnap, resp, outstanding, phase, last, fired>>
    BY <1>16 DEF Reduce_Finished, evars, cvars, svars
  <2>2. rpc' \in [Ranks -> {"idle", "count", "active", "finished", "check", "next", "close"}]
    BY <1>0, <1>16 DEF TypeOK, Reduce_Finished, GotoR
  <2>3. rsum' \in [Ranks -> Counts]
    <3>1. rsum[r] \in Counts /\ finished[Owner] \in Nat
      BY <1>0 DEF TypeOK
    <3>2. [rsum[r] EXCEPT !.f = @ + finished[Owner]] \in Counts
      BY <3>1 DEF Counts
    <3>3. rsum' = [rsum EXCEPT ![r] = [rsum[r] EXCEPT !.f = @ + finished[Owner]]]
      BY <1>16 DEF TypeOK, Reduce_Finished
    <3> QED
      BY <3>2, <3>3 DEF TypeOK
  <2>4. global' \in Counts
    BY <1>0, <1>16 DEF TypeOK, Reduce_Finished, Counts, Zero
  <2> QED
    BY <2>1, <2>2, <2>3, <2>4 DEF TypeOK, N
<1>17. ASSUME NEW r \in Ranks \ {Owner}, Check(r) PROVE TypeOK'
  <2>1. UNCHANGED <<world, st, at, snap, active, finished, queued, bit, req, spc, ssnap, resp, rsum, global, outstanding>>
    BY <1>17 DEF Check, evars, cvars, svars
  <2>2. rpc' \in [Ranks -> {"idle", "count", "active", "finished", "check", "next", "close"}]
    BY <1>0, <1>17 DEF TypeOK, Check, GotoR
  <2>3. phase' \in 1 .. 3
    BY <1>0, <1>17 DEF TypeOK, Check
  <2>4. last' \in Counts
    BY <1>0, <1>17 DEF TypeOK, Check
  <2>5. fired' \in Nat
    BY <1>0, <1>17 DEF TypeOK, Check
  <2> QED
    BY <2>1, <2>2, <2>3, <2>4, <2>5 DEF TypeOK, N
<1>18. ASSUME NEW r \in Ranks \ {Owner}, Reduce_Next(r) PROVE TypeOK'
  <2>1. UNCHANGED <<world, st, at, snap, active, finished, queued, bit, spc, ssnap, resp, rsum, global, phase, last, fired>>
    BY <1>18 DEF Reduce_Next, evars, cvars
  <2>2. rpc' \in [Ranks -> {"idle", "count", "active", "finished", "check", "next", "close"}]
    BY <1>0, <1>18 DEF TypeOK, Reduce_Next, GotoR
  <2>3. req' \in [Ranks -> Nat]
    BY <1>0, <1>18 DEF TypeOK, Reduce_Next, Broadcast
  <2>4. outstanding' \in 0 .. N
    <3>1. outstanding = 1
      BY <1>18, RoundFacts DEF Reduce_Next
    <3> QED
      BY <1>0, <1>18, <3>1 DEF Reduce_Next
  <2> QED
    BY <2>1, <2>2, <2>3, <2>4 DEF TypeOK, N
<1>19. ASSUME NEW r \in Ranks \ {Owner}, Reduce_Close(r) PROVE TypeOK'
  <2>1. UNCHANGED <<world, st, at, snap, active, finished, queued, bit, req, spc, ssnap, resp, rsum, global, phase, last, fired>>
    BY <1>19 DEF Reduce_Close, evars, cvars, svars
  <2>2. rpc' \in [Ranks -> {"idle", "count", "active", "finished", "check", "next", "close"}]
    BY <1>0, <1>19 DEF TypeOK, Reduce_Close, GotoR
  <2>3. outstanding' \in 0 .. N
    <3>1. outstanding = 1
      BY <1>19, RoundFacts DEF Reduce_Close
    <3> QED
      BY <1>0, <1>19, <3>1 DEF Reduce_Close
  <2> QED
    BY <2>1, <2>2, <2>3 DEF TypeOK, N
<1>20. CASE UNCHANGED vars
  BY <1>20 DEF TypeOK, N, vars, evars, cvars, svars, rvars
<1> QED
  BY <1>1, <1>2, <1>3, <1>4, <1>5, <1>6, <1>7, <1>8, <1>9, <1>10, <1>11, <1>12, <1>13, <1>14, <1>15, <1>16, <1>17, <1>18, <1>19, <1>20
  DEF Next, Edt, SendEpoch, ReduceEpoch

----------------------------------------------------------------------------
(* The answers of a round *)

(* A request sent to every other rank opens a round. *)
LEMMA RoundOpens ==
  ASSUME SetLaws, EpochAssumption, TypeOK, Placed, Rounds, Others # {}, Waiting = {},
         Broadcast, UNCHANGED <<world, resp, bit, spc>>,
         \A o \in Others : (rpc'[o] = "count") = (rpc[o] = "count"),
         outstanding' = N, Closing' = {}
  PROVE  Rounds' /\ Waiting' = Others
<1>0. /\ Others \subseteq Ranks /\ Others' = Others /\ N \in Nat /\ N > 1
      /\ Cardinality(Others) = N - 1
  BY WorldFacts DEF TypeOK, Others
<1>1. ASSUME NEW o \in Others PROVE Asked(o)' = 1
  <2>1. Asked(o) = 0
    BY DEF Rounds, Waiting
  <2>2. req'[o] = req[o] + 1
    BY <1>0 DEF Broadcast
  <2>3. Asked(o)' = Asked(o) + 1
    <3>1. req[o] \in Nat /\ resp[o] \in Seq(Counts) /\ Len(resp[o]) \in Nat
      BY <1>0 DEF TypeOK
    <3>2. CountToken(o)' = CountToken(o)
      BY DEF CountToken
    <3>3. BitToken(o)' = BitToken(o) /\ SendToken(o)' = SendToken(o)
      BY DEF BitToken, SendToken
    <3>4. resp'[o] = resp[o]
      OBVIOUS
    <3> QED
      BY <2>2, <3>1, <3>2, <3>3, <3>4, AskedParts
  <2> QED
    BY <2>1, <2>3
<1>2. Waiting' = Others
  BY <1>0, <1>1 DEF Waiting
<1> QED
  BY <1>0, <1>1, <1>2 DEF Rounds

(* The steps that neither start a round nor count an answer. *)
TokenMoves ==
  \/ UNCHANGED <<req, resp, bit, spc, rpc>>
  \/ \E t \in Edts : Drain_Other(t)
  \/ \E r \in Ranks \ {Owner} :
       \/ SendEpoch(r) \/ Reduce_Add(r) \/ Reduce_Active(r)
       \/ Reduce_Finished(r) \/ Check(r) \/ Reduce_Close(r)

(* The token of a rank moves from the request to its EPOCH_BIT, to          *)
(* send_epoch, to the answer and to reduce_epoch: no step but the start of  *)
(* a round and the count of an answer makes or takes one.                   *)
LEMMA AskedSame ==
  ASSUME SetLaws, EpochAssumption, TypeOK, Placed, Queues, Rounds, Others' = Others,
         TokenMoves
  PROVE  (\A o \in Others : Asked(o)' = Asked(o)) /\ Waiting' = Waiting
<1> DEFINE Same == \A o \in Others : Asked(o)' = Asked(o)
<1>0. Others \subseteq Ranks /\ Owner \notin Others
  BY WorldFacts DEF TypeOK
<1>1. ASSUME NEW o \in Others
      PROVE  /\ req[o] \in Nat /\ resp[o] \in Seq(Counts) /\ Len(resp[o]) \in Nat
             /\ Asked(o) \in {0, 1}
  BY <1>0 DEF TypeOK, Rounds
<1>3. ASSUME UNCHANGED <<req, resp, bit, spc, rpc>> PROVE Same
  BY <1>3 DEF Asked
<1>6. ASSUME NEW t \in Edts, Drain_Other(t) PROVE Same
  <2>1. at[t] \in Others
    BY <1>0, <1>6, Zenon DEF Placed, Drain_Other, Others
  <2>2. UNCHANGED <<req, spc, rpc>>
    BY <1>6, Zenon DEF Drain_Other, rvars
  <2>3. CASE queued[at[t]] = 1 /\ ~bit[at[t]]
    <3>1. /\ bit' = [bit EXCEPT ![at[t]] = TRUE]
          /\ resp' = [resp EXCEPT ![at[t]] = Append(@, snap[t])]
      BY <1>6, <2>3, Zenon DEF Drain_Other
    <3>2. Len(Append(resp[at[t]], snap[t])) = Len(resp[at[t]]) + 1
      BY <1>1, <2>1 DEF TypeOK
    <3>3. \A o \in Others : o # at[t] => bit'[o] = bit[o] /\ resp'[o] = resp[o]
      BY <1>0, <3>1 DEF TypeOK
    <3>4. bit'[at[t]] = TRUE /\ Len(resp'[at[t]]) = Len(resp[at[t]]) + 1
      BY <1>0, <2>1, <3>1, <3>2 DEF TypeOK
    <3>5. ASSUME NEW o \in Others PROVE Asked(o)' = Asked(o)
      <4>1. CASE o = at[t]
        <5>1. /\ req'[o] = req[o] /\ spc'[o] = spc[o] /\ rpc'[o] = rpc[o]
              /\ bit'[o] /\ ~bit[o] /\ Len(resp'[o]) = Len(resp[o]) + 1
          BY <2>2, <2>3, <3>4, <4>1
        <5>2. req[o] \in Nat /\ Len(resp[o]) \in Nat
          BY <1>1
        <5>3. /\ BitToken(o) = 1 /\ BitToken(o)' = 0
              /\ SendToken(o)' = SendToken(o) /\ CountToken(o)' = CountToken(o)
          BY <5>1 DEF BitToken, SendToken, CountToken
        <5> QED
          BY <5>1, <5>2, <5>3, AskedParts
      <4>2. CASE o # at[t]
        BY <2>2, <3>3, <4>2 DEF Asked
      <4> QED
        BY <4>1, <4>2
    <3> QED
      BY <3>5
  <2>4. CASE ~(queued[at[t]] = 1 /\ ~bit[at[t]])
    BY <1>3, <1>6, <2>2, <2>4, Zenon DEF Drain_Other
  <2> QED
    BY <2>3, <2>4
<1>7. ASSUME NEW r \in Ranks \ {Owner}, Send_Clear(r) PROVE Same
  <2>1. r \in Others /\ req[r] > 0
    BY <1>7, RoundFacts, Zenon DEF Send_Clear, Waiting
  <2>2. UNCHANGED <<resp, rpc>>
    BY <1>7 DEF Send_Clear, evars, rvars
  <2>3. bit[r]
    <3>1. ~bit[r] => Asked(r) >= 2
      <4>1. ~bit[r] => BitToken(r) = 1
        BY DEF BitToken
      <4>2. req[r] \in Nat /\ Len(resp[r]) \in Nat
        BY <1>1, <2>1
      <4> QED
        BY <2>1, <4>1, <4>2, AskedParts
    <3>2. Asked(r) \in {0, 1}
      BY <1>1, <2>1
    <3> QED
      BY <3>1, <3>2
  <2>4. /\ req'[r] = req[r] - 1 /\ ~bit'[r]
        /\ spc[r] = "idle" /\ spc'[r] = "claim"
    BY <1>7 DEF Send_Clear, TypeOK
  <2>5. \A o \in Others \ {r} :
          req'[o] = req[o] /\ bit'[o] = bit[o] /\ spc'[o] = spc[o]
    BY <1>0, <1>7 DEF Send_Clear, TypeOK
  <2>6. Asked(r)' = Asked(r)
    <3>1. BitToken(r) = 0 /\ BitToken(r)' = 1
      BY <2>3, <2>4, Zenon DEF BitToken
    <3>2. SendToken(r)' = SendToken(r) /\ CountToken(r)' = CountToken(r)
      BY <2>2, <2>4 DEF SendToken, CountToken
    <3>3. resp'[r] = resp[r] /\ req[r] \in Nat /\ Len(resp[r]) \in Nat
      BY <1>1, <2>1, <2>2
    <3> QED
      BY <2>4, <3>1, <3>2, <3>3, AskedParts
  <2>7. \A o \in Others \ {r} : Asked(o)' = Asked(o)
    BY <2>2, <2>5 DEF Asked
  <2> QED
    BY <2>6, <2>7
<1>8. ASSUME NEW r \in Ranks \ {Owner}, Send_Claim(r) PROVE Same
  <2>1. r \in Others
    BY <1>8 DEF Send_Claim, Placed
  <2>2. UNCHANGED <<req, resp, rpc>>
    BY <1>8 DEF Send_Claim, evars, rvars
  <2>3. /\ spc[r] = "claim"
        /\ \/ ~bit[r] /\ bit'[r] /\ spc'[r] = "read"
           \/ bit'[r] = bit[r] /\ spc'[r] = "idle"
    BY <1>8 DEF Send_Claim, TypeOK
  <2>4. \A o \in Others \ {r} : bit'[o] = bit[o] /\ spc'[o] = spc[o]
    BY <1>0, <1>8 DEF Send_Claim, TypeOK
  <2>5. Asked(r)' = Asked(r)
    <3>1. /\ BitToken(r)' + SendToken(r)' = BitToken(r) + SendToken(r)
          /\ CountToken(r)' = CountToken(r)
      BY <2>2, <2>3 DEF BitToken, SendToken, CountToken
    <3>2. /\ resp'[r] = resp[r] /\ req'[r] = req[r]
          /\ req[r] \in Nat /\ Len(resp[r]) \in Nat
      BY <1>1, <2>1, <2>2, Zenon
    <3>3. BitToken(r)' \in Nat /\ SendToken(r)' \in Nat
      BY DEF BitToken, SendToken
    <3> QED
      BY <3>1, <3>2, <3>3, AskedParts
  <2>6. \A o \in Others \ {r} : Asked(o)' = Asked(o)
    BY <2>2, <2>4 DEF Asked
  <2> QED
    BY <2>5, <2>6
<1>9. ASSUME NEW r \in Ranks \ {Owner}, Send_Active(r) \/ Send_Finished(r)
      PROVE  Same
  <2>1. UNCHANGED <<req, resp, bit, rpc>>
    BY <1>9 DEF Send_Active, Send_Finished, cvars, evars, rvars
  <2>2. /\ spc[r] \in {"read", "active", "finished", "send"}
        /\ spc'[r] \in {"read", "active", "finished", "send"}
    BY <1>9 DEF Send_Active, Send_Finished, TypeOK
  <2>3. \A o \in Others \ {r} : spc'[o] = spc[o]
    BY <1>0, <1>9 DEF Send_Active, Send_Finished, TypeOK
  <2>4. \A o \in Others : Asked(o)' = Asked(o)
    BY <2>1, <2>2, <2>3 DEF Asked
  <2> QED
    BY <2>4
<1>10. ASSUME NEW r \in Ranks \ {Owner}, Send(r) PROVE Same
  <2>1. r \in Others
    BY <1>10 DEF Send, Placed
  <2>2. UNCHANGED <<req, bit, rpc>>
    BY <1>10 DEF Send, cvars, evars, rvars
  <2>3. resp' = [resp EXCEPT ![r] = Append(@, ssnap[r])]
    BY <1>10 DEF Send
  <2>4. Len(Append(resp[r], ssnap[r])) = Len(resp[r]) + 1
    BY <1>1, <2>1 DEF TypeOK
  <2>5. /\ spc[r] = "send" /\ spc'[r] = "idle"
        /\ Len(resp'[r]) = Len(resp[r]) + 1
    BY <1>10, <2>3, <2>4 DEF Send, TypeOK
  <2>6. \A o \in Others \ {r} : resp'[o] = resp[o] /\ spc'[o] = spc[o]
    BY <1>0, <1>10, <2>3 DEF Send, TypeOK
  <2>7. Asked(r)' = Asked(r)
    <3>1. SendToken(r) = 1 /\ SendToken(r)' = 0
      BY <2>5 DEF SendToken
    <3>2. BitToken(r)' = BitToken(r) /\ CountToken(r)' = CountToken(r)
      BY <2>2, Zenon DEF BitToken, CountToken
    <3>3. req'[r] = req[r] /\ req[r] \in Nat /\ Len(resp[r]) \in Nat
      BY <1>1, <2>1, <2>2
    <3> QED
      BY <2>5, <3>1, <3>2, <3>3, AskedParts
  <2>8. \A o \in Others \ {r} : Asked(o)' = Asked(o)
    BY <2>2, <2>6 DEF Asked
  <2> QED
    BY <2>7, <2>8
<1>11. ASSUME NEW r \in Ranks \ {Owner}, Reduce_Add(r) PROVE Same
  <2>1. r \in Others /\ outstanding > 1 /\ resp[r] # <<>> /\ rpc[r] = "idle"
    BY <1>11, RoundFacts, Zenon DEF Reduce_Add, Waiting
  <2>2. UNCHANGED <<req, bit, spc>>
    BY <1>11 DEF Reduce_Add, cvars, evars
  <2>3. /\ resp' = [resp EXCEPT ![r] = Tail(@)]
        /\ rpc' = [rpc EXCEPT ![r] = "count"]
    BY <1>0, <1>11, <2>1 DEF Reduce_Add, GotoR, TypeOK
  <2>4. Len(Tail(resp[r])) = Len(resp[r]) - 1
    <3>1. resp[r] \in Seq(Counts) /\ resp[r] # <<>>
      BY <1>1, <2>1, Zenon
    <3> QED
      BY <3>1
  <2>5. Len(resp'[r]) = Len(resp[r]) - 1 /\ rpc'[r] = "count"
    BY <2>3, <2>4 DEF TypeOK
  <2>6. \A o \in Others \ {r} : resp'[o] = resp[o] /\ rpc'[o] = rpc[o]
    BY <1>0, <2>3 DEF TypeOK
  <2>7. Asked(r)' = Asked(r)
    <3>1. CountToken(r) = 0 /\ CountToken(r)' = 1
      BY <2>1, <2>5, Zenon DEF CountToken
    <3>2. BitToken(r)' = BitToken(r) /\ SendToken(r)' = SendToken(r)
      BY <2>2 DEF BitToken, SendToken
    <3>3. req'[r] = req[r] /\ req[r] \in Nat /\ Len(resp[r]) \in Nat
      BY <1>1, <2>1, <2>2
    <3>4. Asked(r) = req[r] + Len(resp[r]) + BitToken(r) + SendToken(r) + CountToken(r)
      BY AskedParts
    <3>5. Asked(r)' = req'[r] + Len(resp'[r]) + BitToken(r)' + SendToken(r)' + CountToken(r)'
      BY AskedParts
    <3>6. BitToken(r) \in Nat /\ SendToken(r) \in Nat
      BY AskedParts
    <3> QED
      BY <2>5, <3>1, <3>2, <3>3, <3>4, <3>5, <3>6
  <2>8. \A o \in Others \ {r} : Asked(o)' = Asked(o)
    BY <2>2, <2>6 DEF Asked
  <2> QED
    BY <2>7, <2>8
<1>12. ASSUME NEW r \in Ranks \ {Owner},
              Reduce_Active(r) \/ Reduce_Finished(r) \/ Check(r) \/ Reduce_Close(r)
       PROVE  Same
  <2>1. UNCHANGED <<req, resp, bit, spc>>
    BY <1>12 DEF Reduce_Active, Reduce_Finished, Check, Reduce_Close, cvars, evars, svars
  <2>2. /\ rpc[r] \in {"active", "finished", "check", "close"}
        /\ rpc'[r] # "count"
    BY <1>12 DEF Reduce_Active, Reduce_Finished, Check, Reduce_Close, GotoR, TypeOK
  <2>3. \A o \in Others \ {r} : rpc'[o] = rpc[o]
    BY <1>0, <1>12 DEF Reduce_Active, Reduce_Finished, Check, Reduce_Close, GotoR, TypeOK
  <2>4. \A o \in Others : Asked(o)' = Asked(o)
    BY <2>1, <2>2, <2>3 DEF Asked
  <2> QED
    BY <2>4
<1>13. Same
  BY <1>3, <1>6, <1>7, <1>8, <1>9, <1>10, <1>11, <1>12 DEF TokenMoves, SendEpoch
<1> QED
  BY <1>13 DEF Waiting

(* The count of an answer ends the wait for its rank. *)
LEMMA CountTakes ==
  ASSUME SetLaws, EpochAssumption, TypeOK, Placed, Rounds, Others' = Others,
         NEW r \in Ranks \ {Owner}, Reduce_Count(r)
  PROVE  /\ r \in Others /\ r \in Waiting /\ outstanding > 1
         /\ Waiting' = Waiting \ {r}
         /\ Cardinality(Waiting') = outstanding' - 1 /\ IsFiniteSet(Waiting')
         /\ \A o \in Others : Asked(o)' \in {0, 1}
         /\ rpc'[r] = IF outstanding = 2 THEN "active" ELSE "idle"
         /\ \A o \in Others \ {r} : rpc'[o] = rpc[o]
<1>0. /\ Others \subseteq Ranks /\ IsFiniteSet(Others)
      /\ \A o \in Others : /\ req[o] \in Nat /\ Len(resp[o]) \in Nat
                           /\ Asked(o) \in {0, 1}
  <2>1. Others \subseteq Ranks /\ IsFiniteSet(Others)
    BY WorldFacts DEF TypeOK
  <2>2. \A o \in Others : req[o] \in Nat /\ resp[o] \in Seq(Counts)
    BY <2>1 DEF TypeOK
  <2>3. \A o \in Others : Len(resp[o]) \in Nat
    BY <2>2
  <2> QED
    BY <2>1, <2>2, <2>3 DEF Rounds
<1>1. /\ r \in Waiting /\ outstanding > 1 /\ outstanding \in Nat /\ r \in Others
      /\ rpc[r] = "count"
  BY RoundFacts DEF Reduce_Count
<1>2. UNCHANGED <<req, resp, bit, spc>> /\ outstanding' = outstanding - 1
  BY DEF Reduce_Count, cvars, evars, svars
<1>3. rpc'[r] = IF outstanding = 2 THEN "active" ELSE "idle"
  BY DEF Reduce_Count, GotoR, TypeOK
<1>4. \A o \in Others \ {r} : rpc'[o] = rpc[o]
  BY <1>0 DEF Reduce_Count, GotoR, TypeOK
<1>5. Asked(r)' = 0
  <2>1. CountToken(r) = 1 /\ CountToken(r)' = 0
    BY <1>1, <1>3 DEF CountToken
  <2>2. BitToken(r)' = BitToken(r) /\ SendToken(r)' = SendToken(r)
    BY <1>2 DEF BitToken, SendToken
  <2>3. /\ req'[r] = req[r] /\ resp'[r] = resp[r] /\ Asked(r) \in {0, 1}
        /\ req[r] \in Nat /\ Len(resp[r]) \in Nat
    BY <1>0, <1>1, <1>2
  <2>4. Asked(r) = req[r] + Len(resp[r]) + BitToken(r) + SendToken(r) + CountToken(r)
    BY AskedParts
  <2>5. Asked(r)' = req'[r] + Len(resp'[r]) + BitToken(r)' + SendToken(r)' + CountToken(r)'
    BY AskedParts
  <2>6. BitToken(r) \in Nat /\ SendToken(r) \in Nat
    BY AskedParts
  <2> QED
    BY <2>1, <2>2, <2>3, <2>4, <2>5, <2>6
<1>6. \A o \in Others \ {r} : Asked(o)' = Asked(o)
  BY <1>2, <1>4 DEF Asked
<1>7. Waiting' = Waiting \ {r}
  BY <1>0, <1>5, <1>6 DEF Waiting
<1>8. IsFiniteSet(Waiting) /\ Cardinality(Waiting) = outstanding - 1
  BY <1>0, <1>1, CardSubset DEF Waiting, Rounds
<1>9. Cardinality(Waiting') = outstanding' - 1
  BY <1>1, <1>2, <1>7, <1>8, CardRemove, Zenon
<1>10. \A o \in Others : Asked(o)' \in {0, 1}
  BY <1>0, <1>5, <1>6
<1>11. IsFiniteSet(Waiting')
  BY <1>7, <1>8, CardRemove
<1> QED
  BY <1>1, <1>3, <1>4, <1>7, <1>9, <1>10, <1>11
=============================================================================
