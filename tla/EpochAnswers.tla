---------------------------- MODULE EpochAnswers ----------------------------
(***************************************************************************)
(* The invariant about the rounds of Epoch holds at the start and is kept  *)
(* by every step, for every number of ranks and EDTs.                      *)
(***************************************************************************)
EXTENDS EpochRounds

(* The steps are many, and some need more than the default 5 seconds. *)
USE SMTT(30), Zenon

(* Every step keeps EDTs and messages on the ranks that take part. *)
LEMMA PlacedStep ==
  ASSUME SetLaws, EpochAssumption, TypeOK, Placed, Rounds, [Next]_vars
  PROVE  Placed'
<1>0. /\ Others \subseteq Ranks /\ Owner \notin Others
      /\ Others = world.ranks \ {Owner} /\ (N > 1 <=> Others # {})
      /\ world.places \subseteq world.ranks
      /\ world' = world /\ Others' = Others
  <2>1. world \in Worlds
    BY DEF TypeOK
  <2> QED
    BY <2>1, WorldFacts, WorldKept, Zenon DEF Others
<1>t. /\ st \in [Edts -> EdtStates] /\ at \in [Edts -> Ranks]
      /\ resp \in [Ranks -> Seq(Counts)] /\ req \in [Ranks -> Nat]
  BY DEF TypeOK
<1>p. /\ DOMAIN spc = Ranks /\ spc = [r \in Ranks |-> spc[r]]
      /\ DOMAIN rpc = Ranks /\ rpc = [r \in Ranks |-> rpc[r]]
  BY DEF TypeOK
<1>1. \A t \in Edts : at'[t] \in world.ranks
  <2>1. ASSUME NEW t \in Edts, NEW u \in Edts, NEW r \in Ranks, Create(t, u, r)
        PROVE  \A o \in Edts : at'[o] \in world.ranks
    BY <1>0, <1>t, <2>1, Zenon DEF Placed, Create
  <2>2. at' = at \/ \E t, u \in Edts, r \in Ranks : Create(t, u, r)
    BY EdtKeeps, SendKeeps, ReduceKeeps DEF Next, vars, evars, cvars
  <2> QED
    BY <2>1, <2>2 DEF Placed
<1>2. ASSUME NEW o \in Ranks \ Others
      PROVE  req'[o] = 0 /\ spc'[o] = "idle" /\ resp'[o] = <<>> /\ rpc'[o] = "idle"
  <2> DEFINE Silent == req[o] = 0 /\ spc[o] = "idle" /\ resp[o] = <<>> /\ rpc[o] = "idle"
  <2>0. Silent
    BY DEF Placed
  <2>1. ASSUME NEW t \in Edts, Edt(t) PROVE Silent'
    <3>1. CASE Kick(t)
      BY <1>0, <2>0, <3>1 DEF Kick, Broadcast, cvars, rvars
    <3>2. CASE Drain_Other(t)
      <4>1. at[t] \in Others
        BY <1>0, <3>2 DEF Placed, Drain_Other
      <4>2. resp'[o] = resp[o]
        BY <1>t, <3>2, <4>1 DEF Drain_Other
      <4> QED
        BY <2>0, <3>2, <4>2 DEF Drain_Other, rvars
    <3>3. ~Kick(t) /\ ~Drain_Other(t) => UNCHANGED <<req, spc, resp, rpc>>
      BY <2>1, EdtKeeps
    <3> QED
      BY <2>0, <3>1, <3>2, <3>3
  <2>2. ASSUME NEW r \in Ranks \ {Owner}, SendEpoch(r) PROVE Silent'
    <3>1. r # o
      BY <2>0, <2>2 DEF SendEpoch, Send_Clear, Send_Claim, Send_Active,
                        Send_Finished, Send
    <3>2. req'[o] = req[o] /\ spc'[o] = spc[o] /\ resp'[o] = resp[o]
      BY <1>t, <1>p, <2>2, <3>1 DEF SendEpoch, Send_Clear, Send_Claim, Send_Active,
                        Send_Finished, Send
    <3> QED
      BY <2>0, <2>2, <3>2, SendKeeps
  <2>3. ASSUME NEW r \in Ranks \ {Owner}, ReduceEpoch(r) PROVE Silent'
    <3>1. r # o
      BY <2>0, <2>3 DEF ReduceEpoch, Reduce_Add, Reduce_Count, Reduce_Active,
                        Reduce_Finished, Check, Reduce_Next, Reduce_Close
    <3>2. rpc'[o] = rpc[o]
      BY <1>p, <2>3, <3>1
      DEF ReduceEpoch, Reduce_Add, Reduce_Count, Reduce_Active, Reduce_Finished,
          Check, Reduce_Next, Reduce_Close, GotoR
    <3>3. resp' = resp \/ resp' = [resp EXCEPT ![r] = Tail(@)]
      BY <2>3, ReduceKeeps DEF Reduce_Add
    <3>4. req' = req \/ Broadcast
      BY <2>3, ReduceKeeps DEF Reduce_Next
    <3>5. spc' = spc
      BY <2>3, ReduceKeeps
    <3>6. resp'[o] = resp[o] /\ req'[o] \in {req[o], 0}
      BY <1>t, <3>1, <3>3, <3>4 DEF Broadcast
    <3> QED
      BY <2>0, <3>2, <3>5, <3>6
  <2>4. CASE UNCHANGED vars
    BY <2>0, <2>4 DEF vars, cvars, evars, rvars, svars
  <2> QED
    BY <2>1, <2>2, <2>3, <2>4 DEF Next
<1>3. ASSUME NEW u \in Edts
      PROVE  IF Others = {} THEN st'[u] \notin {"drain", "kick"} ELSE st'[u] # "fire"
  <2>0. IF Others = {} THEN st[u] \notin {"drain", "kick"} ELSE st[u] # "fire"
    BY DEF Placed
  <2>1. ASSUME NEW t \in Edts, Edt(t) 
        PROVE  IF Others = {} THEN st'[u] \notin {"drain", "kick"} ELSE st'[u] # "fire"
    <3>1. CASE Drain_Owner(t)
      <4>1. Others # {}
        BY <3>1 DEF Drain_Owner, Placed
      <4> QED
        BY <1>t, <2>0, <3>1, <4>1 DEF Drain_Owner, Goto
    <3>2. CASE Finish(t)
      BY <1>0, <1>t, <2>0, <3>2 DEF Finish, Goto
    <3>3. CASE ~Drain_Owner(t) /\ ~Finish(t)
      BY <1>t, <2>0, <2>1, <3>3, Zenon DEF Edt, Create, Ready, Fire, Kick, Drain_Other, Goto
    <3> QED
      BY <3>1, <3>2, <3>3
  <2>2. st' = st \/ \E t \in Edts : Edt(t)
    BY SendKeeps, ReduceKeeps DEF Next, vars, evars, cvars
  <2> QED
    BY <2>0, <2>1, <2>2
<1>4. Others = {} => outstanding' = 0
  <2> SUFFICES ASSUME Others = {} PROVE outstanding' = 0
    OBVIOUS
  <2>1. outstanding = 0 /\ \A t \in Edts : st[t] # "kick"
    BY DEF Placed
  <2>2. \A t \in Edts : ~Kick(t)
    BY <2>1 DEF Kick
  <2>3. \A r \in Ranks : ~Reduce_Count(r) /\ ~Reduce_Next(r) /\ ~Reduce_Close(r)
    BY DEF Placed, Reduce_Count, Reduce_Next, Reduce_Close
  <2>4. outstanding' = outstanding
    BY <2>2, <2>3, EdtKeeps, SendKeeps, ReduceKeeps, Zenon DEF Next, vars
  <2> QED
    BY <2>1, <2>4
<1> QED
  BY <1>0, <1>1, <1>2, <1>3, <1>4 DEF Placed

(* Every step keeps the count of a queue. *)
LEMMA QueuesStep ==
  ASSUME SetLaws, EpochAssumption, TypeOK, Placed, Queues, [Next]_vars
  PROVE  Queues'
<1> SUFFICES ASSUME Others' # {}, NEW q \in Ranks
             PROVE  /\ IsFiniteSet(InQueue(q)')
                    /\ queued'[q] = Cardinality(InQueue(q)')
  BY DEF Queues
<1>t. /\ st \in [Edts -> EdtStates] /\ at \in [Edts -> Ranks]
      /\ queued \in [Ranks -> Nat] /\ world \in Worlds
  BY DEF TypeOK
<1>0. Others # {} /\ N > 1
  BY <1>t, WorldFacts, WorldKept
<1>1. /\ IsFiniteSet(InQueue(q)) /\ queued[q] = Cardinality(InQueue(q))
      /\ queued[q] \in Nat
  BY <1>0, <1>t DEF Queues
<1>2. InQueue(q)' = {t \in Edts : at'[t] = q /\ st'[t] \in {"running", "drain"}}
  BY DEF InQueue
<1>3. ASSUME NEW t \in Edts, NEW u \in Edts, NEW r \in Ranks, Create(t, u, r)
      PROVE  InQueue(q)' = InQueue(q) /\ queued' = queued
  BY <1>t, <1>2, <1>3, Zenon DEF InQueue, Create, Goto, rvars, svars
<1>4. ASSUME NEW t \in Edts, Ready(t)
      PROVE  /\ IsFiniteSet(InQueue(q)')
             /\ queued'[q] = Cardinality(InQueue(q)')
  <2>1. t \notin InQueue(q)
    BY <1>4 DEF InQueue, Ready
  <2>2. InQueue(q)' = IF at[t] = q THEN InQueue(q) \cup {t} ELSE InQueue(q)
    BY <1>t, <1>2, <1>4 DEF InQueue, Ready, Goto, rvars, svars
  <2>3. queued'[q] = IF at[t] = q THEN queued[q] + 1 ELSE queued[q]
    BY <1>t, <1>4 DEF Ready, Inc
  <2> QED
    BY <1>1, <2>1, <2>2, <2>3, CardAdd
<1>5. ASSUME NEW t \in Edts, Finish(t)
      PROVE  InQueue(q)' = InQueue(q) /\ queued' = queued
  BY <1>0, <1>t, <1>2, <1>5 DEF InQueue, Finish, Goto, rvars, svars
<1>6. ASSUME NEW t \in Edts, Fire(t) \/ Kick(t)
      PROVE  InQueue(q)' = InQueue(q) /\ queued' = queued
  BY <1>t, <1>2, <1>6 DEF InQueue, Fire, Kick, Goto, cvars, rvars, svars
<1>7. ASSUME NEW t \in Edts, Drain_Owner(t) \/ Drain_Other(t)
      PROVE  /\ IsFiniteSet(InQueue(q)')
             /\ queued'[q] = Cardinality(InQueue(q)')
  <2>1. st[t] = "drain" /\ at' = at /\ st'[t] \in {"kick", "done"}
    BY <1>t, <1>7 DEF Drain_Owner, Drain_Other, Goto, rvars, svars
  <2>2. \A o \in Edts \ {t} : st'[o] = st[o]
    BY <1>t, <1>7 DEF Drain_Owner, Drain_Other, Goto
  <2>3. InQueue(q)' = IF at[t] = q THEN InQueue(q) \ {t} ELSE InQueue(q)
    BY <1>2, <2>1, <2>2 DEF InQueue
  <2>4. at[t] = q => t \in InQueue(q)
    BY <2>1 DEF InQueue
  <2>5. queued' = [queued EXCEPT ![at[t]] = @ - 1]
    BY <1>7 DEF Drain_Owner, Drain_Other
  <2>6. queued'[q] = IF at[t] = q THEN queued[q] - 1 ELSE queued[q]
    BY <1>t, <2>5
  <2> QED
    BY <1>1, <2>3, <2>4, <2>6, CardRemove
<1>8. UNCHANGED <<st, at, queued>> => InQueue(q)' = InQueue(q)
  BY <1>2 DEF InQueue
<1>9. \/ UNCHANGED <<st, at, queued>>
      \/ \E t \in Edts : Edt(t)
  BY SendKeeps, ReduceKeeps DEF Next, vars, evars, cvars
<1> QED
  BY <1>1, <1>3, <1>4, <1>5, <1>6, <1>7, <1>8, <1>9 DEF Edt

(* Every step keeps outstanding equal to the answers that are awaited. *)
LEMMA RoundsStep ==
  ASSUME SetLaws, EpochAssumption, TypeOK, Placed, Queues, Rounds, [Next]_vars
  PROVE  Rounds'
<1>0. /\ world' = world /\ Others' = Others /\ N' = N /\ N \in Nat /\ N >= 1
      /\ Others \subseteq Ranks /\ IsFiniteSet(Others) /\ Owner \notin Others
      /\ N > 1 <=> Others # {}
  BY WorldFacts, WorldKept DEF TypeOK
<1>1. ASSUME \A o \in Others : Asked(o)' = Asked(o), Waiting' = Waiting,
             outstanding' = outstanding, Closing' = Closing
      PROVE  Rounds'
  BY <1>0, <1>1 DEF Rounds
<1>2. rpc' = rpc => Closing' = Closing
  BY <1>0 DEF Closing
<1>3. ASSUME NEW t \in Edts, Kick(t) PROVE Rounds'
  <2>1. CASE outstanding = 0
    <3>1. Others # {}
      BY <1>3, Zenon DEF Kick, Placed
    <3>2. Waiting = {} /\ Closing = {}
      BY <2>1 DEF Rounds
    <3>3. Broadcast /\ outstanding' = N
      BY <1>3, <2>1 DEF Kick
    <3>4. rpc' = rpc /\ UNCHANGED <<resp, bit, spc>>
      BY <1>3 DEF Kick, cvars, rvars
    <3> QED
      BY <1>0, <1>2, <3>1, <3>2, <3>3, <3>4, RoundOpens
  <2>2. CASE outstanding # 0
    BY <1>0, <1>1, <1>2, <1>3, <2>2, AskedSame DEF TokenMoves, Kick, cvars, rvars
  <2> QED
    BY <2>1, <2>2
<1>4. ASSUME NEW r \in Ranks \ {Owner}, Reduce_Count(r) PROVE Rounds'
  <2>0. /\ r \in Others /\ outstanding > 1
        /\ Cardinality(Waiting') = outstanding' - 1
        /\ \A o \in Others : Asked(o)' \in {0, 1}
        /\ rpc'[r] = IF outstanding = 2 THEN "active" ELSE "idle"
        /\ \A o \in Others \ {r} : rpc'[o] = rpc[o]
    BY <1>0, <1>4, CountTakes, Zenon
  <2>1. Closing = {}
    BY <2>0 DEF Rounds
  <2>2. Closing' = IF outstanding = 2 THEN {r} ELSE {}
    BY <1>0, <2>0, <2>1 DEF Closing
  <2>3. outstanding' = outstanding - 1 /\ outstanding \in Nat
    BY <1>4, RoundFacts DEF Reduce_Count
  <2> QED
    BY <1>0, <2>0, <2>2, <2>3 DEF Rounds
<1>5. ASSUME NEW r \in Ranks \ {Owner},
             Reduce_Active(r) \/ Reduce_Finished(r) \/ Check(r)
      PROVE  Rounds'
  <2>1. /\ rpc[r] \in {"active", "finished", "check"}
        /\ rpc'[r] \in {"active", "finished", "check", "next", "close"}
        /\ \A o \in Others \ {r} : rpc'[o] = rpc[o]
    BY <1>0, <1>5 DEF Reduce_Active, Reduce_Finished, Check, GotoR, TypeOK
  <2>2. Closing' = Closing
    BY <1>0, <2>1 DEF Closing
  <2> QED
    BY <1>0, <1>1, <1>5, <2>2, AskedSame DEF TokenMoves, Reduce_Active, Reduce_Finished, Check, cvars, evars, svars
<1>6. ASSUME NEW r \in Ranks \ {Owner}, Reduce_Add(r) PROVE Rounds'
  <2>1. /\ rpc[r] = "idle" /\ rpc'[r] \in {"idle", "count"}
        /\ \A o \in Others \ {r} : rpc'[o] = rpc[o]
    BY <1>0, <1>6 DEF Reduce_Add, GotoR, TypeOK
  <2>2. Closing' = Closing
    BY <1>0, <2>1 DEF Closing
  <2> QED
    BY <1>0, <1>1, <1>6, <2>2, AskedSame, Zenon DEF TokenMoves, Reduce_Add, cvars, evars
<1>7. ASSUME NEW r \in Ranks \ {Owner}, Reduce_Next(r) PROVE Rounds'
  <2>1. r \in Closing /\ r \in Others /\ outstanding = 1 /\ Waiting = {}
        /\ rpc[r] = "next"
    BY <1>7, RoundFacts DEF Reduce_Next, Closing
  <2>2. UNCHANGED <<resp, bit, spc>> /\ Broadcast /\ outstanding' = N
    <3>1. outstanding' = 1 + N - 1
      BY <1>7, <2>1 DEF Reduce_Next
    <3>2. UNCHANGED <<resp, bit, spc>> /\ Broadcast
      BY <1>7 DEF Reduce_Next, cvars, evars
    <3> QED
      BY <1>0, <3>1, <3>2
  <2>3. rpc'[r] = "idle" /\ \A o \in Others \ {r} : rpc'[o] = rpc[o]
    BY <1>0, <1>7 DEF Reduce_Next, GotoR, TypeOK
  <2>4. Closing' = {}
    BY <1>0, <2>1, <2>3 DEF Closing, Rounds
  <2>5. \A o \in Others : (rpc'[o] = "count") = (rpc[o] = "count")
    BY <2>1, <2>3
  <2> QED
    BY <1>0, <2>1, <2>2, <2>4, <2>5, RoundOpens
<1>8. ASSUME NEW r \in Ranks \ {Owner}, Reduce_Close(r) PROVE Rounds'
  <2>1. r \in Closing /\ r \in Others /\ outstanding = 1 /\ Waiting = {}
    BY <1>8, RoundFacts DEF Reduce_Close, Closing
  <2>2. outstanding' = 0
    BY <1>8, <2>1 DEF Reduce_Close
  <2>3. rpc'[r] = "idle" /\ \A o \in Others \ {r} : rpc'[o] = rpc[o]
    BY <1>0, <1>8 DEF Reduce_Close, GotoR, TypeOK
  <2>4. Closing' = {}
    BY <1>0, <2>1, <2>3 DEF Closing, Rounds
  <2>5. (\A o \in Others : Asked(o)' = Asked(o)) /\ Waiting' = Waiting
    BY <1>0, <1>8, AskedSame DEF TokenMoves
  <2> QED
    BY <1>0, <2>1, <2>2, <2>4, <2>5 DEF Rounds
<1>9. ASSUME NEW r \in Ranks \ {Owner}, SendEpoch(r) PROVE Rounds'
  <2>1. rpc' = rpc /\ outstanding' = outstanding
    BY <1>9, SendKeeps
  <2> QED
    BY <1>0, <1>1, <1>2, <1>9, <2>1, AskedSame DEF TokenMoves
<1>10. ASSUME NEW t \in Edts, Drain_Other(t) PROVE Rounds'
  BY <1>0, <1>1, <1>2, <1>10, AskedSame, Zenon DEF TokenMoves, Drain_Other, rvars
<1>11. ASSUME UNCHANGED <<req, resp, bit, spc, rpc, outstanding>> PROVE Rounds'
  BY <1>0, <1>1, <1>2, <1>11, AskedSame DEF TokenMoves
<1>12. \/ UNCHANGED <<req, resp, bit, spc, rpc, outstanding>>
       \/ \E t \in Edts : Kick(t) \/ Drain_Other(t)
       \/ \E r \in Ranks \ {Owner} : SendEpoch(r) \/ ReduceEpoch(r)
  BY EdtKeeps DEF Next, vars, cvars, svars, rvars
<1> QED
  BY <1>3, <1>4, <1>5, <1>6, <1>7, <1>8, <1>9, <1>10, <1>11, <1>12 DEF ReduceEpoch

(* The epoch starts with no round open. *)
LEMMA AnswersInit == SetLaws /\ EpochAssumption /\ Init => Answers
<1> SUFFICES ASSUME SetLaws, EpochAssumption, Init PROVE Answers
  OBVIOUS
<1>0. /\ Owner \in Ranks /\ Root \in Edts /\ world \in Worlds
      /\ Others \subseteq Ranks /\ Owner \notin Others /\ N \in Nat
      /\ Owner \in world.ranks
  BY WorldFacts DEF EpochAssumption, Init
<1>1. TypeOK
  <2>1. Zero \in Counts /\ <<>> \in Seq(Counts)
    BY DEF Zero, Counts
  <2>2. /\ active = [r \in Ranks |-> IF r = Owner THEN 1 ELSE 0]
        /\ queued = active
    BY DEF Init
  <2>3. active \in [Ranks -> Nat] /\ queued \in [Ranks -> Nat]
    BY <2>2
  <2>4. /\ st \in [Edts -> EdtStates] /\ at \in [Edts -> Ranks]
        /\ snap \in [Edts -> Counts]
    BY <1>0, <2>1, Zenon DEF Init, EdtStates
  <2>5. /\ finished \in [Ranks -> Nat] /\ bit \in [Ranks -> BOOLEAN]
        /\ req \in [Ranks -> Nat]
    BY DEF Init
  <2>8. outstanding \in 0 .. N /\ phase \in 1 .. 3 /\ fired \in Nat
    BY <1>0 DEF Init
  <2>6. /\ ssnap \in [Ranks -> Counts] /\ resp \in [Ranks -> Seq(Counts)]
        /\ rsum \in [Ranks -> Counts] /\ global \in Counts /\ last \in Counts
    BY <2>1 DEF Init
  <2>7. /\ spc \in [Ranks -> {"idle", "claim", "read", "active", "finished", "send"}]
        /\ rpc \in [Ranks -> {"idle", "count", "active", "finished", "check", "next",
                              "close"}]
    BY DEF Init
  <2> QED
    BY <1>0, <2>3, <2>4, <2>5, <2>6, <2>7, <2>8, Zenon DEF TypeOK
<1>2. Placed
  BY <1>0 DEF Placed, Init
<1>3. Queues
  <2>1. ASSUME NEW r \in Ranks
        PROVE  InQueue(r) = IF r = Owner THEN {Root} ELSE {}
    BY <1>0 DEF InQueue, Init
  <2>2. \A r \in Ranks : queued[r] = IF r = Owner THEN 1 ELSE 0
    BY DEF Init
  <2> QED
    BY <2>1, <2>2, CardFacts, Zenon DEF Queues
<1>4. Rounds
  <2>1. ASSUME NEW r \in Others PROVE Asked(r) = 0
    <3>1. /\ req[r] = 0 /\ resp[r] = <<>> /\ bit[r] /\ spc[r] = "idle"
          /\ rpc[r] = "idle"
      BY <1>0, Zenon DEF Init
    <3> QED
      BY <3>1 DEF Asked
  <2>2. Closing = {} /\ Waiting = {} /\ outstanding = 0
    BY <1>0, <2>1 DEF Closing, Waiting, Init
  <2> QED
    BY <2>1, <2>2 DEF Rounds
<1> QED
  BY <1>1, <1>2, <1>3, <1>4 DEF Answers

(* The invariant of the rounds is inductive. *)
LEMMA AnswersKept ==
  ASSUME SetLaws, EpochAssumption, Answers, [Next]_vars
  PROVE  Answers'
BY TypeStep, PlacedStep, QueuesStep, RoundsStep DEF Answers
=============================================================================
