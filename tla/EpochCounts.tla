---------------------------- MODULE EpochCounts ----------------------------
(***************************************************************************)
(* Lemmas about the counts of Epoch, for every number of ranks and EDTs,   *)
(* where a rank has one worker or the epoch one rank: what the sums of a   *)
(* round say about the EDTs that live and those that have finished.        *)
(***************************************************************************)
EXTENDS EpochRounds

(* The steps are many, and some need more than the default 5 seconds. *)
USE SMTT(30), Zenon

(* The configurations in which no other EDT can run on a rank between the   *)
(* two counts of increment_finished_epoch, and the answers of a round are   *)
(* added up by one thread.                                                  *)
Serial ==
  /\ Receivers = 1
  /\ \A w \in Worlds : w.workers = 1 \/ w.ranks = {Owner}

----------------------------------------------------------------------------
(* The inductive invariant *)

(* active counts the EDTs created, finished those that have ended. *)
Sums ==
  /\ IsFiniteSet(Live \cup Over)
  /\ Total(active, world.ranks) = Cardinality(Live \cup Over)
  /\ Total(finished, world.ranks) = Cardinality(Over)

(* What an EDT read as it finished is still so when it drains the queue. *)
SnapCurrent ==
  world.workers = 1 =>
    \A t \in Edts : st[t] = "drain" =>
      snap[t] = [a |-> active[at[t]], f |-> finished[at[t]]]

(* The least that a rank will add to the sums of the round: what its answer *)
(* says, or else what it counts now.                                        *)
Pending(r) == r \in Waiting /\ rpc[r] # "count"
ToCome(r) ==
  [a |-> IF ~Pending(r) THEN 0
         ELSE IF resp[r] # <<>> THEN Head(resp[r]).a
         ELSE IF spc[r] \in {"finished", "send"} THEN ssnap[r].a ELSE active[r],
   f |-> IF ~Pending(r) THEN 0
         ELSE IF resp[r] # <<>> THEN Head(resp[r]).f
         ELSE IF spc[r] \in {"active", "send"} THEN ssnap[r].f ELSE finished[r]]
PendA == [r \in Others |-> ToCome(r).a]
PendF == [r \in Others |-> ToCome(r).f]

(* One answer is added up at a time. *)
OneReducer ==
  /\ \A r, o \in Others : rpc[r] # "idle" /\ rpc[o] # "idle" => r = o
  /\ outstanding = 0 => global = Zero
  /\ \A r \in Others :
       /\ rpc[r] \in {"count", "active"} => rsum[r] = global
       /\ rpc[r] \in {"check", "next", "close"} => global = Zero

(* The finished EDTs a round counts, or a balanced one has counted, have    *)
(* finished.                                                                *)
AtMostOver ==
  /\ outstanding > 1 =>
       global.f + Total(PendF, Others) + finished[Owner] <= Cardinality(Over)
  /\ \A r \in Others :
       /\ rpc[r] \in {"active", "finished"} =>
            rsum[r].f + finished[Owner] <= Cardinality(Over)
       /\ rpc[r] = "check" => rsum[r].f <= Cardinality(Over)
  /\ phase = 2 => last.a = last.f /\ last.f <= Cardinality(Over)

(* After a balanced round the next one counts more active EDTs, if there    *)
(* were any left as it began.                                               *)
MoreActive ==
  phase = 2 =>
    /\ outstanding > 0 /\ \A r \in Others : rpc[r] # "close"
    /\ Live # {} =>
         /\ outstanding > 1 =>
              global.a + Total(PendA, Others) + active[Owner] > last.a
         /\ \A r \in Others :
              /\ rpc[r] = "active" => rsum[r].a + active[Owner] > last.a
              /\ rpc[r] \in {"finished", "check"} => rsum[r].a > last.a

(* The epoch fires once, when it is over, and no round is evaluated          *)
(* afterwards.                                                              *)
FiredOver ==
  /\ fired = IF phase = 3 THEN 1 ELSE 0
  /\ phase = 3 => Live = {} /\ \A r \in Others : rpc[r] \in {"idle", "close"}
  /\ \A t \in Edts : st[t] = "fire" => Live = {}

Counting == Sums /\ SnapCurrent /\ OneReducer /\ AtMostOver /\ MoreActive /\ FiredOver

----------------------------------------------------------------------------
(* Sums *)

(* A sum over finitely many ranks is a natural number. *)
LEMMA TotalType ==
  ASSUME SetLaws, NEW S, IsFiniteSet(S), NEW f, \A r \in S : f[r] \in Nat
  PROVE  IsFiniteSet(Units(f, S)) /\ Total(f, S) \in Nat
BY DEF SetLaws, SumLaws

(* The share of one rank can be taken out of the sum. *)
LEMMA TotalSplit ==
  ASSUME SetLaws, NEW S, IsFiniteSet(S), NEW f, \A o \in S : f[o] \in Nat, NEW r \in S
  PROVE  Total(f, S) = f[r] + Total(f, S \ {r})
BY DEF SetLaws, SumLaws

(* The sum grows with the counts of its ranks. *)
LEMMA TotalMonotone ==
  ASSUME SetLaws, NEW S, IsFiniteSet(S), NEW f, NEW g,
         \A r \in S : f[r] \in Nat /\ g[r] \in Nat /\ f[r] <= g[r]
  PROVE  Total(f, S) <= Total(g, S)
<1>1. Units(f, S) \subseteq Units(g, S)
  BY DEF Units
<1>2. IsFiniteSet(Units(g, S))
  BY TotalType
<1> QED
  BY <1>1, <1>2, CardSubset DEF Total

(* The sum depends on the counts of its ranks only. *)
LEMMA TotalSame ==
  ASSUME NEW S, NEW f, NEW g, \A r \in S : f[r] = g[r]
  PROVE  Total(f, S) = Total(g, S)
BY DEF Total, Units

(* Ranks that count nothing have the sum zero. *)
LEMMA TotalZero ==
  ASSUME SetLaws, NEW S, NEW f, \A r \in S : f[r] = 0
  PROVE  Total(f, S) = 0
<1>1. Units(f, S) = {}
  BY DEF Units
<1> QED
  BY <1>1, CardFacts DEF Total

(* What one rank gains or loses the sum does. *)
LEMMA TotalChange ==
  ASSUME SetLaws, NEW S, IsFiniteSet(S), NEW f, NEW g, NEW r \in S,
         \A o \in S : f[o] \in Nat,
         \A o \in S : g[o] \in Nat,
         \A o \in S : o # r => g[o] = f[o]
  PROVE  Total(g, S) + f[r] = Total(f, S) + g[r]
<1>1. Total(f, S) = f[r] + Total(f, S \ {r})
  BY TotalSplit
<1>2. Total(g, S) = g[r] + Total(g, S \ {r})
  BY TotalSplit
<1>3. Total(g, S \ {r}) = Total(f, S \ {r})
  BY TotalSame
<1>4. IsFiniteSet(S \ {r})
  BY CardRemove
<1>5. Total(f, S \ {r}) \in Nat
  BY <1>4, TotalType
<1> QED
  BY <1>1, <1>2, <1>3, <1>5

(* A rank that counts one more. *)
LEMMA TotalInc ==
  ASSUME SetLaws, NEW S, IsFiniteSet(S), NEW f, NEW g, NEW r \in S,
         \A o \in S : f[o] \in Nat,
         \A o \in S : g[o] \in Nat,
         \A o \in S : o # r => g[o] = f[o],
         g[r] = f[r] + 1
  PROVE  Total(g, S) = Total(f, S) + 1
<1>1. Total(g, S) + f[r] = Total(f, S) + g[r]
  BY TotalChange
<1>2. Total(f, S) \in Nat /\ Total(g, S) \in Nat
  BY TotalType
<1> QED
  BY <1>1, <1>2

----------------------------------------------------------------------------
(* The counts *)

(* The EDTs an action creates and ends. *)
LEMMA SetsStep ==
  ASSUME TypeOK, [Next]_vars
  PROVE  /\ \A t, u \in Edts, r \in Ranks : Create(t, u, r) =>
              /\ t \in Live /\ u \notin Live \cup Over
              /\ Live' = Live \cup {u} /\ Over' = Over
         /\ \A t \in Edts : Finish(t) =>
              t \in Live /\ Live' = Live \ {t} /\ Over' = Over \cup {t}
         /\ \/ \E t, u \in Edts, r \in Ranks : Create(t, u, r)
            \/ \E t \in Edts : Finish(t)
            \/ Live' = Live /\ Over' = Over
<1>0. /\ Live' = {t \in Edts : st'[t] \in {"waiting", "running"}}
      /\ Over' = {t \in Edts : st'[t] \in {"drain", "kick", "fire", "done"}}
  BY DEF Live, Over
<1>1. ASSUME NEW t \in Edts, NEW u \in Edts, NEW r \in Ranks, Create(t, u, r)
      PROVE  /\ t \in Live /\ u \notin Live \cup Over
             /\ Live' = Live \cup {u} /\ Over' = Over
  BY <1>0, <1>1 DEF Create, Goto, Live, Over, TypeOK
<1>2. ASSUME NEW t \in Edts, Finish(t)
      PROVE  t \in Live /\ Live' = Live \ {t} /\ Over' = Over \cup {t}
  <2>1. /\ st[t] = "running" /\ st'[t] \in {"drain", "fire", "done"}
        /\ \A o \in Edts \ {t} : st'[o] = st[o]
    BY <1>2 DEF Finish, Goto, TypeOK
  <2> QED
    BY <1>0, <2>1 DEF Live, Over
<1>3. ASSUME NEW t \in Edts,
             Ready(t) \/ Fire(t) \/ Drain_Owner(t) \/ Kick(t) \/ Drain_Other(t)
      PROVE  Live' = Live /\ Over' = Over
  <2>1. /\ \A o \in Edts \ {t} : st'[o] = st[o]
        /\ \/ st[t] = "waiting" /\ st'[t] = "running"
           \/ st[t] \in {"drain", "kick", "fire"} /\ st'[t] \in {"kick", "done"}
    BY <1>3 DEF Ready, Fire, Drain_Owner, Kick, Drain_Other, Goto, TypeOK
  <2> QED
    BY <1>0, <2>1 DEF Live, Over
<1>4. st' = st => Live' = Live /\ Over' = Over
  BY <1>0 DEF Live, Over
<1>5. st' = st \/ \E t \in Edts : Edt(t)
  BY SendKeeps, ReduceKeeps DEF Next, vars, evars, cvars
<1> QED
  BY <1>1, <1>2, <1>3, <1>4, <1>5 DEF Edt

(* The numbers of EDTs, and the counts of the owner and of the others. *)
LEMMA CountFacts ==
  ASSUME SetLaws, EpochAssumption, TypeOK, Sums
  PROVE  /\ IsFiniteSet(Over) /\ Cardinality(Over) \in Nat
         /\ Cardinality(Live \cup Over) \in Nat
         /\ Live = {} => Cardinality(Live \cup Over) = Cardinality(Over)
         /\ Live # {} => Cardinality(Live \cup Over) > Cardinality(Over)
         /\ Total(active, Others) \in Nat /\ Total(finished, Others) \in Nat
         /\ Total(active, Others) + active[Owner] = Cardinality(Live \cup Over)
         /\ Total(finished, Others) + finished[Owner] = Cardinality(Over)
         /\ active[Owner] \in Nat /\ finished[Owner] \in Nat
<1>1. /\ IsFiniteSet(Live \cup Over) /\ Cardinality(Live \cup Over) \in Nat
      /\ IsFiniteSet(Over) /\ Cardinality(Over) \in Nat
      /\ Cardinality(Over) <= Cardinality(Live \cup Over)
      /\ Cardinality(Over) = Cardinality(Live \cup Over) => Live \cup Over = Over
  BY CardFacts, CardSubset DEF Sums
<1>2. Live \cap Over = {}
  BY DEF Live, Over
<1>3. /\ world.ranks \subseteq Ranks /\ Owner \in world.ranks
      /\ IsFiniteSet(world.ranks) /\ IsFiniteSet(Others)
      /\ Others = world.ranks \ {Owner}
  BY WorldFacts DEF TypeOK, Others
<1>4. \A r \in world.ranks : active[r] \in Nat /\ finished[r] \in Nat
  BY <1>3 DEF TypeOK
<1>5. Total(active, world.ranks) = active[Owner] + Total(active, Others)
  BY <1>3, <1>4, TotalSplit
<1>6. Total(finished, world.ranks) = finished[Owner] + Total(finished, Others)
  BY <1>3, <1>4, TotalSplit
<1>7. Total(active, Others) \in Nat /\ Total(finished, Others) \in Nat
  BY <1>3, <1>4, TotalType
<1>8. active[Owner] \in Nat /\ finished[Owner] \in Nat
  BY <1>3, <1>4
<1>9. /\ Total(active, Others) + active[Owner] = Cardinality(Live \cup Over)
      /\ Total(finished, Others) + finished[Owner] = Cardinality(Over)
  BY <1>5, <1>6, <1>7, <1>8 DEF Sums
<1>10. Live = {} => Live \cup Over = Over
  OBVIOUS
<1>11. Live # {} => Live \cup Over # Over
  BY <1>2
<1> QED
  BY <1>1, <1>7, <1>8, <1>9, <1>10, <1>11

(* Every step keeps the sums: an EDT is counted as active when it is        *)
(* created and as finished when it ends.                                    *)
LEMMA SumsStep ==
  ASSUME SetLaws, EpochAssumption, TypeOK, TypeOK', Placed, Sums, [Next]_vars
  PROVE  Sums'
<1>0. /\ world.ranks \subseteq Ranks /\ IsFiniteSet(world.ranks) /\ world' = world
      /\ \A r \in world.ranks : /\ active[r] \in Nat /\ active'[r] \in Nat
                                /\ finished[r] \in Nat /\ finished'[r] \in Nat
  BY WorldFacts, WorldKept, Zenon DEF TypeOK
<1>1. /\ IsFiniteSet(Live \cup Over) /\ IsFiniteSet(Over)
      /\ Cardinality(Over) \in Nat /\ Cardinality(Live \cup Over) \in Nat
  BY CountFacts DEF Sums
<1>2. ASSUME NEW t \in Edts, NEW u \in Edts, NEW r \in Ranks, Create(t, u, r)
      PROVE  Sums'
  <2>1. /\ u \notin Live \cup Over /\ (Live \cup Over)' = (Live \cup Over) \cup {u}
        /\ Over' = Over /\ finished' = finished
    BY <1>2, SetsStep, Zenon DEF Create, rvars, svars
  <2>2. at[t] \in world.ranks
    BY DEF Placed
  <2>3. /\ active'[at[t]] = active[at[t]] + 1
        /\ \A o \in world.ranks \ {at[t]} : active'[o] = active[o]
    BY <1>0, <1>2, <2>2 DEF Create, Inc, TypeOK
  <2>4. Total(active', world.ranks) = Total(active, world.ranks) + 1
    <3>1. \A o \in world.ranks : active[o] \in Nat
      BY <1>0
    <3>2. \A o \in world.ranks : active'[o] \in Nat
      BY <1>0
    <3>3. \A o \in world.ranks : o # at[t] => active'[o] = active[o]
      BY <2>3
    <3> QED
      BY <1>0, <2>2, <2>3, <3>1, <3>2, <3>3, TotalInc
  <2>5. /\ IsFiniteSet((Live \cup Over)')
        /\ Cardinality((Live \cup Over)') = Cardinality(Live \cup Over) + 1
    BY <1>1, <2>1, CardAdd, Zenon
  <2> QED
    BY <1>0, <2>1, <2>4, <2>5 DEF Sums
<1>3. ASSUME NEW t \in Edts, Finish(t) PROVE Sums'
  <2>1. /\ t \in Live /\ t \notin Over /\ (Live \cup Over)' = Live \cup Over
        /\ Over' = Over \cup {t} /\ active' = active
    <3>1. t \in Live /\ Live' = Live \ {t} /\ Over' = Over \cup {t} /\ active' = active
      BY <1>3, SetsStep, Zenon DEF Finish, rvars, svars
    <3>2. t \notin Over
      BY <3>1 DEF Live, Over
    <3> QED
      BY <3>1, <3>2
  <2>2. at[t] \in world.ranks
    BY DEF Placed
  <2>3. /\ finished'[at[t]] = finished[at[t]] + 1
        /\ \A o \in world.ranks \ {at[t]} : finished'[o] = finished[o]
    BY <1>0, <1>3, <2>2 DEF Finish, Inc, TypeOK
  <2>4. Total(finished', world.ranks) = Total(finished, world.ranks) + 1
    <3>1. \A o \in world.ranks : finished[o] \in Nat
      BY <1>0
    <3>2. \A o \in world.ranks : finished'[o] \in Nat
      BY <1>0
    <3>3. \A o \in world.ranks : o # at[t] => finished'[o] = finished[o]
      BY <2>3
    <3> QED
      BY <1>0, <2>2, <2>3, <3>1, <3>2, <3>3, TotalInc
  <2>5. Cardinality(Over') = Cardinality(Over) + 1
    BY <1>1, <2>1, CardAdd
  <2> QED
    BY <1>0, <1>1, <2>1, <2>4, <2>5, Zenon DEF Sums
<1>4. \/ \E t, u \in Edts, r \in Ranks : Create(t, u, r)
      \/ \E t \in Edts : Finish(t)
      \/ UNCHANGED <<active, finished>>
  BY EdtKeeps, SendKeeps, ReduceKeeps DEF Next, vars, evars, cvars
<1>5. \/ \E t, u \in Edts, r \in Ranks : Create(t, u, r)
      \/ \E t \in Edts : Finish(t)
      \/ Live' = Live /\ Over' = Over
  BY SetsStep
<1>6. UNCHANGED <<active, finished>> /\ Live' = Live /\ Over' = Over => Sums'
  BY <1>0 DEF Sums
<1> QED
  BY <1>2, <1>3, <1>4, <1>5, <1>6

(* Every step keeps what an EDT of a rank with one worker saw: nothing      *)
(* else runs there until it has left the queue.                             *)
LEMMA SnapStep ==
  ASSUME TypeOK, SnapCurrent, [Next]_vars
  PROVE  SnapCurrent'
<1> SUFFICES ASSUME world.workers = 1, NEW u \in Edts, st'[u] = "drain"
             PROVE  snap'[u] = [a |-> active'[at'[u]], f |-> finished'[at'[u]]]
  BY WorldKept DEF SnapCurrent
<1>0. st[u] = "drain" => snap[u] = [a |-> active[at[u]], f |-> finished[at[u]]]
  BY DEF SnapCurrent
<1>1. ASSUME NEW t \in Edts, NEW o \in Edts, NEW r \in Ranks, Create(t, o, r)
      PROVE  snap'[u] = [a |-> active'[at'[u]], f |-> finished'[at'[u]]]
  <2>1. st[u] = "drain" /\ at'[u] = at[u] /\ u # t
    BY <1>1 DEF Create, Goto, TypeOK
  <2>2. at[u] # at[t]
    BY <1>1, <2>1 DEF Create, HasWorker
  <2>3. active'[at[u]] = active[at[u]]
    BY <1>1, <2>2 DEF Create, Inc, TypeOK
  <2> QED
    BY <1>0, <1>1, <2>1, <2>3 DEF Create, rvars, svars
<1>2. ASSUME NEW t \in Edts, Finish(t)
      PROVE  snap'[u] = [a |-> active'[at'[u]], f |-> finished'[at'[u]]]
  <2>1. at' = at /\ active' = active
    BY <1>2 DEF Finish, rvars, svars
  <2>2. CASE u = t
    <3>1. snap'[t] = [a |-> active[at[t]], f |-> finished[at[t]] + 1]
      BY <1>2 DEF Finish, TypeOK
    <3>2. finished'[at[t]] = finished[at[t]] + 1
      BY <1>2 DEF Finish, Inc, TypeOK
    <3> QED
      BY <2>1, <2>2, <3>1, <3>2
  <2>3. CASE u # t
    <3>1. st[u] = "drain" /\ snap'[u] = snap[u]
      BY <1>2, <2>3 DEF Finish, Goto, TypeOK
    <3>2. at[u] # at[t]
      BY <1>2, <2>3, <3>1 DEF Finish, HasWorker
    <3>3. finished'[at[u]] = finished[at[u]]
      BY <1>2, <3>2 DEF Finish, Inc, TypeOK
    <3> QED
      BY <1>0, <2>1, <3>1, <3>3
  <2> QED
    BY <2>2, <2>3
<1>3. ASSUME NEW t \in Edts,
             Ready(t) \/ Fire(t) \/ Drain_Owner(t) \/ Kick(t) \/ Drain_Other(t)
      PROVE  st[u] = "drain" /\ UNCHANGED <<at, snap, active, finished>>
  <2>1. st'[t] # "drain" /\ \A o \in Edts \ {t} : st'[o] = st[o]
    BY <1>3 DEF Ready, Fire, Drain_Owner, Kick, Drain_Other, Goto, TypeOK
  <2> QED
    BY <1>3, <2>1 DEF Ready, Fire, Drain_Owner, Kick, Drain_Other, cvars, rvars, svars
<1>4. UNCHANGED <<st, at, snap, active, finished>> \/ \E t \in Edts : Edt(t)
  BY SendKeeps, ReduceKeeps DEF Next, vars, evars, cvars
<1> QED
  BY <1>0, <1>1, <1>2, <1>3, <1>4 DEF Edt

(* What a rank that is asked, or is not, has yet to add. *)
LEMMA ToComeFacts ==
  ASSUME SetLaws, EpochAssumption, TypeOK, Placed, Rounds
  PROVE  /\ \A o \in Others : ToCome(o).a \in Nat /\ ToCome(o).f \in Nat
         /\ \A o \in Others : PendA[o] = ToCome(o).a /\ PendF[o] = ToCome(o).f
         /\ Total(PendA, Others) \in Nat /\ Total(PendF, Others) \in Nat
         /\ \A o \in Others : ~Pending(o) => ToCome(o) = Zero
         /\ \A o \in Others : ~bit[o] =>
              /\ Pending(o) /\ resp[o] = <<>>
              /\ spc[o] \notin {"read", "active", "finished", "send"}
         /\ \A o \in Others : spc[o] \in {"read", "active", "finished", "send"} =>
              Pending(o) /\ resp[o] = <<>>
         /\ \A o \in Others \ Waiting :
              /\ resp[o] = <<>> /\ rpc[o] # "count"
              /\ spc[o] \notin {"read", "active", "finished", "send"}
<1>0. Others \subseteq Ranks /\ IsFiniteSet(Others)
  BY WorldFacts DEF TypeOK
<1>1. ASSUME NEW o \in Others PROVE ToCome(o).a \in Nat /\ ToCome(o).f \in Nat
  <2>1. /\ active[o] \in Nat /\ finished[o] \in Nat
        /\ ssnap[o] \in Counts /\ resp[o] \in Seq(Counts)
    BY <1>0 DEF TypeOK
  <2>2. resp[o] # <<>> => Head(resp[o]) \in Counts
    BY <2>1, SeqFacts
  <2> QED
    BY <2>1, <2>2 DEF ToCome, Counts
<1>2. \A o \in Others : PendA[o] = ToCome(o).a /\ PendF[o] = ToCome(o).f
  BY DEF PendA, PendF
<1>3. Total(PendA, Others) \in Nat
  BY <1>0, <1>1, <1>2, TotalType
<1>4. Total(PendF, Others) \in Nat
  BY <1>0, <1>1, <1>2, TotalType
<1>5. \A o \in Others : ~Pending(o) => ToCome(o) = Zero
  BY DEF ToCome, Zero
<1>6. ASSUME NEW o \in Others
      PROVE  /\ req[o] \in Nat /\ Len(resp[o]) \in Nat /\ Asked(o) \in {0, 1}
             /\ resp[o] # <<>> => Len(resp[o]) > 0
  <2>1. req[o] \in Nat /\ resp[o] \in Seq(Counts)
    BY <1>0 DEF TypeOK
  <2>2. Len(resp[o]) \in Nat /\ (resp[o] # <<>> => Len(resp[o]) > 0)
    BY <2>1, SeqFacts
  <2> QED
    BY <2>1, <2>2 DEF Rounds
<1>7. ASSUME NEW o \in Others, ~bit[o]
      PROVE  /\ Pending(o) /\ resp[o] = <<>>
             /\ spc[o] \notin {"read", "active", "finished", "send"}
  <2> DEFINE S == IF spc[o] \in {"read", "active", "finished", "send"} THEN 1 ELSE 0
             C == IF rpc[o] = "count" THEN 1 ELSE 0
  <2>1. Asked(o) = req[o] + Len(resp[o]) + 1 + S + C
    BY <1>7 DEF Asked
  <2>2. S \in Nat /\ C \in Nat
    OBVIOUS
  <2>3. Asked(o) = 1 /\ Len(resp[o]) = 0 /\ S = 0 /\ C = 0
    <3> HIDE DEF S, C
    <3> QED
      BY <1>6, <2>1, <2>2
  <2> QED
    BY <1>6, <2>3 DEF Pending, Waiting
<1>8. ASSUME NEW o \in Others, spc[o] \in {"read", "active", "finished", "send"}
      PROVE  Pending(o) /\ resp[o] = <<>>
  BY <1>6, <1>8 DEF Asked, Pending, Waiting
<1>9. ASSUME NEW o \in Others \ Waiting
      PROVE  /\ resp[o] = <<>> /\ rpc[o] # "count"
             /\ spc[o] \notin {"read", "active", "finished", "send"}
  BY <1>6, <1>9 DEF Asked, Waiting
<1> QED
  BY <1>1, <1>2, <1>3, <1>4, <1>5, <1>7, <1>8, <1>9

(* As a round is opened every rank has all its counts yet to add. *)
LEMMA ToComeNew ==
  ASSUME SetLaws, EpochAssumption, TypeOK, Placed, Rounds, TypeOK', Placed', Rounds',
         Others' = Others, Waiting = {}, Waiting' = Others,
         UNCHANGED <<resp, spc, active, finished>>,
         \A o \in Others : rpc'[o] # "count"
  PROVE  /\ Total(PendA', Others) = Total(active, Others)
         /\ Total(PendF', Others) = Total(finished, Others)
<1>1. ASSUME NEW o \in Others
      PROVE  ToCome(o)' = [a |-> active[o], f |-> finished[o]]
  <2>1. resp[o] = <<>> /\ spc[o] \notin {"read", "active", "finished", "send"}
    BY ToComeFacts
  <2>2. resp'[o] = <<>> /\ spc'[o] \notin {"finished", "send", "active"}
    BY <2>1
  <2>3. Pending(o)'
    BY DEF Pending
  <2>4. active'[o] = active[o] /\ finished'[o] = finished[o]
    OBVIOUS
  <2> QED
    BY <2>2, <2>3, <2>4 DEF ToCome
<1>2. \A o \in Others : PendA'[o] = active[o] /\ PendF'[o] = finished[o]
  BY <1>1 DEF PendA, PendF
<1>3. Total(PendA', Others) = Total(active, Others)
  BY <1>2, TotalSame
<1>4. Total(PendF', Others) = Total(finished, Others)
  BY <1>2, TotalSame
<1> QED
  BY <1>3, <1>4

(* A step that neither opens a round nor adds an answer to it, and changes  *)
(* no count, leaves what is yet to come as it is: an answer carries what    *)
(* The steps that neither start a round, nor add an answer, nor count an EDT. *)
SharesStay ==
  \/ UNCHANGED <<req, resp, bit, spc, ssnap, rpc, active, finished>>
  \/ \E t \in Edts : Drain_Other(t)
  \/ \E r \in Ranks \ {Owner} :
       \/ SendEpoch(r) \/ Reduce_Count(r) \/ Reduce_Active(r)
       \/ Reduce_Finished(r) \/ Check(r) \/ Reduce_Close(r)

(* the counts of its rank are when it is sent.                              *)
LEMMA ToComeSame ==
  ASSUME SetLaws, EpochAssumption, Serial, TypeOK, Placed, Queues, Rounds, SnapCurrent,
         Others' = Others,
         SharesStay
  PROVE  /\ Total(PendA', Others) = Total(PendA, Others)
         /\ Total(PendF', Others) = Total(PendF, Others)
<1> DEFINE Same == \A o \in Others : ToCome(o)' = ToCome(o)
<1>0. Others \subseteq Ranks /\ Owner \notin Others /\ Others = world.ranks \ {Owner}
  BY WorldFacts DEF TypeOK, Others
<1>1. ASSUME NEW o \in Others, Pending(o)' <=> Pending(o),
             resp'[o] = resp[o], spc'[o] = spc[o], ssnap'[o] = ssnap[o],
             active'[o] = active[o], finished'[o] = finished[o]
      PROVE  ToCome(o)' = ToCome(o)
  BY <1>1 DEF ToCome
<1>2. ASSUME UNCHANGED <<req, resp, bit, spc, ssnap, rpc, active, finished>> PROVE Same
  <2>1. Waiting' = Waiting
    BY <1>2, AskedSame DEF TokenMoves
  <2>2. \A o \in Others : Pending(o)' <=> Pending(o)
    BY <1>2, <2>1 DEF Pending
  <2> QED
    BY <1>1, <1>2, <2>2, Zenon
<1>3. ASSUME NEW t \in Edts, Drain_Other(t) PROVE Same
  <2>1. PICK q \in Others : q = at[t]
    BY <1>0, <1>3 DEF Placed, Drain_Other
  <2>2. Waiting' = Waiting
    BY <1>3, AskedSame DEF TokenMoves
  <2>3. UNCHANGED <<spc, ssnap, rpc, active, finished>>
    BY <1>3 DEF Drain_Other, rvars
  <2>4. \A o \in Others : Pending(o)' <=> Pending(o)
    BY <2>2, <2>3 DEF Pending
  <2>5. CASE queued[q] = 1 /\ ~bit[q]
    <3>1. resp' = [resp EXCEPT ![q] = Append(@, snap[t])]
      BY <1>3, <2>1, <2>5 DEF Drain_Other
    <3>2. \A o \in Others : o # q => resp'[o] = resp[o]
      BY <1>0, <3>1 DEF TypeOK
    <3>3. \A o \in Others : o # q => ToCome(o)' = ToCome(o)
      BY <1>1, <2>3, <2>4, <3>2
    <3>4. /\ Pending(q) /\ resp[q] = <<>>
          /\ spc[q] \notin {"read", "active", "finished", "send"}
      BY <2>1, <2>5, ToComeFacts
    <3>5. ToCome(q) = [a |-> active[q], f |-> finished[q]]
      BY <3>4 DEF ToCome
    <3>6. world.workers = 1
      BY <1>0, <2>1 DEF Serial, TypeOK
    <3>7. snap[t] = [a |-> active[q], f |-> finished[q]]
      BY <1>3, <2>1, <3>6 DEF SnapCurrent, Drain_Other
    <3>8. resp'[q] = Append(<<>>, snap[t])
      BY <1>0, <2>1, <3>1, <3>4 DEF TypeOK
    <3>9. resp'[q] # <<>> /\ Head(resp'[q]) = snap[t]
      BY <3>8
    <3>10. Pending(q)'
      BY <2>4, <3>4
    <3>11. ToCome(q)' = [a |-> snap[t].a, f |-> snap[t].f]
      BY <3>9, <3>10 DEF ToCome
    <3>12. ToCome(q)' = ToCome(q)
      BY <3>5, <3>7, <3>11
    <3> QED
      BY <3>3, <3>12
  <2>6. CASE ~(queued[q] = 1 /\ ~bit[q])
    BY <1>1, <1>3, <2>1, <2>3, <2>4, <2>6, Zenon DEF Drain_Other
  <2> QED
    BY <2>5, <2>6
<1>4. ASSUME NEW r \in Ranks \ {Owner}, SendEpoch(r) PROVE Same
  <2>1. Waiting' = Waiting
    BY <1>4, AskedSame DEF TokenMoves
  <2>2. UNCHANGED <<rpc, active, finished>>
    BY <1>4, SendKeeps
  <2>3. \A o \in Others : Pending(o)' <=> Pending(o)
    BY <2>1, <2>2 DEF Pending
  <2>4. \A o \in Others \ {r} :
          resp'[o] = resp[o] /\ spc'[o] = spc[o] /\ ssnap'[o] = ssnap[o]
    BY <1>0, <1>4, Zenon DEF SendEpoch, Send_Clear, Send_Claim, Send_Active, Send_Finished,
                      Send, TypeOK
  <2>5. \A o \in Others \ {r} : ToCome(o)' = ToCome(o)
    BY <1>1, <2>2, <2>3, <2>4
  <2>6. r \in Others
    BY <1>4 DEF Placed, SendEpoch, Send_Clear, Send_Claim, Send_Active,
                Send_Finished, Send
  <2>7. Pending(r)' <=> Pending(r)
    BY <2>3, <2>6
  <2>8. active'[r] = active[r] /\ finished'[r] = finished[r]
    BY <2>2
  <2>9. CASE Send_Clear(r) \/ Send_Claim(r)
    <3>1. resp' = resp /\ ssnap' = ssnap
      BY <2>9 DEF Send_Clear, Send_Claim, evars, rvars
    <3>2. /\ spc[r] \notin {"active", "finished", "send"}
          /\ spc'[r] \notin {"active", "finished", "send"}
      BY <2>9 DEF Send_Clear, Send_Claim, TypeOK
    <3> QED
      BY <2>5, <2>7, <2>8, <3>1, <3>2 DEF ToCome
  <2>10. CASE Send_Active(r)
    <3>1. resp'[r] = resp[r] /\ resp[r] = <<>>
      BY <2>6, <2>10, ToComeFacts DEF Send_Active, cvars, evars, rvars
    <3>2. /\ ssnap[r] \in Counts
          /\ ssnap' = [ssnap EXCEPT ![r] = [ssnap[r] EXCEPT !.a = active[r]]]
      BY <2>10 DEF Send_Active, TypeOK
    <3>3. ssnap'[r].a = active[r] /\ ssnap'[r].f = ssnap[r].f
      BY <3>2 DEF Counts, TypeOK
    <3>4. \/ spc[r] = "read" /\ spc'[r] = "finished"
          \/ spc[r] = "active" /\ spc'[r] = "send"
      BY <2>10 DEF Send_Active, TypeOK
    <3> QED
      BY <2>5, <2>7, <2>8, <3>1, <3>3, <3>4, Zenon DEF ToCome
  <2>11. CASE Send_Finished(r)
    <3>1. resp'[r] = resp[r] /\ resp[r] = <<>>
      BY <2>6, <2>11, ToComeFacts DEF Send_Finished, cvars, evars, rvars
    <3>2. /\ ssnap[r] \in Counts
          /\ ssnap' = [ssnap EXCEPT ![r] = [ssnap[r] EXCEPT !.f = finished[r]]]
      BY <2>11 DEF Send_Finished, TypeOK
    <3>3. ssnap'[r].f = finished[r] /\ ssnap'[r].a = ssnap[r].a
      BY <3>2 DEF Counts, TypeOK
    <3>4. \/ spc[r] = "read" /\ spc'[r] = "active"
          \/ spc[r] = "finished" /\ spc'[r] = "send"
      BY <2>11 DEF Send_Finished, TypeOK
    <3> QED
      BY <2>5, <2>7, <2>8, <3>1, <3>3, <3>4, Zenon DEF ToCome
  <2>12. CASE Send(r)
    <3>1. spc[r] = "send" /\ Pending(r) /\ resp[r] = <<>>
      BY <2>6, <2>12, ToComeFacts DEF Send
    <3>2. resp' = [resp EXCEPT ![r] = Append(@, ssnap[r])]
      BY <2>12 DEF Send
    <3>3. resp'[r] = Append(<<>>, ssnap[r])
      BY <3>1, <3>2 DEF TypeOK
    <3>4. resp'[r] # <<>> /\ Head(resp'[r]) = ssnap[r]
      BY <3>3
    <3>5. ToCome(r) = [a |-> ssnap[r].a, f |-> ssnap[r].f]
      BY <3>1 DEF ToCome
    <3>6. ToCome(r)' = [a |-> ssnap[r].a, f |-> ssnap[r].f]
      BY <2>7, <3>1, <3>4 DEF ToCome
    <3> QED
      BY <2>5, <3>5, <3>6
  <2> QED
    BY <1>4, <2>9, <2>10, <2>11, <2>12 DEF SendEpoch
<1>5. ASSUME NEW r \in Ranks \ {Owner}, Reduce_Count(r) PROVE Same
  <2>1. /\ Waiting' = Waiting \ {r} /\ r \in Others
        /\ \A o \in Others \ {r} : rpc'[o] = rpc[o]
    BY <1>5, CountTakes
  <2>2. UNCHANGED <<resp, spc, ssnap, active, finished>>
    BY <1>5 DEF Reduce_Count, cvars, evars, svars
  <2>3. ~Pending(r) /\ ~Pending(r)'
    BY <1>5, <2>1 DEF Pending, Reduce_Count
  <2>4. \A o \in Others : Pending(o)' <=> Pending(o)
    BY <2>1, <2>3 DEF Pending
  <2> QED
    BY <1>1, <2>2, <2>4
<1>6. ASSUME NEW r \in Ranks \ {Owner},
             Reduce_Active(r) \/ Reduce_Finished(r) \/ Check(r) \/ Reduce_Close(r)
      PROVE  Same
  <2>1. Waiting' = Waiting
    BY <1>6, AskedSame DEF TokenMoves
  <2>2. UNCHANGED <<resp, spc, ssnap, active, finished>>
    BY <1>6 DEF Reduce_Active, Reduce_Finished, Check, Reduce_Close, cvars, evars, svars
  <2>3. /\ rpc[r] # "count" /\ rpc'[r] # "count"
        /\ \A o \in Others \ {r} : rpc'[o] = rpc[o]
    BY <1>0, <1>6, Zenon DEF Reduce_Active, Reduce_Finished, Check, Reduce_Close, GotoR, TypeOK
  <2>4. \A o \in Others : Pending(o)' <=> Pending(o)
    BY <2>1, <2>3 DEF Pending
  <2> QED
    BY <1>1, <2>2, <2>4
<1>7. Same
  BY <1>2, <1>3, <1>4, <1>5, <1>6 DEF SharesStay
<1>8. \A o \in Others : PendA'[o] = PendA[o] /\ PendF'[o] = PendF[o]
  BY <1>7 DEF PendA, PendF
<1>9. Total(PendA', Others) = Total(PendA, Others)
  BY <1>8, TotalSame
<1>10. Total(PendF', Others) = Total(PendF, Others)
  BY <1>8, TotalSame
<1> QED
  BY <1>9, <1>10

(* An answer that is added has not to come any more. *)
LEMMA ToComeAdd ==
  ASSUME SetLaws, EpochAssumption, Serial, TypeOK, Placed, Queues, Rounds,
         TypeOK', Placed', Rounds', Others' = Others,
         NEW r \in Ranks \ {Owner}, Reduce_Add(r)
  PROVE  /\ r \in Others /\ outstanding > 1 /\ Head(resp[r]) \in Counts
         /\ \A o \in Others : rpc[o] = "idle"
         /\ rpc'[r] = "count" /\ \A o \in Others \ {r} : rpc'[o] = "idle"
         /\ global' = Plus(global, Head(resp[r])) /\ rsum'[r] = global'
         /\ Total(PendA', Others) \in Nat /\ Total(PendF', Others) \in Nat
         /\ Total(PendA', Others) + Head(resp[r]).a = Total(PendA, Others)
         /\ Total(PendF', Others) + Head(resp[r]).f = Total(PendF, Others)
<1>0. Others \subseteq Ranks /\ IsFiniteSet(Others) /\ outstanding \in Nat
  BY WorldFacts, RoundFacts, Zenon DEF TypeOK
<1>1. r \in Others /\ r \in Waiting /\ outstanding > 1 /\ resp[r] # <<>>
  BY RoundFacts DEF Reduce_Add, Waiting
<1>2. Head(resp[r]) \in Counts
  BY <1>1, SeqFacts DEF TypeOK
<1>3. \A o \in Others : rpc[o] = "idle"
  BY <1>0 DEF Reduce_Add, Serial
<1>4. /\ global' = Plus(global, Head(resp[r]))
      /\ rsum' = [rsum EXCEPT ![r] = Plus(global, Head(resp[r]))]
      /\ rpc' = [rpc EXCEPT ![r] = "count"]
      /\ resp' = [resp EXCEPT ![r] = Tail(@)]
  BY <1>0, <1>1 DEF Reduce_Add, GotoR
<1>5. /\ rsum'[r] = global' /\ rpc'[r] = "count"
      /\ \A o \in Others \ {r} : rpc'[o] = "idle" /\ resp'[o] = resp[o]
  BY <1>0, <1>3, <1>4 DEF TypeOK
<1>6. Waiting' = Waiting
  BY AskedSame DEF TokenMoves
<1>7. UNCHANGED <<spc, ssnap, active, finished>>
  BY DEF Reduce_Add, evars, cvars
<1>8. Pending(r) /\ ~Pending(r)'
  BY <1>1, <1>3, <1>5 DEF Pending
<1>9. \A o \in Others \ {r} : Pending(o)' <=> Pending(o)
  BY <1>3, <1>5, <1>6 DEF Pending
<1>10. \A o \in Others \ {r} : ToCome(o)' = ToCome(o)
  BY <1>5, <1>7, <1>9 DEF ToCome
<1>11. ToCome(r)' = Zero
  BY <1>8 DEF ToCome, Zero
<1>12. ToCome(r) = [a |-> Head(resp[r]).a, f |-> Head(resp[r]).f]
  BY <1>1, <1>8 DEF ToCome
<1>13. /\ PendA'[r] = 0 /\ PendA[r] = Head(resp[r]).a
       /\ PendF'[r] = 0 /\ PendF[r] = Head(resp[r]).f
  BY <1>1, <1>11, <1>12 DEF PendA, PendF, Zero
<1>14. \A o \in Others : o # r => PendA'[o] = PendA[o] /\ PendF'[o] = PendF[o]
  BY <1>10 DEF PendA, PendF
<1>15. /\ \A o \in Others : PendA[o] \in Nat /\ PendF[o] \in Nat
       /\ Total(PendA, Others) \in Nat /\ Total(PendF, Others) \in Nat
  BY ToComeFacts
<1>16. \A o \in Others : PendA'[o] \in Nat /\ PendF'[o] \in Nat
  BY <1>13, <1>14, <1>15
<1>17. Total(PendA', Others) \in Nat /\ Total(PendF', Others) \in Nat
  BY <1>0, <1>16, TotalType
<1>18. Total(PendA', Others) + PendA[r] = Total(PendA, Others) + PendA'[r]
  <2>1. /\ \A o \in Others : PendA[o] \in Nat
        /\ \A o \in Others : PendA'[o] \in Nat
        /\ \A o \in Others : o # r => PendA'[o] = PendA[o]
    BY <1>14, <1>15, <1>16
  <2> QED
    BY <1>0, <1>1, <2>1, TotalChange
<1>19. Total(PendF', Others) + PendF[r] = Total(PendF, Others) + PendF'[r]
  <2>1. /\ \A o \in Others : PendF[o] \in Nat
        /\ \A o \in Others : PendF'[o] \in Nat
        /\ \A o \in Others : o # r => PendF'[o] = PendF[o]
    BY <1>14, <1>15, <1>16
  <2> QED
    BY <1>0, <1>1, <2>1, TotalChange
<1>20. /\ Total(PendA', Others) + Head(resp[r]).a = Total(PendA, Others)
       /\ Total(PendF', Others) + Head(resp[r]).f = Total(PendF, Others)
  BY <1>2, <1>13, <1>15, <1>17, <1>18, <1>19 DEF Counts
<1> QED
  BY <1>1, <1>2, <1>3, <1>4, <1>5, <1>17, <1>20

(* An EDT that is created or finished is counted by its rank; the answers   *)
(* on their way do not change.                                              *)
LEMMA ToComeGrows ==
  ASSUME SetLaws, EpochAssumption, TypeOK, Placed, Queues, Rounds,
         TypeOK', Placed', Rounds', Others' = Others
  PROVE  /\ \A t, u \in Edts, r \in Ranks : Create(t, u, r) =>
              /\ Total(PendA', Others) \in Nat
              /\ Total(PendA, Others) <= Total(PendA', Others)
              /\ active[Owner] <= active'[Owner]
              /\ Total(PendF', Others) = Total(PendF, Others)
         /\ \A t \in Edts : Finish(t) =>
              /\ Total(PendA', Others) = Total(PendA, Others)
              /\ Total(PendF', Others) \in Nat
              /\ Total(PendF', Others) + finished'[Owner]
                   <= Total(PendF, Others) + finished[Owner] + 1
              /\ finished'[Owner] <= finished[Owner] + 1
<1>0. Others \subseteq Ranks /\ IsFiniteSet(Others) /\ Owner \in Ranks /\ Owner \notin Others
  BY WorldFacts, Zenon DEF TypeOK, EpochAssumption
<1>1. ASSUME UNCHANGED <<req, resp, bit, spc, ssnap, rpc>>
      PROVE  /\ \A o \in Others : Pending(o)' <=> Pending(o)
             /\ \A o \in Others : resp'[o] = resp[o] /\ spc'[o] = spc[o] /\ ssnap'[o] = ssnap[o]
  <2>1. Waiting' = Waiting
    BY <1>1, AskedSame DEF TokenMoves
  <2> QED
    BY <1>1, <2>1 DEF Pending
<1>2. /\ \A o \in Others : PendA[o] \in Nat /\ PendF[o] \in Nat
      /\ \A o \in Others : PendA[o] = ToCome(o).a /\ PendF[o] = ToCome(o).f
      /\ Total(PendA, Others) \in Nat /\ Total(PendF, Others) \in Nat
  BY ToComeFacts
<1>3. \A o \in Others : PendA'[o] = ToCome(o)'.a /\ PendF'[o] = ToCome(o)'.f
  BY DEF PendA, PendF
<1>4. ASSUME NEW t \in Edts, NEW u \in Edts, NEW r \in Ranks, Create(t, u, r)
      PROVE  /\ Total(PendA', Others) \in Nat
             /\ Total(PendA, Others) <= Total(PendA', Others)
             /\ active[Owner] <= active'[Owner]
             /\ Total(PendF', Others) = Total(PendF, Others)
  <2>1. UNCHANGED <<req, resp, bit, spc, ssnap, rpc, finished>>
    BY <1>4, Zenon DEF Create, rvars, svars
  <2>2. \A o \in Ranks : /\ active[o] \in Nat
                         /\ active'[o] = IF o = at[t] THEN active[o] + 1 ELSE active[o]
    BY <1>4, Zenon DEF Create, Inc, TypeOK
  <2>3. \A o \in Ranks : active[o] \in Nat /\ active'[o] \in Nat /\ active[o] <= active'[o]
    BY <2>2
  <2>4. ASSUME NEW o \in Others
        PROVE  /\ ToCome(o)'.f = ToCome(o).f
               /\ \/ ToCome(o)'.a = ToCome(o).a
                  \/ ToCome(o).a = active[o] /\ ToCome(o)'.a = active'[o]
    <3>1. /\ Pending(o)' <=> Pending(o)
          /\ resp'[o] = resp[o] /\ spc'[o] = spc[o] /\ ssnap'[o] = ssnap[o]
          /\ finished'[o] = finished[o]
      BY <1>1, <2>1
    <3> QED
      BY <3>1 DEF ToCome
  <2>5. \A o \in Others : PendF'[o] = PendF[o]
    BY <1>2, <1>3, <2>4
  <2>6. \A o \in Others : PendA[o] \in Nat /\ PendA'[o] \in Nat /\ PendA[o] <= PendA'[o]
    BY <1>0, <1>2, <1>3, <2>3, <2>4
  <2>7. Total(PendF', Others) = Total(PendF, Others)
    BY <2>5, TotalSame
  <2>8. Total(PendA, Others) <= Total(PendA', Others)
    BY <1>0, <2>6, TotalMonotone
  <2>9. Total(PendA', Others) \in Nat
    BY <1>0, <2>6, TotalType
  <2> QED
    BY <1>0, <2>3, <2>7, <2>8, <2>9
<1>5. ASSUME NEW t \in Edts, Finish(t)
      PROVE  /\ Total(PendA', Others) = Total(PendA, Others)
             /\ Total(PendF', Others) \in Nat
             /\ Total(PendF', Others) + finished'[Owner]
                  <= Total(PendF, Others) + finished[Owner] + 1
             /\ finished'[Owner] <= finished[Owner] + 1
  <2>1. UNCHANGED <<req, resp, bit, spc, ssnap, rpc, active>>
    BY <1>5 DEF Finish, rvars, svars
  <2>2. PICK q \in Ranks : q = at[t]
    BY DEF TypeOK
  <2>3. \A o \in Ranks : /\ finished[o] \in Nat
                         /\ finished'[o] = IF o = q THEN finished[o] + 1 ELSE finished[o]
    BY <1>5, <2>2 DEF Finish, Inc, TypeOK
  <2>4. ASSUME NEW o \in Others
        PROVE  /\ ToCome(o)'.a = ToCome(o).a
               /\ \/ ToCome(o)'.f = ToCome(o).f
                  \/ ToCome(o).f = finished[o] /\ ToCome(o)'.f = finished'[o]
    <3>1. /\ Pending(o)' <=> Pending(o)
          /\ resp'[o] = resp[o] /\ spc'[o] = spc[o] /\ ssnap'[o] = ssnap[o]
          /\ active'[o] = active[o]
      BY <1>1, <2>1
    <3> QED
      BY <3>1, Zenon DEF ToCome
  <2>5. \A o \in Others : PendA'[o] = PendA[o]
    BY <1>2, <1>3, <2>4
  <2>6. Total(PendA', Others) = Total(PendA, Others)
    BY <2>5, TotalSame
  <2>7. \A o \in Others : o # q => PendF'[o] = PendF[o]
    BY <1>0, <1>2, <1>3, <2>3, <2>4
  <2>8. q \in Others => PendF'[q] \in {PendF[q], PendF[q] + 1}
    BY <1>0, <1>2, <1>3, <2>3, <2>4
  <2>9. \A o \in Others : PendF'[o] \in Nat
    BY <1>2, <2>7, <2>8
  <2>10. Total(PendF', Others) \in Nat
    BY <1>0, <2>9, TotalType
  <2>11. CASE q \in Others
    <3>1. Total(PendF', Others) + PendF[q] = Total(PendF, Others) + PendF'[q]
      BY <1>0, <1>2, <2>7, <2>9, <2>11, TotalChange
    <3>2. Total(PendF', Others) <= Total(PendF, Others) + 1
      BY <1>2, <2>8, <2>9, <2>10, <2>11, <3>1
    <3>3. finished'[Owner] = finished[Owner] /\ finished[Owner] \in Nat
      BY <1>0, <2>3, <2>11
    <3> QED
      BY <1>2, <2>6, <2>10, <3>2, <3>3
  <2>12. CASE q \notin Others
    <3>1. Total(PendF', Others) = Total(PendF, Others)
      BY <2>7, <2>12, TotalSame
    <3>2. finished'[Owner] <= finished[Owner] + 1 /\ finished[Owner] \in Nat
          /\ finished'[Owner] \in Nat
      BY <1>0, <2>3
    <3> QED
      BY <1>2, <2>6, <2>10, <3>1, <3>2
  <2> QED
    BY <2>11, <2>12
<1> QED
  BY <1>4, <1>5

(* What every step about the counts starts from. *)
LEMMA StepFacts ==
  ASSUME SetLaws, EpochAssumption, Answers, Answers', [Next]_vars
  PROVE  /\ TypeOK /\ Placed /\ Queues /\ Rounds /\ TypeOK' /\ Placed' /\ Rounds'
         /\ Others' = Others /\ Others \subseteq Ranks /\ Owner \in Ranks
         /\ N \in Nat /\ N >= 1 /\ outstanding \in Nat /\ outstanding' \in Nat
         /\ global.a \in Nat /\ global.f \in Nat /\ global'.a \in Nat /\ global'.f \in Nat
         /\ last.a \in Nat /\ last.f \in Nat
         /\ \A r \in Ranks : rsum[r].a \in Nat /\ rsum[r].f \in Nat
<1>1. /\ TypeOK /\ Placed /\ Queues /\ Rounds /\ TypeOK' /\ Placed' /\ Rounds'
  BY DEF Answers
<1>2. Others' = Others /\ N' = N
  BY WorldKept
<1>3. Others \subseteq Ranks /\ N \in Nat /\ N >= 1 /\ Owner \in Ranks
  BY <1>1, WorldFacts, Zenon DEF TypeOK
<1>4. outstanding \in 0 .. N /\ outstanding' \in 0 .. N
  BY <1>1, <1>2 DEF TypeOK
<1>5. /\ global \in Counts /\ global' \in Counts /\ last \in Counts
      /\ \A r \in Ranks : rsum[r] \in Counts
  BY <1>1 DEF TypeOK
<1>6. /\ global.a \in Nat /\ global.f \in Nat /\ global'.a \in Nat /\ global'.f \in Nat
      /\ last.a \in Nat /\ last.f \in Nat
      /\ \A r \in Ranks : rsum[r].a \in Nat /\ rsum[r].f \in Nat
  BY <1>5 DEF Counts
<1> QED
  BY <1>1, <1>2, <1>3, <1>4, <1>6
=============================================================================
